----------------------------- MODULE MCRealTimeCtrl -----------------------
EXTENDS RealTimeCtrl, TLC
CONSTANTS e1, e2
R(d, a, b) == [deficit |-> d, active |-> a, busy |-> b]
MCEnc == {e1, e2}
MCStart == e1 :> 2 @@ e2 :> 2
MCPreset == {e1 :> 2 @@ e2 :> 0, e1 :> 3 @@ e2 :> 3}

(* Both always behind; threads for both, which have no faster preset; one   *)
(* that comes and goes; one that needs threads; one with a user.            *)
Met == {R("met", "low", "few")}
Both == e1 :> {R("behind", "half", "few")} @@ e2 :> {R("behind", "half", "few")}
Grow == e1 :> {R("far", "full", "all")} @@ e2 :> {R("far", "full", "all")}
Wave == e1 :> {R("head", "half", "few"), R("far", "full", "few")} @@ e2 :> Met
Need == e1 :> {R("behind", "full", "all")} @@ e2 :> Met
Alone == e1 :> {R("behind", "half", "few")} @@ e2 :> Met
MCLoads == {Both, Grow, Wave, Need, Alone}
MCInit ==
    /\ Init
    /\ CASE load = Both -> tracked[e1] = 2 /\ overrides = MaxOverrides /\ place[e1] = "recv" /\ place[e2] = "recv"
         [] load = Grow -> tracked[e1] = 3 /\ overrides = MaxOverrides /\ place[e1] = "recv" /\ place[e2] = "recv"
         [] load \in {Wave, Need} -> tracked[e1] = 2 /\ overrides = MaxOverrides /\ place[e1] = "recv" /\ place[e2] = "done"
         [] load = Alone -> tracked[e1] = 2 /\ place[e1] = "recv" /\ place[e2] = "done"
MCSpec == MCInit /\ [][Next]_vars /\ Fair
=============================================================================
