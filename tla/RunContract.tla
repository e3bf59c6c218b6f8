----------------------------- MODULE RunContract -----------------------------
(***************************************************************************)
(* What Scheduler.Run promises its caller, without nodes or channels: the  *)
(* frames and packets the run has to account for are acquired only while   *)
(* handlers run, one at a time; the first error is kept and cannot change  *)
(* once the handlers are back; and Run does not return before it has given *)
(* every value it accounts for back to libav.                              *)
(***************************************************************************)
CONSTANTS Value
VARIABLES held, err, phase

vars == <<held, err, phase>>

TypeOK ==
    /\ held \subseteq Value
    /\ err \in {"nil", "err", "ctx"}
    /\ phase \in {"waiting", "draining", "returned"}

Init == held = {} /\ err = "nil" /\ phase = "waiting"

Acquire == /\ phase = "waiting"
           /\ \E v \in Value \ held : held' = held \cup {v}
           /\ UNCHANGED <<err, phase>>

Release == /\ phase # "returned"
           /\ \E v \in held : held' = held \ {v}
           /\ UNCHANGED <<err, phase>>

Report == /\ phase = "waiting" /\ err = "nil" /\ err' \in {"err", "ctx"}
          /\ UNCHANGED <<held, phase>>

Join == phase = "waiting" /\ phase' = "draining" /\ UNCHANGED <<held, err>>

Return == phase = "draining" /\ held = {} /\ phase' = "returned" /\ UNCHANGED <<held, err>>

Next == Acquire \/ Release \/ Report \/ Join \/ Return

Spec == Init /\ [][Next]_vars
=============================================================================
