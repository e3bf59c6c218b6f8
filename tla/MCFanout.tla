------------------------------ MODULE MCFanout ------------------------------
(***************************************************************************)
(* Two small graphs.  Fan: one encoder whose packets go to two outputs.    *)
(* End: a source filter without a duration, an encoder and an output that  *)
(* stops at its recording time.                                            *)
(***************************************************************************)
EXTENDS Scheduler

FanNode == {"src", "enc", "out1", "out2"}
FanEdge == {"s", "v", "w"}
FanFrom == [s |-> "src", v |-> "enc", w |-> "enc"]
FanTo == [s |-> "enc", v |-> "out1", w |-> "out2"]
FanKind == [src |-> "source", enc |-> "encoder", out1 |-> "sink", out2 |-> "sink"]
FanStreams == [src |-> {<<"s">>}, enc |-> {<<"v", "w">>}, out1 |-> {}, out2 |-> {}]
FanCap == [e \in FanEdge |-> 1]

EndNode == {"src", "enc", "out"}
EndEdge == {"s", "v"}
EndFrom == [s |-> "src", v |-> "enc"]
EndTo == [s |-> "enc", v |-> "out"]
EndKind == [src |-> "source", enc |-> "encoder", out |-> "sink"]
EndStreams == [src |-> {<<"s">>}, enc |-> {<<"v">>}, out |-> {}]
EndCap == [e \in EndEdge |-> 1]
=============================================================================
