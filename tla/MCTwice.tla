------------------------------ MODULE MCTwice ------------------------------
(***************************************************************************)
(* One encoder whose packets are muxed twice by one sink: the consumer of  *)
(* one edge fails while the other waits, and the encoder is stuck between  *)
(* them unless the sink wakes its siblings.                                *)
(***************************************************************************)
EXTENDS Scheduler

TwiceNode == {"src", "enc", "out"}
TwiceEdge == {"s", "v", "w"}
TwiceFrom == [s |-> "src", v |-> "enc", w |-> "enc"]
TwiceTo == [s |-> "enc", v |-> "out", w |-> "out"]
TwiceKind == [src |-> "source", enc |-> "encoder", out |-> "sink"]
TwiceStreams == [src |-> {<<"s">>}, enc |-> {<<"v", "w">>}, out |-> {}]
TwiceCap == [e \in TwiceEdge |-> 1]
=============================================================================
