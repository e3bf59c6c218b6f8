---------------------------- MODULE MCScheduler ----------------------------
(***************************************************************************)
(* A transcoding graph: one source with a stream that is encoded and one   *)
(* that is copied, both muxed by a sink with two inputs.                   *)
(***************************************************************************)
EXTENDS Scheduler

MCNode == {"src", "cpy", "enc", "out"}
MCEdge == {"s", "a", "c", "v"}
MCFrom == [s |-> "src", a |-> "src", c |-> "cpy", v |-> "enc"]
MCTo == [s |-> "enc", a |-> "cpy", c |-> "out", v |-> "out"]
MCKind == [src |-> "source", cpy |-> "copy", enc |-> "encoder", out |-> "sink"]
MCStreams == [src |-> {<<"s">>, <<"a">>}, cpy |-> {<<"c">>}, enc |-> {<<"v">>}, out |-> {}]
MCCap == [e \in MCEdge |-> 1]
=============================================================================
