------------------------------- MODULE MCMix -------------------------------
EXTENDS Scheduler

MixNode == {"src", "mix", "out"}
MixEdge == {"p", "q", "m"}
MixFrom == [p |-> "src", q |-> "src", m |-> "mix"]
MixTo == [p |-> "mix", q |-> "mix", m |-> "out"]
MixKind == [src |-> "source", mix |-> "multi", out |-> "sink"]
MixStreams == [src |-> {<<"p", "q">>}, mix |-> {<<"m">>}, out |-> {}]
MixCap == [e \in MixEdge |-> 1]
=============================================================================
