--------------------------- MODULE MCGraphCompile ---------------------------
EXTENDS GraphCompile, TLC
D(i, k) == [id |-> i, kind |-> k, media |-> "any", clip |-> FALSE]
E(a, b) == [from |-> a, to |-> b, type |-> "video", port |-> 0]

(* Two plain graphs whose names are not in the order of their stages, two   *)
(* with a processor, one of processors alone; then configurations that are  *)
(* refused, and the empty one.                                              *)
MCDecls == {
    <<D(3, "source"), D(1, "filter"), D(2, "encoder"), D(4, "sink")>>,
    <<D(1, "source"), D(2, "filter_source"), D(3, "sink"), D(4, "filter_sink")>>,
    <<D(1, "source"), [D(2, "source") EXCEPT !.clip = TRUE],
      [D(3, "filter") EXCEPT !.media = "audio"], D(4, "go_processor")>>,
    <<D(1, "source"), D(2, "go_processor"), D(4, "go_processor"), D(3, "sink")>>,
    <<D(1, "source"), D(2, "filter"), D(4, "go_processor"), D(3, "sink")>>,
    <<D(1, "source"), D(1, "filter")>>,
    <<[D(1, "encoder") EXCEPT !.media = "video"]>>, <<>>}

MCEdge == {E(a, b) : a, b \in 1..4}
    \cup {[E(a, b) EXCEPT !.type = "audio", !.port = 1] : a \in {1, 3}, b \in {2, 4}}
    \cup {[E(a, b) EXCEPT !.type = "events"] : a \in {1, 2}, b \in {2, 4}}
    \cup {E(0, 1), [E(1, 0) EXCEPT !.type = "events"], [E(0, 2) EXCEPT !.type = "events"]}
=============================================================================
