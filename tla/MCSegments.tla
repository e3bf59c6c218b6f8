----------------------------- MODULE MCSegments -----------------------------
EXTENDS Segments
V(t) == [kind |-> "video", t |-> t]
A(t) == [kind |-> "audio", t |-> t]
(* Audio at the time of a frame and between frames, and after the last.     *)
MCItems == <<V(1), A(1), V(3), A(3), A(4), V(5), A(5)>>
=============================================================================
