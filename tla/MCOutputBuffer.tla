--------------------------- MODULE MCOutputBuffer ---------------------------
EXTENDS OutputBuffer, TLC
P(d, p) == [dts |-> d, pts |-> p]
Two == [o \in Output |-> 2]
Three == [o \in Output |-> 3]
One == [o \in Output |-> 1]

(* Two outputs.  "a" has a video with a B-frame (decoding and presentation  *)
(* order differ) and a gap longer than the cap, and an audio that ends      *)
(* without a packet; "b" has a stream without packets and is ready at its   *)
(* end alone.                                                               *)
GateChan == {"video", "audio", "raw"}
GateOutOf == [c \in GateChan |-> IF c = "raw" THEN "b" ELSE "a"]
GateFeed == [video |-> <<P(0, 0), P(2, 4), P(3, 3), P(6, 6)>>,
             audio |-> <<>>, raw |-> <<>>]

(* One output, a video with a B-frame and an audio packet ahead of it.    *)
RollChan == {"video", "audio"}
RollOutOf == [c \in RollChan |-> "a"]
RollFeed == [video |-> <<P(0, 0), P(1, 3), P(2, 2), P(3, 4)>>,
             audio |-> <<P(0, 0), P(4, 4)>>]
=============================================================================
