-------------------------- MODULE MCSequenceEditor --------------------------
(***************************************************************************)
(* Four ticks a second and two slots a second: the continuation window is  *)
(* one slot, a seek is worth it beyond four, and aims 4 to 32 ticks early. *)
(***************************************************************************)
EXTENDS SequenceEditor

File0 == [dur |-> 2, len |-> 40, keys |-> {0, 5, 10, 15, 20, 25, 30, 35}, bare |-> {},
          corrupt |-> {}, late |-> 0, from |-> 0, seeks |-> {TRUE}, pkt |-> 3, mute |-> {},
          refuses |-> 99, opens |-> TRUE, sound |-> TRUE]

MCMedia ==
    [short |-> File0,                                       \* short GOPs
     long  |-> [File0 EXCEPT !.keys = {0, 28}, !.late = 2], \* long GOPs, reordering
     bare  |-> [File0 EXCEPT !.bare = 11..39, !.mute = 4..26, !.pkt = 2],
     pipe  |-> [File0 EXCEPT !.seeks = {FALSE}],
     mute  |-> [File0 EXCEPT !.sound = FALSE, !.len = 12, !.keys = {0}],
     fast  |-> [File0 EXCEPT !.dur = 1],                    \* twice the rate
     torn  |-> [File0 EXCEPT !.corrupt = {6, 9}],
     stream |-> [File0 EXCEPT !.from = 20],                 \* starts at ten seconds
     moody |-> [File0 EXCEPT !.seeks = BOOLEAN, !.keys = {0, 30}, !.bare = {30, 31, 32}, !.mute = {20, 21, 22}],
     noisy |-> [File0 EXCEPT !.refuses = 14],               \* a packet of sound is refused
     gone  |-> [File0 EXCEPT !.opens = FALSE]]
MCFile == DOMAIN MCMedia

C(file, at, in, len) == [file |-> file, at |-> at, in |-> in, len |-> len, fade |-> 0, cut |-> FALSE]
Fade(c, ticks) == [c EXCEPT !.fade = ticks]

Chosen ==
    {(* cuts: from the start, far ahead, ahead, and near the end of the file *)
     <<<<C("short", 0, 0, 6), C("short", 6, 31, 6), C("short", 12, 43, 4), C("short", 16, 76, 8)>>>>,
     (* transitions between files, with and without their sound *)
     <<<<Fade(C("short", 0, 3, 8), 4), [Fade(C("long", 4, 44, 12), 4) EXCEPT !.cut = TRUE],
         C("pipe", 12, 20, 8)>>>>,
     (* a track on top, a gap, a file that does not open, an overlap not declared *)
     <<<<C("bare", 0, 30, 6), C("gone", 6, 0, 4), C("bare", 14, 60, 8)>>,
       <<C("mute", 2, 9, 2), C("long", 18, 52, 6), C("short", 20, 30, 4)>>>>,
     (* a file without sound to its end, and one without timestamps close by *)
     <<<<C("mute", 0, 12, 16), C("bare", 16, 22, 8)>>>>,
     (* the same file again, earlier, on both sides of a transition, a slot on *)
     <<<<C("short", 0, 40, 6), C("short", 6, 10, 4), C("bare", 10, 60, 6), C("bare", 16, 20, 8)>>>>,
     <<<<Fade(C("long", 0, 40, 8), 4), C("long", 4, 60, 8), C("pipe", 12, 30, 4), C("pipe", 16, 40, 8)>>>>,
     (* frames that do not decode, in a transition and alone *)
     <<<<Fade(C("torn", 0, 8, 6), 4), C("short", 2, 0, 2), C("torn", 8, 15, 8)>>>>,
     (* a file whose time starts late, one that is sometimes refused a seek *)
     <<<<C("stream", 0, 0, 6), C("stream", 6, 40, 6), C("moody", 12, 50, 6), C("moody", 18, 64, 6)>>>>,
     (* up to a packet of sound that is refused, and again behind it *)
     <<<<C("noisy", 0, 38, 10), C("short", 10, 0, 4), C("noisy", 14, 66, 8)>>>>}

(* Every cut and every transition from one clip to another, for five files  *)
(* and source times on both sides of each threshold.                        *)
Pairs ==
    {<<<<Fade(C(f, 0, t, 4 + x), x), C(g, 4, u, 6)>>>> :
        f, g \in {"short", "long", "bare", "pipe", "mute"},
        t \in {0, 3, 24, 52}, u \in {0, 7, 10, 31, 60, 76}, x \in {0, 2}}
Faster == {<<<<C("fast", 0, 8, 20)>>>>}
Again == {<<<<C("short", 0, 40, 6), C("short", 6, 10, 6)>>>>}
ToTheEnd == {<<<<C("long", 0, 72, 8)>>>>}
Stamped == {<<<<C("stream", 0, 0, 6), C("stream", 6, 40, 6)>>>>}
MCTimelines == Faster \cup Chosen \cup Pairs
=============================================================================
