-------------------------- MODULE JobServerProofs --------------------------
(***************************************************************************)
(* Proofs about JobServer, for any number of subscribers, any capacity of  *)
(* the history and any number of events.  What subscribers see is proved   *)
(* whatever the pipeline does; what the pipeline itself tells, for the     *)
(* programs that OneCaller and OneRun describe.                            *)
(***************************************************************************)
EXTENDS JobServer, SequenceTheorems, TLAPS

(***************************************************************************)
(* The invariant.  What a subscriber is told can be judged by numbers only *)
(* if the history holds the latest ones and a stream ends with its job.    *)
(***************************************************************************)
(* The part of TypeOK that is about the job. *)
JobTyped ==
    /\ status \in {"running", "succeeded", "failed", "canceled"}
    /\ count \in Nat /\ final \in Nat /\ told \in BOOLEAN
    /\ hist \in Seq(Nat)
    /\ sub \in [Sub -> {"none", "live", "ended", "left"}]
    /\ ch \in [Sub -> Seq(Nat)] /\ last \in [Sub -> Nat] /\ lost \in [Sub -> BOOLEAN]

(* The history is the last events, none missing. *)
Latest == /\ Len(hist) <= count
          /\ \A i \in 1..Len(hist) : hist[i] = count - Len(hist) + i

(* A stream is live as long as the job runs. *)
Streams == \A s \in Sub : /\ sub[s] = "live" => status = "running"
                          /\ sub[s] = "ended" => status # "running"

(* NoGap by the element. *)
Follows(s) == /\ last[s] = count - Len(ch[s])
              /\ \A i \in 1..Len(ch[s]) : ch[s][i] = count - Len(ch[s]) + i
Following == \A s \in Sub : sub[s] = "live" /\ ~lost[s] => Follows(s)

(* DoneIsLast by the element. *)
Ends(s) == (IF ch[s] = <<>> THEN last[s] ELSE ch[s][Len(ch[s])]) \in {final, SyntheticDone}
Ending == \A s \in Sub : sub[s] = "ended" /\ ~lost[s] => Ends(s)

IInv == JobTyped /\ Latest /\ Streams /\ Following /\ Ending

(***************************************************************************)
(* Sequences of event numbers.                                             *)
(***************************************************************************)
(* Places and numbers: what the steps below shift. *)
LEMMA Numbers ==
  ASSUME NEW a \in Nat, NEW b \in Nat, NEW i \in Nat
  PROVE  /\ a - b + (i + 1) = a - (b - 1) + i
         /\ a - b + 1 = a - (b - 1)
         /\ a + 1 - b + (i + 1) = (a + 1) - (b - 1) + i
         /\ a - b = (a + 1) - (b + 1)
         /\ a - b + i = (a + 1) - (b + 1) + i
         /\ a + 1 = (a + 1) - (b + 1) + (b + 1)
OBVIOUS

LEMMA Appended ==
  ASSUME NEW q \in Seq(Nat), NEW e \in Nat
  PROVE  /\ Append(q, e) \in Seq(Nat) /\ Len(q) \in Nat
         /\ Len(Append(q, e)) = Len(q) + 1 /\ Append(q, e) # <<>>
         /\ Append(q, e)[Len(q) + 1] = e /\ Append(q, e)[Len(Append(q, e))] = e
         /\ \A i \in 1..Len(q) : Append(q, e)[i] = q[i]
BY AppendProperties, LenProperties

LEMMA Shortened ==
  ASSUME NEW q \in Seq(Nat), q # <<>>
  PROVE  /\ Head(q) = q[1] /\ Head(q) \in Nat
         /\ Tail(q) \in Seq(Nat) /\ Len(q) \in Nat \ {0}
         /\ Len(Tail(q)) = Len(q) - 1
         /\ \A i \in 1..(Len(q) - 1) : Tail(q)[i] = q[i + 1]
         /\ Tail(q) = <<>> <=> Len(q) = 1
<1>1. Len(q) \in Nat \ {0}
  BY EmptySeq, LenProperties
<1>2. Tail(q) \in Seq(Nat) /\ Len(Tail(q)) = Len(q) - 1
  BY HeadTailProperties
<1>3. Tail(q) = <<>> <=> Len(Tail(q)) = 0
  BY <1>2, EmptySeq
<1>4. \A i \in 1..(Len(q) - 1) : Tail(q)[i] = q[i + 1]
  BY <1>2, HeadTailProperties
<1>5. Head(q) = q[1] /\ Head(q) \in Nat
  BY <1>1, HeadTailProperties
<1>6. Tail(q) = <<>> <=> Len(q) = 1
  BY <1>1, <1>2, <1>3
<1> QED BY <1>1, <1>2, <1>4, <1>5, <1>6

(* An event goes into the history, and the history stays the latest. *)
LEMMA Keeping ==
  ASSUME JobTyped, Latest, NEW e, Keep(e)
  PROVE  /\ count' = count + 1 /\ hist' \in Seq(Nat) /\ told' \in BOOLEAN
         /\ Latest'
<1> DEFINE h == Append(hist, count + 1)
<1>1. /\ h \in Seq(Nat) /\ Len(hist) \in Nat /\ Len(h) = Len(hist) + 1 /\ h # <<>>
      /\ h[Len(hist) + 1] = count + 1 /\ \A i \in 1..Len(hist) : h[i] = hist[i]
  BY Appended DEF JobTyped
<1>2. count' = count + 1 /\ hist' = Capped(h) /\ told' \in BOOLEAN /\ count \in Nat
  BY DEF Keep, JobTyped
<1>3. \A i \in 1..Len(h) : h[i] = count + 1 - Len(h) + i
  BY <1>1, <1>2 DEF Latest
<1> HIDE DEF h
<1>4. CASE Capped(h) = h
  <2>1. hist' = h /\ Len(h) <= count + 1
    BY <1>1, <1>2, <1>4 DEF Latest
  <2>2. \A i \in 1..Len(hist') : hist'[i] = count' - Len(hist') + i
    BY <1>2, <1>3, <2>1
  <2>3. Len(hist') <= count'
    BY <1>2, <2>1
  <2> QED BY <1>1, <1>2, <2>1, <2>2, <2>3 DEF Latest
<1>5. CASE Capped(h) = Tail(h)
  <2>1. /\ Tail(h) \in Seq(Nat) /\ Len(Tail(h)) = Len(h) - 1
        /\ \A i \in 1..(Len(h) - 1) : Tail(h)[i] = h[i + 1]
    BY <1>1, Shortened
  <2>2. Len(hist') = Len(hist) /\ Len(hist') <= count'
    BY <1>1, <1>2, <1>5, <2>1 DEF Latest
  <2>3. ASSUME NEW i \in 1..Len(hist') PROVE hist'[i] = count' - Len(hist') + i
    <3>1. i + 1 \in 1..Len(h) /\ i \in 1..(Len(h) - 1)
      BY <1>1, <2>2
    <3>2. h[i + 1] = count + 1 - Len(h) + (i + 1) /\ Tail(h)[i] = h[i + 1]
      BY <1>3, <2>1, <3>1
    <3>3. i \in Nat /\ Len(h) \in Nat /\ Len(hist') = Len(h) - 1
      BY <1>1, <2>2
    <3>4. count + 1 - Len(h) + (i + 1) = (count + 1) - (Len(h) - 1) + i
      BY <1>2, <3>3, Numbers
    <3>5. count' = count + 1 /\ hist' = Tail(h)
      BY <1>2, <1>5
    <3> QED BY <3>2, <3>3, <3>4, <3>5, Zenon
  <2> QED BY <1>1, <1>2, <1>5, <2>1, <2>2, <2>3 DEF Latest
<1> QED BY <1>4, <1>5 DEF Capped

(* ... and the channels of those who have room. *)
LEMMA Telling ==
  ASSUME JobTyped, NEW e, Keep(e)
  PROVE  /\ ch' \in [Sub -> Seq(Nat)] /\ lost' \in [Sub -> BOOLEAN]
         /\ \A s \in Sub :
              /\ sub[s] # "live" => ch'[s] = ch[s] /\ lost'[s] = lost[s]
              /\ sub[s] = "live" /\ ~lost'[s] => ~lost[s] /\ ch'[s] = Append(ch[s], count + 1)
<1>1. \A s \in Sub : Append(ch[s], count + 1) \in Seq(Nat)
  BY Appended DEF JobTyped
<1> QED BY <1>1 DEF JobTyped, Keep, Live

LEMMA InitHolds == Init => IInv
<1> SUFFICES ASSUME Init PROVE IInv
  OBVIOUS
<1>1. <<>> \in Seq(Nat) /\ Len(<<>>) = 0
  BY EmptySeq
<1>2. JobTyped
  BY <1>1 DEF Init, JobTyped
<1>3. Latest
  BY <1>1 DEF Init, Latest
<1>4. \A s \in Sub : sub[s] \in {"none", "left"}
  BY DEF Init
<1> QED BY <1>2, <1>3, <1>4 DEF IInv, Streams, Following, Ending

(* A step that tells nobody anything and leaves the job as it is. *)
LEMMA Quiet ==
  ASSUME IInv, UNCHANGED <<status, histVars, final, subVars>>
  PROVE  IInv'
BY DEF IInv, JobTyped, Latest, Streams, Following, Follows, Ending, Ends, histVars, subVars

(* An event of the pump or the ticker. *)
LEMMA Published ==
  ASSUME IInv, NEW e, Keep(e), UNCHANGED <<status, final, sub, last>>
  PROVE  IInv'
<1>1. count' = count + 1 /\ hist' \in Seq(Nat) /\ told' \in BOOLEAN /\ Latest' /\ count \in Nat
  BY Keeping DEF IInv, JobTyped
<1>2. /\ ch' \in [Sub -> Seq(Nat)] /\ lost' \in [Sub -> BOOLEAN]
      /\ \A s \in Sub :
              /\ sub[s] # "live" => ch'[s] = ch[s] /\ lost'[s] = lost[s]
              /\ sub[s] = "live" /\ ~lost'[s] => ~lost[s] /\ ch'[s] = Append(ch[s], count + 1)
  BY Telling DEF IInv
<1>3. JobTyped'
  BY <1>1, <1>2 DEF IInv, JobTyped
<1>4. Following'
  <2> SUFFICES ASSUME NEW s \in Sub, sub[s] = "live", ~lost'[s] PROVE Follows(s)'
    BY DEF Following
  <2>1. Follows(s) /\ ch'[s] = Append(ch[s], count + 1) /\ ch[s] \in Seq(Nat) /\ last[s] \in Nat
    BY <1>2 DEF IInv, Following, JobTyped
  <2>2. /\ Len(ch'[s]) = Len(ch[s]) + 1 /\ Len(ch[s]) \in Nat /\ ch'[s][Len(ch[s]) + 1] = count + 1
        /\ \A i \in 1..Len(ch[s]) : ch'[s][i] = ch[s][i]
    <3>1. count + 1 \in Nat
      BY <1>1
    <3> QED BY <2>1, <3>1, Appended
  <2>3. last'[s] = count' - Len(ch'[s])
    <3>1. last'[s] = count - Len(ch[s])
      BY <2>1 DEF Follows
    <3>2. count - Len(ch[s]) = (count + 1) - (Len(ch[s]) + 1)
      BY <1>1, <2>2, Numbers
    <3>3. count' = count + 1 /\ Len(ch'[s]) = Len(ch[s]) + 1
      BY <1>1, <2>2
    <3> QED BY <3>1, <3>2, <3>3, Zenon
  <2>4. ASSUME NEW i \in 1..Len(ch'[s]) PROVE ch'[s][i] = count' - Len(ch'[s]) + i
    <3>0. count' = count + 1 /\ Len(ch'[s]) = Len(ch[s]) + 1 /\ i \in Nat
      BY <1>1, <2>2
    <3>1. CASE i = Len(ch[s]) + 1
      <4>1. count + 1 = (count + 1) - (Len(ch[s]) + 1) + (Len(ch[s]) + 1)
        BY <1>1, <2>2, Numbers
      <4>2. ch'[s][Len(ch[s]) + 1] = count + 1
        BY <2>2
      <4> QED BY <3>0, <3>1, <4>1, <4>2, Zenon
    <3>2. CASE i # Len(ch[s]) + 1
      <4>1. i \in 1..Len(ch[s])
        BY <2>2, <3>2
      <4>2. ch'[s][i] = count - Len(ch[s]) + i
        BY <2>1, <2>2, <4>1 DEF Follows
      <4>3. count - Len(ch[s]) + i = (count + 1) - (Len(ch[s]) + 1) + i
        BY <1>1, <2>2, <3>0, Numbers
      <4> QED BY <3>0, <4>2, <4>3, Zenon
    <3> QED BY <3>1, <3>2
  <2> QED BY <2>3, <2>4 DEF Follows
<1>5. Ending'
  BY <1>2 DEF IInv, Ending, Ends
<1> QED BY <1>1, <1>3, <1>4, <1>5 DEF IInv, Streams

LEMMA Finishing ==
  ASSUME IInv, JobEnds
  PROVE  IInv'
<1>1. count' = count + 1 /\ hist' \in Seq(Nat) /\ told' \in BOOLEAN /\ Latest' /\ count \in Nat
  BY Keeping DEF IInv, JobTyped, JobEnds
<1>2. /\ ch' \in [Sub -> Seq(Nat)] /\ lost' \in [Sub -> BOOLEAN]
      /\ \A s \in Sub :
              /\ sub[s] # "live" => ch'[s] = ch[s] /\ lost'[s] = lost[s]
              /\ sub[s] = "live" /\ ~lost'[s] => ~lost[s] /\ ch'[s] = Append(ch[s], count + 1)
  BY Telling DEF IInv, JobEnds
<1>3. /\ sub' = [s \in Sub |-> IF sub[s] = "live" THEN "ended" ELSE sub[s]]
      /\ final' = count + 1 /\ last' = last
      /\ status = "running" /\ status' \in {"succeeded", "failed", "canceled"}
  BY DEF JobEnds, Live, StatusOf
<1>4. JobTyped'
  BY <1>1, <1>2, <1>3 DEF IInv, JobTyped
<1>5. Streams' /\ Following'
  BY <1>3 DEF IInv, JobTyped, Streams, Following
<1>6. Ending'
  <2> SUFFICES ASSUME NEW s \in Sub, sub'[s] = "ended", ~lost'[s] PROVE Ends(s)'
    BY DEF Ending
  <2>1. sub[s] = "live" /\ ch[s] \in Seq(Nat)
    BY <1>3 DEF IInv, Streams, JobTyped
  <2>2. ch'[s] = Append(ch[s], count + 1)
    BY <1>2, <2>1
  <2>3. ch'[s] # <<>> /\ ch'[s][Len(ch'[s])] = count + 1
    <3>1. count + 1 \in Nat
      BY <1>1
    <3> QED BY <2>1, <2>2, <3>1, Appended
  <2> QED BY <1>3, <2>3 DEF Ends
<1> QED BY <1>1, <1>4, <1>5, <1>6 DEF IInv

LEMMA Joining ==
  ASSUME IInv, NEW s \in Sub, Subscribe(s)
  PROVE  IInv'
<1>1. /\ sub' = [sub EXCEPT ![s] = IF status = "running" THEN "live" ELSE "ended"]
      /\ ch' = [ch EXCEPT ![s] = Replay] /\ last' = [last EXCEPT ![s] = count - Len(hist)]
      /\ UNCHANGED <<status, hist, count, told, final, lost>>
  BY DEF Subscribe, Joins, histVars
<1>2. JobTyped /\ Latest /\ Len(hist) \in Nat /\ count - Len(hist) \in Nat
  BY LenProperties DEF IInv, JobTyped, Latest
<1>3. Append(hist, 0) \in Seq(Nat) /\ Append(hist, 0) # <<>> /\ Append(hist, 0)[Len(Append(hist, 0))] = 0
  BY <1>2, Appended DEF JobTyped
<1>4. JobTyped'
  BY <1>1, <1>2, <1>3 DEF JobTyped, Replay, SyntheticDone
<1>5. Latest' /\ Streams'
  BY <1>1, <1>2 DEF IInv, Latest, Streams, JobTyped
<1>6. Following'
  <2> SUFFICES ASSUME NEW t \in Sub, sub'[t] = "live", ~lost'[t] PROVE Follows(t)'
    BY DEF Following
  <2>1. CASE t # s
    BY <1>1, <2>1 DEF IInv, Following, Follows, JobTyped
  <2>2. CASE t = s
    <3>1. status = "running" /\ ch'[s] = hist /\ last'[s] = count - Len(hist)
      BY <1>1, <1>2, <2>2 DEF JobTyped, Replay
    <3> QED BY <1>1, <1>2, <2>2, <3>1 DEF Follows, Latest
  <2> QED BY <2>1, <2>2
<1>7. Ending'
  <2> SUFFICES ASSUME NEW t \in Sub, sub'[t] = "ended", ~lost'[t] PROVE Ends(t)'
    BY DEF Ending
  <2>1. CASE t # s
    BY <1>1, <2>1 DEF IInv, Ending, Ends, JobTyped
  <2>2. CASE t = s
    <3>1. ch'[s] = Append(hist, 0)
      BY <1>1, <1>2, <2>2 DEF JobTyped, Replay, SyntheticDone
    <3> QED BY <1>3, <2>2, <3>1 DEF Ends, SyntheticDone
  <2> QED BY <2>1, <2>2
<1> QED BY <1>4, <1>5, <1>6, <1>7 DEF IInv

LEMMA Receiving ==
  ASSUME IInv, NEW s \in Sub, Receive(s)
  PROVE  IInv'
<1>1. /\ ch[s] # <<>> /\ last' = [last EXCEPT ![s] = Head(ch[s])]
      /\ ch' = [ch EXCEPT ![s] = Tail(ch[s])]
      /\ UNCHANGED <<status, hist, count, told, final, sub, lost>>
  BY DEF Receive, histVars
<1>2. JobTyped /\ ch[s] \in Seq(Nat) /\ count \in Nat
  BY DEF IInv, JobTyped
<1>3. /\ Head(ch[s]) = ch[s][1] /\ Head(ch[s]) \in Nat
      /\ Tail(ch[s]) \in Seq(Nat) /\ Len(ch[s]) \in Nat \ {0}
      /\ Len(Tail(ch[s])) = Len(ch[s]) - 1
      /\ \A i \in 1..(Len(ch[s]) - 1) : Tail(ch[s])[i] = ch[s][i + 1]
      /\ Tail(ch[s]) = <<>> <=> Len(ch[s]) = 1
  BY <1>1, <1>2, Shortened
<1>4. ch'[s] = Tail(ch[s]) /\ last'[s] = Head(ch[s])
  BY <1>1, <1>2 DEF JobTyped
<1>5. JobTyped'
  BY <1>1, <1>2, <1>3 DEF JobTyped
<1>6. Latest' /\ Streams'
  BY <1>1 DEF IInv, Latest, Streams
<1>7. Following'
  <2> SUFFICES ASSUME NEW t \in Sub, sub[t] = "live", ~lost[t] PROVE Follows(t)'
    BY <1>1 DEF Following
  <2>1. CASE t # s
    BY <1>1, <2>1 DEF IInv, Following, Follows, JobTyped
  <2>2. CASE t = s
    <3>1. \A i \in 1..Len(ch[s]) : ch[s][i] = count - Len(ch[s]) + i
      BY <2>2 DEF IInv, Following, Follows
    <3>2. Head(ch[s]) = count - Len(Tail(ch[s]))
      <4>1. 1 \in 1..Len(ch[s])
        BY <1>3
      <4>2. ch[s][1] = count - Len(ch[s]) + 1
        BY <3>1, <4>1
      <4>3. Len(Tail(ch[s])) = Len(ch[s]) - 1 /\ Len(ch[s]) \in Nat /\ Head(ch[s]) = ch[s][1]
        BY <1>3
      <4>4. count - Len(ch[s]) + 1 = count - (Len(ch[s]) - 1)
        BY <1>2, <4>3, Numbers
      <4> QED BY <4>2, <4>3, <4>4, Zenon
    <3>3. ASSUME NEW i \in 1..(Len(ch[s]) - 1)
          PROVE  Tail(ch[s])[i] = count - (Len(ch[s]) - 1) + i
      <4>1. i + 1 \in 1..Len(ch[s])
        BY <1>3
      <4>2. ch[s][i + 1] = count - Len(ch[s]) + (i + 1) /\ Tail(ch[s])[i] = ch[s][i + 1]
        BY <1>3, <3>1, <4>1
      <4>3. i \in Nat /\ Len(ch[s]) \in Nat /\ count \in Nat
        BY <1>2, <1>3
      <4> QED BY <4>2, <4>3, Numbers
    <3> QED BY <1>1, <1>3, <1>4, <2>2, <3>2, <3>3 DEF Follows
  <2> QED BY <2>1, <2>2
<1>8. Ending'
  <2> SUFFICES ASSUME NEW t \in Sub, sub[t] = "ended", ~lost[t] PROVE Ends(t)'
    BY <1>1 DEF Ending
  <2>1. CASE t # s
    BY <1>1, <2>1 DEF IInv, Ending, Ends, JobTyped
  <2>2. CASE t = s
    <3>1. ch[s][Len(ch[s])] \in {final, SyntheticDone}
      BY <1>1, <2>2 DEF IInv, Ending, Ends
    <3>2. CASE Len(ch[s]) = 1
      BY <1>1, <1>3, <1>4, <2>2, <3>1, <3>2 DEF Ends
    <3>3. CASE Len(ch[s]) # 1
      <4>1. ch'[s] # <<>> /\ ch'[s][Len(ch'[s])] = ch[s][Len(ch[s])]
        BY <1>3, <1>4, <3>3
      <4> QED BY <1>1, <2>2, <3>1, <4>1 DEF Ends
    <3> QED BY <3>2, <3>3
  <2> QED BY <2>1, <2>2
<1> QED BY <1>5, <1>6, <1>7, <1>8 DEF IInv

LEMMA Leaving ==
  ASSUME IInv, NEW s \in Sub, Unsubscribe(s)
  PROVE  IInv'
<1>1. <<>> \in Seq(Nat)
  BY EmptySeq
<1> QED BY <1>1 DEF IInv, JobTyped, Latest, Streams, Following, Follows, Ending, Ends, Unsubscribe, histVars

LEMMA StepHolds == IInv /\ [Next]_vars => IInv'
<1> SUFFICES ASSUME IInv, [Next]_vars PROVE IInv'
  OBVIOUS
<1>1. CASE PlNext /\ UNCHANGED jobVars
  BY <1>1, Quiet DEF jobVars
<1>2. CASE Pump
  <2>1. CASE PumpTake BY <2>1, Quiet DEF PumpTake
  <2>2. CASE PumpPublish BY <2>2, Published DEF PumpPublish
  <2>3. CASE PumpEnds BY <2>3, Quiet DEF PumpEnds
  <2> QED BY <1>2, <2>1, <2>2, <2>3 DEF Pump
<1>3. CASE Tick
  BY <1>3, Published DEF Tick
<1>4. CASE JobEnds
  BY <1>4, Finishing
<1>5. CASE Subscriber
  BY <1>5, Joining, Receiving, Leaving DEF Subscriber
<1>6. CASE UNCHANGED vars
  BY <1>6, Quiet DEF vars, jobVars
<1> QED BY <1>1, <1>2, <1>3, <1>4, <1>5, <1>6 DEF Next

(* What the job keeps has its type, the history is the latest events, and  *)
(* what a subscriber has seen goes on from what it was replayed.           *)
THEOREM Invariance == Spec => []IInv
BY InitHolds, StepHolds, PTL DEF Spec

(* Between the history it replayed and the events it follows no subscriber *)
(* of a running job misses an event or sees one twice, however publishing, *)
(* subscribing and receiving interleave (internal/server/jobs.go publish,  *)
(* subscribe).                                                             *)
THEOREM ReplayThenFollow == Spec => []NoGap
<1>1. IInv => NoGap
  <2> SUFFICES ASSUME IInv, NEW s \in Sub, sub[s] = "live", ~lost[s]
               PROVE  Seen(s) = [i \in 1..Len(ch[s]) + 1 |-> count - Len(ch[s]) + i - 1]
    BY DEF NoGap
  <2>1. Follows(s) /\ ch[s] \in Seq(Nat) /\ last[s] \in Nat /\ count \in Nat
    BY DEF IInv, Following, JobTyped
  <2>2. <<last[s]>> \in Seq(Nat) /\ Len(<<last[s]>>) = 1 /\ <<last[s]>>[1] = last[s]
    BY <2>1
  <2>3. /\ Seen(s) \in Seq(Nat) /\ Len(Seen(s)) = 1 + Len(ch[s]) /\ Len(ch[s]) \in Nat
        /\ \A i \in 1..(1 + Len(ch[s])) :
              Seen(s)[i] = IF i <= 1 THEN <<last[s]>>[i] ELSE ch[s][i - 1]
    BY <2>1, <2>2, ConcatProperties, LenProperties DEF Seen
  <2>4. DOMAIN Seen(s) = 1..(Len(ch[s]) + 1) /\ Seen(s) = [i \in DOMAIN Seen(s) |-> Seen(s)[i]]
    BY <2>3, LenProperties
  <2>5. ASSUME NEW i \in 1..(Len(ch[s]) + 1) PROVE Seen(s)[i] = count - Len(ch[s]) + i - 1
    <3>1. CASE i = 1
      BY <2>1, <2>2, <2>3, <3>1 DEF Follows
    <3>2. CASE i # 1
      <4>1. i - 1 \in 1..Len(ch[s]) /\ i \in 1..(1 + Len(ch[s])) /\ ~(i <= 1)
        BY <2>3, <3>2
      <4>2. Seen(s)[i] = ch[s][i - 1]
        BY <2>3, <4>1
      <4> QED BY <2>1, <2>3, <4>1, <4>2 DEF Follows
    <3> QED BY <3>1, <3>2
  <2> QED BY <2>4, <2>5
<1> QED BY <1>1, Invariance, PTL

(* A subscriber whose stream has ended finds the final event of the job at *)
(* its end, whether it followed the job or came when it was over, unless   *)
(* its channel was full at some time (publish, subscribe, run).            *)
THEOREM EndedWithDone == Spec => []DoneIsLast
<1>1. IInv => DoneIsLast
  <2> SUFFICES ASSUME IInv, NEW s \in Sub, sub[s] = "ended", ~lost[s]
               PROVE  Last(Seen(s)) \in {final, SyntheticDone}
    BY DEF DoneIsLast
  <2>1. Ends(s) /\ ch[s] \in Seq(Nat) /\ last[s] \in Nat
    BY DEF IInv, Ending, JobTyped
  <2>2. <<last[s]>> \in Seq(Nat) /\ Len(<<last[s]>>) = 1 /\ <<last[s]>>[1] = last[s]
    BY <2>1
  <2>3. /\ Seen(s) \in Seq(Nat) /\ Len(Seen(s)) = 1 + Len(ch[s]) /\ Len(ch[s]) \in Nat
        /\ \A i \in 1..(1 + Len(ch[s])) :
              Seen(s)[i] = IF i <= 1 THEN <<last[s]>>[i] ELSE ch[s][i - 1]
    BY <2>1, <2>2, ConcatProperties, LenProperties DEF Seen
  <2>4. ch[s] = <<>> <=> Len(ch[s]) = 0
    BY <2>1, EmptySeq
  <2>5. Last(Seen(s)) = IF ch[s] = <<>> THEN last[s] ELSE ch[s][Len(ch[s])]
    BY <2>2, <2>3, <2>4 DEF Last
  <2> QED BY <2>1, <2>5 DEF Ends
<1> QED BY <1>1, Invariance, PTL

(***************************************************************************)
(* The types of the pipeline, whoever calls it.                            *)
(***************************************************************************)
(* The error a run stores is the one it ended with. *)
Stored == \A r \in RunId : pc[r] = "store" => outcome[r] # "none"

(* Where a goroutine of the pipeline can be, what a call can return, and    *)
(* what the end of a call of c, or a move within it, leaves behind.         *)
Place == {"off", "idle", "step", "flow", "set", "post", "send", "back", "seek", "null1", "null2",
          "busclose", "closech", "wait", "run", "store", "done", "gone"}
Result == Outcome \cup {"none", "refused"}
CallState(c) ==
    /\ pc' \in [Actor -> Place] /\ \A r \in RunId : pc'[r] = pc[r]
    /\ ip' \in [Caller -> Nat] /\ ret' \in [Caller -> Result]

LEMMA LittleTypes ==
  ASSUME PlTypeOK
  PROVE  /\ pc \in [Actor -> Place] /\ ip \in [Caller -> Nat] /\ ret \in [Caller -> Result]
         /\ runErr \in Result /\ state \in Null..Playing
         /\ tgt \in [Caller -> Null..Playing] /\ nxt \in [Caller -> Null..Playing]
         /\ \A c \in Caller : program[c] \in Seq(Call) /\ Len(program[c]) \in Nat
BY PipelineAssumption, LenProperties DEF PlTypeOK, Place, Result

(* Callers and runs are different actors. *)
LEMMA Actors ==
  /\ \A c \in Caller : c \in Actor /\ c \notin RunId /\ c \notin Helper
  /\ \A a \in RunId \cup Helper : a \in Actor
BY PipelineAssumption DEF Actor, RunId

LEMMA CallsTyped ==
  ASSUME PlTypeOK, NEW c \in Caller
  PROVE  /\ \A place \in Place : Moves(c, place) => CallState(c)
         /\ \A res \in Result : Returns(c, res) => CallState(c)
         /\ AfterState(c) => CallState(c)
<1>1. /\ pc \in [Actor -> Place] /\ ip \in [Caller -> Nat] /\ ret \in [Caller -> Result]
      /\ Len(program[c]) \in Nat /\ c \in Actor /\ \A r \in RunId : r \in Actor /\ r # c
  BY LittleTypes, Actors
<1>2. ASSUME NEW place \in Place, Moves(c, place) PROVE CallState(c)
  BY <1>1, <1>2 DEF Moves, CallState
<1>3. ASSUME NEW res \in Result, Returns(c, res) PROVE CallState(c)
  <2>1. ip' = [ip EXCEPT ![c] = IF res = "refused" /\ program[c][ip[c]] = "start"
                                 THEN Len(program[c]) + 1 ELSE ip[c] + 1]
    BY <1>1, <1>3 DEF Returns
  <2>2. ip' \in [Caller -> Nat]
    BY <1>1, <2>1
  <2>3. ret' = [ret EXCEPT ![c] = IF program[c][ip[c]] = "close" THEN ret[c] ELSE res]
    BY <1>1, <1>3 DEF Returns
  <2>4. ret' \in [Caller -> Result]
    BY <1>1, <2>3
  <2>5. pc' \in [Actor -> Place] /\ \A r \in RunId : pc'[r] = pc[r]
    BY <1>1, <1>3 DEF Returns, Place
  <2> QED BY <2>2, <2>4, <2>5 DEF CallState
<1>4. ASSUME AfterState(c) PROVE CallState(c)
  <2>1. Moves(c, "seek") \/ Moves(c, "busclose") \/ Returns(c, "nil")
    BY <1>4 DEF AfterState
  <2>2. "seek" \in Place /\ "busclose" \in Place /\ "nil" \in Result
    BY DEF Place, Result, Outcome
  <2> QED BY <1>2, <1>3, <2>1, <2>2
<1> QED BY <1>2, <1>3, <1>4

(* Whoever posts goes on from there. *)
LEMMA AfterPostTyped ==
  ASSUME PlTypeOK, NEW a \in Actor, pc[a] # "store", AfterPost(a)
  PROVE  /\ pc' \in [Actor -> Place] /\ nxt' \in [Caller -> Null..Playing]
         /\ \A r \in RunId : pc'[r] = "store" => pc[r] = "store"
         /\ ip' \in [Caller -> Nat] /\ ret' \in [Caller -> Result]
<1>1. /\ pc \in [Actor -> Place] /\ \A r \in RunId : r \in Actor
      /\ ip \in [Caller -> Nat] /\ ret \in [Caller -> Result]
      /\ tgt \in [Caller -> Null..Playing] /\ nxt \in [Caller -> Null..Playing]
  BY LittleTypes, Actors
<1>2. CASE a \notin Caller
  BY <1>1, <1>2 DEF AfterPost, Place
<1>3. CASE a \in Caller /\ nxt[a] < tgt[a] /\ ev[a] # "SEEK"
  <2>1. Moves(a, "step") /\ nxt' = [nxt EXCEPT ![a] = nxt[a] + 1] /\ "step" \in Place
    BY <1>1, <1>3 DEF AfterPost, Place
  <2>2. nxt[a] \in 0..3 /\ tgt[a] \in 0..3
    BY <1>1, <1>3 DEF Null, Playing
  <2>3. nxt[a] + 1 \in Null..Playing
    BY <1>3, <2>2 DEF Null, Playing
  <2>4. nxt' \in [Caller -> Null..Playing]
    BY <1>1, <2>1, <2>3
  <2>5. CallState(a)
    BY <1>3, <2>1, CallsTyped
  <2> QED BY <2>4, <2>5 DEF CallState
<1>4. CASE a \in Caller /\ ~(nxt[a] < tgt[a] /\ ev[a] # "SEEK")
  <2>1. nxt' = [nxt EXCEPT ![a] = Null] /\ (Returns(a, "nil") \/ AfterState(a))
    BY <1>4 DEF AfterPost
  <2>2. Null \in Null..Playing /\ "nil" \in Result
    BY DEF Null, Playing, Result, Outcome
  <2>3. nxt' \in [Caller -> Null..Playing]
    BY <1>1, <2>1, <2>2
  <2>4. CallState(a)
    BY <1>4, <2>1, <2>2, CallsTyped
  <2> QED BY <2>3, <2>4 DEF CallState
<1> QED BY <1>2, <1>3, <1>4

LEMMA TypesOfPost ==
  ASSUME PlTypeOK, Stored, NEW a \in Actor, Post(a) \/ Send(a)
  PROVE  PlTypeOK' /\ Stored'
<1>1. pc \in [Actor -> Place] /\ pc[a] \in {"post", "send"} /\ \A r \in RunId : r \in Actor
  BY Actors, LittleTypes DEF Post, Send
<1>2. CASE Post(a)
  <2>1. UNCHANGED <<program, pipeVars, tgt, ev, joined, runVars, busVars>>
    BY <1>2 DEF Post
  <2>2. CASE closing
    <3>1. /\ pc' \in [Actor -> Place] /\ nxt' \in [Caller -> Null..Playing]
          /\ \A r \in RunId : pc'[r] = "store" => pc[r] = "store"
          /\ ip' \in [Caller -> Nat] /\ ret' \in [Caller -> Result]
      BY <1>1, <1>2, <2>2, AfterPostTyped DEF Post
    <3> QED BY <2>1, <3>1 DEF PlTypeOK, Stored, Place, Result, pipeVars, runVars, busVars
  <2>3. CASE ~closing
    BY <1>1, <1>2, <2>1, <2>3 DEF Post, PlTypeOK, Stored, Place, pipeVars, runVars, busVars
  <2> QED BY <2>2, <2>3
<1>3. CASE Send(a)
  <2>1. /\ UNCHANGED <<program, pipeVars, tgt, ev, joined, runVars, closing, closed, posts>>
        /\ pc' \in [Actor -> Place] /\ nxt' \in [Caller -> Null..Playing]
        /\ \A r \in RunId : pc'[r] = "store" => pc[r] = "store"
        /\ ip' \in [Caller -> Nat] /\ ret' \in [Caller -> Result]
    BY <1>1, <1>3, AfterPostTyped DEF Send
  <2>2. bus' \in Seq(Event) /\ Len(bus') <= BusCap /\ dropped' \in BOOLEAN /\ panic' \in BOOLEAN
    <3>1. bus \in Seq(Event) /\ ev[a] \in Event /\ Len(bus) \in Nat /\ Len(bus) <= BusCap
      BY LenProperties DEF PlTypeOK
    <3>2. CASE bus' = Append(bus, ev[a]) /\ Len(bus) < BusCap /\ UNCHANGED <<dropped, panic>>
      <4>1. bus' \in Seq(Event) /\ Len(bus') = Len(bus) + 1
        BY <3>1, <3>2, AppendProperties
      <4> QED BY <3>1, <3>2, <4>1, PipelineAssumption DEF PlTypeOK
    <3>3. CASE bus' = bus
      BY <1>3, <3>1, <3>3 DEF PlTypeOK, Send
    <3> QED BY <1>3, <3>2, <3>3 DEF Send
  <2> QED BY <2>1, <2>2 DEF PlTypeOK, Stored, Place, Result, pipeVars, runVars
<1> QED BY <1>2, <1>3

LEMMA TypesOfCaller ==
  ASSUME PlTypeOK, Stored, NEW c \in Caller, CallerStep(c)
  PROVE  PlTypeOK' /\ Stored'
<1>a. /\ c \in Actor /\ pc \in [Actor -> Place] /\ \A r \in RunId : r \in Actor /\ r # c
      /\ state \in Null..Playing
      /\ tgt \in [Caller -> Null..Playing] /\ nxt \in [Caller -> Null..Playing]
  BY Actors, LittleTypes
<1>b. /\ {"step", "set", "flow", "post", "back", "null1", "null2", "closech", "wait"} \subseteq Place
      /\ {"refused", "nil", runErr} \subseteq Result
  BY LittleTypes DEF Place, Result, Outcome
<1>c. {Null, Ready, Paused, Playing} \subseteq Null..Playing
  BY DEF Null, Ready, Paused, Playing
<1>1. CASE SetState(c)
  <2>1. PICK op \in Call \ {"wait"} :
          /\ tgt' = [tgt EXCEPT ![c] = Target(op)]
          /\ CASE op = "seek" /\ state \notin {Playing, Paused} ->
                    Returns(c, "refused") /\ UNCHANGED nxt
             [] state = Target(op) -> AfterState(c) /\ UNCHANGED nxt
             [] state # Target(op) /\ Target(op) = Null -> Moves(c, "null1") /\ UNCHANGED nxt
             [] op # "seek" /\ Target(op) > state ->
                    Moves(c, "step") /\ nxt' = [nxt EXCEPT ![c] = state + 1]
             [] state = Playing /\ Target(op) = Paused ->
                    Moves(c, "back") /\ nxt' = [nxt EXCEPT ![c] = Paused]
    BY <1>1 DEF SetState
  <2>2. \/ op = "seek" /\ state \notin {Playing, Paused}
        \/ state = Target(op)
        \/ state # Target(op) /\ Target(op) = Null
        \/ op # "seek" /\ Target(op) > state
        \/ state = Playing /\ Target(op) = Paused
    BY <1>a DEF Target, Call, Null, Ready, Paused, Playing
  <2>3. /\ Returns(c, "refused") \/ AfterState(c) \/ \E place \in Place : Moves(c, place)
        /\ \/ nxt' = nxt
           \/ nxt' = [nxt EXCEPT ![c] = Paused]
           \/ Target(op) > state /\ nxt' = [nxt EXCEPT ![c] = state + 1]
    BY <1>b, <2>1, <2>2
  <2>4. Target(op) \in Null..Playing
    BY DEF Target, Call, Null, Playing, Paused
  <2>5. Target(op) > state => state + 1 \in Null..Playing
    BY <1>a, <2>4 DEF Null, Playing
  <2>6. tgt' \in [Caller -> Null..Playing]
    BY <1>a, <2>1, <2>4
  <2>7. nxt' \in [Caller -> Null..Playing]
    BY <1>a, <1>c, <2>3, <2>5
  <2>8. CallState(c)
    BY <1>b, <2>3, CallsTyped
  <2> QED BY <1>1, <2>6, <2>7, <2>8
          DEF SetState, PlTypeOK, Stored, CallState, Place, Result, pipeVars, runVars, busVars
<1>2. CASE StepReady(c)
  <2>1. CallState(c)
    BY <1>b, <1>2, CallsTyped DEF StepReady
  <2> QED BY <1>a, <1>2, <2>1
          DEF StepReady, PlTypeOK, Stored, CallState, Place, Result, pipeVars, runVars, busVars
<1>3. CASE StepPaused(c)
  <2>1. CallState(c)
    BY <1>b, <1>3, CallsTyped DEF StepPaused
  <2> QED BY <1>a, <1>3, <2>1
          DEF StepPaused, PlTypeOK, Stored, CallState, Place, Result, pipeVars, runVars, busVars
<1>4. CASE StepPlaying(c)
  <2>1. CallState(c)
    BY <1>b, <1>4, CallsTyped DEF StepPlaying
  <2> QED BY <1>a, <1>4, <2>1
          DEF StepPlaying, PlTypeOK, Stored, CallState, Place, Result, Unpaused, pipeVars, runVars, busVars
<1>5. CASE SetReached(c)
  <2>1. CallState(c)
    BY <1>b, <1>5, CallsTyped DEF SetReached
  <2>2. state' \in Null..Playing
    BY <1>a, <1>c, <1>5 DEF SetReached
  <2>3. Name(nxt[c]) \in Event
    <3>1. nxt[c] \in {Null, Ready, Paused, Playing}
      BY <1>a DEF Null, Ready, Paused, Playing
    <3> QED BY <3>1 DEF Name, Event, StateEvents, Null, Ready, Paused, Playing
  <2>4. ev' \in [Actor -> Event]
    BY <1>5, <2>3 DEF SetReached, PlTypeOK
  <2> QED BY <1>a, <1>5, <2>1, <2>2, <2>4
          DEF SetReached, PlTypeOK, Stored, CallState, Place, Result, runVars, busVars
<1>6. CASE StepBackward(c)
  <2>1. CallState(c)
    BY <1>b, <1>6, CallsTyped DEF StepBackward
  <2>2. state' \in Null..Playing
    BY <1>a, <1>c, <1>6 DEF StepBackward
  <2> QED BY <1>a, <1>6, <2>1, <2>2
          DEF StepBackward, PlTypeOK, Stored, CallState, Place, Result, Event, StateEvents, runVars, busVars
<1>7. CASE SeekTo(c)
  <2>1. CallState(c)
    BY <1>b, <1>7, CallsTyped DEF SeekTo
  <2> QED BY <1>a, <1>7, <2>1
          DEF SeekTo, PlTypeOK, Stored, CallState, Place, Result, Event, StateEvents, pipeVars, runVars, busVars
<1>8. CASE ToNull(c)
  <2>1. CallState(c)
    BY <1>b, <1>8, CallsTyped DEF ToNull
  <2> QED BY <1>a, <1>8, <2>1
          DEF ToNull, PlTypeOK, Stored, CallState, Place, Result, Unpaused, Event, StateEvents, pipeVars, runVars, busVars
<1>9. CASE ClearAll(c)
  <2>1. CallState(c)
    BY <1>b, <1>9, CallsTyped DEF ClearAll
  <2>2. state' \in Null..Playing /\ NoRun \in 0..MaxRuns
    BY <1>c, <1>9, PipelineAssumption DEF ClearAll, NoRun
  <2> QED BY <1>a, <1>9, <2>1, <2>2
          DEF ClearAll, PlTypeOK, Stored, CallState, Place, Result, Outcome, runVars, busVars
<1>10. CASE Wait(c)
  <2>1. CallState(c)
    BY <1>b, <1>10, CallsTyped DEF Wait
  <2> QED BY <1>a, <1>10, <2>1
          DEF Wait, PlTypeOK, Stored, CallState, Place, Result, pipeVars, runVars, busVars
<1>11. CASE Waited(c)
  <2>1. CallState(c)
    BY <1>b, <1>11, CallsTyped DEF Waited
  <2> QED BY <1>a, <1>11, <2>1
          DEF Waited, PlTypeOK, Stored, CallState, Place, Result, pipeVars, runVars, busVars
<1>12. CASE BusClose(c)
  <2>1. CallState(c)
    BY <1>b, <1>12, CallsTyped DEF BusClose
  <2> QED BY <1>a, <1>12, <2>1
          DEF BusClose, PlTypeOK, Stored, CallState, Place, Result, pipeVars, runVars, busVars
<1>13. CASE CloseChannel(c)
  <2>1. CallState(c)
    BY <1>b, <1>13, CallsTyped DEF CloseChannel
  <2> QED BY <1>a, <1>13, <2>1
          DEF CloseChannel, PlTypeOK, Stored, CallState, Place, Result, pipeVars, runVars, busVars
<1>14. CASE StartDataFlow(c)
  BY <1>14, <1>a, PipelineAssumption DEF StartDataFlow, PlTypeOK, Stored, RunId, runVars, busVars, pipeVars
<1>15. CASE Post(c) \/ Send(c)
  BY <1>15, <1>a, TypesOfPost
<1> QED BY <1>1, <1>2, <1>3, <1>4, <1>5, <1>6, <1>7, <1>8, <1>9, <1>10, <1>11, <1>12, <1>13, <1>14, <1>15 DEF CallerStep

LEMMA PlTypeStep ==
  ASSUME PlTypeOK, Stored, PlNext
  PROVE  PlTypeOK' /\ Stored'
<1>a. \A a \in RunId \cup Helper : a \in Actor
  BY Actors
<1>1. ASSUME NEW c \in Caller, CallerStep(c) PROVE PlTypeOK' /\ Stored'
  BY <1>1, TypesOfCaller
<1>2. ASSUME NEW a \in RunId \cup Helper, Post(a) \/ Send(a) PROVE PlTypeOK' /\ Stored'
  BY <1>2, <1>a, TypesOfPost
<1>3. ASSUME NEW r \in RunId, RunEnds(r) PROVE PlTypeOK' /\ Stored'
  BY <1>a, <1>3 DEF RunEnds, Outcome, PlTypeOK, Stored, runVars, busVars, pipeVars
<1>4. ASSUME NEW r \in RunId, StoreErr(r) PROVE PlTypeOK' /\ Stored'
  <2>1. outcome[r] \in Outcome
    BY <1>4 DEF StoreErr, Stored, PlTypeOK
  <2> QED BY <1>a, <1>4, <2>1 DEF StoreErr, Event, Terminal, PlTypeOK, Stored, runVars, busVars, pipeVars
<1>5. ASSUME NEW r \in RunId, CloseDone(r) PROVE PlTypeOK' /\ Stored'
  BY <1>a, <1>5 DEF CloseDone, PlTypeOK, Stored, runVars, busVars, pipeVars
<1>6. ASSUME NEW h \in Helper, HelperStops(h) PROVE PlTypeOK' /\ Stored'
  BY <1>6, <1>a DEF HelperStops, PlTypeOK, Stored, runVars, busVars, pipeVars
<1>7. ASSUME NEW a \in RunId \cup Helper, HasNews(a) PROVE PlTypeOK' /\ Stored'
  BY <1>7, <1>a, PipelineAssumption DEF HasNews, PlTypeOK, Stored, Event, runVars, busVars, pipeVars
<1>8. CASE CancelParent
  BY <1>8 DEF CancelParent, PlTypeOK, Stored, runVars, busVars, pipeVars, callVars
<1> QED
  BY <1>1, <1>2, <1>3, <1>4, <1>5, <1>6, <1>7, <1>8 DEF PlNext, RunStep, HelperStep, News

(***************************************************************************)
(* One caller, who waits before it closes.                                 *)
(***************************************************************************)
WaitsToClose(p) == \A i \in 1..Len(p) : p[i] = "close" => i > 1 /\ p[i - 1] = "wait"
OneCaller == Caller = {Job} /\ \A p \in Programs : WaitsToClose(p)

Calls == program[Job]
InCall(op) == ip[Job] <= Len(Calls) /\ Calls[ip[Job]] = op
Active(r) == pc[r] \notin {"off", "gone"}
(* The run has stored its error.                                           *)
Stopped(r) == pc[r] \in {"done", "gone"} \/ (pc[r] \in {"post", "send"} /\ ev[r] \in Terminal)

(* Who can be where.                                                       *)
Places ==
    /\ pc[Job] \in {"idle", "step", "flow", "set", "post", "send", "back", "seek",
                    "null1", "null2", "busclose", "closech", "wait"}
    /\ \A r \in RunId : pc[r] \in {"off", "run", "store", "post", "send", "done", "gone"}
    /\ \A h \in Helper : pc[h] \in {"off", "run", "post", "send", "gone"} /\ ev[h] = "META"
    /\ ip[Job] >= 1 /\ (pc[Job] # "idle" => ip[Job] <= Len(Calls))

(* Which call the caller is in, and that nobody walks the states beside it. *)
Walking ==
    /\ pc[Job] \in {"step", "flow", "set"} => nxt[Job] = state + 1 /\ state < tgt[Job]
    /\ pc[Job] \in {"step", "flow", "set", "back", "seek"} => ~InCall("close") /\ ~InCall("wait")
    /\ pc[Job] \in {"null1", "null2", "busclose", "closech"} => InCall("close")
    /\ pc[Job] \in {"post", "send"} =>
         /\ ~InCall("wait")
         /\ ev[Job] # "SEEK" /\ nxt[Job] < tgt[Job] => nxt[Job] = state
    /\ pc[Job] # "idle" /\ InCall("close") => tgt[Job] = Null
    /\ pc[Job] = "wait" => InCall("wait") /\ joined[Job] = runDone /\ runDone # NoRun
    /\ pc[Job] = "flow" => runDone = NoRun /\ nxt[Job] = Playing
    /\ pc[Job] = "back" => nxt[Job] = Paused

(* The run that goes on is the one the pipeline knows, and the call that    *)
(* closes finds none.                                                      *)
Runs ==
    /\ \A r \in RunId : over[r] => pc[r] = "gone"
    /\ \A r \in RunId : Active(r) => runDone = r /\ state # Null
    /\ \A r \in RunId : pc[r] = "store" \/ Stopped(r) => outcome[r] # "none"
    /\ \A r \in RunId : Stopped(r) /\ runDone = r => runErr = outcome[r]
    /\ InCall("close") => \A r \in RunId : ~Active(r)

Life == PlTypeOK /\ Stored /\ Places /\ Walking /\ Runs

(* What a step of the caller does to places and to the call it is in.      *)
Elsewhere == \A a \in RunId \cup Helper : pc'[a] = pc[a]
SameCall == ip' = ip /\ \A op \in Call : InCall(op)' <=> InCall(op)
NextCall ==
    /\ pc'[Job] = "idle" /\ Elsewhere /\ ip'[Job] >= 1
    /\ InCall("close")' => InCall("wait")

LEMMA Home ==
  ASSUME OneCaller, Life
  PROVE  /\ Job \in Caller /\ Job \in Actor /\ Job \notin RunId /\ Job \notin Helper
         /\ pc \in [Actor -> Place] /\ \A a \in RunId \cup Helper : a \in Actor /\ a # Job
         /\ Calls \in Seq(Call) /\ Len(Calls) \in Nat /\ WaitsToClose(Calls)
         /\ ip \in [Caller -> Nat] /\ ip[Job] \in Nat
         /\ ev \in [Actor -> Event] /\ state \in 0..3 /\ nxt \in [Caller -> 0..3] /\ tgt \in [Caller -> 0..3]
         /\ runDone \in 0..MaxRuns /\ joined \in [Caller -> 0..MaxRuns]
         /\ Null = 0 /\ Ready = 1 /\ Paused = 2 /\ Playing = 3 /\ NoRun = 0
<1>1. Job \in Caller
  BY DEF OneCaller
<1>2. program[Job] \in Programs
  BY <1>1 DEF Life, PlTypeOK
<1>3. state \in Null..Playing /\ nxt \in [Caller -> Null..Playing] /\ tgt \in [Caller -> Null..Playing]
  BY LittleTypes DEF Life
<1>4. runDone \in 0..MaxRuns /\ joined \in [Caller -> 0..MaxRuns] /\ ev \in [Actor -> Event]
  BY DEF Life, PlTypeOK
<1> QED
  BY <1>1, <1>2, <1>3, <1>4, Actors, LittleTypes DEF Life, OneCaller, Calls, Null, Ready, Paused, Playing, NoRun

LEMMA HomeSteps ==
  ASSUME OneCaller, Life, UNCHANGED program
  PROVE  /\ \A place \in Place : Moves(Job, place) => pc'[Job] = place /\ Elsewhere /\ SameCall
         /\ \A res \in Result : ip[Job] <= Len(Calls) /\ Returns(Job, res) => NextCall
         /\ ip[Job] <= Len(Calls) /\ AfterState(Job) =>
              \/ pc'[Job] = "seek" /\ Elsewhere /\ SameCall /\ InCall("seek")
              \/ pc'[Job] = "busclose" /\ Elsewhere /\ SameCall /\ InCall("close")
              \/ NextCall /\ ~InCall("close") /\ ~InCall("seek")
<1> USE Home
<1>1. ASSUME NEW place \in Place, Moves(Job, place) PROVE pc'[Job] = place /\ Elsewhere /\ SameCall
  BY <1>1 DEF Moves, Elsewhere, SameCall, InCall, Calls
<1>2. ASSUME NEW res \in Result, ip[Job] <= Len(Calls), Returns(Job, res) PROVE NextCall
  <2>1. pc'[Job] = "idle" /\ Elsewhere
    BY <1>2 DEF Returns, Elsewhere
  <2>2. ip'[Job] = ip[Job] + 1 \/ ip'[Job] = Len(Calls) + 1
    BY <1>2 DEF Returns, Calls
  <2>3. ASSUME InCall("close")' PROVE InCall("wait")
    <3>1. ip'[Job] = ip[Job] + 1 /\ ip'[Job] \in 1..Len(Calls) /\ Calls[ip'[Job]] = "close"
      BY <2>2, <2>3 DEF InCall, Calls
    <3>2. ip'[Job] > 1 /\ Calls[ip'[Job] - 1] = "wait"
      BY <3>1 DEF WaitsToClose
    <3>3. ip'[Job] - 1 = ip[Job]
      BY <3>1
    <3> QED BY <1>2, <3>2, <3>3 DEF InCall
  <2> QED BY <2>1, <2>2, <2>3 DEF NextCall
<1>3. ASSUME ip[Job] <= Len(Calls), AfterState(Job)
      PROVE  \/ pc'[Job] = "seek" /\ Elsewhere /\ SameCall /\ InCall("seek")
             \/ pc'[Job] = "busclose" /\ Elsewhere /\ SameCall /\ InCall("close")
             \/ NextCall /\ ~InCall("close") /\ ~InCall("seek")
  <2>1. "seek" \in Place /\ "busclose" \in Place /\ "nil" \in Result
    BY DEF Place, Result, Outcome
  <2>2. CASE Calls[ip[Job]] = "seek"
    BY <1>1, <1>3, <2>1, <2>2 DEF AfterState, InCall, Calls
  <2>3. CASE Calls[ip[Job]] = "close"
    BY <1>1, <1>3, <2>1, <2>3 DEF AfterState, InCall, Calls
  <2>4. CASE Calls[ip[Job]] \notin {"seek", "close"}
    BY <1>2, <1>3, <2>1, <2>4 DEF AfterState, InCall, Calls
  <2> QED BY <2>2, <2>3, <2>4
<1> QED BY <1>1, <1>2, <1>3

(* The caller goes on after an event.                                      *)
LEMMA CallerPosted ==
  ASSUME OneCaller, Life, AfterPost(Job), pc[Job] \in {"post", "send"},
         UNCHANGED <<program, pipeVars, tgt, ev, joined, runVars>>
  PROVE  Places' /\ Walking' /\ Runs'
<1> USE Home
<1>a. /\ "step" \in Place /\ "nil" \in Result /\ {"close", "wait", "seek"} \subseteq Call
  BY DEF Place, Result, Outcome, Call
<1>b. ip[Job] <= Len(Calls) /\ ~InCall("wait") /\ Calls' = Calls
  BY DEF Life, Places, Walking, Calls
<1>c. pc[Job] # "idle" /\ InCall("close") => tgt[Job] = Null
  BY DEF Life, Walking
<1>1. CASE nxt[Job] < tgt[Job] /\ ev[Job] # "SEEK"
  <2>1. pc'[Job] = "step" /\ Elsewhere /\ SameCall /\ nxt'[Job] = nxt[Job] + 1 /\ nxt[Job] = state
    <3>1. Moves(Job, "step") /\ nxt' = [nxt EXCEPT ![Job] = nxt[Job] + 1]
      BY <1>1 DEF AfterPost
    <3>2. nxt[Job] = state
      BY <1>1 DEF Life, Walking
    <3> QED BY <1>a, <3>1, <3>2, HomeSteps
  <2>2. ~InCall("close")
    <3>1. nxt[Job] \in 0..3 /\ tgt[Job] \in 0..3 /\ nxt[Job] < tgt[Job]
      BY <1>1
    <3>2. tgt[Job] # Null
      BY <3>1
    <3> QED BY <1>c, <3>2
  <2>3. Places'
    BY <1>b, <2>1 DEF Life, Places, Elsewhere, SameCall
  <2>4. Walking'
    BY <1>1, <1>a, <1>b, <2>1, <2>2 DEF Life, Walking, SameCall, pipeVars
  <2>5. Runs'
    BY <1>a, <2>1, <2>2 DEF Life, Runs, Active, Stopped, Elsewhere, SameCall, pipeVars, runVars
  <2> QED BY <2>3, <2>4, <2>5
<1>2. CASE ~(nxt[Job] < tgt[Job] /\ ev[Job] # "SEEK")
  <2>1. \/ pc'[Job] = "seek" /\ Elsewhere /\ SameCall /\ InCall("seek")
        \/ pc'[Job] = "busclose" /\ Elsewhere /\ SameCall /\ InCall("close")
        \/ NextCall
    <3>1. Returns(Job, "nil") \/ AfterState(Job)
      BY <1>2 DEF AfterPost
    <3> QED BY <1>a, <1>b, <3>1, HomeSteps
  <2>2. InCall("seek") => ~InCall("close")
    BY DEF InCall
  <2>3. Places'
    BY <1>b, <2>1 DEF Life, Places, Elsewhere, SameCall, NextCall
  <2>4. Walking'
    BY <1>a, <1>b, <1>c, <2>1, <2>2 DEF Life, Walking, SameCall, NextCall, pipeVars
  <2>5. Runs'
    BY <1>a, <1>b, <2>1, <2>2 DEF Life, Runs, Active, Stopped, Elsewhere, SameCall, NextCall, pipeVars, runVars
  <2> QED BY <2>3, <2>4, <2>5
<1> QED BY <1>1, <1>2

LEMMA CallerLives ==
  ASSUME OneCaller, Life, CallerStep(Job)
  PROVE  Places' /\ Walking' /\ Runs'
<1> USE Home
<1>a. /\ {"step", "set", "flow", "post", "send", "back", "null1", "null2", "closech", "wait"} \subseteq Place
      /\ {"refused", "nil", runErr} \subseteq Result /\ {"close", "wait", "seek"} \subseteq Call
  BY LittleTypes DEF Place, Result, Outcome, Call, Life
<1>b. program' = program /\ Calls' = Calls
  BY DEF CallerStep, SetState, StepReady, StepPaused, StepPlaying, StartDataFlow, SetReached, StepBackward,
         SeekTo, ToNull, ClearAll, Wait, Waited, BusClose, CloseChannel, Post, Send, Calls
<1>c. pc[Job] # "idle" => ip[Job] <= Len(Calls)
  BY DEF Life, Places
<1>d. \A a, b \in Call : InCall(a) /\ InCall(b) => a = b
  BY DEF InCall
<1>1. CASE SetState(Job)
  <2>0. PICK op \in Call \ {"wait"} :
          /\ At(Job, op) /\ tgt' = [tgt EXCEPT ![Job] = Target(op)]
          /\ CASE op = "seek" /\ state \notin {Playing, Paused} ->
                    Returns(Job, "refused") /\ UNCHANGED nxt
             [] state = Target(op) -> AfterState(Job) /\ UNCHANGED nxt
             [] state # Target(op) /\ Target(op) = Null -> Moves(Job, "null1") /\ UNCHANGED nxt
             [] op # "seek" /\ Target(op) > state ->
                    Moves(Job, "step") /\ nxt' = [nxt EXCEPT ![Job] = state + 1]
             [] state = Playing /\ Target(op) = Paused ->
                    Moves(Job, "back") /\ nxt' = [nxt EXCEPT ![Job] = Paused]
    BY <1>1 DEF SetState
  <2>a. \/ op = "seek" /\ state \notin {Playing, Paused}
        \/ state = Target(op)
        \/ state # Target(op) /\ Target(op) = Null
        \/ op # "seek" /\ Target(op) > state
        \/ state = Playing /\ Target(op) = Paused
    BY DEF Target, Call, Null, Ready, Paused, Playing
  <2>b. /\ InCall(op) /\ pc[Job] = "idle" /\ ip[Job] <= Len(Calls) /\ op # "wait" /\ op \in Call
        /\ ~InCall("wait") /\ tgt'[Job] = Target(op) /\ (op = "close" <=> InCall("close"))
    BY <2>0, <1>d DEF At, InCall, Calls, Call
  <2>c. /\ Target(op) \in 0..3 /\ (op = "close" <=> Target(op) = Null)
        /\ UNCHANGED <<program, pipeVars, ev, joined, runVars, busVars>>
    BY <1>1 DEF Target, Call, Null, Playing, Paused, SetState
  <2>1. \/ NextCall
        \/ pc'[Job] = "seek" /\ Elsewhere /\ SameCall /\ InCall("seek")
        \/ pc'[Job] = "busclose" /\ Elsewhere /\ SameCall /\ InCall("close") /\ Target(op) = Null
        \/ pc'[Job] = "null1" /\ Elsewhere /\ SameCall /\ InCall("close") /\ Target(op) = Null
        \/ pc'[Job] = "step" /\ Elsewhere /\ SameCall /\ state < Target(op) /\ nxt'[Job] = state + 1
        \/ pc'[Job] = "back" /\ Elsewhere /\ SameCall /\ Target(op) = Paused /\ nxt'[Job] = Paused
    <3>1. \/ Returns(Job, "refused")
          \/ AfterState(Job)
          \/ Target(op) = Null /\ Moves(Job, "null1")
          \/ Target(op) > state /\ Moves(Job, "step") /\ nxt' = [nxt EXCEPT ![Job] = state + 1]
          \/ Target(op) = Paused /\ Moves(Job, "back") /\ nxt' = [nxt EXCEPT ![Job] = Paused]
      BY <2>0, <2>a
    <3> QED BY <1>a, <1>b, <2>b, <2>c, <3>1, HomeSteps
  <2>3. Places'
    BY <1>b, <2>b, <2>c, <2>1 DEF Life, Places, Elsewhere, SameCall, NextCall
  <2>4. Walking'
    BY <1>a, <1>b, <1>d, <2>b, <2>c, <2>1 DEF Life, Walking, SameCall, NextCall, pipeVars
  <2>5. Runs'
    BY <1>a, <2>b, <2>c, <2>1 DEF Life, Runs, Active, Stopped, Elsewhere, SameCall, NextCall, pipeVars, runVars
  <2> QED BY <2>3, <2>4, <2>5
<1>2. CASE StepReady(Job)
  <2>1. NextCall \/ (pc'[Job] = "set" /\ Elsewhere /\ SameCall)
    BY <1>a, <1>b, <1>c, <1>2, HomeSteps DEF StepReady
  <2>3. Places'
    BY <1>a, <1>b, <1>c, <1>2, <2>1 DEF Life, Places, Elsewhere, SameCall, NextCall, StepReady
  <2>4. Walking'
    BY <1>a, <1>b, <1>c, <1>d, <1>2, <2>1 DEF Life, Walking, Elsewhere, SameCall, NextCall, StepReady, pipeVars
  <2>5. Runs'
    BY <1>a, <1>b, <1>c, <1>d, <1>2, <2>1 DEF Life, Walking, Runs, Active, Stopped, Elsewhere, SameCall, NextCall, StepReady, pipeVars, runVars
  <2> QED BY <2>3, <2>4, <2>5
<1>3. CASE StepPaused(Job)
  <2>1. pc'[Job] = "set" /\ Elsewhere /\ SameCall
    BY <1>a, <1>b, <1>c, <1>3, HomeSteps DEF StepPaused
  <2>3. Places'
    BY <1>a, <1>b, <1>c, <1>3, <2>1 DEF Life, Places, Elsewhere, SameCall, NextCall, StepPaused
  <2>4. Walking'
    BY <1>a, <1>b, <1>c, <1>d, <1>3, <2>1 DEF Life, Walking, Elsewhere, SameCall, NextCall, StepPaused, pipeVars
  <2>5. Runs'
    BY <1>a, <1>b, <1>c, <1>d, <1>3, <2>1 DEF Life, Walking, Runs, Active, Stopped, Elsewhere, SameCall, NextCall, StepPaused, pipeVars, runVars
  <2> QED BY <2>3, <2>4, <2>5
<1>4. CASE SetReached(Job)
  <2>1. pc'[Job] = "post" /\ Elsewhere /\ SameCall
    BY <1>a, <1>b, <1>c, <1>4, HomeSteps DEF SetReached
  <2>3. Places'
    BY <1>a, <1>b, <1>c, <1>4, <2>1 DEF Life, Places, Elsewhere, SameCall, NextCall, SetReached
  <2>4. Walking'
    BY <1>a, <1>b, <1>c, <1>d, <1>4, <2>1 DEF Life, Walking, Elsewhere, SameCall, NextCall, SetReached, pipeVars
  <2>5. Runs'
    BY <1>a, <1>b, <1>c, <1>d, <1>4, <2>1 DEF Life, Walking, Runs, Active, Stopped, Elsewhere, SameCall, NextCall, SetReached, pipeVars, runVars
  <2> QED BY <2>3, <2>4, <2>5
<1>5. CASE StepBackward(Job)
  <2>1. pc'[Job] = "post" /\ Elsewhere /\ SameCall
    BY <1>a, <1>b, <1>c, <1>5, HomeSteps DEF StepBackward
  <2>3. Places'
    BY <1>a, <1>b, <1>c, <1>5, <2>1 DEF Life, Places, Elsewhere, SameCall, NextCall, StepBackward
  <2>4. Walking'
    BY <1>a, <1>b, <1>c, <1>d, <1>5, <2>1 DEF Life, Walking, Elsewhere, SameCall, NextCall, StepBackward, pipeVars
  <2>5. Runs'
    BY <1>a, <1>b, <1>c, <1>d, <1>5, <2>1 DEF Life, Walking, Runs, Active, Stopped, Elsewhere, SameCall, NextCall, StepBackward, pipeVars, runVars
  <2> QED BY <2>3, <2>4, <2>5
<1>6. CASE SeekTo(Job)
  <2>1. pc'[Job] = "post" /\ Elsewhere /\ SameCall
    BY <1>a, <1>b, <1>c, <1>6, HomeSteps DEF SeekTo
  <2>3. Places'
    BY <1>a, <1>b, <1>c, <1>6, <2>1 DEF Life, Places, Elsewhere, SameCall, NextCall, SeekTo
  <2>4. Walking'
    BY <1>a, <1>b, <1>c, <1>d, <1>6, <2>1 DEF Life, Walking, Elsewhere, SameCall, NextCall, SeekTo, pipeVars
  <2>5. Runs'
    BY <1>a, <1>b, <1>c, <1>d, <1>6, <2>1 DEF Life, Walking, Runs, Active, Stopped, Elsewhere, SameCall, NextCall, SeekTo, pipeVars, runVars
  <2> QED BY <2>3, <2>4, <2>5
<1>7. CASE ToNull(Job)
  <2>1. pc'[Job] = "null2" /\ Elsewhere /\ SameCall
    BY <1>a, <1>b, <1>c, <1>7, HomeSteps DEF ToNull
  <2>3. Places'
    BY <1>a, <1>b, <1>c, <1>7, <2>1 DEF Life, Places, Elsewhere, SameCall, NextCall, ToNull
  <2>4. Walking'
    BY <1>a, <1>b, <1>c, <1>d, <1>7, <2>1 DEF Life, Walking, Elsewhere, SameCall, NextCall, ToNull, pipeVars
  <2>5. Runs'
    BY <1>a, <1>b, <1>c, <1>d, <1>7, <2>1 DEF Life, Walking, Runs, Active, Stopped, Elsewhere, SameCall, NextCall, ToNull, pipeVars, runVars
  <2> QED BY <2>3, <2>4, <2>5
<1>8. CASE BusClose(Job)
  <2>1. pc'[Job] = "closech" /\ Elsewhere /\ SameCall
    BY <1>a, <1>b, <1>c, <1>8, HomeSteps DEF BusClose
  <2>3. Places'
    BY <1>a, <1>b, <1>c, <1>8, <2>1 DEF Life, Places, Elsewhere, SameCall, NextCall, BusClose
  <2>4. Walking'
    BY <1>a, <1>b, <1>c, <1>d, <1>8, <2>1 DEF Life, Walking, Elsewhere, SameCall, NextCall, BusClose, pipeVars
  <2>5. Runs'
    BY <1>a, <1>b, <1>c, <1>d, <1>8, <2>1 DEF Life, Walking, Runs, Active, Stopped, Elsewhere, SameCall, NextCall, BusClose, pipeVars, runVars
  <2> QED BY <2>3, <2>4, <2>5
<1>9. CASE StepPlaying(Job)
  <2>1. /\ pc'[Job] \in {"flow", "set"} /\ Elsewhere /\ SameCall
        /\ pc'[Job] = "flow" => runDone = NoRun
    BY <1>a, <1>b, <1>c, <1>9, HomeSteps DEF StepPlaying
  <2>3. Places'
    BY <1>a, <1>b, <1>c, <1>9, <2>1 DEF Life, Places, Elsewhere, SameCall, NextCall, StepPlaying
  <2>4. Walking'
    BY <1>a, <1>b, <1>c, <1>d, <1>9, <2>1 DEF Life, Walking, Elsewhere, SameCall, NextCall, StepPlaying, pipeVars
  <2>5. Runs'
    BY <1>a, <1>b, <1>c, <1>d, <1>9, <2>1 DEF Life, Walking, Runs, Active, Stopped, Elsewhere, SameCall, NextCall, StepPlaying, pipeVars, runVars
  <2> QED BY <2>3, <2>4, <2>5
<1>10. CASE ClearAll(Job)
  <2>1. /\ pc'[Job] \in {"post", "busclose"} /\ Elsewhere /\ SameCall /\ InCall("close")
    <3>1. InCall("close") /\ ~InCall("seek") /\ ip[Job] <= Len(Calls)
      BY <1>c, <1>10 DEF ClearAll, Life, Walking, InCall
    <3> QED BY <1>a, <1>b, <1>10, <3>1, HomeSteps DEF ClearAll
  <2>2. \A r \in RunId : ~Active(r) /\ r # NoRun
    BY <2>1 DEF Life, Runs, RunId
  <2>3. Places'
    BY <1>b, <1>c, <1>10, <2>1 DEF Life, Places, Elsewhere, SameCall, NextCall, ClearAll
  <2>a. ~InCall("wait") /\ tgt[Job] = Null /\ nxt[Job] \in 0..3 /\ tgt' = tgt /\ nxt' = nxt
    BY <1>a, <1>d, <1>10, <2>1 DEF Life, Walking, ClearAll
  <2>b. ~(nxt'[Job] < tgt'[Job])
    BY <2>a
  <2>4. Walking'
    BY <1>a, <1>b, <2>1, <2>a, <2>b DEF Walking, SameCall
  <2>5. Runs'
    BY <1>a, <1>10, <2>1, <2>2 DEF Life, Walking, Runs, Active, Stopped, Elsewhere, SameCall, NextCall, ClearAll, runVars
  <2> QED BY <2>3, <2>4, <2>5
<1>11. CASE Wait(Job)
  <2>0. InCall("wait") /\ ip[Job] <= Len(Calls) /\ joined'[Job] = runDone
    BY <1>11 DEF Wait, At, InCall, Calls
  <2>1. \/ runDone = NoRun /\ NextCall
        \/ runDone # NoRun /\ pc'[Job] = "wait" /\ Elsewhere /\ SameCall
    BY <1>a, <1>b, <1>11, <2>0, HomeSteps DEF Wait
  <2>2. runDone = NoRun => \A r \in RunId : ~Active(r)
    BY DEF Life, Runs, RunId
  <2>3. Places'
    BY <1>a, <1>b, <1>c, <1>11, <2>1, <2>0 DEF Life, Places, Elsewhere, SameCall, NextCall, Wait
  <2>4. Walking'
    BY <1>a, <1>b, <1>c, <1>d, <1>11, <2>1, <2>0 DEF Life, Walking, Elsewhere, SameCall, NextCall, Wait, pipeVars
  <2>5. Runs'
    BY <1>a, <1>b, <1>c, <1>d, <1>11, <2>1, <2>0, <2>2 DEF Life, Walking, Runs, Active, Stopped, Elsewhere, SameCall, NextCall, Wait, pipeVars, runVars
  <2> QED BY <2>3, <2>4, <2>5
<1>12. CASE Waited(Job)
  <2>1. NextCall
    BY <1>a, <1>b, <1>c, <1>12, HomeSteps DEF Waited
  <2>2. \A r \in RunId : ~Active(r)
    <3>1. joined[Job] = runDone /\ over[runDone] /\ runDone \in RunId
      BY <1>12 DEF Waited, Life, Walking, RunId
    <3> QED BY <3>1 DEF Life, Runs, Active
  <2>3. Places'
    BY <1>a, <1>b, <1>c, <1>12, <2>1 DEF Life, Places, Elsewhere, SameCall, NextCall, Waited
  <2>4. Walking'
    BY <1>a, <1>b, <1>c, <1>d, <1>12, <2>1 DEF Life, Walking, Elsewhere, SameCall, NextCall, Waited, pipeVars
  <2>5. Runs'
    BY <1>a, <1>b, <1>c, <1>d, <1>12, <2>1, <2>2 DEF Life, Walking, Runs, Active, Stopped, Elsewhere, SameCall, NextCall, Waited, pipeVars, runVars
  <2> QED BY <2>3, <2>4, <2>5
<1>13. CASE CloseChannel(Job)
  <2>1. NextCall /\ InCall("close")
    BY <1>a, <1>b, <1>c, <1>13, HomeSteps DEF CloseChannel, Life, Walking
  <2>3. Places'
    BY <1>a, <1>b, <1>c, <1>13, <2>1 DEF Life, Places, Elsewhere, SameCall, NextCall, CloseChannel
  <2>4. Walking'
    BY <1>a, <1>b, <1>c, <1>d, <1>13, <2>1 DEF Life, Walking, Elsewhere, SameCall, NextCall, CloseChannel, pipeVars
  <2>5. Runs'
    BY <1>a, <1>b, <1>c, <1>d, <1>13, <2>1 DEF Life, Walking, Runs, Active, Stopped, Elsewhere, SameCall, NextCall, CloseChannel, pipeVars, runVars
  <2> QED BY <2>3, <2>4, <2>5
<1>14. CASE StartDataFlow(Job)
  <2>0. PICK r \in RunId :
          /\ pc[r] = "off" /\ runDone' = r
          /\ pc' = [a \in Actor |-> IF a = Job THEN "set" ELSE IF a = r \/ (a \in Helper /\ pc[a] = "off")
                                    THEN "run" ELSE pc[a]]
    BY <1>14 DEF StartDataFlow
  <2>1. /\ pc'[Job] = "set" /\ pc'[r] = "run" /\ \A q \in RunId \ {r} : pc'[q] = pc[q]
        /\ SameCall /\ \A h \in Helper : pc'[h] \in {"run", pc[h]}
    <3>1. r \notin Helper /\ \A q \in RunId : q \notin Helper
      BY PipelineAssumption DEF RunId
    <3> QED BY <1>14, <2>0, <3>1 DEF StartDataFlow, SameCall, InCall, Calls
  <2>2. pc[Job] = "flow" /\ runDone = NoRun /\ state # Null /\ ~InCall("close") /\ ~InCall("wait") /\ nxt[Job] = state + 1
    BY <1>14 DEF StartDataFlow, Life, Walking
  <2>a. UNCHANGED <<state, runErr, over, outcome, ev, nxt, tgt, joined, ip>>
    BY <1>14 DEF StartDataFlow, runVars
  <2>3. Places'
    <3>1. \A q \in RunId : pc'[q] \in {"off", "run", "store", "post", "send", "done", "gone"}
      BY <2>1 DEF Life, Places
    <3>2. \A h \in Helper : pc'[h] \in {"off", "run", "post", "send", "gone"} /\ ev'[h] = "META"
      BY <2>1, <2>a DEF Life, Places
    <3>3. ip'[Job] >= 1 /\ ip'[Job] <= Len(Calls')
      BY <1>b, <1>c, <2>2, <2>a DEF Life, Places
    <3> QED BY <2>1, <3>1, <3>2, <3>3 DEF Places
  <2>4. Walking'
    <3>1. state < tgt[Job]
      BY <2>2 DEF Life, Walking
    <3>2. ~InCall("close")' /\ ~InCall("wait")'
      BY <1>a, <2>1, <2>2 DEF SameCall
    <3> QED BY <2>1, <2>2, <2>a, <3>1, <3>2 DEF Walking
  <2>5. Runs'
    <3>1. \A q \in RunId : ~Active(q) /\ q # NoRun
      BY <2>2 DEF Life, Runs, RunId
    <3>2. \A q \in RunId : over'[q] => pc'[q] = "gone"
      BY <2>0, <2>1, <2>a DEF Life, Runs
    <3>3. \A q \in RunId : Active(q)' => runDone' = q /\ state' # Null
      BY <2>0, <2>1, <2>2, <2>a, <3>1 DEF Active
    <3>4. \A q \in RunId : pc'[q] = "store" \/ Stopped(q)' => outcome'[q] # "none"
      BY <2>1, <2>a DEF Life, Runs, Stopped
    <3>5. \A q \in RunId : Stopped(q)' /\ runDone' = q => runErr' = outcome'[q]
      BY <2>0, <2>1 DEF Stopped
    <3>6. ~InCall("close")'
      BY <1>a, <2>1, <2>2 DEF SameCall
    <3> QED BY <3>2, <3>3, <3>4, <3>5, <3>6 DEF Runs
  <2> QED BY <2>3, <2>4, <2>5
<1>15. CASE Post(Job)
  <2>1. CASE closing
    BY <1>15, <2>1, CallerPosted DEF Post
  <2>2. CASE ~closing
    <3>1. pc'[Job] = "send" /\ Elsewhere /\ SameCall /\ nxt' = nxt /\ pc[Job] = "post"
      BY <1>15, <2>2 DEF Post, Elsewhere, SameCall, InCall, Calls
    <3>3. Places'
      BY <1>b, <1>c, <1>15, <3>1 DEF Life, Places, Elsewhere, SameCall, NextCall, Post
    <3>4. Walking'
      BY <1>a, <1>b, <1>c, <1>15, <3>1 DEF Life, Walking, Elsewhere, SameCall, NextCall, Post, pipeVars
    <3>5. Runs'
      BY <1>a, <1>15, <3>1 DEF Life, Walking, Runs, Active, Stopped, Elsewhere, SameCall, NextCall, Post, pipeVars, runVars
    <3> QED BY <3>3, <3>4, <3>5
  <2> QED BY <2>1, <2>2
<1>16. CASE Send(Job)
  BY <1>16, CallerPosted DEF Send
<1> QED BY <1>1, <1>2, <1>3, <1>4, <1>5, <1>6, <1>7, <1>8, <1>9, <1>10, <1>11, <1>12, <1>13, <1>14, <1>15, <1>16 DEF CallerStep

(* A goroutine of a run, or one beside it, takes a step.                   *)
LEMMA OthersLive ==
  ASSUME OneCaller, Life, NEW a \in RunId \cup Helper,
         RunStep(a) \/ HelperStep(a) \/ HasNews(a)
  PROVE  Places' /\ Walking' /\ Runs'
<1> USE Home
<1>a. a \in Actor /\ a # Job /\ a \notin Caller /\ \A r \in RunId : r \notin Helper
  BY PipelineAssumption DEF OneCaller, RunId
<1>b. /\ program' = program /\ ip' = ip /\ tgt' = tgt /\ joined' = joined /\ state' = state
      /\ runDone' = runDone
  BY <1>a DEF RunStep, HelperStep, RunEnds, StoreErr, CloseDone, HelperStops, HasNews, Post, Send, AfterPost,
         pipeVars, runVars
<1>c. /\ nxt' = nxt /\ \A b \in Actor \ {a} : pc'[b] = pc[b] /\ ev'[b] = ev[b]
  BY <1>a DEF RunStep, HelperStep, RunEnds, StoreErr, CloseDone, HelperStops, HasNews, Post, Send, AfterPost,
         Life, PlTypeOK
<1>d. SameCall /\ pc'[Job] = pc[Job] /\ Calls' = Calls
  BY <1>a, <1>b, <1>c DEF SameCall, InCall, Calls
<1>e. /\ {"close", "wait"} \subseteq Call
  BY DEF Call
<1>3. Walking'
  <2>1. ev'[Job] = ev[Job]
    BY <1>a, <1>c
  <2> QED BY <1>b, <1>c, <1>d, <1>e, <2>1 DEF Life, Walking, SameCall
<1>4. CASE a \in RunId
  <2>1. /\ Active(a) /\ runDone = a /\ state # Null /\ ~InCall("close")
    <3>1. pc[a] \in {"run", "store", "post", "send", "done"}
      BY <1>4, <1>a DEF RunStep, HelperStep, RunEnds, StoreErr, CloseDone, HelperStops, HasNews, Post, Send
    <3> QED BY <1>4, <3>1 DEF Life, Runs, Active
  <2>2. \/ /\ pc[a] = "run" /\ pc'[a] = "store" /\ outcome'[a] # "none" /\ UNCHANGED <<runErr, over>>
        \/ /\ pc[a] = "run" /\ pc'[a] = "post" /\ ev'[a] = "META" /\ UNCHANGED <<runErr, over>>
        \/ /\ pc[a] = "store" /\ pc'[a] = "post" /\ runErr' = outcome[a] /\ outcome' = outcome /\ over' = over
        \/ /\ pc[a] \in {"post", "send"} /\ pc'[a] \in {"run", "done", "send"} /\ ev'[a] = ev[a]
           /\ ev[a] \in Terminal => pc'[a] \in {"done", "send"}
           /\ ev[a] \notin Terminal => pc'[a] \in {"run", "send"}
           /\ UNCHANGED <<runErr, over, outcome>>
        \/ /\ pc[a] = "done" /\ pc'[a] = "gone" /\ UNCHANGED <<runErr, outcome>>
           /\ \A q \in RunId \ {a} : over'[q] = over[q]
    <3>1. RunStep(a) \/ HasNews(a)
      BY <1>4, <1>a DEF HelperStep, HelperStops, RunStep
    <3>2. /\ pc \in [Actor -> Place] /\ over \in [RunId -> BOOLEAN] /\ ev \in [Actor -> Event]
          /\ outcome \in [RunId -> Result]
      BY DEF Life, PlTypeOK, Result
    <3>3. CASE RunEnds(a)
      <4>1. outcome'[a] # "none"
        BY <1>4, <3>2, <3>3 DEF RunEnds, Outcome
      <4> QED BY <1>a, <3>2, <3>3, <4>1 DEF RunEnds, pipeVars
    <3>4. CASE StoreErr(a)
      BY <1>a, <3>2, <3>4 DEF StoreErr, runVars
    <3>5. CASE Post(a) \/ Send(a)
      BY <1>a, <3>2, <3>5 DEF Post, Send, AfterPost, pipeVars, runVars
    <3>6. CASE CloseDone(a)
      BY <1>a, <3>2, <3>6 DEF CloseDone, pipeVars
    <3>7. CASE HasNews(a)
      BY <1>a, <3>2, <3>7 DEF HasNews, pipeVars, runVars
    <3> QED BY <3>1, <3>3, <3>4, <3>5, <3>6, <3>7 DEF RunStep
  <2>a. \A q \in RunId \ {a} : outcome'[q] = outcome[q]
    BY DEF RunStep, HelperStep, RunEnds, StoreErr, CloseDone, HelperStops, HasNews, Post, Send, runVars,
           Life, PlTypeOK
  <2>b. \A q \in RunId \ {a} : pc'[q] = pc[q] /\ ev'[q] = ev[q] /\ ~Active(q)
    BY <1>c, <2>1 DEF Life, Runs
  <2>3. Places'
    BY <1>4, <1>a, <1>b, <1>c, <1>d, <2>2 DEF Life, Places
  <2>4. "META" \notin Terminal
    BY DEF Terminal
  <2>5. Runs'
    <3>1. \A q \in RunId : over'[q] => pc'[q] = "gone"
      BY <1>4, <2>2, <2>b DEF Life, Runs
    <3>2. \A q \in RunId : Active(q)' => runDone' = q /\ state' # Null
      BY <1>b, <2>1, <2>b DEF Active
    <3>3. \A q \in RunId : pc'[q] = "store" \/ Stopped(q)' => outcome'[q] # "none"
      BY <1>4, <2>2, <2>4, <2>a, <2>b DEF Life, Runs, Stopped
    <3>4. \A q \in RunId : Stopped(q)' /\ runDone' = q => runErr' = outcome'[q]
      BY <1>4, <1>b, <2>1, <2>2, <2>4 DEF Life, Runs, Stopped
    <3>5. ~InCall("close")'
      BY <1>d, <1>e, <2>1 DEF SameCall
    <3> QED BY <3>1, <3>2, <3>3, <3>4, <3>5 DEF Runs
  <2> QED BY <1>3, <2>3, <2>5
<1>5. CASE a \in Helper
  <2>1. pc'[a] \in {"run", "post", "send", "gone"} /\ UNCHANGED <<runErr, over, outcome>>
    <3>1. HelperStep(a) \/ HasNews(a)
      BY <1>5, <1>a DEF RunStep, HelperStep, RunEnds, StoreErr, CloseDone
    <3>2. ev[a] \notin Terminal
      BY <1>5 DEF Life, Places, Terminal
    <3> QED BY <1>a, <3>1, <3>2 DEF HelperStep, HelperStops, HasNews, Post, Send, AfterPost, pipeVars, runVars
  <2>2. \A q \in RunId : pc'[q] = pc[q] /\ ev'[q] = ev[q]
    BY <1>5, <1>a, <1>c
  <2>3. Places'
    <3>1. ev'[a] = "META" /\ \A h \in Helper \ {a} : pc'[h] = pc[h] /\ ev'[h] = ev[h]
      BY <1>5, <1>a, <1>c DEF RunStep, HelperStep, RunEnds, StoreErr, CloseDone, HelperStops, HasNews, Post, Send,
             Life, Places
    <3> QED BY <1>5, <1>a, <1>b, <1>d, <2>1, <2>2, <3>1 DEF Life, Places
  <2>4. Runs'
    BY <1>b, <1>d, <1>e, <2>1, <2>2 DEF Life, Runs, Active, Stopped, SameCall
  <2> QED BY <1>3, <2>3, <2>4
<1> QED BY <1>4, <1>5

(***************************************************************************)
(* Types: what a subscriber or the history holds are events there were.    *)
(***************************************************************************)
Bounded ==
    /\ final <= count /\ Len(hist) <= HistCap /\ ticks \in 0..MaxTicks
    /\ pump \in {"take", "publish", "gone"} /\ hand \in Event
    /\ \A s \in Sub : /\ last[s] <= count /\ Len(ch[s]) <= HistCap + 1
                      /\ \A i \in 1..Len(ch[s]) : ch[s][i] <= count

LEMMA InitTypes == Init => PlTypeOK /\ Stored /\ Bounded
<1> SUFFICES ASSUME Init PROVE PlTypeOK /\ Stored /\ Bounded
  OBVIOUS
<1>1. <<>> \in Seq(Event) /\ Len(<<>>) = 0
  BY EmptySeq
<1>2. pc \in [Actor -> Place] /\ \A r \in RunId : pc[r] = "off"
  <2>1. \A r \in RunId : r \in Actor /\ r \notin Caller /\ r \notin Helper
    BY PipelineAssumption DEF Actor, RunId
  <2> QED BY <2>1 DEF Init, PlInit, Place
<1>3. PlTypeOK
  <2>1. {0, MaxRuns} \subseteq 0..MaxRuns /\ 0 \in 0..MaxPosts /\ 0 <= BusCap /\ 1 \in Nat
    BY PipelineAssumption
  <2>2. Null \in Null..Playing /\ Null = 0 /\ NoRun = 0
    BY DEF Null, Playing, NoRun
  <2>3. /\ state \in Null..Playing /\ pauseCh \in {"nil", "open", "closed"} /\ seekPending \in BOOLEAN
        /\ cancel \in 0..MaxRuns /\ runDone \in 0..MaxRuns /\ runErr \in Outcome
    BY <2>1, <2>2 DEF Init, PlInit, Outcome
  <2>4. /\ program \in [Caller -> Programs] /\ ip \in [Caller -> Nat]
        /\ tgt \in [Caller -> Null..Playing] /\ nxt \in [Caller -> Null..Playing]
        /\ ev \in [Actor -> Event] /\ ret \in [Caller -> Outcome \cup {"none", "refused"}]
    BY <2>1, <2>2 DEF Init, PlInit, Event
  <2>5. /\ joined \in [Caller -> 0..MaxRuns] /\ outcome \in [RunId -> Outcome \cup {"none"}]
        /\ over \in [RunId -> BOOLEAN] /\ ctx \in [RunId -> BOOLEAN] /\ parent \in BOOLEAN
    BY <2>1, <2>2 DEF Init, PlInit
  <2>6. /\ bus \in Seq(Event) /\ Len(bus) <= BusCap /\ closing \in BOOLEAN /\ closed \in BOOLEAN
        /\ dropped \in BOOLEAN /\ posts \in 0..MaxPosts /\ panic \in BOOLEAN
    BY <1>1, <2>1 DEF Init, PlInit
  <2> QED BY <1>2, <2>3, <2>4, <2>5, <2>6 DEF PlTypeOK, Place
<1>4. Bounded
  BY <1>1, JobAssumption DEF Init, Bounded, Event
<1> QED BY <1>2, <1>3, <1>4 DEF Stored

(* The job takes events from the bus and leaves the rest alone.             *)
LEMMA PlTypeNext ==
  ASSUME PlTypeOK, Stored, [Next]_vars
  PROVE  PlTypeOK' /\ Stored'
<1>1. CASE PlNext
  BY <1>1, PlTypeStep
<1>2. CASE UNCHANGED plVars
  BY <1>2 DEF PlTypeOK, Stored, plVars, pipeVars, callVars, runVars, busVars
<1>3. CASE PumpTake
  <2>1. UNCHANGED <<pipeVars, callVars, runVars, closing, closed, dropped, posts, panic>>
    BY <1>3 DEF PumpTake
  <2>2. bus' \in Seq(Event) /\ Len(bus') <= BusCap
    <3>1. bus \in Seq(Event) /\ bus # <<>> /\ bus' = Tail(bus) /\ Len(bus) <= BusCap
      BY <1>3 DEF PumpTake, PlTypeOK
    <3>2. Tail(bus) \in Seq(Event) /\ Len(Tail(bus)) = Len(bus) - 1 /\ Len(bus) \in Nat
      BY <3>1, HeadTailProperties, LenProperties
    <3> QED BY <3>1, <3>2, PipelineAssumption
  <2> QED BY <2>1, <2>2 DEF PlTypeOK, Stored, pipeVars, callVars, runVars
<1> QED
  BY <1>1, <1>2, <1>3 DEF Next, Pump, PumpPublish, PumpEnds, Tick, JobEnds, Subscriber, Subscribe, Joins,
                          Receive, Unsubscribe, vars

LEMMA LifeStep ==
  ASSUME OneCaller, Life, [Next]_vars
  PROVE  Life'
<1>1. ASSUME PlTypeOK', Stored', Places', Walking', Runs' PROVE Life'
  BY <1>1 DEF Life
<1>2. PlTypeOK' /\ Stored'
  BY PlTypeNext DEF Life
<1>3. CASE PlNext
  <2>1. CASE \E c \in Caller : CallerStep(c)
    BY <1>1, <1>2, <2>1, CallerLives DEF OneCaller
  <2>2. ASSUME NEW a \in RunId \cup Helper, RunStep(a) \/ HelperStep(a) \/ HasNews(a) PROVE Life'
    BY <1>1, <1>2, <2>2, OthersLive
  <2>3. CASE CancelParent
    <3>1. UNCHANGED <<pipeVars, callVars, outcome, over>>
      BY <2>3 DEF CancelParent
    <3>2. Places' /\ Walking' /\ Runs'
      BY <3>1 DEF Life, Places, Walking, Runs, Active, Stopped, InCall, Calls, pipeVars, callVars
    <3> QED BY <1>1, <1>2, <3>2
  <2> QED BY <1>3, <2>1, <2>2, <2>3 DEF PlNext, News
<1>4. CASE UNCHANGED <<pipeVars, callVars, runVars>>
  <2>1. Places' /\ Walking' /\ Runs'
    BY <1>4 DEF Life, Places, Walking, Runs, Active, Stopped, InCall, Calls, pipeVars, callVars, runVars
  <2> QED BY <1>1, <1>2, <2>1
<1> QED
  BY <1>3, <1>4 DEF Next, Pump, PumpTake, PumpPublish, PumpEnds, Tick, JobEnds, Subscriber, Subscribe, Joins,
                    Receive, Unsubscribe, vars, plVars

LEMMA InitLife == ASSUME OneCaller, Init PROVE Life
<1>1. program \in [Caller -> Programs] /\ Job \in Caller /\ \A c \in Caller : ip[c] = 1
  BY DEF Init, PlInit, OneCaller
<1>2. \A a \in Actor : pc[a] = IF a \in Caller THEN "idle" ELSE IF a \in Helper THEN pc[a] ELSE "off"
  BY PipelineAssumption DEF Init, PlInit
<1>3. \A h \in Helper : pc[h] \in {"off", "gone"} /\ h \in Actor /\ h \notin Caller
  BY PipelineAssumption DEF Init, PlInit, Actor
<1>4. \A r \in RunId : r \in Actor /\ r \notin Caller /\ r \notin Helper /\ pc[r] = "off"
  <2>1. \A r \in RunId : r \in Actor /\ r \notin Caller /\ r \notin Helper
    BY PipelineAssumption DEF Actor, RunId
  <2> QED BY <1>2, <2>1
<1>5. PlTypeOK
  BY InitTypes
<1>6. pc[Job] = "idle" /\ Job \in Actor
  BY <1>1, <1>2, Actors
<1>7. Places
  <2>1. \A h \in Helper : ev[h] = "META"
    BY <1>3 DEF Init, PlInit
  <2> QED BY <1>1, <1>3, <1>4, <1>6, <2>1 DEF Places
<1>8. Stored /\ Walking
  BY <1>4, <1>6 DEF Stored, Walking
<1>9. ~InCall("close")
  <2>1. WaitsToClose(Calls) /\ ip[Job] = 1
    BY <1>1 DEF OneCaller, Calls
  <2> QED BY <2>1 DEF WaitsToClose, InCall
<1>10. Runs
  BY <1>4, <1>9 DEF Runs, Active, Stopped, Init, PlInit
<1> QED BY <1>5, <1>7, <1>8, <1>10 DEF Life

(* A caller that waits before it closes finds the pipeline idle whenever it *)
(* is in NULL: no goroutine of a data flow outlives the state, for any      *)
(* program of such a caller (seeks, pauses, several runs).                  *)
THEOREM NullWhenIdle == OneCaller => (Spec => []NullIsIdle)
<1> SUFFICES ASSUME OneCaller PROVE Spec => []NullIsIdle
  OBVIOUS
<1>1. Init => Life
  BY InitLife
<1>2. Life /\ [Next]_vars => Life'
  BY LifeStep
<1>3. Life => NullIsIdle
  BY DEF Life, Runs, Active, NullIsIdle
<1> QED BY <1>1, <1>2, <1>3, PTL DEF Spec

(* A sequence is one over any set that has its elements. *)
LEMMA Narrower ==
  ASSUME NEW q \in Seq(Nat), NEW S, \A i \in 1..Len(q) : q[i] \in S
  PROVE  q \in Seq(S)
<1>1. Len(q) \in Nat /\ DOMAIN q = 1..Len(q) /\ q \in [1..Len(q) -> Nat]
  BY LenProperties
<1>2. q \in [1..Len(q) -> S]
  BY <1>1
<1> QED BY <1>1, <1>2, SeqDef

LEMMA KeepBounded ==
  ASSUME IInv, Bounded, NEW e, Keep(e), UNCHANGED last
  PROVE  /\ Len(hist') <= HistCap
         /\ \A s \in Sub : /\ last'[s] <= count' /\ Len(ch'[s]) <= HistCap + 1
                           /\ \A i \in 1..Len(ch'[s]) : ch'[s][i] <= count'
<1>1. JobTyped /\ count \in Nat /\ count' = count + 1 /\ count + 1 \in Nat /\ HistCap \in Nat \ {0}
  BY JobAssumption DEF IInv, JobTyped, Keep
<1>2. Len(hist') <= HistCap
  <2> DEFINE h == Append(hist, count + 1)
  <2>1. h \in Seq(Nat) /\ Len(hist) \in Nat /\ Len(h) = Len(hist) + 1 /\ h # <<>>
    BY <1>1, Appended DEF JobTyped
  <2>2. hist' = Capped(h) /\ Len(hist) <= HistCap
    BY DEF Keep, Bounded
  <2> HIDE DEF h
  <2>3. Len(Tail(h)) = Len(h) - 1
    BY <2>1, Shortened
  <2> QED BY <1>1, <2>1, <2>2, <2>3 DEF Capped
<1>3. ASSUME NEW s \in Sub
      PROVE  /\ last'[s] <= count' /\ Len(ch'[s]) <= HistCap + 1
             /\ \A i \in 1..Len(ch'[s]) : ch'[s][i] <= count'
  <2>1. /\ ch[s] \in Seq(Nat) /\ Len(ch[s]) \in Nat /\ last[s] \in Nat
        /\ last[s] <= count /\ Len(ch[s]) <= HistCap + 1
        /\ \A i \in 1..Len(ch[s]) : ch[s][i] <= count /\ ch[s][i] \in Nat
    BY <1>1, LenProperties, ElementOfSeq DEF JobTyped, Bounded
  <2>2. /\ Len(Append(ch[s], count + 1)) = Len(ch[s]) + 1
        /\ Append(ch[s], count + 1)[Len(ch[s]) + 1] = count + 1
        /\ \A i \in 1..Len(ch[s]) : Append(ch[s], count + 1)[i] = ch[s][i]
    BY <1>1, <2>1, Appended
  <2>3. ch'[s] = ch[s] \/ (ch'[s] = Append(ch[s], count + 1) /\ Len(ch[s]) < HistCap + 1)
    BY DEF Keep, Room
  <2>4. CASE ch'[s] = ch[s]
    BY <1>1, <2>1, <2>4
  <2>5. CASE ch'[s] = Append(ch[s], count + 1) /\ Len(ch[s]) < HistCap + 1
    <3>1. Len(ch'[s]) = Len(ch[s]) + 1 /\ Len(ch'[s]) <= HistCap + 1
      BY <1>1, <2>1, <2>2, <2>5
    <3>2. ASSUME NEW i \in 1..Len(ch'[s]) PROVE ch'[s][i] <= count'
      <4>1. CASE i = Len(ch[s]) + 1
        BY <1>1, <2>2, <2>5, <4>1
      <4>2. CASE i # Len(ch[s]) + 1
        <5>1. i \in 1..Len(ch[s])
          BY <2>1, <3>1, <4>2
        <5> QED BY <1>1, <2>1, <2>2, <2>5, <5>1
      <4> QED BY <4>1, <4>2
    <3> QED BY <1>1, <2>1, <3>1, <3>2
  <2> QED BY <2>3, <2>4, <2>5
<1> QED BY <1>2, <1>3

LEMMA BoundedStep ==
  ASSUME IInv, PlTypeOK, Bounded, [Next]_vars
  PROVE  Bounded'
<1>a. JobTyped /\ count \in Nat /\ final \in Nat /\ HistCap \in Nat \ {0} /\ MaxTicks \in Nat
  BY JobAssumption DEF IInv, JobTyped
<1>b. \A s \in Sub : ch[s] \in Seq(Nat) /\ Len(ch[s]) \in Nat /\ last[s] \in Nat
  BY <1>a, LenProperties DEF JobTyped
<1>1. CASE UNCHANGED jobVars
  BY <1>1 DEF Bounded, jobVars, histVars, subVars
<1>2. CASE PumpTake
  <2>1. bus \in Seq(Event) /\ bus # <<>> /\ hand' = Head(bus)
    BY <1>2 DEF PumpTake, PlTypeOK
  <2>2. hand' \in Event
    BY <2>1, HeadTailProperties
  <2> QED BY <1>2, <2>2 DEF Bounded, PumpTake, histVars, subVars
<1>3. CASE PumpPublish
  <2>1. final' <= count'
    BY <1>3, <1>a DEF PumpPublish, Keep, Bounded
  <2>2. Keep(hand) /\ UNCHANGED last
    BY <1>3 DEF PumpPublish
  <2> QED BY <1>3, <2>1, <2>2, KeepBounded DEF PumpPublish, Bounded
<1>4. CASE PumpEnds
  BY <1>4 DEF PumpEnds, Bounded, histVars, subVars
<1>5. CASE Tick
  <2>1. final' <= count' /\ ticks' \in 0..MaxTicks
    BY <1>5, <1>a DEF Tick, Keep, Bounded
  <2>2. Keep("METRICS") /\ UNCHANGED last
    BY <1>5 DEF Tick
  <2> QED BY <1>5, <2>1, <2>2, KeepBounded DEF Tick, Bounded
<1>6. CASE JobEnds
  <2>1. final' <= count'
    BY <1>6, <1>a DEF JobEnds, Keep
  <2>2. Keep("DONE") /\ UNCHANGED last
    BY <1>6 DEF JobEnds
  <2> QED BY <1>6, <2>1, <2>2, KeepBounded DEF JobEnds, Bounded
<1>7. ASSUME NEW s \in Sub, Subscribe(s) PROVE Bounded'
  <2>1. /\ ch' = [ch EXCEPT ![s] = Replay] /\ last' = [last EXCEPT ![s] = count - Len(hist)]
        /\ UNCHANGED <<status, histVars, final, pump, hand, ticks>>
    BY <1>7 DEF Subscribe, Joins
  <2>2. hist \in Seq(Nat) /\ Len(hist) \in Nat /\ Len(hist) <= HistCap /\ count - Len(hist) <= count
    BY <1>a, LenProperties DEF JobTyped, Bounded
  <2>3. \A i \in 1..Len(hist) : hist[i] <= count
    BY <1>a, <2>2 DEF IInv, Latest
  <2>4. /\ Len(Append(hist, 0)) = Len(hist) + 1 /\ Append(hist, 0)[Len(hist) + 1] = 0
        /\ \A i \in 1..Len(hist) : Append(hist, 0)[i] = hist[i]
    BY <2>2, Appended
  <2>5. Len(Replay) <= HistCap + 1 /\ \A i \in 1..Len(Replay) : Replay[i] <= count
    <3>1. CASE Replay = hist
      BY <1>a, <2>2, <2>3, <3>1
    <3>2. CASE Replay = Append(hist, 0)
      <4>1. Len(Replay) <= HistCap + 1
        BY <1>a, <2>2, <2>4, <3>2
      <4>2. ASSUME NEW i \in 1..Len(Replay) PROVE Replay[i] <= count
        <5>1. i = Len(hist) + 1 \/ i \in 1..Len(hist)
          BY <2>2, <2>4, <3>2
        <5> QED BY <1>a, <2>3, <2>4, <3>2, <5>1
      <4> QED BY <4>1, <4>2
    <3> QED BY <3>1, <3>2 DEF Replay, SyntheticDone
  <2>6. ASSUME NEW t \in Sub
        PROVE  /\ last'[t] <= count /\ Len(ch'[t]) <= HistCap + 1
               /\ \A i \in 1..Len(ch'[t]) : ch'[t][i] <= count
    BY <1>a, <2>1, <2>2, <2>5 DEF Bounded, JobTyped
  <2> QED BY <2>1, <2>6 DEF Bounded, histVars
<1>8. ASSUME NEW s \in Sub, Receive(s) PROVE Bounded'
  <2>1. /\ ch[s] # <<>> /\ ch' = [ch EXCEPT ![s] = Tail(ch[s])] /\ last' = [last EXCEPT ![s] = Head(ch[s])]
        /\ UNCHANGED <<histVars, final, pump, hand, ticks>>
    BY <1>8 DEF Receive
  <2>2. /\ Head(ch[s]) = ch[s][1] /\ Len(Tail(ch[s])) = Len(ch[s]) - 1 /\ Len(ch[s]) \in Nat \ {0}
        /\ \A i \in 1..(Len(ch[s]) - 1) : Tail(ch[s])[i] = ch[s][i + 1]
    BY <1>b, <2>1, Shortened
  <2>3. Len(ch[s]) <= HistCap + 1 /\ \A i \in 1..Len(ch[s]) : ch[s][i] <= count
    BY DEF Bounded
  <2>4. Head(ch[s]) <= count
    <3>1. 1 \in 1..Len(ch[s])
      BY <2>2
    <3> QED BY <2>2, <2>3, <3>1
  <2>5. Len(Tail(ch[s])) <= HistCap + 1
    BY <1>a, <2>2, <2>3
  <2>6. ASSUME NEW i \in 1..Len(Tail(ch[s])) PROVE Tail(ch[s])[i] <= count
    <3>1. i \in 1..(Len(ch[s]) - 1) /\ i + 1 \in 1..Len(ch[s])
      BY <2>2
    <3> QED BY <2>2, <2>3, <3>1
  <2>7. ASSUME NEW t \in Sub
        PROVE  /\ last'[t] <= count /\ Len(ch'[t]) <= HistCap + 1
               /\ \A i \in 1..Len(ch'[t]) : ch'[t][i] <= count
    BY <1>a, <2>1, <2>4, <2>5, <2>6 DEF Bounded, JobTyped
  <2> QED BY <2>1, <2>7 DEF Bounded, histVars
<1>9. ASSUME NEW s \in Sub, Unsubscribe(s) PROVE Bounded'
  <2>1. /\ ch' = [ch EXCEPT ![s] = <<>>] /\ last' = [last EXCEPT ![s] = 0]
        /\ UNCHANGED <<histVars, final, pump, hand, ticks>>
    BY <1>9 DEF Unsubscribe
  <2>2. Len(<<>>) = 0
    OBVIOUS
  <2>3. ASSUME NEW t \in Sub
        PROVE  /\ last'[t] <= count /\ Len(ch'[t]) <= HistCap + 1
               /\ \A i \in 1..Len(ch'[t]) : ch'[t][i] <= count
    BY <1>a, <2>1, <2>2 DEF Bounded, JobTyped
  <2> QED BY <2>1, <2>3 DEF Bounded, histVars
<1>10. CASE UNCHANGED vars
  BY <1>1, <1>10 DEF vars
<1> QED
  BY <1>1, <1>2, <1>3, <1>4, <1>5, <1>6, <1>7, <1>8, <1>9, <1>10 DEF Next, Pump, Subscriber

(* Every variable of the pipeline, the job and its subscribers keeps its    *)
(* type: the bus, the history and the channels stay within their capacity,  *)
(* and hold events there were.                                              *)
THEOREM TypeCorrect == Spec => []TypeOK
<1>1. Init => PlTypeOK /\ Stored /\ Bounded
  BY InitTypes
<1>2. IInv /\ (PlTypeOK /\ Stored /\ Bounded) /\ [Next]_vars => (PlTypeOK /\ Stored /\ Bounded)'
  BY PlTypeNext, BoundedStep
<1>3. IInv /\ PlTypeOK /\ Stored /\ Bounded => TypeOK
  <2> SUFFICES ASSUME IInv, PlTypeOK, Bounded PROVE TypeOK
    OBVIOUS
  <2>1. JobTyped /\ count \in Nat /\ final \in Nat
    BY DEF IInv, JobTyped
  <2>2. hist \in Seq(1..count)
    <3>1. hist \in Seq(Nat) /\ Len(hist) \in Nat /\ Len(hist) <= count
      BY <2>1, LenProperties DEF JobTyped, IInv, Latest
    <3>2. ASSUME NEW i \in 1..Len(hist) PROVE hist[i] \in 1..count
      <4>1. hist[i] = count - Len(hist) + i
        BY DEF IInv, Latest
      <4> QED BY <2>1, <3>1, <4>1
    <3> QED BY <3>1, <3>2, Narrower
  <2>3. ch \in [Sub -> Seq(0..count)]
    <3>1. ASSUME NEW s \in Sub PROVE ch[s] \in Seq(0..count)
      <4>1. ch[s] \in Seq(Nat) /\ Len(ch[s]) \in Nat
        BY <2>1, LenProperties DEF JobTyped
      <4>2. ASSUME NEW i \in 1..Len(ch[s]) PROVE ch[s][i] \in 0..count
        <5>1. ch[s][i] \in Nat /\ ch[s][i] <= count
          BY <4>1, ElementOfSeq DEF Bounded
        <5> QED BY <2>1, <5>1
      <4> QED BY <4>1, <4>2, Narrower
    <3> QED BY <2>1, <3>1 DEF JobTyped
  <2>4. last \in [Sub -> 0..count]
    <3>1. \A s \in Sub : last[s] \in 0..count
      BY <2>1 DEF JobTyped, Bounded
    <3> QED BY <2>1, <3>1 DEF JobTyped
  <2>5. final \in 0..count
    BY <2>1 DEF Bounded
  <2> QED BY <2>1, <2>2, <2>3, <2>4, <2>5 DEF TypeOK, JobTyped, Bounded
<1> QED BY <1>1, <1>2, <1>3, Invariance, PTL DEF Spec

(***************************************************************************)
(* The program of a job: Run(ctx), with what a library user may call while *)
(* it waits.                                                               *)
(***************************************************************************)
RunsOnce(p) ==
    /\ Len(p) >= 3 /\ p[1] = "start" /\ p[Len(p) - 1] = "wait" /\ p[Len(p)] = "close"
    /\ \A i \in 2..Len(p) - 2 : p[i] \in {"pause", "resume", "seek"}
OneRun == Caller = {Job} /\ \A p \in Programs : RunsOnce(p)

(* The caller has waited for the run, and returns its result.              *)
Joined ==
    /\ joined[Job] \in RunId /\ pc[joined[Job]] = "gone"
    /\ outcome[joined[Job]] # "none" /\ ret[Job] = outcome[joined[Job]]

(* How far the program has come.                                           *)
Course ==
    /\ ip[Job] <= Len(Calls) + 1
    /\ ip[Job] = 1 =>
         /\ pc[Job] = "idle" => state = Null
         /\ pc[Job] # "idle" => tgt[Job] = Playing /\ pc[Job] \in {"step", "flow", "set", "post", "send"}
         /\ pc[Job] \in {"post", "send"} => nxt[Job] = state /\ ev[Job] # "SEEK"
    /\ ip[Job] < Len(Calls) /\ pc[Job] \in {"set", "post", "send"} /\ nxt[Job] = Playing => runDone # NoRun
    /\ ip[Job] \in 2..Len(Calls) - 1 => runDone # NoRun /\ state \in {Paused, Playing}
    /\ ip[Job] < Len(Calls) /\ pc[Job] # "wait" => joined[Job] = NoRun
    /\ ip[Job] = Len(Calls) => Joined
    /\ ip[Job] = Len(Calls) + 1 => (joined[Job] = NoRun /\ ret[Job] = "refused") \/ Joined
    /\ closing \/ closed => ip[Job] >= Len(Calls) /\ Joined

LEMMA OnceWaits == OneRun => OneCaller
<1> SUFFICES ASSUME OneRun PROVE OneCaller
  OBVIOUS
<1>1. ASSUME NEW p \in Programs, NEW i \in 1..Len(p), p[i] = "close" PROVE i > 1 /\ p[i - 1] = "wait"
  <2>1. RunsOnce(p) /\ Len(p) \in Nat
    BY PipelineAssumption, LenProperties DEF OneRun
  <2>2. i = 1 \/ i \in 2..Len(p) - 2 \/ i = Len(p) - 1 \/ i = Len(p)
    BY <2>1 DEF RunsOnce
  <2> QED BY <1>1, <2>1, <2>2 DEF RunsOnce
<1> QED BY <1>1 DEF OneRun, OneCaller, WaitsToClose

(* The position of the program and the call it is in. *)
LEMMA WhichCall ==
  ASSUME OneRun, Life
  PROVE  /\ Len(Calls) \in Nat /\ Len(Calls) >= 3 /\ ip[Job] \in Nat /\ ip[Job] >= 1
         /\ InCall("start") <=> ip[Job] = 1
         /\ InCall("wait") <=> ip[Job] = Len(Calls) - 1
         /\ InCall("close") <=> ip[Job] = Len(Calls)
<1>1. Len(Calls) \in Nat /\ ip[Job] \in Nat /\ ip[Job] >= 1 /\ Calls \in Programs
  BY Home, OnceWaits DEF Life, Places, PlTypeOK, OneRun, Calls
<1>2. RunsOnce(Calls)
  BY <1>1 DEF OneRun
<1>3. \/ ip[Job] = 1 /\ ip[Job] <= Len(Calls) /\ Calls[ip[Job]] = "start"
      \/ ip[Job] \in 2..Len(Calls) - 2 /\ Calls[ip[Job]] \in {"pause", "resume", "seek"}
      \/ ip[Job] = Len(Calls) - 1 /\ ip[Job] > 1 /\ Calls[ip[Job]] = "wait"
      \/ ip[Job] = Len(Calls) /\ ip[Job] > 1 /\ Calls[ip[Job]] = "close"
      \/ ip[Job] > Len(Calls) /\ ip[Job] > 1
  BY <1>1, <1>2 DEF RunsOnce
<1> QED BY <1>1, <1>2, <1>3 DEF RunsOnce, InCall

LEMMA HowReturns ==
  ASSUME OneRun, Life, program' = program, NEW res \in Result, ip[Job] <= Len(Calls), Returns(Job, res)
  PROVE  /\ ip'[Job] = ip[Job] + 1 \/ (ip[Job] = 1 /\ res = "refused" /\ ip'[Job] = Len(Calls) + 1)
         /\ ip[Job] = Len(Calls) => ret'[Job] = ret[Job]
         /\ ip[Job] # Len(Calls) => ret'[Job] = res
         /\ pc'[Job] = "idle" /\ Elsewhere
<1> USE OnceWaits, Home, WhichCall
<1>1. ret \in [Caller -> Result] /\ "close" # "start"
  BY LittleTypes DEF Life
<1>2. Calls[ip[Job]] = "start" <=> ip[Job] = 1
  BY DEF InCall
<1>3. Calls[ip[Job]] = "close" <=> ip[Job] = Len(Calls)
  BY DEF InCall
<1>4. pc'[Job] = "idle" /\ Elsewhere
  BY HomeSteps DEF NextCall
<1>5. ip'[Job] = ip[Job] + 1 \/ (ip[Job] = 1 /\ res = "refused" /\ ip'[Job] = Len(Calls) + 1)
  BY <1>2 DEF Returns, Calls
<1>6. ret'[Job] = IF Calls[ip[Job]] = "close" THEN ret[Job] ELSE res
  BY <1>1 DEF Returns, Calls
<1> QED BY <1>3, <1>4, <1>5, <1>6

(* The end of a call that is neither "wait" nor a start that is refused. *)
Done == /\ ip'[Job] = ip[Job] + 1 /\ pc'[Job] = "idle" /\ Elsewhere
        /\ ip[Job] = Len(Calls) => ret'[Job] = ret[Job]

(* The result of the run stays, whatever the caller does afterwards.       *)
LEMMA JoinedStays ==
  ASSUME Joined, Elsewhere, ret'[Job] = ret[Job], joined' = joined, outcome' = outcome
  PROVE  Joined'
BY DEF Joined, Elsewhere

LEMMA CourseMoves ==
  ASSUME OneRun, Life, Course, Elsewhere, pc'[Job] # "idle", pc'[Job] # "wait", pc[Job] # "wait",
         UNCHANGED <<ip, ret, joined, outcome, program, closed>>,
         closing' => closing \/ ip[Job] = Len(Calls),
         ip[Job] = 1 => /\ tgt'[Job] = Playing /\ pc'[Job] \in {"step", "flow", "set", "post", "send"}
                        /\ pc'[Job] \in {"post", "send"} => nxt'[Job] = state' /\ ev'[Job] # "SEEK",
         ip[Job] < Len(Calls) => runDone' = runDone,
         ip[Job] < Len(Calls) /\ pc'[Job] \in {"set", "post", "send"} /\ nxt'[Job] = Playing => runDone # NoRun,
         ip[Job] \in 2..Len(Calls) - 1 => state' \in {Paused, Playing}
  PROVE  Course'
<1>1. Joined => Joined'
  BY JoinedStays
<1>2. Calls' = Calls /\ ip'[Job] = ip[Job] /\ joined'[Job] = joined[Job] /\ ret'[Job] = ret[Job]
  BY DEF Calls
<1> QED BY <1>1, <1>2, WhichCall DEF Course

LEMMA CourseReturns ==
  ASSUME OneRun, Life, Course, Done, ip[Job] # Len(Calls) - 1, ip[Job] <= Len(Calls),
         UNCHANGED <<joined, outcome, program, closing>>,
         ip[Job] < Len(Calls) => runDone' = runDone /\ state' = state,
         closed' => closed \/ ip[Job] = Len(Calls),
         ip[Job] = 1 => runDone # NoRun /\ state \in {Paused, Playing},
         pc[Job] # "wait"
  PROVE  Course'
<1>1. /\ Calls' = Calls /\ joined'[Job] = joined[Job] /\ pc'[Job] = "idle"
      /\ ip'[Job] = ip[Job] + 1 /\ Len(Calls) \in Nat /\ Len(Calls) >= 3 /\ ip[Job] \in Nat /\ ip[Job] >= 1
  BY WhichCall DEF Calls, Done
<1>2. CASE ip[Job] = Len(Calls)
  <2>1. Joined /\ Joined'
    BY <1>2, JoinedStays DEF Course, Done
  <2> QED BY <1>1, <1>2, <2>1 DEF Course
<1>3. CASE ip[Job] # Len(Calls)
  <2>1. ip[Job] \in 1..Len(Calls) - 2 /\ ip'[Job] \in 2..Len(Calls) - 1
    BY <1>1, <1>3
  <2>2. joined[Job] = NoRun /\ ~closing /\ ~closed'
    BY <1>1, <1>3, <2>1 DEF Course
  <2>3. runDone' # NoRun /\ state' \in {Paused, Playing}
    BY <1>1, <1>3, <2>1 DEF Course
  <2> QED BY <1>1, <2>1, <2>2, <2>3 DEF Course
<1> QED BY <1>2, <1>3

(* The caller goes on after an event.                                      *)
LEMMA CoursePosted ==
  ASSUME OneRun, Life, Course, AfterPost(Job), pc[Job] \in {"post", "send"},
         UNCHANGED <<program, pipeVars, tgt, ev, joined, runVars, closing, closed>>
  PROVE  Course'
<1> USE OnceWaits, Home, WhichCall
<1>a. "step" \in Place /\ "nil" \in Result /\ "nil" # "refused"
  BY DEF Place, Result, Outcome
<1>b. /\ ip[Job] <= Len(Calls) /\ ~InCall("wait") /\ ip[Job] # Len(Calls) - 1
      /\ UNCHANGED <<joined, outcome, program, closing, closed, state, runDone, tgt, ev>>
  BY DEF Life, Places, Walking, pipeVars, runVars
<1>1. CASE nxt[Job] < tgt[Job] /\ ev[Job] # "SEEK"
  <2>1. pc'[Job] = "step" /\ Elsewhere /\ ip' = ip /\ ret' = ret
    <3>1. Moves(Job, "step")
      BY <1>1 DEF AfterPost
    <3> QED BY <1>a, <1>b, <3>1, HomeSteps DEF Moves
  <2>2. ip[Job] = 1 => tgt'[Job] = Playing
    BY <1>b DEF Course
  <2>3. ip[Job] \in 2..Len(Calls) - 1 => state' \in {Paused, Playing}
    BY <1>b DEF Course
  <2> QED BY <1>b, <2>1, <2>2, <2>3, CourseMoves
<1>2. CASE ~(nxt[Job] < tgt[Job] /\ ev[Job] # "SEEK")
  <2>1. Returns(Job, "nil") \/ AfterState(Job)
    BY <1>2 DEF AfterPost
  <2>2. ip[Job] = 1 => runDone # NoRun /\ state \in {Paused, Playing}
    <3> SUFFICES ASSUME ip[Job] = 1 PROVE runDone # NoRun /\ state \in {Paused, Playing}
      OBVIOUS
    <3>1. tgt[Job] = Playing /\ nxt[Job] = state /\ ev[Job] # "SEEK" /\ state \in 0..3
      BY DEF Course
    <3>2. state = Playing
      BY <1>2, <3>1
    <3> QED BY <3>1, <3>2 DEF Course
  <2>3. CASE Returns(Job, "nil")
    <3>1. Done
      BY <1>a, <1>b, <2>3, HowReturns DEF Done
    <3> QED BY <1>b, <2>2, <3>1, CourseReturns
  <2>4. CASE AfterState(Job) /\ ~Returns(Job, "nil")
    <3>1. Moves(Job, "seek") \/ Moves(Job, "busclose")
      BY <2>4 DEF AfterState
    <3>2. {"seek", "busclose"} \subseteq Place
      BY DEF Place
    <3>3. pc'[Job] \in {"seek", "busclose"} /\ Elsewhere /\ ip' = ip /\ ret' = ret
      BY <1>b, <3>1, <3>2, HomeSteps DEF Moves
    <3>4. ip[Job] # 1
      BY <2>4 DEF AfterState, InCall, Calls, Moves
    <3>5. ip[Job] \in 2..Len(Calls) - 1 => state' \in {Paused, Playing}
      BY <1>b DEF Course
    <3> QED BY <1>b, <3>3, <3>4, <3>5, CourseMoves
  <2> QED BY <2>1, <2>3, <2>4
<1> QED BY <1>1, <1>2

(* Where a position is among the first, the last but one, the last and the  *)
(* one after it.                                                            *)
LEMMA Positions ==
  ASSUME NEW n \in Nat, n >= 3, NEW a \in Nat
  PROVE  /\ a = 1 => /\ a \notin 2..n - 1 /\ a # n - 1 /\ a # n /\ a # n + 1 /\ a <= n + 1 /\ a <= n /\ a < n
                      /\ ~(a >= n)
         /\ a = n - 1 => /\ a # 1 /\ a # n /\ a # n + 1 /\ a <= n + 1 /\ a <= n /\ a < n /\ a + 1 = n
         /\ a = n => /\ a # 1 /\ a \notin 2..n - 1 /\ a # n - 1 /\ a # n + 1 /\ a <= n + 1 /\ a <= n /\ ~(a < n) /\ a >= n
         /\ a = n + 1 => /\ a # 1 /\ a \notin 2..n - 1 /\ a # n /\ a <= n + 1 /\ ~(a < n) /\ a >= n
OBVIOUS

LEMMA CallerCourse ==
  ASSUME OneRun, Life, Course, CallerStep(Job)
  PROVE  Course'
<1> USE OnceWaits, Home, WhichCall
<1>a. /\ {"step", "set", "flow", "post", "send", "back", "null1", "null2", "closech", "wait", "busclose"}
           \subseteq Place
      /\ {"refused", "nil", runErr} \subseteq Result /\ "nil" # "refused"
  BY LittleTypes DEF Place, Result, Outcome, Life
<1>b. program' = program /\ Calls' = Calls
  BY DEF CallerStep, SetState, StepReady, StepPaused, StepPlaying, StartDataFlow, SetReached, StepBackward,
         SeekTo, ToNull, ClearAll, Wait, Waited, BusClose, CloseChannel, Post, Send, Calls
<1>c. pc[Job] # "idle" => ip[Job] <= Len(Calls)
  BY DEF Life, Places
<1>d. \A a, b \in Call : InCall(a) /\ InCall(b) => a = b
  BY DEF InCall
<1>e. /\ ip[Job] = 1 => /\ pc[Job] = "idle" => state = Null
                        /\ pc[Job] # "idle" => tgt[Job] = Playing /\ pc[Job] \in {"step", "flow", "set", "post", "send"}
                        /\ pc[Job] \in {"post", "send"} => nxt[Job] = state /\ ev[Job] # "SEEK"
      /\ ip[Job] < Len(Calls) /\ pc[Job] \in {"set", "post", "send"} /\ nxt[Job] = Playing => runDone # NoRun
      /\ ip[Job] \in 2..Len(Calls) - 1 => runDone # NoRun /\ state \in {Paused, Playing}
  BY DEF Course
<1>f. /\ pc[Job] \in {"step", "flow", "set"} => nxt[Job] = state + 1 /\ state < tgt[Job]
      /\ pc[Job] \in {"step", "flow", "set", "back", "seek"} => ip[Job] # Len(Calls) - 1 /\ ip[Job] # Len(Calls)
      /\ pc[Job] \in {"null1", "null2", "busclose", "closech"} => ip[Job] = Len(Calls)
      /\ pc[Job] \in {"post", "send"} => ip[Job] # Len(Calls) - 1
      /\ pc[Job] = "wait" => ip[Job] = Len(Calls) - 1 /\ joined[Job] = runDone /\ runDone # NoRun
  BY DEF Life, Walking
<1>g. nxt[Job] \in 0..3 /\ tgt[Job] \in 0..3
  OBVIOUS
<1>1. CASE SetState(Job)
  <2>1. PICK op \in Call \ {"wait"} :
          /\ At(Job, op) /\ tgt' = [tgt EXCEPT ![Job] = Target(op)]
          /\ CASE op = "seek" /\ state \notin {Playing, Paused} ->
                    Returns(Job, "refused") /\ UNCHANGED nxt
             [] state = Target(op) -> AfterState(Job) /\ UNCHANGED nxt
             [] state # Target(op) /\ Target(op) = Null -> Moves(Job, "null1") /\ UNCHANGED nxt
             [] op # "seek" /\ Target(op) > state ->
                    Moves(Job, "step") /\ nxt' = [nxt EXCEPT ![Job] = state + 1]
             [] state = Playing /\ Target(op) = Paused ->
                    Moves(Job, "back") /\ nxt' = [nxt EXCEPT ![Job] = Paused]
    BY <1>1 DEF SetState
  <2>2. \/ op = "seek" /\ state \notin {Playing, Paused}
        \/ state = Target(op)
        \/ state # Target(op) /\ Target(op) = Null
        \/ op # "seek" /\ Target(op) > state
        \/ state = Playing /\ Target(op) = Paused
    BY DEF Target, Call, Null, Ready, Paused, Playing
  <2>3. /\ InCall(op) /\ pc[Job] = "idle" /\ ip[Job] <= Len(Calls) /\ tgt'[Job] = Target(op)
        /\ ip[Job] # Len(Calls) - 1 /\ (op = "start" <=> ip[Job] = 1) /\ (op = "close" <=> ip[Job] = Len(Calls))
    BY <2>1, <1>d DEF At, InCall, Calls, Call
  <2>4. /\ op = "start" => Target(op) = Playing
        /\ op = "close" => Target(op) = Null
        /\ op = "seek" => Target(op) = Paused
        /\ Target(op) = Null => op = "close"
        /\ Target(op) \in 0..3
    BY DEF Target, Call, Null, Paused, Playing
  <2>5. UNCHANGED <<program, state, runDone, joined, ev, outcome, closing, closed>>
    BY <1>1 DEF SetState, pipeVars, runVars, busVars
  <2>6. ip[Job] = 1 => op # "seek" /\ state # Target(op) /\ state = Null /\ Target(op) = Playing
    BY <1>e, <2>3, <2>4
  <2>7. \/ Returns(Job, "refused") /\ ip[Job] # 1
        \/ AfterState(Job) /\ ip[Job] # 1
        \/ Moves(Job, "null1") /\ ip[Job] # 1
        \/ Moves(Job, "step")
        \/ Moves(Job, "back") /\ ip[Job] # 1
    BY <2>1, <2>2, <2>6
  <2>8. ASSUME NEW res \in {"refused", "nil"}, Returns(Job, res), ip[Job] # 1 PROVE Course'
    <3>1. Done
      BY <1>a, <1>b, <2>3, <2>8, HowReturns DEF Done
    <3> QED BY <2>3, <2>5, <2>8, <3>1, CourseReturns
  <2>9. ASSUME NEW place \in {"null1", "step", "back", "seek", "busclose"}, Moves(Job, place),
               ip[Job] = 1 => place = "step"
        PROVE  Course'
    <3>1. pc'[Job] = place /\ Elsewhere /\ ip' = ip /\ ret' = ret /\ place \in Place
      <4>1. place \in Place
        BY DEF Place
      <4> QED BY <1>b, <2>9, <4>1, HomeSteps DEF Moves
    <3>2. ip[Job] \in 2..Len(Calls) - 1 => state' \in {Paused, Playing}
      BY <1>e, <2>5
    <3>3. ip[Job] = 1 => tgt'[Job] = Playing /\ pc'[Job] = "step"
      BY <2>3, <2>6, <2>9, <3>1
    <3> QED BY <2>3, <2>5, <3>1, <3>2, <3>3, CourseMoves
  <2> QED BY <2>7, <2>8, <2>9 DEF AfterState
<1>2. CASE StepReady(Job)
  <2>1. UNCHANGED <<state, runDone, tgt, nxt, ev, joined, outcome, closing, closed, program>> /\ nxt[Job] = Ready
    BY <1>2 DEF StepReady, pipeVars, runVars, busVars
  <2>2. pc[Job] = "step" /\ state = 0 /\ ip[Job] = 1
    <3>1. pc[Job] = "step" /\ nxt[Job] = state + 1 /\ ip[Job] <= Len(Calls) /\ ip[Job] # Len(Calls) - 1 /\ ip[Job] # Len(Calls)
      BY <1>2, <1>c, <1>f DEF StepReady
    <3>2. state = 0
      BY <2>1, <3>1
    <3>3. ip[Job] \notin 2..Len(Calls) - 1
      BY <1>e, <3>2
    <3> QED BY <3>1, <3>2, <3>3
  <2>3. CASE Moves(Job, "set")
    <3>1. pc'[Job] = "set" /\ Elsewhere /\ ip' = ip /\ ret' = ret
      BY <1>a, <1>b, <2>3, HomeSteps DEF Moves
    <3>2. tgt[Job] = Playing /\ nxt'[Job] # Playing
      BY <1>e, <2>1, <2>2
    <3>3. Len(Calls) >= 3 /\ ip[Job] \notin 2..Len(Calls) - 1
      BY <2>2
    <3> QED BY <2>1, <2>2, <3>1, <3>2, <3>3, CourseMoves
  <2>4. CASE Returns(Job, "refused")
    <3>0. "refused" \in Result /\ ip[Job] <= Len(Calls) /\ ip[Job] # Len(Calls)
      BY <1>a, <2>2, Positions
    <3>1. ret'[Job] = "refused" /\ pc'[Job] = "idle"
      BY <1>b, <2>4, <3>0, HowReturns
    <3>2. ip'[Job] = Len(Calls) + 1
      BY <2>2, <2>4 DEF Returns, InCall, Calls
    <3>3. joined'[Job] = NoRun /\ ~closing' /\ ~closed'
      BY <2>1, <2>2 DEF Course
    <3>4. ip'[Job] # 1 /\ ~(ip'[Job] < Len(Calls)) /\ ip'[Job] # Len(Calls) /\ ip'[Job] <= Len(Calls) + 1
          /\ ip'[Job] \notin 2..Len(Calls) - 1
      BY <3>2, Positions
    <3> QED BY <1>b, <3>1, <3>2, <3>3, <3>4 DEF Course
  <2> QED BY <1>2, <2>3, <2>4 DEF StepReady
<1>3. CASE StepPaused(Job)
  <2>1. /\ pc'[Job] = "set" /\ Elsewhere /\ ip' = ip /\ ret' = ret /\ pc[Job] \notin {"idle", "wait"}
        /\ UNCHANGED <<program, joined, outcome, closed>>
    BY <1>a, <1>b, <1>3, HomeSteps DEF StepPaused, Moves, pipeVars, runVars, busVars
  <2>2. closing' = closing /\ runDone' = runDone /\ state' = state /\ tgt' = tgt /\ nxt'[Job] # Playing
    BY <1>3 DEF StepPaused, runVars, busVars
  <2>3. ip[Job] = 1 => tgt'[Job] = Playing
    BY <1>e, <2>1, <2>2
  <2>4. ip[Job] \in 2..Len(Calls) - 1 => state' \in {Paused, Playing}
    BY <1>e, <2>2
  <2> QED BY <1>b, <1>c, <2>1, <2>2, <2>3, <2>4, CourseMoves
<1>4. CASE SetReached(Job)
  <2>1. /\ pc'[Job] = "post" /\ Elsewhere /\ ip' = ip /\ ret' = ret /\ pc[Job] \notin {"idle", "wait"}
        /\ UNCHANGED <<program, joined, outcome, closed>>
    BY <1>a, <1>b, <1>4, HomeSteps DEF SetReached, Moves, pipeVars, runVars, busVars
  <2>2. closing' = closing /\ runDone' = runDone /\ state' = nxt[Job] /\ tgt' = tgt /\ nxt' = nxt /\ pc[Job] = "set"
    BY <1>4 DEF SetReached, runVars, busVars
  <2>3. ev'[Job] # "SEEK"
    BY <1>4 DEF SetReached, Name
  <2>4. ip[Job] = 1 => tgt'[Job] = Playing
    BY <1>e, <2>1, <2>2
  <2>5. ip[Job] \in 2..Len(Calls) - 1 => state' \in {Paused, Playing}
    BY <1>e, <1>f, <1>g, <2>2
  <2>6. ip[Job] < Len(Calls) /\ nxt'[Job] = Playing => runDone # NoRun
    BY <1>e, <2>2
  <2> QED BY <1>b, <1>c, <2>1, <2>2, <2>3, <2>4, <2>5, <2>6, CourseMoves
<1>5. CASE StepBackward(Job)
  <2>1. /\ pc'[Job] = "post" /\ Elsewhere /\ ip' = ip /\ ret' = ret /\ pc[Job] \notin {"idle", "wait"}
        /\ UNCHANGED <<program, joined, outcome, closed>>
    BY <1>a, <1>b, <1>5, HomeSteps DEF StepBackward, Moves, pipeVars, runVars, busVars
  <2>2. closing' = closing /\ runDone' = runDone /\ state' = Paused /\ nxt' = nxt /\ pc[Job] = "back"
    BY <1>5 DEF StepBackward, runVars, busVars
  <2>3. ip[Job] # 1
    BY <1>e, <2>2
  <2>4. nxt'[Job] # Playing
    BY <2>2 DEF Life, Walking
  <2> QED BY <1>b, <1>c, <2>1, <2>2, <2>3, <2>4, CourseMoves
<1>6. CASE SeekTo(Job)
  <2>1. /\ pc'[Job] = "post" /\ Elsewhere /\ ip' = ip /\ ret' = ret /\ pc[Job] \notin {"idle", "wait"}
        /\ UNCHANGED <<program, joined, outcome, closed>>
    BY <1>a, <1>b, <1>6, HomeSteps DEF SeekTo, Moves, pipeVars, runVars, busVars
  <2>2. closing' = closing /\ runDone' = runDone /\ state' = state /\ nxt' = nxt /\ pc[Job] = "seek"
    BY <1>6 DEF SeekTo, runVars, busVars
  <2>3. ip[Job] # 1 /\ ip[Job] < Len(Calls) /\ ip[Job] \in 2..Len(Calls) - 1
    BY <1>c, <1>e, <1>f, <2>2
  <2>4. runDone # NoRun /\ state' \in {Paused, Playing}
    BY <1>e, <2>2, <2>3
  <2> QED BY <1>b, <1>c, <2>1, <2>2, <2>3, <2>4, CourseMoves
<1>7. CASE ToNull(Job)
  <2>1. /\ pc'[Job] = "null2" /\ Elsewhere /\ ip' = ip /\ ret' = ret /\ pc[Job] \notin {"idle", "wait"}
        /\ UNCHANGED <<program, joined, outcome, closed>>
    BY <1>a, <1>b, <1>7, HomeSteps DEF ToNull, Moves, pipeVars, runVars, busVars
  <2>2. closing' = closing /\ pc[Job] = "null1"
    BY <1>7 DEF ToNull, busVars
  <2>3. ip[Job] = Len(Calls) /\ ip[Job] # 1 /\ ip[Job] \notin 2..Len(Calls) - 1
    BY <1>f, <2>2
  <2> QED BY <1>b, <1>c, <2>1, <2>2, <2>3, CourseMoves
<1>8. CASE BusClose(Job)
  <2>1. /\ pc'[Job] = "closech" /\ Elsewhere /\ ip' = ip /\ ret' = ret /\ pc[Job] \notin {"idle", "wait"}
        /\ UNCHANGED <<program, joined, outcome, closed>>
    BY <1>a, <1>b, <1>8, HomeSteps DEF BusClose, Moves, pipeVars, runVars, busVars
  <2>2. pc[Job] = "busclose"
    BY <1>8 DEF BusClose
  <2>3. ip[Job] = Len(Calls) /\ ip[Job] # 1 /\ ip[Job] \notin 2..Len(Calls) - 1
    BY <1>f, <2>2
  <2> QED BY <1>b, <1>c, <2>1, <2>2, <2>3, CourseMoves
<1>9. CASE StepPlaying(Job)
  <2>1. /\ pc'[Job] \in {"flow", "set"} /\ Elsewhere /\ ip' = ip /\ ret' = ret /\ pc[Job] \notin {"idle", "wait"}
        /\ UNCHANGED <<program, joined, outcome, closed>>
    BY <1>a, <1>b, <1>9, HomeSteps DEF StepPlaying, Moves, pipeVars, runVars, busVars
  <2>2. closing' = closing /\ runDone' = runDone /\ state' = state /\ tgt' = tgt
    BY <1>9 DEF StepPlaying, runVars, busVars
  <2>3. ip[Job] = 1 => tgt'[Job] = Playing
    BY <1>e, <2>1, <2>2
  <2>4. ip[Job] \in 2..Len(Calls) - 1 => state' \in {Paused, Playing}
    BY <1>e, <2>2
  <2>5. pc'[Job] = "set" => runDone # NoRun
    BY <1>a, <1>b, <1>9, HomeSteps DEF StepPlaying, Moves
  <2> QED BY <1>b, <1>c, <2>1, <2>2, <2>3, <2>4, <2>5, CourseMoves
<1>10. CASE ClearAll(Job)
  <2>1. pc[Job] = "null2" /\ ip[Job] = Len(Calls) /\ Calls[ip[Job]] = "close" /\ ip[Job] # 1 /\ ip[Job] \notin 2..Len(Calls) - 1
    BY <1>10, <1>f DEF ClearAll, InCall
  <2>2. Moves(Job, "post") \/ Moves(Job, "busclose")
    BY <1>10, <2>1 DEF ClearAll, AfterState, Calls
  <2>3. /\ pc'[Job] \in {"post", "busclose"} /\ Elsewhere /\ ip' = ip /\ ret' = ret
        /\ UNCHANGED <<program, joined, outcome, closed, closing>>
    BY <1>a, <1>b, <1>10, <2>2, HomeSteps DEF ClearAll, Moves, runVars, busVars
  <2> QED BY <2>1, <2>3, CourseMoves
<1>11. CASE Wait(Job)
  <2>1. InCall("wait") /\ ip[Job] = Len(Calls) - 1 /\ joined'[Job] = runDone
    BY <1>11 DEF Wait, At, InCall, Calls
  <2>2. runDone # NoRun /\ state \in {Paused, Playing} /\ ~closing /\ ~closed
    BY <2>1 DEF Course
  <2>3. pc'[Job] = "wait" /\ ip' = ip /\ UNCHANGED <<runDone, state, closing, closed>>
    BY <1>11, <2>2 DEF Wait, Moves, pipeVars, busVars
  <2>4. ip'[Job] = Len(Calls) - 1 /\ ip'[Job] # 1 /\ ip'[Job] # Len(Calls) /\ ip'[Job] # Len(Calls) + 1
        /\ ip'[Job] <= Len(Calls) + 1
    <3>1. ip'[Job] = ip[Job]
      BY <2>3
    <3> QED BY <2>1, <3>1, Positions
  <2> QED BY <1>b, <2>2, <2>3, <2>4 DEF Course
<1>12. CASE Waited(Job)
  <2>1. /\ pc[Job] = "wait" /\ joined[Job] = runDone /\ runDone \in RunId /\ over[runDone] /\ Returns(Job, runErr)
        /\ ip[Job] = Len(Calls) - 1 /\ UNCHANGED <<joined, outcome, closing, closed>>
    BY <1>12, <1>f DEF Waited, RunId, runVars, busVars
  <2>2. /\ ip'[Job] = Len(Calls) /\ ret'[Job] = runErr /\ pc'[Job] = "idle" /\ Elsewhere
    <3>1. runErr \in Result /\ ip[Job] <= Len(Calls) /\ ip[Job] # Len(Calls) /\ ip[Job] # 1 /\ ip[Job] + 1 = Len(Calls)
      BY <1>a, <2>1, Positions
    <3>2. Returns(Job, runErr)
      BY <2>1
    <3> QED BY <1>b, <3>1, <3>2, HowReturns
  <2>3. pc[runDone] = "gone" /\ outcome[runDone] # "none" /\ runErr = outcome[runDone]
    BY <2>1 DEF Life, Runs, Stopped
  <2>4. Joined'
    BY <2>1, <2>2, <2>3 DEF Joined, Elsewhere
  <2>5. ip'[Job] # 1 /\ ~(ip'[Job] < Len(Calls)) /\ ip'[Job] # Len(Calls) + 1 /\ ip'[Job] <= Len(Calls) + 1
        /\ ip'[Job] >= Len(Calls) /\ ip'[Job] \notin 2..Len(Calls) - 1
    <3>1. ip'[Job] = Len(Calls) /\ ip'[Job] \in Nat /\ Len(Calls) \in Nat /\ Len(Calls) >= 3
      BY <2>2
    <3> QED BY <3>1, Positions
  <2> QED BY <1>b, <2>4, <2>5 DEF Course
<1>13. CASE CloseChannel(Job)
  <2>1. ip[Job] = Len(Calls) /\ pc[Job] = "closech" /\ UNCHANGED <<joined, outcome, closing>>
    BY <1>13, <1>f DEF CloseChannel, runVars, busVars
  <2>2. Done
    BY <1>a, <1>b, <1>13, <2>1, HowReturns DEF CloseChannel, Done
  <2>3. ip[Job] # Len(Calls) - 1 /\ ip[Job] <= Len(Calls) /\ ~(ip[Job] < Len(Calls)) /\ ip[Job] # 1
    BY <2>1
  <2> QED BY <1>b, <2>1, <2>2, <2>3, CourseReturns
<1>14. CASE StartDataFlow(Job)
  <2>1. PICK r \in RunId :
          /\ pc[r] = "off" /\ runDone' = r
          /\ pc' = [a \in Actor |-> IF a = Job THEN "set" ELSE IF a = r \/ (a \in Helper /\ pc[a] = "off")
                                    THEN "run" ELSE pc[a]]
    BY <1>14 DEF StartDataFlow
  <2>2. /\ pc[Job] = "flow" /\ runDone = NoRun /\ pc'[Job] = "set" /\ r # NoRun
        /\ UNCHANGED <<state, tgt, nxt, ip, joined, ret, outcome, closing, closed, ev>>
    BY <1>14, <2>1, PipelineAssumption DEF StartDataFlow, Life, Walking, runVars, busVars, RunId
  <2>3. ip[Job] = 1
    BY <1>c, <1>e, <1>f, <2>2
  <2>4. tgt[Job] = Playing /\ joined[Job] = NoRun /\ ~closing /\ ~closed
    BY <2>2, <2>3 DEF Course
  <2>5. ip'[Job] = 1 /\ ip'[Job] \notin 2..Len(Calls) - 1 /\ ip'[Job] # Len(Calls) /\ ip'[Job] # Len(Calls) + 1
        /\ ip'[Job] <= Len(Calls) + 1
    BY <2>2, <2>3, Positions
  <2>6. runDone' # NoRun /\ joined'[Job] = NoRun /\ ~closing' /\ ~closed' /\ tgt'[Job] = Playing
    BY <2>1, <2>2, <2>4
  <2> QED BY <1>b, <2>2, <2>5, <2>6 DEF Course
<1>15. CASE Post(Job)
  <2>1. UNCHANGED <<program, pipeVars, tgt, ev, joined, runVars, closing, closed>> /\ pc[Job] = "post"
    BY <1>15 DEF Post, busVars
  <2>2. CASE closing
    BY <1>15, <2>1, <2>2, CoursePosted DEF Post
  <2>3. CASE ~closing
    <3>1. pc'[Job] = "send" /\ Elsewhere /\ UNCHANGED <<ip, ret, nxt>>
      BY <1>15, <2>3 DEF Post, Elsewhere
    <3>2. UNCHANGED <<state, runDone, outcome>>
      BY <2>1 DEF pipeVars, runVars
    <3> QED BY <1>b, <1>e, <2>1, <3>1, <3>2, CourseMoves
  <2> QED BY <2>2, <2>3
<1>16. CASE Send(Job)
  BY <1>16, CoursePosted DEF Send
<1> QED BY <1>1, <1>2, <1>3, <1>4, <1>5, <1>6, <1>7, <1>8, <1>9, <1>10, <1>11, <1>12, <1>13, <1>14, <1>15, <1>16 DEF CallerStep

LEMMA CourseStep ==
  ASSUME OneRun, Life, Course, [Next]_vars
  PROVE  Course'
<1> USE OnceWaits, Home, WhichCall
<1>1. CASE \E c \in Caller : CallerStep(c)
  BY <1>1, CallerCourse DEF OneRun
<1>2. ASSUME NEW a \in RunId \cup Helper, RunStep(a) \/ HelperStep(a) \/ HasNews(a) PROVE Course'
  <2>1. /\ a \in Actor /\ a # Job /\ a \notin Caller
        /\ UNCHANGED <<program, ip, tgt, joined, state, runDone, closing, closed, ret, nxt>>
    BY <1>2, PipelineAssumption DEF OneRun, RunStep, HelperStep, RunEnds, StoreErr, CloseDone, HelperStops, HasNews, Post, Send,
           AfterPost, pipeVars, runVars, busVars
  <2>2. \A b \in Actor \ {a} : pc'[b] = pc[b] /\ ev'[b] = ev[b]
    BY <1>2, <2>1 DEF RunStep, HelperStep, RunEnds, StoreErr, CloseDone, HelperStops, HasNews, Post, Send,
           AfterPost, Life, PlTypeOK
  <2>3. \A q \in RunId \ {a} : outcome'[q] = outcome[q]
    BY <1>2 DEF RunStep, HelperStep, RunEnds, StoreErr, CloseDone, HelperStops, HasNews, Post, Send, runVars,
           Life, PlTypeOK
  <2>4. pc[a] # "gone"
    BY <1>2 DEF RunStep, HelperStep, RunEnds, StoreErr, CloseDone, HelperStops, HasNews, Post, Send
  <2>5. Joined => Joined'
    BY <2>1, <2>2, <2>3, <2>4 DEF Joined
  <2>6. pc'[Job] = pc[Job] /\ ev'[Job] = ev[Job] /\ Calls' = Calls
    BY <2>1, <2>2 DEF Calls
  <2> QED BY <2>1, <2>5, <2>6 DEF Course
<1>3. CASE CancelParent
  BY <1>3 DEF CancelParent, Course, Joined, Calls, pipeVars, callVars, busVars
<1>4. CASE UNCHANGED <<pipeVars, callVars, runVars, closing, closed>>
  BY <1>4 DEF Course, Joined, Calls, pipeVars, callVars, runVars
<1> QED
  BY <1>1, <1>2, <1>3, <1>4 DEF Next, PlNext, News, Pump, PumpTake, PumpPublish, PumpEnds, Tick, JobEnds,
     Subscriber, Subscribe, Joins, Receive, Unsubscribe, vars, plVars, busVars

(* The job is over only when its program is, with the result it returned.   *)
Settled == status # "running" => Finished(Job) /\ StatusTells

LEMMA SettledStep ==
  ASSUME OneRun, Life, Course, Settled, [Next]_vars
  PROVE  Settled'
<1> USE OnceWaits, Home, WhichCall
<1>1. CASE JobEnds
  <2>1. Finished(Job) /\ status' = StatusOf(ret[Job]) /\ UNCHANGED plVars
    BY <1>1 DEF JobEnds
  <2>2. (joined[Job] = NoRun /\ ret[Job] = "refused") \/ Joined
    <3>1. ip[Job] = Len(Calls) + 1
      BY <2>1 DEF Finished, Course, Calls
    <3> QED BY <3>1 DEF Course
  <2>3. StatusTells'
    <3>1. UNCHANGED <<joined, outcome>>
      BY <2>1 DEF plVars, callVars, runVars
    <3>2. CASE joined[Job] = NoRun /\ ret[Job] = "refused"
      BY <2>1, <3>1, <3>2 DEF StatusTells, StatusOf
    <3>3. CASE Joined
      <4>1. joined[Job] # NoRun
        BY <3>3 DEF Joined, RunId
      <4> QED BY <2>1, <3>1, <3>3, <4>1 DEF StatusTells, Joined
    <3> QED BY <2>2, <3>2, <3>3
  <2>4. Finished(Job)'
    BY <2>1 DEF Finished, plVars, callVars
  <2> QED BY <2>3, <2>4 DEF Settled
<1>2. CASE UNCHANGED <<status, callVars, runVars>>
  BY <1>2 DEF Settled, Finished, StatusTells, callVars, runVars
<1>3. CASE PlNext /\ UNCHANGED jobVars
  <2> SUFFICES ASSUME status # "running" PROVE Finished(Job)' /\ StatusTells'
    BY <1>3 DEF Settled, jobVars
  <2>1. Finished(Job) /\ StatusTells /\ status' = status
    BY <1>3 DEF Settled, jobVars
  <2>2. pc[Job] = "idle" /\ ~(ip[Job] <= Len(Calls)) /\ ip[Job] = Len(Calls) + 1
    BY <2>1 DEF Finished, Course, Calls
  <2>3. ~CallerStep(Job)
    BY <2>2 DEF CallerStep, SetState, StepReady, StepPaused, StepPlaying, StartDataFlow, SetReached, StepBackward,
         SeekTo, ToNull, ClearAll, Wait, Waited, BusClose, CloseChannel, Post, Send, At, Calls
  <2>4. CASE CancelParent
    BY <2>1, <2>4 DEF CancelParent, Finished, StatusTells, callVars
  <2>5. ASSUME NEW a \in RunId \cup Helper, RunStep(a) \/ HelperStep(a) \/ HasNews(a)
        PROVE  Finished(Job)' /\ StatusTells'
    <3>1. a \in Actor /\ a # Job /\ a \notin Caller /\ UNCHANGED <<program, ip, joined>>
      BY <2>5, PipelineAssumption DEF OneRun, RunStep, HelperStep, RunEnds, StoreErr, CloseDone, HelperStops, HasNews, Post, Send,
             AfterPost
    <3>2. pc'[Job] = pc[Job]
      BY <2>5, <3>1 DEF RunStep, HelperStep, RunEnds, StoreErr, CloseDone, HelperStops, HasNews, Post, Send, AfterPost
    <3>3. \A q \in RunId \ {a} : outcome'[q] = outcome[q]
      BY <2>5 DEF RunStep, HelperStep, RunEnds, StoreErr, CloseDone, HelperStops, HasNews, Post, Send, runVars,
             Life, PlTypeOK
    <3>4. pc[a] # "gone"
      BY <2>5 DEF RunStep, HelperStep, RunEnds, StoreErr, CloseDone, HelperStops, HasNews, Post, Send
    <3>5. (joined[Job] = NoRun /\ ret[Job] = "refused") \/ Joined
      BY <2>2 DEF Course
    <3>6. joined[Job] = NoRun \/ outcome'[joined[Job]] = outcome[joined[Job]]
      BY <3>3, <3>4, <3>5 DEF Joined
    <3> QED BY <2>1, <3>1, <3>2, <3>6 DEF Finished, StatusTells
  <2> QED BY <1>3, <2>3, <2>4, <2>5 DEF PlNext, OneRun, News
<1> QED
  BY <1>1, <1>2, <1>3 DEF Next, Pump, PumpTake, PumpPublish, PumpEnds, Tick, Subscriber, Subscribe, Joins,
     Receive, Unsubscribe, vars, plVars, jobVars

LEMMA InitCourse == ASSUME OneRun, Init PROVE Course /\ Settled
<1>1. Life
  BY OnceWaits, InitLife
<1>2. Len(Calls) \in Nat /\ Len(Calls) >= 3
  BY <1>1, WhichCall
<1>3. /\ Job \in Caller /\ ip[Job] = 1 /\ state = Null /\ joined[Job] = NoRun /\ ~closing /\ ~closed
      /\ status = "running"
  BY DEF OneRun, Init, PlInit
<1>4. pc[Job] = "idle"
  BY <1>3, Actors DEF Init, PlInit
<1>5. ip[Job] \notin 2..Len(Calls) - 1 /\ ip[Job] # Len(Calls) /\ ip[Job] # Len(Calls) + 1 /\ ip[Job] <= Len(Calls) + 1
  BY <1>2, <1>3, Positions
<1> QED BY <1>3, <1>4, <1>5 DEF Course, Settled

(* The status of a finished job is the result of its data flow, for every   *)
(* program that runs once: Wait reads the error after the run has stored it *)
(* and before Close clears it, and a start that is refused fails the job.   *)
THEOREM StatusIsResult == OneRun => (Spec => []StatusTells)
<1> SUFFICES ASSUME OneRun PROVE Spec => []StatusTells
  OBVIOUS
<1>1. Init => Life /\ Course /\ Settled
  BY OnceWaits, InitLife, InitCourse
<1>2. (Life /\ Course /\ Settled) /\ [Next]_vars => (Life /\ Course /\ Settled)'
  BY OnceWaits, LifeStep, CourseStep, SettledStep
<1>3. Settled => StatusTells
  BY DEF Settled, StatusTells
<1> QED BY <1>1, <1>2, <1>3, PTL DEF Spec

(***************************************************************************)
(* The event that ends the run is on its way to the log, or was dropped.    *)
(***************************************************************************)
OnBus == \E i \in 1..Len(bus) : bus[i] \in Terminal
OnItsWay == told \/ dropped \/ OnBus \/ (pump = "publish" /\ hand \in Terminal)
Told ==
    /\ (closing \/ closed) => \A r \in RunId : ~Active(r)
    /\ \A r \in RunId : pc[r] \in {"done", "gone"} => OnItsWay
    /\ pump = "gone" => closed /\ bus = <<>>

LEMMA BusGrows ==
  ASSUME NEW s \in Seq(Event), NEW e \in Event
  PROVE  /\ (\E i \in 1..Len(s) : s[i] \in Terminal) => \E i \in 1..Len(Append(s, e)) : Append(s, e)[i] \in Terminal
         /\ e \in Terminal => \E i \in 1..Len(Append(s, e)) : Append(s, e)[i] \in Terminal
<1>1. /\ Len(Append(s, e)) = Len(s) + 1 /\ Len(s) \in Nat
      /\ \A i \in 1..Len(s) : Append(s, e)[i] = s[i] /\ i \in 1..Len(Append(s, e))
      /\ Append(s, e)[Len(s) + 1] = e /\ Len(s) + 1 \in 1..Len(Append(s, e))
  BY AppendProperties, LenProperties
<1> QED BY <1>1

LEMMA BusShrinks ==
  ASSUME NEW s \in Seq(Event), s # <<>>, \E i \in 1..Len(s) : s[i] \in Terminal
  PROVE  Head(s) \in Terminal \/ \E i \in 1..Len(Tail(s)) : Tail(s)[i] \in Terminal
<1>1. /\ Len(s) \in Nat /\ Len(s) > 0 /\ Len(Tail(s)) = Len(s) - 1 /\ Head(s) = s[1]
      /\ \A i \in 1..Len(Tail(s)) : Tail(s)[i] = s[i + 1]
  BY HeadTailProperties, LenProperties, EmptySeq
<1>2. PICK i \in 1..Len(s) : s[i] \in Terminal
  OBVIOUS
<1>3. CASE i = 1
  BY <1>1, <1>2, <1>3
<1>4. CASE i # 1
  <2>1. i - 1 \in 1..Len(Tail(s)) /\ (i - 1) + 1 = i
    BY <1>1, <1>4
  <2>2. Tail(s)[i - 1] = s[i]
    BY <1>1, <2>1
  <2> QED BY <1>2, <2>1, <2>2
<1> QED BY <1>3, <1>4

(* What is on its way stays so, or is dropped or told.                      *)
LEMMA StaysOnItsWay ==
  ASSUME Life, [Next]_vars, OnItsWay
  PROVE  OnItsWay'
<1>a. bus \in Seq(Event) /\ ev \in [Actor -> Event]
  BY DEF Life, PlTypeOK
<1>1. CASE UNCHANGED <<told, dropped, bus, pump, hand>>
  BY <1>1 DEF OnItsWay, OnBus
<1>2. ASSUME NEW a \in Actor, Send(a), UNCHANGED jobVars PROVE OnItsWay'
  <2>1. UNCHANGED <<told, pump, hand>>
    BY <1>2 DEF jobVars, histVars
  <2>2. \/ UNCHANGED <<bus, dropped>>
        \/ bus' = Append(bus, ev[a]) /\ UNCHANGED dropped
        \/ dropped' = TRUE
    BY <1>2 DEF Send
  <2>3. CASE UNCHANGED <<bus, dropped>>
    BY <2>1, <2>3 DEF OnItsWay, OnBus
  <2>4. CASE bus' = Append(bus, ev[a]) /\ UNCHANGED dropped
    <3>1. OnBus => OnBus'
      BY <1>a, <2>4, BusGrows DEF OnBus
    <3> QED BY <2>1, <2>4, <3>1 DEF OnItsWay
  <2>5. CASE dropped' = TRUE
    BY <2>5 DEF OnItsWay
  <2> QED BY <2>2, <2>3, <2>4, <2>5
<1>3. CASE PumpTake
  <2>1. pump = "take" /\ pump' = "publish" /\ bus # <<>> /\ hand' = Head(bus) /\ bus' = Tail(bus) /\ UNCHANGED <<told, dropped>>
    BY <1>3 DEF PumpTake, histVars
  <2>2. OnBus => hand' \in Terminal \/ OnBus'
    BY <1>a, <2>1, BusShrinks DEF OnBus
  <2> QED BY <2>1, <2>2 DEF OnItsWay
<1>4. CASE PumpPublish
  <2>1. pump = "publish" /\ told' = (told \/ hand \in Terminal) /\ UNCHANGED <<bus, dropped>>
    BY <1>4 DEF PumpPublish, Keep, plVars, busVars
  <2> QED BY <2>1 DEF OnItsWay, OnBus
<1>5. CASE PumpEnds
  <2>1. pump = "take" /\ bus = <<>> /\ UNCHANGED <<told, bus, dropped>>
    BY <1>5 DEF PumpEnds, plVars, busVars, histVars
  <2>2. ~OnBus
    BY <2>1, EmptySeq DEF OnBus
  <2> QED BY <2>1, <2>2 DEF OnItsWay
<1>6. CASE Tick \/ JobEnds
  <2>1. (told => told') /\ UNCHANGED <<bus, dropped, pump, hand>>
    BY <1>6 DEF Tick, JobEnds, Keep, plVars, busVars
  <2> QED BY <2>1 DEF OnItsWay, OnBus
<1>7. CASE Subscriber
  BY <1>1, <1>7 DEF Subscriber, Subscribe, Joins, Receive, Unsubscribe, plVars, busVars, histVars
<1>8. CASE PlNext /\ UNCHANGED jobVars
  <2>1. UNCHANGED <<told, pump, hand>>
    BY <1>8 DEF jobVars, histVars
  <2>2. CASE \E a \in Actor : Send(a)
    BY <1>2, <1>8, <2>2
  <2>3. ASSUME NEW c \in Caller, CallerStep(c), ~Send(c) PROVE UNCHANGED <<bus, dropped>>
    BY <2>3 DEF CallerStep, SetState, StepReady, StepPaused, StepPlaying, StartDataFlow, SetReached, StepBackward,
         SeekTo, ToNull, ClearAll, Wait, Waited, BusClose, CloseChannel, Post, busVars
  <2>4. ASSUME NEW a \in RunId \cup Helper, RunStep(a) \/ HelperStep(a) \/ HasNews(a), ~Send(a)
        PROVE  UNCHANGED <<bus, dropped>>
    BY <2>4 DEF RunStep, HelperStep, RunEnds, StoreErr, CloseDone, HelperStops, HasNews, Post, busVars
  <2>5. CASE CancelParent
    BY <1>1, <2>1, <2>5 DEF CancelParent, busVars
  <2>6. Caller \subseteq Actor /\ RunId \cup Helper \subseteq Actor
    BY DEF Actor
  <2>7. CASE UNCHANGED <<bus, dropped>>
    BY <1>1, <2>1, <2>7
  <2> QED BY <1>8, <2>2, <2>3, <2>4, <2>5, <2>6, <2>7 DEF PlNext, News
<1>9. CASE UNCHANGED vars
  BY <1>1, <1>9 DEF vars, plVars, busVars, jobVars, histVars
<1> QED BY <1>3, <1>4, <1>5, <1>6, <1>7, <1>8, <1>9 DEF Next, Pump

(* The pump is gone when the bus is closed and empty, and both stay.        *)
LEMMA GonePump ==
  ASSUME pump = "gone" => closed /\ bus = <<>>, [Next]_vars
  PROVE  (pump = "gone" => closed /\ bus = <<>>)'
<1>1. CASE PlNext /\ UNCHANGED jobVars
  <2>1. pump' = pump
    BY <1>1 DEF jobVars
  <2>2. ASSUME NEW a, Send(a), closed PROVE closed' /\ bus' = bus
    BY <2>2 DEF Send
  <2>3. ASSUME NEW c \in Caller, CallerStep(c), closed PROVE closed' /\ bus' = bus
    BY <2>2, <2>3 DEF CallerStep, SetState, StepReady, StepPaused, StepPlaying, StartDataFlow, SetReached, StepBackward,
         SeekTo, ToNull, ClearAll, Wait, Waited, BusClose, CloseChannel, Post, busVars
  <2>4. ASSUME NEW a \in RunId \cup Helper, RunStep(a) \/ HelperStep(a) \/ HasNews(a), closed
        PROVE  closed' /\ bus' = bus
    BY <2>2, <2>4 DEF RunStep, HelperStep, RunEnds, StoreErr, CloseDone, HelperStops, HasNews, Post, busVars
  <2>5. CancelParent => closed' = closed /\ bus' = bus
    BY DEF CancelParent, busVars
  <2> QED BY <1>1, <2>1, <2>3, <2>4, <2>5 DEF PlNext, News
<1>2. CASE Pump
  BY <1>2 DEF Pump, PumpTake, PumpPublish, PumpEnds, plVars, busVars
<1>3. CASE UNCHANGED <<pump, closed, bus>>
  BY <1>3
<1> QED
  BY <1>1, <1>2, <1>3 DEF Next, Tick, JobEnds, Subscriber, Subscribe, Joins, Receive, Unsubscribe, vars, plVars,
     busVars, jobVars

(* A step of the caller, but the one that starts the run, and a step of a    *)
(* run or a helper leave the others where they are.                         *)
LEMMA CallerAlone ==
  ASSUME OneCaller, Life, CallerStep(Job), ~StartDataFlow(Job)
  PROVE  Elsewhere
<1> USE Home
<1>1. CASE \E place \in {"set", "flow", "post", "null2", "closech", "seek", "null1", "step", "back", "busclose", "wait"} :
              Moves(Job, place)
  BY <1>1 DEF Moves, Elsewhere
<1>2. CASE \E res : Returns(Job, res)
  BY <1>2 DEF Returns, Elsewhere
<1>3. CASE AfterState(Job)
  BY <1>1, <1>2, <1>3 DEF AfterState
<1>4. CASE AfterPost(Job)
  BY <1>1, <1>2, <1>3, <1>4 DEF AfterPost
<1>5. CASE pc' = [pc EXCEPT ![Job] = "send"]
  BY <1>5 DEF Elsewhere
<1>6. CASE Post(Job) \/ Send(Job)
  BY <1>4, <1>5, <1>6 DEF Post, Send
<1>7. CASE SetState(Job)
  <2>1. PICK op \in Call \ {"wait"} :
          CASE op = "seek" /\ state \notin {Playing, Paused} ->
                    Returns(Job, "refused") /\ UNCHANGED nxt
             [] state = Target(op) -> AfterState(Job) /\ UNCHANGED nxt
             [] state # Target(op) /\ Target(op) = Null -> Moves(Job, "null1") /\ UNCHANGED nxt
             [] op # "seek" /\ Target(op) > state ->
                    Moves(Job, "step") /\ nxt' = [nxt EXCEPT ![Job] = state + 1]
             [] state = Playing /\ Target(op) = Paused ->
                    Moves(Job, "back") /\ nxt' = [nxt EXCEPT ![Job] = Paused]
    BY <1>7 DEF SetState
  <2>2. \/ op = "seek" /\ state \notin {Playing, Paused}
        \/ state = Target(op)
        \/ state # Target(op) /\ Target(op) = Null
        \/ op # "seek" /\ Target(op) > state
        \/ state = Playing /\ Target(op) = Paused
    BY DEF Target, Call, Null, Ready, Paused, Playing
  <2>3. Returns(Job, "refused") \/ AfterState(Job) \/ Moves(Job, "null1") \/ Moves(Job, "step") \/ Moves(Job, "back")
    BY <2>1, <2>2
  <2> QED BY <1>1, <1>2, <1>3, <2>3
<1>8. CASE Wait(Job)
  BY <1>1, <1>2, <1>8 DEF Wait
<1>9. CASE ClearAll(Job)
  BY <1>1, <1>3, <1>9 DEF ClearAll
<1>10. CASE StepPlaying(Job)
  BY <1>1, <1>10 DEF StepPlaying
<1>11. CASE StepReady(Job) \/ StepPaused(Job) \/ SetReached(Job) \/ StepBackward(Job) \/ SeekTo(Job) \/ ToNull(Job) \/ BusClose(Job)
  BY <1>1, <1>2, <1>11 DEF StepReady, StepPaused, SetReached, StepBackward, SeekTo, ToNull, BusClose
<1>12. CASE Waited(Job) \/ CloseChannel(Job)
  BY <1>2, <1>12 DEF Waited, CloseChannel
<1> QED BY <1>6, <1>7, <1>8, <1>9, <1>10, <1>11, <1>12 DEF CallerStep

LEMMA OneAlone ==
  ASSUME OneCaller, Life, NEW a \in RunId \cup Helper, RunStep(a) \/ HelperStep(a) \/ HasNews(a)
  PROVE  \A b \in Actor \ {a} : pc'[b] = pc[b]
<1>1. a \in Actor /\ a \notin Caller
  BY PipelineAssumption, Home DEF OneCaller
<1> QED
  BY <1>1, Home DEF RunStep, HelperStep, RunEnds, StoreErr, CloseDone, HelperStops, HasNews, Post, Send, AfterPost

(* No run is going on once the bus is being closed.                         *)
LEMMA QuietStep ==
  ASSUME OneRun, Life, Course, Told, [Next]_vars
  PROVE  (closing \/ closed)' => \A r \in RunId : ~Active(r)'
<1> USE OnceWaits, Home, WhichCall
<1> SUFFICES ASSUME closing' \/ closed', NEW r \in RunId PROVE ~Active(r)'
  OBVIOUS
<1>1. CASE ~closing /\ ~closed
  <2>1. BusClose(Job) \/ CloseChannel(Job)
    <3>1. CASE UNCHANGED <<closing, closed>>
      BY <1>1, <3>1
    <3>2. ASSUME CallerStep(Job), ~BusClose(Job), ~CloseChannel(Job) PROVE UNCHANGED <<closing, closed>>
      BY <3>2 DEF CallerStep, SetState, StepReady, StepPaused, StepPlaying, StartDataFlow, SetReached,
         StepBackward, SeekTo, ToNull, ClearAll, Wait, Waited, Post, Send, busVars
    <3>3. ASSUME NEW a \in RunId \cup Helper, RunStep(a) \/ HelperStep(a) \/ HasNews(a) PROVE UNCHANGED <<closing, closed>>
      BY <3>3 DEF RunStep, HelperStep, RunEnds, StoreErr, CloseDone, HelperStops, HasNews, Post, Send, busVars
    <3>4. CASE PlNext
      BY <3>1, <3>2, <3>3, <3>4 DEF PlNext, OneRun, News, CancelParent, busVars
    <3>5. CASE ~PlNext
      BY <3>1, <3>5 DEF Next, Pump, PumpTake, PumpPublish, PumpEnds, Tick, JobEnds, Subscriber, Subscribe, Joins,
         Receive, Unsubscribe, vars, plVars, busVars
    <3> QED BY <3>4, <3>5
  <2>3. InCall("close")
    BY <2>1 DEF BusClose, CloseChannel, Life, Walking
  <2>4. ~Active(r)
    BY <2>3 DEF Life, Runs
  <2>5. pc'[r] = pc[r]
    <3>1. CallerStep(Job) /\ ~StartDataFlow(Job)
      BY <2>1 DEF CallerStep, BusClose, CloseChannel, StartDataFlow
    <3> QED BY <3>1, CallerAlone DEF Elsewhere
  <2> QED BY <2>4, <2>5 DEF Active
<1>2. CASE closing \/ closed
  <2>1. ~Active(r) /\ ip[Job] >= Len(Calls)
    BY <1>2 DEF Told, Course
  <2>2. ~StartDataFlow(Job)
    <3> SUFFICES ASSUME pc[Job] = "flow" PROVE FALSE
      BY DEF StartDataFlow
    <3>1. ip[Job] <= Len(Calls) /\ ~InCall("close")
      BY DEF Life, Places, Walking
    <3>2. ip[Job] # Len(Calls)
      BY <3>1
    <3> QED BY <2>1, <3>1, <3>2
  <2>3. ASSUME CallerStep(Job) PROVE pc'[r] = pc[r]
    BY <2>2, <2>3, CallerAlone DEF Elsewhere
  <2>4. ASSUME NEW a \in RunId \cup Helper, RunStep(a) \/ HelperStep(a) \/ HasNews(a) PROVE pc'[r] = pc[r] \/ pc'[r] = "gone"
    <3>1. a # r
      BY <2>1, <2>4, PipelineAssumption DEF Active, RunStep, HelperStep, RunEnds, StoreErr, CloseDone, HelperStops, HasNews, Post, Send
    <3> QED BY <2>4, <3>1, OneAlone
  <2>5. pc'[r] = pc[r] \/ pc'[r] = "gone"
    <3>1. CASE PlNext
      BY <2>3, <2>4, <3>1 DEF PlNext, OneRun, News, CancelParent, callVars
    <3>2. CASE ~PlNext
      BY <3>2 DEF Next, Pump, PumpTake, PumpPublish, PumpEnds, Tick, JobEnds, Subscriber, Subscribe, Joins,
         Receive, Unsubscribe, vars, plVars, callVars
    <3> QED BY <3>1, <3>2
  <2> QED BY <2>1, <2>5 DEF Active
<1> QED BY <1>1, <1>2

(* A run that is done has posted its end: the bus was open.                 *)
LEMMA EndPosted ==
  ASSUME OneRun, Life, Told, NEW r \in RunId, [Next]_vars, pc'[r] \in {"done", "gone"}, pc[r] \notin {"done", "gone"}
  PROVE  OnItsWay'
<1> USE OnceWaits, Home
<1>1. Post(r) \/ Send(r)
  <2>1. ASSUME CallerStep(Job) PROVE FALSE
    <3>1. CASE StartDataFlow(Job)
      BY <3>1 DEF StartDataFlow
    <3>2. CASE ~StartDataFlow(Job)
      <4>1. pc'[r] = pc[r]
        BY <2>1, <3>2, CallerAlone DEF Elsewhere
      <4> QED BY <4>1
    <3> QED BY <3>1, <3>2
  <2>2. ASSUME NEW a \in RunId \cup Helper, RunStep(a) \/ HelperStep(a) \/ HasNews(a) PROVE a = r /\ (Post(r) \/ Send(r))
    <3>1. a = r
      BY <2>2, OneAlone
    <3>2. r \notin Helper
      BY PipelineAssumption DEF RunId
    <3> QED BY <2>2, <3>1, <3>2 DEF RunStep, HelperStep, RunEnds, StoreErr, CloseDone, HelperStops, HasNews
  <2>3. CASE PlNext
    BY <2>1, <2>2, <2>3 DEF PlNext, OneRun, News, CancelParent, callVars
  <2>4. CASE ~PlNext
    BY <2>4 DEF Next, Pump, PumpTake, PumpPublish, PumpEnds, Tick, JobEnds, Subscriber, Subscribe, Joins,
         Receive, Unsubscribe, vars, plVars, callVars
  <2> QED BY <2>3, <2>4
<1>2. Active(r) /\ ~closing /\ ~closed
  BY <1>1 DEF Told, Active, Post, Send
<1>3. Send(r) /\ AfterPost(r)
  <2>1. CASE Post(r)
    BY <1>2, <2>1 DEF Post
  <2> QED BY <1>1, <2>1 DEF Send
<1>4. ev[r] \in Terminal /\ r \in Actor /\ ev[r] \in Event
  <2>1. r \in Actor /\ r \notin Caller
    BY PipelineAssumption DEF OneRun
  <2> QED BY <1>3, <2>1 DEF AfterPost
<1>5. dropped' \/ bus' = Append(bus, ev[r])
  BY <1>2, <1>3 DEF Send
<1>6. bus' = Append(bus, ev[r]) => OnBus'
  <2>1. bus \in Seq(Event)
    BY DEF Life, PlTypeOK
  <2> QED BY <1>4, <2>1, BusGrows DEF OnBus
<1> QED BY <1>5, <1>6 DEF OnItsWay

LEMMA ToldStep ==
  ASSUME OneRun, Life, Course, Told, [Next]_vars
  PROVE  Told'
<1>1. (closing \/ closed)' => \A r \in RunId : ~Active(r)'
  BY QuietStep
<1>2. (pump = "gone" => closed /\ bus = <<>>)'
  BY GonePump DEF Told
<1>3. ASSUME NEW r \in RunId, pc'[r] \in {"done", "gone"} PROVE OnItsWay'
  <2>1. CASE pc[r] \in {"done", "gone"}
    BY <2>1, StaysOnItsWay DEF Told
  <2>2. CASE pc[r] \notin {"done", "gone"}
    BY <1>3, <2>2, EndPosted
  <2> QED BY <2>1, <2>2
<1> QED BY <1>1, <1>2, <1>3 DEF Told

(* Once the pump is gone the log has the end of the run, for every program  *)
(* that runs once, unless the bus was full at some time: the run posts its  *)
(* last event before it closes done, and Close comes after that.            *)
THEOREM EndIsLogged == OneRun => (Spec => []EndIsTold)
<1> SUFFICES ASSUME OneRun PROVE Spec => []EndIsTold
  OBVIOUS
<1>1. Init => Life /\ Course /\ Told
  <2> SUFFICES ASSUME Init PROVE Told
    BY OnceWaits, InitLife, InitCourse
  <2>1. \A r \in RunId : pc[r] = "off"
    <3>1. \A r \in RunId : r \in Actor /\ r \notin Caller /\ r \notin Helper
      BY PipelineAssumption DEF Actor, RunId
    <3> QED BY <3>1 DEF Init, PlInit
  <2> QED BY <2>1 DEF Told, Active, Init, PlInit
<1>2. (Life /\ Course /\ Told) /\ [Next]_vars => (Life /\ Course /\ Told)'
  BY OnceWaits, LifeStep, CourseStep, ToldStep
<1>3. Course /\ Told => EndIsTold
  <2> SUFFICES ASSUME Course, Told, pump = "gone", ~dropped PROVE told
    BY DEF EndIsTold
  <2>1. Joined /\ bus = <<>>
    BY DEF Course, Told
  <2>2. ~OnBus
    BY <2>1, EmptySeq DEF OnBus
  <2>3. OnItsWay
    BY <2>1 DEF Joined, Told
  <2> QED BY <2>2, <2>3 DEF OnItsWay
<1> QED BY <1>1, <1>2, <1>3, PTL DEF Spec
=============================================================================
