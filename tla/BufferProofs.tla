------------------------------ MODULE BufferProofs ------------------------------
(***************************************************************************)
(* Theorems about the packet buffer, for every length of the queue and     *)
(* every number of blocks and sessions.                                    *)
(*                                                                         *)
(* InOrder and Conserved support each other: that the block just captured  *)
(* is above every block on its way is Conserved, and that a cleared block  *)
(* was not written already is InOrder.  Together with TypeOK they are      *)
(* inductive, by way of one observation: taking a block from the queue and *)
(* writing it out do not change the pipeline at all.                       *)
(***************************************************************************)
EXTENDS Buffer, SequenceTheorems, TLAPS

-----------------------------------------------------------------------------
(* Facts about sequences.                                                  *)

\* A sequence is its head followed by its tail (the two halves of a pop).
LEMMA HeadThenTail ==
    ASSUME NEW S, NEW s \in Seq(S), s # <<>>
    PROVE  <<Head(s)>> \o Tail(s) = s
<1>1. Head(s) \in S /\ Tail(s) \in Seq(S) /\ Len(Tail(s)) = Len(s) - 1
  BY HeadTailProperties
<1>2. \A i \in 1..Len(Tail(s)) : Tail(s)[i] = s[i+1]
  BY HeadTailProperties
<1>3. <<Head(s)>> \in Seq(S) /\ Len(<<Head(s)>>) = 1 /\ <<Head(s)>>[1] = s[1]
  BY <1>1
<1>4. Len(s) \in Nat
  BY LenProperties
<1>5. /\ <<Head(s)>> \o Tail(s) \in Seq(S)
      /\ Len(<<Head(s)>> \o Tail(s)) = Len(s)
      /\ \A i \in 1..Len(s) : (<<Head(s)>> \o Tail(s))[i]
                                 = IF i <= 1 THEN s[1] ELSE Tail(s)[i - 1]
  BY <1>1, <1>3, <1>4, ConcatProperties
<1>6. \A i \in 1..Len(s) : (<<Head(s)>> \o Tail(s))[i] = s[i]
  BY <1>1, <1>2, <1>4, <1>5
<1> QED
  BY <1>5, <1>6, SeqEqual

\* A sequence of at most one element that is not empty is that element.
LEMMA OnlyElement ==
    ASSUME NEW s \in Seq(Nat), s # <<>>, Len(s) <= 1
    PROVE  s[1] \in Nat /\ s = <<s[1]>>
<1>1. Len(s) \in Nat
  BY LenProperties
<1>2. Len(s) # 0
  BY EmptySeq, Zenon
<1> DEFINE n == Len(s)
<1>3. Len(s) = 1
  <2>1. n \in Nat /\ n # 0 /\ n <= 1
    BY <1>1, <1>2
  <2> HIDE DEF n
  <2>2. n = 1
    BY ONLY <2>1, SMTT(30)
  <2> QED
    BY <2>2 DEF n
<1>4. s[1] \in Nat
  BY <1>3, ElementOfSeq
<1>5. <<s[1]>> \in Seq(Nat) /\ Len(<<s[1]>>) = 1 /\ <<s[1]>>[1] = s[1]
  BY <1>4
<1> QED
  BY <1>3, <1>4, <1>5, SeqEqual

\* What follows a one-element sequence in a concatenation is the tail.
LEMMA OneThenRest ==
    ASSUME NEW p \in Seq(Nat), NEW d \in Seq(Nat), NEW e \in Nat, p = <<e>>
    PROVE  p \o d # <<>> /\ Head(p \o d) = e /\ Tail(p \o d) = d
  OBVIOUS

\* Concatenation of sequences of numbers is associative.
LEMMA Regroup ==
    ASSUME NEW s \in Seq(Nat), NEW t \in Seq(Nat), NEW u \in Seq(Nat)
    PROVE  (s \o t) \o u = s \o (t \o u)
  BY ConcatAssociative, Z3

\* Appending a number above all the others keeps a sequence increasing.
LEMMA AppendAbove ==
    ASSUME NEW s \in Seq(Nat), NEW e \in Nat,
           Increasing(s), \A i \in DOMAIN s : s[i] < e
    PROVE  Increasing(Append(s, e))
<1>1. Len(s) \in Nat /\ DOMAIN s = 1..Len(s)
  BY LenProperties
<1>2. /\ DOMAIN Append(s, e) = 1..(Len(s) + 1)
      /\ \A i \in 1..Len(s) : Append(s, e)[i] = s[i]
      /\ Append(s, e)[Len(s) + 1] = e
  BY AppendProperties, LenProperties
<1> QED
  BY <1>1, <1>2 DEF Increasing

\* A prefix of an increasing sequence is increasing and shares no element
\* with the rest.
LEMMA PrefixApart ==
    ASSUME NEW s \in Seq(Nat), NEW t \in Seq(Nat), Increasing(s \o t)
    PROVE  Increasing(s) /\ Range(s) \cap Range(t) = {}
<1>1. /\ Len(s) \in Nat /\ DOMAIN s = 1..Len(s)
      /\ Len(t) \in Nat /\ DOMAIN t = 1..Len(t)
  BY LenProperties
<1> DEFINE u == s \o t
<1>2. /\ DOMAIN u = 1..(Len(s) + Len(t))
      /\ \A i \in 1..(Len(s) + Len(t)) :
            u[i] = IF i <= Len(s) THEN s[i] ELSE t[i - Len(s)]
  BY <1>1, ConcatProperties, LenProperties
<1>0. Increasing(u)
  OBVIOUS
<1> HIDE DEF u
<1>3. \A i \in 1..Len(s), j \in 1..Len(t) : s[i] < t[j]
  <2> SUFFICES ASSUME NEW i \in 1..Len(s), NEW j \in 1..Len(t)
               PROVE  s[i] < t[j]
    OBVIOUS
  <2>1. i \in 1..(Len(s) + Len(t)) /\ u[i] = s[i]
    BY <1>1, <1>2
  <2>2. (Len(s) + j) \in 1..(Len(s) + Len(t)) /\ u[Len(s) + j] = t[j]
    <3>1. (Len(s) + j) \in 1..(Len(s) + Len(t)) /\ ~(Len(s) + j <= Len(s))
          /\ Len(s) + j - Len(s) = j
      BY <1>1
    <3> QED
      BY <1>2, <3>1
  <2>3. i < Len(s) + j
    BY <1>1
  <2> QED
    BY <1>2, <1>0, <2>1, <2>2, <2>3 DEF Increasing
<1>4. \A i \in 1..Len(s) : s[i] \in Nat
  BY ElementOfSeq
<1>5. Range(s) \cap Range(t) = {}
  <2> SUFFICES ASSUME NEW i \in 1..Len(s), NEW j \in 1..Len(t), s[i] = t[j]
               PROVE  FALSE
    BY <1>1 DEF Range
  <2> QED
    BY <1>3, <1>4
<1>6. Increasing(s)
  <2> SUFFICES ASSUME NEW i \in 1..Len(s), NEW j \in 1..Len(s), i < j
               PROVE  s[i] < s[j]
    BY <1>1 DEF Increasing
  <2>1. i \in DOMAIN u /\ j \in DOMAIN u /\ u[i] = s[i] /\ u[j] = s[j]
    BY <1>1, <1>2
  <2> QED
    BY <1>0, <2>1 DEF Increasing
<1> QED
  BY <1>5, <1>6

-----------------------------------------------------------------------------
(* Type correctness.                                                       *)

LEMMA TypeInit ==
    ASSUME Init
    PROVE  TypeOK
<1>1. FlagTypes /\ ThreadTypes /\ CountTypes
  BY DEF Init, FlagTypes, ThreadTypes, CountTypes, Locations
<1>2. BlockTypes
  <2>1. /\ data \in Seq(Nat) /\ Len(data) = 0
        /\ pkt \in Seq(Nat) /\ Len(pkt) = 0
        /\ out \in Seq(Nat)
    BY DEF Init
  <2>2. ~Writing /\ pkt = <<>> /\ lost = {}
    BY DEF Init, Writing
  <2> QED
    BY <2>1, <2>2, MaxQueueAssumption DEF BlockTypes
<1> QED
  BY <1>1, <1>2 DEF TypeOK

\* Every step of every actor keeps the types and the bound on the queue.
LEMMA TypeStep ==
    ASSUME TypeOK, [Next]_vars
    PROVE  TypeOK'
<1> USE DEF TypeOK, Writing, flags, consumer, history, Shared
<1>1. CASE Fill
  <2>1. data' \in Seq(Nat) /\ Len(data') = Len(data) + 1
    BY <1>1, AppendProperties DEF Fill, Captured, CountTypes, BlockTypes
  <2>2. Len(data') <= MaxQueue
    BY <1>1, <2>1, LenProperties, MaxQueueAssumption
       DEF Fill, QueueHasRoom, BlockTypes
  <2>3. BlockTypes'
    BY <1>1, <2>1, <2>2 DEF Fill, BlockTypes
  <2> QED
    BY <1>1, <2>3 DEF Fill, Captured, FlagTypes, ThreadTypes, CountTypes
<1>2. CASE FillOverrun \/ FillTimesOut
  <2>1. BlockTypes'
    <3>1. lost' \in SUBSET Nat
      <4>1. filled + 1 \in Nat
        BY DEF CountTypes
      <4>2. lost' = lost \cup {filled + 1}
        BY <1>2 DEF FillOverrun, FillTimesOut
      <4> QED
        BY <4>1, <4>2 DEF BlockTypes
    <3>2. UNCHANGED <<data, pkt, bpc, out>>
      BY <1>2 DEF FillOverrun, FillTimesOut
    <3> QED
      BY <3>1, <3>2 DEF BlockTypes
  <2> QED
    BY <1>2, <2>1 DEF FillOverrun, FillTimesOut, Captured, FlagTypes, ThreadTypes,
                      CountTypes
<1>3. CASE LoopTop \/ WaitEnds \/ TestStreaming \/ TestXon \/ PopNothing
  <2>1. BlockTypes'
    BY <1>3 DEF LoopTop, WaitEnds, TestStreaming, TestXon, PopNothing, BlockTypes
  <2>2. ThreadTypes'
    BY <1>3 DEF LoopTop, WaitEnds, TestStreaming, TestXon, PopNothing, ThreadTypes,
                Locations
  <2>3. FlagTypes' /\ CountTypes'
    BY <1>3 DEF LoopTop, WaitEnds, TestStreaming, TestXon, PopNothing, FlagTypes, CountTypes
  <2> QED
    BY <2>1, <2>2, <2>3
<1>10. CASE WriteFails
  <2>1. pkt' = <<>> /\ pkt' \in Seq(Nat) /\ Len(pkt') = 0 /\ bpc' = "loop"
    BY <1>10 DEF WriteFails
  <2>2. lost' \in SUBSET Nat
    BY <1>10, RangeOfSeq DEF WriteFails, BlockTypes
  <2>3. BlockTypes'
    BY <1>10, <2>1, <2>2 DEF WriteFails, BlockTypes
  <2> QED
    BY <1>10, <2>3 DEF WriteFails, FlagTypes, ThreadTypes, CountTypes, Locations
<1>11. CASE WriteBlocks
  BY <1>11 DEF WriteBlocks, FlagTypes, ThreadTypes, CountTypes, BlockTypes, Locations
<1>4. CASE Pop
  <2>1. Head(data) \in Nat /\ data' \in Seq(Nat) /\ Len(data') = Len(data) - 1
    BY <1>4, HeadTailProperties DEF Pop, Remaining, BlockTypes
  <2>2. Len(data') <= MaxQueue
    BY <2>1, LenProperties, MaxQueueAssumption DEF BlockTypes
  <2>3. pkt' \in Seq(Nat) /\ Len(pkt') = 1 /\ pkt' # <<>> /\ bpc' = "write"
    BY <1>4, <2>1 DEF Pop
  <2>4. BlockTypes'
    BY <1>4, <2>1, <2>2, <2>3 DEF Pop, BlockTypes
  <2>5. isEmpty' \in BOOLEAN
    BY <1>4, Zenon DEF Pop
  <2> QED
    BY <1>4, <2>4, <2>5 DEF Pop, FlagTypes, ThreadTypes, CountTypes, Locations
<1>5. CASE Write
  <2>1. out' \in Seq(Nat)
    BY <1>5, ConcatProperties DEF Write, BlockTypes
  <2>2. pkt' = <<>> /\ pkt' \in Seq(Nat) /\ Len(pkt') = 0 /\ bpc' = "loop"
    BY <1>5 DEF Write
  <2>3. BlockTypes'
    BY <1>5, <2>1, <2>2 DEF Write, BlockTypes
  <2> QED
    BY <1>5, <2>3 DEF Write, FlagTypes, ThreadTypes, CountTypes, Locations
<1>6. CASE ClearQueue \/ ClearTimesOut
  <2>1. data' \in Seq(Nat) /\ Len(data') <= MaxQueue
    BY <1>6, EmptySeq, MaxQueueAssumption DEF ClearQueue, ClearTimesOut, BlockTypes
  <2>2. lost' \in SUBSET Nat
    BY <1>6, RangeOfSeq DEF ClearQueue, ClearTimesOut, BlockTypes
  <2>3. BlockTypes'
    BY <1>6, <2>1, <2>2 DEF ClearQueue, ClearTimesOut, BlockTypes
  <2> QED
    BY <1>6, <2>3 DEF ClearQueue, ClearTimesOut, FlagTypes, ThreadTypes, CountTypes,
                      Locations
<1>7. CASE Commands
  <2>1. BlockTypes'
    BY <1>7 DEF Commands, CmdLoop, CmdOther, CmdXon, SetXon, CmdXoff, ClearXon,
                StartCapture, SetStreaming,
                ClearStreaming, StopCapture, BlockTypes
  <2>2. ThreadTypes'
    BY <1>7 DEF Commands, CmdLoop, CmdOther, CmdXon, SetXon, CmdXoff, ClearXon,
                StartCapture, SetStreaming,
                ClearStreaming, StopCapture, ThreadTypes
  <2>3. CountTypes'
    <3>1. CASE SetXon \/ SetStreaming \/ StartCapture
      BY <3>1 DEF SetXon, SetStreaming, StartCapture, CountTypes
    <3>2. CASE CmdLoop \/ CmdOther \/ CmdXon \/ CmdXoff \/ ClearXon
               \/ ClearStreaming \/ StopCapture
      <4>1. UNCHANGED <<sessions, filled, lateStop, lateXoff>>
        BY <3>2 DEF CmdLoop, CmdOther, CmdXon, CmdXoff, ClearXon, ClearStreaming,
                    StopCapture
      <4> QED
        BY <4>1 DEF CountTypes
    <3> QED
      BY <1>7, <3>1, <3>2 DEF Commands
  <2>4. FlagTypes'
    <3>1. CASE CmdLoop \/ CmdOther \/ CmdXon \/ SetXon \/ CmdXoff \/ ClearXon
               \/ SetStreaming
      BY <3>1 DEF CmdLoop, CmdOther, CmdXon, SetXon, CmdXoff, ClearXon, SetStreaming,
                  FlagTypes
    <3>2. CASE StartCapture \/ ClearStreaming \/ StopCapture
      BY <3>2 DEF StartCapture, ClearStreaming, StopCapture, FlagTypes
    <3> QED
      BY <1>7, <3>1, <3>2 DEF Commands
  <2> QED
    BY <2>1, <2>2, <2>3, <2>4
<1>8. CASE Terminate \/ DeleteDevice
  <2>1. BlockTypes'
    BY <1>8 DEF Terminate, ClearRun, TerminateStop, TerminateCapture, DeleteDevice,
                BlockTypes
  <2>2. ThreadTypes'
    BY <1>8 DEF Terminate, ClearRun, TerminateStop, TerminateCapture, DeleteDevice,
                ThreadTypes
  <2>3. CountTypes'
    BY <1>8 DEF Terminate, ClearRun, TerminateStop, TerminateCapture, DeleteDevice,
                CountTypes
  <2>4. FlagTypes'
    <3>1. CASE ClearRun \/ TerminateStop
      BY <3>1 DEF ClearRun, TerminateStop, FlagTypes
    <3>2. CASE TerminateCapture \/ DeleteDevice
      BY <3>2 DEF TerminateCapture, DeleteDevice, FlagTypes
    <3> QED
      BY <1>8, <3>1, <3>2 DEF Terminate
  <2> QED
    BY <2>1, <2>2, <2>3, <2>4
<1>9. CASE UNCHANGED vars
  BY <1>9 DEF vars, FlagTypes, ThreadTypes, CountTypes, BlockTypes
<1> QED
  BY <1>1, <1>2, <1>3, <1>4, <1>5, <1>6, <1>7, <1>8, <1>9, <1>10, <1>11 DEF Next, BufferRun

\* The type invariant of the buffer holds in every behaviour.
THEOREM TypeCorrect == Spec => []TypeOK
<1>1. Init => TypeOK
  BY TypeInit
<1>2. TypeOK /\ [Next]_vars => TypeOK'
  BY TypeStep
<1> QED
  BY <1>1, <1>2, PTL DEF Spec

-----------------------------------------------------------------------------
(* Order and conservation of the blocks.                                   *)

\* Taking a block from the queue and writing it leave the pipeline as it is.
LEMMA MovingKeepsPipeline ==
    ASSUME TypeOK, Pop \/ Write
    PROVE  pipeline' = pipeline
<1> USE DEF TypeOK, BlockTypes, Writing, pipeline
<1>1. CASE Pop
  <2>1. pkt = <<>> /\ out' = out /\ pkt' = <<Head(data)>> /\ data' = Tail(data)
    BY <1>1 DEF Pop, Remaining, history
  <2>2. pkt' \o data' = data
    BY <1>1, <2>1, HeadThenTail DEF Pop
  <2>3. pkt \o data = data
    BY <2>1, ConcatEmptySeq
  <2> QED
    BY <2>1, <2>2, <2>3
<1>2. CASE Write
  <2>1. out' = out \o pkt /\ pkt' = <<>> /\ data' = data
    BY <1>2 DEF Write
  <2>2. pkt' \o data' = data
    BY <2>1, ConcatEmptySeq
  <2>3. (out \o pkt) \o data = out \o (pkt \o data)
    BY Regroup
  <2> QED
    BY <2>1, <2>2, <2>3
<1> QED
  BY <1>1, <1>2

\* A block that enters the queue enters the pipeline at its end.
LEMMA FillExtendsPipeline ==
    ASSUME TypeOK, Fill
    PROVE  pipeline' = Append(pipeline, filled + 1)
<1> USE DEF TypeOK, BlockTypes, Writing, CountTypes, pipeline
<1>1. out' = out /\ pkt' = pkt /\ data' = Append(data, filled + 1) /\ filled + 1 \in Nat
  BY DEF Fill, history, consumer
<1>2. /\ pkt \o data \in Seq(Nat)
      /\ <<filled + 1>> \in Seq(Nat)
  BY <1>1, ConcatProperties
<1>3. data' = data \o <<filled + 1>>
  BY <1>1, AppendIsConcat
<1>4. pkt \o data' = (pkt \o data) \o <<filled + 1>>
  BY <1>2, <1>3, Regroup
<1>5. out \o (pkt \o data') = (out \o (pkt \o data)) \o <<filled + 1>>
  <2>1. out \in Seq(Nat)
    OBVIOUS
  <2>2. out \o ((pkt \o data) \o <<filled + 1>>) = (out \o (pkt \o data)) \o <<filled + 1>>
    BY <1>2, <2>1, Regroup
  <2> QED
    BY <1>4, <2>2
<1>6. out \o (pkt \o data) \in Seq(Nat)
  BY <1>2, ConcatProperties
<1> QED
  BY <1>1, <1>5, <1>6, AppendIsConcat

\* Clearing the queue leaves what was written, and what is cleared was not.
LEMMA ClearTruncatesPipeline ==
    ASSUME TypeOK, InOrder, ClearQueue
    PROVE  /\ pipeline' = out /\ Increasing(out)
           /\ Range(pipeline) = Range(out) \cup Range(data)
           /\ Range(out) \cap Range(data) = {}
<1> USE DEF TypeOK, BlockTypes, Writing, pipeline
<1>1. pkt = <<>> /\ pkt' = <<>> /\ data' = <<>> /\ out' = out
  BY DEF ClearQueue, history
<1>2. pkt \o data = data /\ pkt' \o data' = <<>> /\ out \o <<>> = out
  BY <1>1, ConcatEmptySeq, EmptySeq
<1>3. pipeline = out \o data /\ pipeline' = out
  BY <1>1, <1>2
<1>4. Range(pipeline) = Range(out) \cup Range(data)
  BY <1>3, RangeConcatenation
<1>5. Increasing(out) /\ Range(out) \cap Range(data) = {}
  BY <1>3, PrefixApart DEF InOrder
<1> QED
  BY <1>3, <1>4, <1>5

\* A write that fails takes the block in hand out of the pipeline.
LEMMA LosingShrinksPipeline ==
    ASSUME TypeOK, InOrder, WriteFails
    PROVE  /\ Increasing(pipeline')
           /\ Range(pipeline) = Range(pipeline') \cup Range(pkt)
           /\ Range(pipeline') \cap Range(pkt) = {}
<1> USE DEF TypeOK, BlockTypes, Writing
<1>1. pkt # <<>> /\ pkt' = <<>> /\ data' = data /\ out' = out
  BY DEF WriteFails, history
<1>2. pipeline' = out \o data
  BY <1>1, ConcatEmptySeq DEF pipeline
<1>3. PICK e \in Nat : pkt = <<e>>
  BY <1>1, OnlyElement
<1> DEFINE p == pipeline
           q == out \o data
           n == Len(out)
<1>4. p = out \o (<<e>> \o data)
  BY <1>3 DEF pipeline
<1>5. /\ n \in Nat /\ Len(data) \in Nat
      /\ DOMAIN q = 1..(n + Len(data)) /\ DOMAIN p = 1..(n + 1 + Len(data))
      /\ \A i \in 1..n : q[i] = out[i] /\ p[i] = out[i]
      /\ \A i \in 1..Len(data) : q[n + i] = data[i] /\ p[n + 1 + i] = data[i]
      /\ p[n + 1] = e
  BY <1>3, <1>4
<1>6. \A i, j \in DOMAIN p : i < j => p[i] < p[j]
  BY DEF InOrder, Increasing
<1>7. \A i \in DOMAIN p : p[i] \in Nat
  <2>1. <<e>> \in Seq(Nat) /\ <<e>> \o data \in Seq(Nat)
    BY <1>3
  <2>2. p \in Seq(Nat)
    BY <1>4, <2>1
  <2> QED
    BY <2>2, ElementOfSeq
<1> HIDE DEF p, q, n
<1> DEFINE at(i) == IF i <= n THEN i ELSE i + 1
<1>8. \A i \in DOMAIN q : at(i) \in DOMAIN p /\ at(i) # n + 1 /\ p[at(i)] = q[i]
  <2> SUFFICES ASSUME NEW i \in DOMAIN q
               PROVE  at(i) \in DOMAIN p /\ at(i) # n + 1 /\ p[at(i)] = q[i]
    OBVIOUS
  <2>1. CASE i <= n
    BY <1>5, <2>1
  <2>2. CASE i > n
    <3>1. i \in Int /\ i <= n + Len(data)
      BY <1>5
    <3>2. PICK k \in 1..Len(data) : i = n + k
      <4>1. i - n \in 1..Len(data) /\ i = n + (i - n)
        BY <1>5, <2>2, <3>1
      <4> QED
        BY <4>1
    <3>3. at(i) = n + 1 + k /\ at(i) \in DOMAIN p /\ at(i) # n + 1
      BY <1>5, <2>2, <3>2
    <3>4. p[n + 1 + k] = q[n + k]
      BY <1>5
    <3> HIDE DEF at
    <3> QED
      BY <3>2, <3>3, <3>4
  <2> QED
    BY <1>5, <2>1, <2>2
<1>9. \A i \in DOMAIN p : i # n + 1 => \E k \in DOMAIN q : at(k) = i
  <2> SUFFICES ASSUME NEW i \in DOMAIN p, i # n + 1
               PROVE  \E k \in DOMAIN q : at(k) = i
    OBVIOUS
  <2>1. CASE i <= n
    <3>1. i \in DOMAIN q /\ at(i) = i
      BY <1>5, <2>1
    <3> QED
      BY <3>1
  <2>2. CASE i > n
    <3>1. i \in Int /\ i <= n + 1 + Len(data) /\ i > n + 1
      BY <1>5, <2>2
    <3>2. i - 1 \in DOMAIN q /\ ~(i - 1 <= n) /\ (i - 1) + 1 = i
      BY <1>5, <3>1
    <3> QED
      BY <3>2
  <2> QED
    BY <1>5, <2>1, <2>2
<1>10. \A i, j \in DOMAIN q : i < j => at(i) < at(j)
  BY <1>5
<1> HIDE DEF at
<1>11. Increasing(q)
  BY <1>6, <1>8, <1>10 DEF Increasing
<1>12. Range(p) = Range(q) \cup {e}
  <2>1. n + 1 \in DOMAIN p
    BY <1>5
  <2>2. Range(q) \subseteq Range(p) /\ e \in Range(p)
    <3>1. e \in Range(p)
      BY <1>5, <2>1 DEF Range
    <3>2. ASSUME NEW i \in DOMAIN q PROVE q[i] \in Range(p)
      BY <1>8 DEF Range
    <3> QED
      BY <3>1, <3>2 DEF Range
  <2>3. ASSUME NEW i \in DOMAIN p PROVE p[i] \in Range(q) \cup {e}
    <3>1. CASE i = n + 1
      BY <1>5, <3>1
    <3>2. CASE i # n + 1
      <4>1. PICK k \in DOMAIN q : at(k) = i
        BY <1>9, <3>2
      <4>2. p[i] = q[k]
        BY <1>8, <4>1
      <4> QED
        BY <4>2 DEF Range
    <3> QED
      BY <3>1, <3>2
  <2>4. Range(p) \subseteq Range(q) \cup {e}
    BY <2>3 DEF Range
  <2> QED
    BY <2>2, <2>4
<1>13. e \notin Range(q)
  <2> SUFFICES ASSUME NEW i \in DOMAIN q, q[i] = e
               PROVE  FALSE
    BY DEF Range
  <2>1. at(i) \in DOMAIN p /\ n + 1 \in DOMAIN p /\ at(i) # n + 1 /\ p[at(i)] = p[n + 1]
    BY <1>5, <1>8
  <2>2. at(i) \in Int /\ n + 1 \in Int
    BY <1>5, <2>1
  <2>3. at(i) < n + 1 \/ n + 1 < at(i)
    BY <2>1, <2>2
  <2> QED
    BY <1>6, <1>7, <2>1, <2>3
<1>14. Range(pkt) = {e}
  BY <1>3 DEF Range
<1> QED
  BY <1>2, <1>11, <1>12, <1>13, <1>14 DEF p, q

PipelineInv == TypeOK /\ InOrder /\ Conserved

LEMMA PipelineInit ==
    ASSUME Init
    PROVE  PipelineInv
<1>1. pipeline = <<>>
  BY ConcatEmptySeq, EmptySeq DEF Init, pipeline
<1>2. InOrder
  BY <1>1 DEF InOrder, Increasing
<1>3. Conserved
  BY <1>1 DEF Conserved, Range, Init
<1> QED
  BY <1>2, <1>3, TypeInit DEF PipelineInv

LEMMA PipelineStep ==
    ASSUME PipelineInv, [Next]_vars
    PROVE  PipelineInv'
<1> USE DEF PipelineInv
<1>1. TypeOK'
  BY TypeStep
<1>2. filled \in Nat /\ filled + 1 \in Nat /\ pipeline \in Seq(Nat)
  BY ConcatProperties DEF TypeOK, CountTypes, BlockTypes, pipeline
<1>3. CASE Fill
  <2>1. pipeline' = Append(pipeline, filled + 1)
    BY <1>3, FillExtendsPipeline
  <2>2. filled' = filled + 1 /\ lost' = lost
    BY <1>3 DEF Fill, Captured
  <2>3. \A i \in DOMAIN pipeline : pipeline[i] < filled + 1
    <3>1. \A i \in DOMAIN pipeline : pipeline[i] \in 1..filled
      BY DEF Conserved, Range
    <3> QED
      BY <1>2, <3>1
  <2>4. InOrder'
    BY <1>2, <2>1, <2>3, AppendAbove DEF InOrder
  <2>5. Range(pipeline') = Range(pipeline) \cup {filled + 1}
    BY <1>2, <2>1, AppendProperties, LenProperties DEF Range
  <2>6. Conserved'
    <3>1. 1..filled' = (1..filled) \cup {filled + 1} /\ filled + 1 \notin 1..filled
      BY <1>2, <2>2
    <3> QED
      BY <2>2, <2>5, <3>1 DEF Conserved
  <2> QED
    BY <1>1, <2>4, <2>6
<1>4. CASE FillOverrun \/ FillTimesOut
  <2>1. pipeline' = pipeline /\ filled' = filled + 1 /\ lost' = lost \cup {filled + 1}
    BY <1>4 DEF FillOverrun, FillTimesOut, Captured, pipeline, consumer, history
  <2>2. 1..filled' = (1..filled) \cup {filled + 1} /\ filled + 1 \notin 1..filled
    BY <1>2, <2>1
  <2>3. Conserved'
    BY <2>1, <2>2 DEF Conserved
  <2> QED
    BY <1>1, <2>1, <2>3 DEF InOrder
<1>5. CASE Pop \/ Write
  <2>1. pipeline' = pipeline /\ filled' = filled /\ lost' = lost
    BY <1>5, MovingKeepsPipeline DEF Pop, Write, Shared
  <2> QED
    BY <1>1, <2>1 DEF InOrder, Conserved
<1>12. CASE WriteFails
  <2>1. filled' = filled /\ lost' = lost \cup Range(pkt)
    BY <1>12 DEF WriteFails, Shared
  <2>2. /\ Increasing(pipeline')
        /\ Range(pipeline) = Range(pipeline') \cup Range(pkt)
        /\ Range(pipeline') \cap Range(pkt) = {}
    BY <1>12, LosingShrinksPipeline
  <2> QED
    BY <1>1, <2>1, <2>2 DEF InOrder, Conserved
<1>6. CASE ClearQueue
  <2>1. filled' = filled /\ lost' = lost \cup Range(data)
    BY <1>6 DEF ClearQueue, Shared
  <2>2. InOrder'
    BY <1>6, ClearTruncatesPipeline DEF InOrder
  <2>3. Conserved'
    <3>1. /\ Range(pipeline') = Range(out)
          /\ Range(pipeline) = Range(out) \cup Range(data)
          /\ Range(out) \cap Range(data) = {}
      BY <1>6, ClearTruncatesPipeline
    <3> QED
      BY <2>1, <3>1 DEF Conserved
  <2> QED
    BY <1>1, <2>2, <2>3
<1>7. CASE UNCHANGED <<out, pkt, data, filled, lost>>
  <2>1. pipeline' = pipeline
    BY <1>7 DEF pipeline
  <2> QED
    BY <1>1, <1>7, <2>1 DEF InOrder, Conserved
<1>8. CASE LoopTop \/ WaitEnds \/ TestStreaming \/ TestXon \/ PopNothing
           \/ ClearTimesOut \/ WriteBlocks
  BY <1>7, <1>8 DEF WriteBlocks, LoopTop, WaitEnds, TestStreaming, TestXon, PopNothing,
                    ClearTimesOut,
                    Shared, history
<1>9. CASE Commands
  BY <1>7, <1>9 DEF Commands, CmdLoop, CmdOther, CmdXon, SetXon, CmdXoff, ClearXon,
                    StartCapture, SetStreaming,
                    ClearStreaming, StopCapture, consumer, history
<1>10. CASE Terminate \/ DeleteDevice
  BY <1>7, <1>10 DEF Terminate, ClearRun, TerminateStop, TerminateCapture, DeleteDevice,
                     consumer, history
<1>11. CASE UNCHANGED vars
  BY <1>7, <1>11 DEF vars, consumer, history
<1> QED
  BY <1>3, <1>4, <1>5, <1>6, <1>8, <1>9, <1>10, <1>11, <1>12 DEF Next, BufferRun

\* Blocks reach standard output in the order of capture, none of them twice.
THEOREM OutputInOrder == Spec => []InOrder
<1>1. Init => PipelineInv
  BY PipelineInit
<1>2. PipelineInv /\ [Next]_vars => PipelineInv'
  BY PipelineStep
<1>3. PipelineInv => InOrder
  BY DEF PipelineInv
<1> QED
  BY <1>1, <1>2, <1>3, PTL DEF Spec

\* Every captured block is accounted for: written, on its way, or dropped.
THEOREM BlocksConserved == Spec => []Conserved
<1>1. Init => PipelineInv
  BY PipelineInit
<1>2. PipelineInv /\ [Next]_vars => PipelineInv'
  BY PipelineStep
<1>3. PipelineInv => Conserved
  BY DEF PipelineInv
<1> QED
  BY <1>1, <1>2, <1>3, PTL DEF Spec

-----------------------------------------------------------------------------
(* After the stream is closed.                                             *)

\* A late block was the last one: the buffer thread is not past the test that
\* would let it write another.
LateInv ==
    /\ FlagTypes /\ CountTypes
    /\ lateStop <= 1 /\ lateXoff <= 1
    /\ streaming => lateStop = 0
    /\ lateStop = 1 => bpc \notin {"xon?", "pop", "write", "blocked"}
    /\ xon => lateXoff = 0
    /\ lateXoff = 1 => bpc \notin {"pop", "write", "blocked"}

LEMMA LateStep ==
    ASSUME TypeOK, TypeOK', LateInv, [Next]_vars
    PROVE  LateInv'
<1> USE DEF LateInv, Writing
<1>1. FlagTypes' /\ CountTypes'
  BY DEF TypeOK
<1>2. CASE Write
  BY <1>1, <1>2 DEF Write, Shared, flags, FlagTypes, CountTypes
<1>3. CASE LoopTop \/ WaitEnds \/ TestStreaming \/ TestXon \/ Pop \/ PopNothing
           \/ ClearQueue \/ ClearTimesOut \/ WriteFails \/ WriteBlocks
  <2>1. UNCHANGED <<streaming, xon, lateStop, lateXoff>>
    BY <1>3 DEF LoopTop, WaitEnds, TestStreaming, TestXon, Pop, PopNothing,
                ClearQueue, ClearTimesOut, WriteFails, WriteBlocks, Shared, flags, history
  <2>2. bpc' = "xon?" => streaming
    BY <1>3 DEF LoopTop, WaitEnds, TestStreaming, TestXon, Pop, PopNothing,
                ClearQueue, ClearTimesOut, WriteFails, WriteBlocks
  <2>3. bpc' \in {"pop", "write", "blocked"}
           => (bpc = "xon?" /\ xon) \/ bpc \in {"pop", "write", "blocked"}
    BY <1>3 DEF LoopTop, WaitEnds, TestStreaming, TestXon, Pop, PopNothing,
                ClearQueue, ClearTimesOut, WriteFails, WriteBlocks
  <2> QED
    BY <1>1, <2>1, <2>2, <2>3
<1>4. CASE SetXon \/ SetStreaming
  BY <1>1, <1>4 DEF SetXon, SetStreaming, consumer, CountTypes
<1>5. CASE ClearXon \/ ClearStreaming \/ TerminateStop
  BY <1>1, <1>5 DEF ClearXon, ClearStreaming, TerminateStop, consumer, history
<1>6. CASE UNCHANGED <<streaming, xon, lateStop, lateXoff, bpc>>
  BY <1>1, <1>6
<1>7. CASE Fill \/ FillOverrun \/ FillTimesOut \/ DeleteDevice
  BY <1>6, <1>7 DEF Fill, FillOverrun, FillTimesOut, DeleteDevice, flags, consumer, history
<1>8. CASE CmdLoop \/ CmdOther \/ CmdXon \/ CmdXoff \/ StartCapture \/ StopCapture
  BY <1>6, <1>8 DEF CmdLoop, CmdOther, CmdXon, CmdXoff, StartCapture, StopCapture, flags,
                    consumer, history
<1>9. CASE ClearRun \/ TerminateCapture
  BY <1>6, <1>9 DEF ClearRun, TerminateCapture, flags, consumer, history
<1>10. CASE UNCHANGED vars
  BY <1>6, <1>10 DEF vars, flags, consumer, history
<1> QED
  BY <1>2, <1>3, <1>4, <1>5, <1>7, <1>8, <1>9, <1>10 DEF Next, BufferRun, Commands,
                                                         Terminate

\* At most one block is written after m_streaming is cleared, and at most one after
\* m_xon is, however the flags change around the tests of the buffer thread.  (XOFF is
\* answered before it clears m_xon: the theorem counts from the clear.)
THEOREM FewLateBlocks == Spec => []AtMostOneLate
<1>1. Init => TypeOK /\ LateInv
  <2> SUFFICES ASSUME Init PROVE TypeOK /\ LateInv
    OBVIOUS
  <2>1. TypeOK
    BY TypeInit
  <2> QED
    BY <2>1 DEF TypeOK, LateInv, Init
<1>2. TypeOK /\ LateInv /\ [Next]_vars => TypeOK' /\ LateInv'
  BY TypeStep, LateStep
<1>3. LateInv => AtMostOneLate
  BY DEF LateInv, AtMostOneLate
<1> QED
  BY <1>1, <1>2, <1>3, PTL DEF Spec

-----------------------------------------------------------------------------
(* Refinement.                                                             *)

\* Each step of the buffer is a step of the abstract channel or none at all.
LEMMA ChannelStep ==
    ASSUME TypeOK, [Next]_vars
    PROVE  [Channel!ChannelNext]_(Channel!chan)
<1> USE DEF Channel!ChannelNext, Channel!chan
<1>0. /\ pkt \in Seq(Nat) /\ data \in Seq(Nat) /\ out \in Seq(Nat)
      /\ Len(pkt) \in Nat /\ Len(data) \in Nat
      /\ Len(pkt) <= 1 /\ Len(data) <= MaxQueue /\ filled \in Nat
  BY LenProperties DEF TypeOK, BlockTypes, CountTypes
<1>1. CASE Fill
  <2>1. /\ data' = Append(data, filled + 1) /\ filled' = filled + 1
        /\ pkt' = pkt /\ out' = out /\ Len(data) < MaxQueue
    BY <1>1 DEF Fill, Captured, QueueHasRoom, consumer, history
  <2>2. Len(pkt \o data) < MaxQueue + 1
    BY <1>0, <2>1, ConcatProperties, MaxQueueAssumption
  <2>3. pkt' \o data' = Append(pkt \o data, filled + 1)
    <3>1. /\ <<filled + 1>> \in Seq(Nat) /\ filled + 1 \in Nat /\ pkt \o data \in Seq(Nat)
      BY <1>0, ConcatProperties
    <3>2. data' = data \o <<filled + 1>>
      BY <1>0, <2>1, <3>1, AppendIsConcat
    <3>3. pkt \o data' = (pkt \o data) \o <<filled + 1>>
      BY <1>0, <3>1, <3>2, Regroup
    <3> QED
      BY <2>1, <3>1, <3>3, AppendIsConcat
  <2> QED
    BY <2>1, <2>2, <2>3 DEF Channel!Accept
<1>2. CASE FillOverrun \/ FillTimesOut
  BY <1>2 DEF FillOverrun, FillTimesOut, Captured, consumer, history, Channel!Refuse
<1>3. CASE Pop
  <2>1. pkt = <<>> /\ pkt' = <<Head(data)>> /\ data' = Tail(data) /\ out' = out
        /\ filled' = filled /\ data # <<>>
    BY <1>3 DEF Pop, Remaining, Shared, history, TypeOK, BlockTypes, Writing
  <2>2. pkt' \o data' = data
    BY <1>0, <2>1, HeadThenTail
  <2>3. pkt \o data = data
    BY <1>0, <2>1, ConcatEmptySeq
  <2> QED
    BY <2>1, <2>2, <2>3
<1>4. CASE Write
  <2>1. pkt # <<>> /\ pkt' = <<>> /\ data' = data /\ out' = out \o pkt /\ filled' = filled
    BY <1>4 DEF Write, Shared, TypeOK, BlockTypes, Writing
  <2>2. pkt = <<pkt[1]>> /\ pkt[1] \in Nat
    BY <1>0, <2>1, OnlyElement
  <2>3. pkt \o data # <<>> /\ Head(pkt \o data) = pkt[1] /\ Tail(pkt \o data) = data
    BY <1>0, <2>2, OneThenRest
  <2>4. out' = Append(out, pkt[1])
    BY <1>0, <2>1, <2>2, AppendIsConcat
  <2>5. pkt' \o data' = data
    BY <1>0, <2>1, ConcatEmptySeq
  <2> QED
    BY <2>1, <2>3, <2>4, <2>5 DEF Channel!Deliver
<1>11. CASE WriteFails
  <2>1. pkt # <<>> /\ pkt' = <<>> /\ data' = data /\ out' = out /\ filled' = filled
    BY <1>11 DEF WriteFails, Shared, history, TypeOK, BlockTypes, Writing
  <2>2. pkt = <<pkt[1]>> /\ pkt[1] \in Nat
    BY <1>0, <2>1, OnlyElement
  <2>3. pkt \o data # <<>> /\ Tail(pkt \o data) = data
    BY <1>0, <2>2, OneThenRest
  <2>4. pkt' \o data' = data
    BY <1>0, <2>1, ConcatEmptySeq
  <2> QED
    BY <2>1, <2>3, <2>4 DEF Channel!Lose
<1>5. CASE ClearQueue
  <2>1. pkt' = <<>> /\ data' = <<>> /\ out' = out /\ filled' = filled
    BY <1>5 DEF ClearQueue, Shared, history, TypeOK, BlockTypes, Writing
  <2>2. pkt' \o data' = <<>>
    BY <2>1, ConcatEmptySeq, EmptySeq
  <2> QED
    BY <2>1, <2>2 DEF Channel!Flush
<1>6. CASE UNCHANGED <<out, pkt, data, filled>>
  BY <1>6
<1>7. CASE LoopTop \/ WaitEnds \/ TestStreaming \/ TestXon \/ PopNothing
           \/ ClearTimesOut \/ WriteBlocks
  BY <1>6, <1>7 DEF WriteBlocks, LoopTop, WaitEnds, TestStreaming, TestXon, PopNothing,
                    ClearTimesOut,
                    Shared, history
<1>8. CASE Commands
  BY <1>6, <1>8 DEF Commands, CmdLoop, CmdOther, CmdXon, SetXon, CmdXoff, ClearXon,
                    StartCapture, SetStreaming,
                    ClearStreaming, StopCapture, consumer, history
<1>9. CASE Terminate \/ DeleteDevice
  BY <1>6, <1>9 DEF Terminate, ClearRun, TerminateStop, TerminateCapture, DeleteDevice,
                    consumer, history
<1>10. CASE UNCHANGED vars
  BY <1>6, <1>10 DEF vars, consumer, history
<1> QED
  BY <1>1, <1>2, <1>3, <1>4, <1>5, <1>7, <1>8, <1>9, <1>10, <1>11 DEF Next, BufferRun

\* The buffer implements the abstract channel with one place more than the queue.
THEOREM BufferImplementsChannel == Spec => ImplementsChannel
<1>1. Init => Channel!ChannelInit
  BY ConcatEmptySeq, EmptySeq DEF Init, Channel!ChannelInit
<1>2. TypeOK /\ [Next]_vars => [Channel!ChannelNext]_(Channel!chan)
  BY ChannelStep
<1> QED
  BY <1>1, <1>2, TypeCorrect, PTL DEF Spec, ImplementsChannel, Channel!ChannelSpec

-----------------------------------------------------------------------------
(* How long the threads take to end.                                       *)

(* The most steps each of the two threads that are joined has left, once   *)
(* m_run is cleared.                                                       *)
BufferStepsLeft ==
    CASE bpc = "wait" -> 7 [] bpc = "streaming?" -> 6 [] bpc = "xon?" -> 5 [] bpc = "pop" -> 4
      [] bpc = "write" -> 3 [] bpc = "blocked" -> 2 [] bpc = "clear" -> 2 [] bpc = "loop" -> 1
      [] OTHER -> 0

CommandStepsLeft ==
    CASE cpc = "poll" -> 3
      [] cpc \in {"starting", "stopping", "resuming", "pausing"} -> 2 [] cpc = "loop" -> 1
      [] OTHER -> 0

LEMMA BufferRunEnds ==
    ASSUME ~run, BufferRun
    PROVE  BufferStepsLeft' < BufferStepsLeft /\ CommandStepsLeft' = CommandStepsLeft /\ ~run'
<1>1. UNCHANGED Shared
  BY DEF BufferRun, LoopTop, WaitEnds, TestStreaming, TestXon, Pop, PopNothing, Write,
         WriteFails,
         WriteBlocks, ClearQueue, ClearTimesOut
<1>2. CommandStepsLeft' = CommandStepsLeft /\ ~run'
  BY <1>1 DEF Shared, flags, CommandStepsLeft
<1>3. CASE LoopTop \/ WaitEnds \/ TestStreaming \/ TestXon
  BY <1>2, <1>3 DEF LoopTop, WaitEnds, TestStreaming, TestXon, BufferStepsLeft
<1>4. CASE Pop \/ PopNothing \/ ClearQueue \/ ClearTimesOut
  BY <1>2, <1>4 DEF Pop, PopNothing, ClearQueue, ClearTimesOut, BufferStepsLeft
<1>5. CASE Write \/ WriteFails \/ WriteBlocks
  BY <1>2, <1>5 DEF Write, WriteFails, WriteBlocks, Writing, BufferStepsLeft
<1> QED
  BY <1>2, <1>3, <1>4, <1>5 DEF BufferRun

LEMMA CommandThreadEnds ==
    ASSUME ~run, Commands
    PROVE  CommandStepsLeft' < CommandStepsLeft /\ BufferStepsLeft' = BufferStepsLeft /\ ~run'
<1>1. UNCHANGED <<consumer, run>>
  BY DEF Commands, CmdLoop, CmdOther, CmdXon, SetXon, CmdXoff, ClearXon, StartCapture,
         SetStreaming, ClearStreaming,
         StopCapture, flags
<1>2. BufferStepsLeft' = BufferStepsLeft /\ ~run'
  BY <1>1 DEF consumer, BufferStepsLeft
<1>3. CASE CmdLoop \/ CmdOther \/ CmdXon \/ SetXon \/ CmdXoff \/ ClearXon
  BY <1>2, <1>3 DEF CmdLoop, CmdOther, CmdXon, SetXon, CmdXoff, ClearXon, CommandStepsLeft
<1>4. CASE StartCapture \/ SetStreaming \/ ClearStreaming \/ StopCapture
  <2>1. \/ cpc = "poll" /\ cpc' \in {"starting", "stopping"}
        \/ cpc \in {"starting", "stopping"} /\ cpc' = "loop"
    BY <1>4, Zenon DEF StartCapture, SetStreaming, ClearStreaming, StopCapture
  <2> QED
    BY <1>2, <2>1 DEF CommandStepsLeft
<1> QED
  BY <1>2, <1>3, <1>4 DEF Commands

\* Once m_run is cleared it stays so; every step of the buffer thread and of the
\* command thread brings it nearer to its end, and nothing takes it back: not a device
\* that goes on capturing, not a full queue, not a reader that comes and goes
\* (src/MythTV.cpp:440-480, 568-622).
Ending ==
    ~run =>
        /\ ~run'
        /\ BufferStepsLeft' <= BufferStepsLeft /\ CommandStepsLeft' <= CommandStepsLeft
        /\ BufferRun => BufferStepsLeft' < BufferStepsLeft
        /\ Commands => CommandStepsLeft' < CommandStepsLeft

EndIsBounded == [][Ending]_vars

\* Of the two threads that the destructor joins, the buffer thread makes at most 7
\* and the command thread at most 3 steps after m_run is cleared, whatever is in
\* the queue.
THEOREM BoundedEnd ==
    Spec => [](BufferStepsLeft \in 0..7 /\ CommandStepsLeft \in 0..3) /\ EndIsBounded
<1>1. BufferStepsLeft \in 0..7 /\ CommandStepsLeft \in 0..3
  BY DEF BufferStepsLeft, CommandStepsLeft
<1>2. [Next]_vars => [Ending]_vars
  <2> SUFFICES ASSUME ~run, Next
               PROVE  Ending
    BY DEF Ending
  <2>1. (BufferStepsLeft \in Int /\ CommandStepsLeft \in Int)
        /\ (BufferStepsLeft' \in Int /\ CommandStepsLeft' \in Int)
    BY DEF BufferStepsLeft, CommandStepsLeft
  <2>2. ~(BufferRun /\ Commands)
    BY <2>1, BufferRunEnds, CommandThreadEnds
  <2>3. CASE BufferRun
    BY <2>1, <2>2, <2>3, BufferRunEnds DEF Ending
  <2>4. CASE Commands
    BY <2>1, <2>2, <2>4, CommandThreadEnds DEF Ending
  <2>5. CASE Fill \/ FillOverrun \/ FillTimesOut \/ Terminate \/ DeleteDevice
    <3>1. UNCHANGED <<consumer, cpc>> /\ ~run'
      <4>1. CASE Fill \/ FillOverrun \/ FillTimesOut
        BY <4>1 DEF Fill, FillOverrun, FillTimesOut, flags
      <4>2. CASE ClearRun \/ TerminateStop
        BY <4>2 DEF ClearRun, TerminateStop
      <4>3. CASE TerminateCapture \/ DeleteDevice
        <5>1. UNCHANGED <<flags, consumer, cpc>>
          BY <4>3, Zenon DEF TerminateCapture, DeleteDevice
        <5> QED
          BY <5>1 DEF flags
      <4> QED
        BY <2>5, <4>1, <4>2, <4>3 DEF Terminate
    <3>2. BufferStepsLeft' = BufferStepsLeft /\ CommandStepsLeft' = CommandStepsLeft
      BY <3>1 DEF consumer, BufferStepsLeft, CommandStepsLeft
    <3>3. ~BufferRun /\ ~Commands
      BY <2>1, <3>2, BufferRunEnds, CommandThreadEnds
    <3> QED
      BY <2>1, <3>1, <3>2, <3>3 DEF Ending
  <2> QED
    BY <2>3, <2>4, <2>5 DEF Next
<1> QED
  BY <1>1, <1>2, PTL DEF Spec, EndIsBounded

=================================================================================
