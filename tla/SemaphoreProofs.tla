------------------------------ MODULE SemaphoreProofs ------------------------------
(***************************************************************************)
(* The semaphore of src/Wrappers/linux/baseif.cpp loses no signal and      *)
(* implements a counting semaphore, for any threads, timeouts, initial     *)
(* counts and calls of wrapThreadStop.  NoLostSignal is inductive with the *)
(* types; it needs the cardinality of a set that gains or loses a thread.  *)
(***************************************************************************)
EXTENDS Semaphore, FiniteSetTheorems, TLAPS

\* A set of threads is finite, and its cardinality changes by one with one of them.
LEMMA ThreadSets ==
    ASSUME NEW S \in SUBSET Threads, NEW t \in Threads
    PROVE  /\ Cardinality(S) \in Nat
           /\ t \notin S => Cardinality(S \cup {t}) = Cardinality(S) + 1
           /\ t \in S => Cardinality(S \ {t}) = Cardinality(S) - 1
  <1>1. IsFiniteSet(S)
    BY FS_Subset, ThreadsAssumption
  <1> QED
    BY <1>1, FS_CardinalityType, FS_AddElement, FS_RemoveElement

LEMMA InitialTypes ==
    ASSUME Init
    PROVE  TypeOK
  BY CountsAssumption DEF Init, TypeOK

LEMMA StepTypes ==
    ASSUME TypeOK, [Next]_vars
    PROVE  TypeOK'
  <1> USE DEF TypeOK
  <1>1. CASE wrapSemGive
    BY <1>1 DEF wrapSemGive
  <1>2. ASSUME NEW t \in Threads, wrapSemTake(t)
        PROVE  TypeOK'
    <2>1. CASE TakeAtOnce(t)
      BY <2>1 DEF TakeAtOnce
    <2>2. CASE Wait(t)
      BY <2>2 DEF Wait, Idle
    <2>3. CASE SpuriousWakeup(t)
      BY <2>3 DEF SpuriousWakeup
    <2>4. CASE Expire(t)
      BY <2>4 DEF Expire
    <2>5. CASE Return(t)
      BY <2>5 DEF Return
    <2> QED
      BY <1>2, <2>1, <2>2, <2>3, <2>4, <2>5 DEF wrapSemTake
  <1>3. ASSUME NEW t \in Threads, wrapThreadStop(t)
        PROVE  TypeOK'
    BY <1>3 DEF wrapThreadStop
  <1>4. ASSUME NEW t \in Threads, EndInWait(t)
        PROVE  TypeOK'
    BY <1>4 DEF EndInWait
  <1>5. CASE UNCHANGED vars
    BY <1>5 DEF vars
  <1> QED
    BY <1>1, <1>2, <1>3, <1>4, <1>5 DEF Next

\* Every variable of the semaphore keeps its type.
THEOREM TypeCorrect == Spec => []TypeOK
  BY InitialTypes, StepTypes, PTL DEF Spec

-----------------------------------------------------------------------------

LEMMA StepLosesNothing ==
    ASSUME TypeOK, NoLostSignal, [Next]_vars
    PROVE  NoLostSignal'
  <1> USE DEF TypeOK, NoLostSignal
  <1>1. CASE wrapSemGive
    <2>1. CASE waiting = {}
      BY <1>1, <2>1 DEF wrapSemGive
    <2>2. CASE waiting # {}
      <3>1. PICK t \in waiting : woken' = woken \cup {t}
        BY <1>1, <2>2 DEF wrapSemGive
      <3>2. Cardinality(woken') = Cardinality(woken) + 1 /\ Cardinality(woken) \in Nat
        BY <3>1, ThreadSets
      <3>3. cnt' = cnt + 1
        BY <1>1 DEF wrapSemGive
      <3> QED
        BY <2>2, <3>2, <3>3
    <2> QED
      BY <2>1, <2>2
  <1>2. ASSUME NEW t \in Threads, wrapSemTake(t)
        PROVE  NoLostSignal'
    <2>0. Cardinality(woken) \in Nat
      BY ThreadSets
    <2>1. CASE TakeAtOnce(t)
      BY <2>0, <2>1 DEF TakeAtOnce
    <2>2. CASE Wait(t)
      BY <2>0, <2>2 DEF Wait
    <2>3. CASE SpuriousWakeup(t)
      <3>1. Cardinality(woken') = Cardinality(woken) + 1
        BY <2>3, ThreadSets DEF SpuriousWakeup
      <3> QED
        BY <2>0, <2>3, <3>1 DEF SpuriousWakeup
    <2>4. CASE Expire(t)
      <3>1. Cardinality(woken') = Cardinality(woken) + 1
        BY <2>4, ThreadSets DEF Expire
      <3> QED
        BY <2>0, <2>4, <3>1 DEF Expire
    <2>5. CASE Return(t)
      <3>1. Cardinality(woken') = Cardinality(woken) - 1 /\ Cardinality(woken) >= 1
        BY <2>0, <2>5, ThreadSets, FS_EmptySet, FS_Subset, ThreadsAssumption DEF Return
      <3> QED
        BY <2>0, <2>5, <3>1 DEF Return
    <2> QED
      BY <1>2, <2>1, <2>2, <2>3, <2>4, <2>5 DEF wrapSemTake
  <1>3. ASSUME NEW t \in Threads, wrapThreadStop(t)
        PROVE  NoLostSignal'
    BY <1>3 DEF wrapThreadStop
  <1>4. ASSUME NEW t \in Threads, EndInWait(t)
        PROVE  NoLostSignal'
    BY <1>4 DEF EndInWait
  <1>5. CASE UNCHANGED vars
    BY <1>5 DEF vars
  <1> QED
    BY <1>1, <1>2, <1>3, <1>4, <1>5 DEF Next

\* Whenever threads wait in wrapSemTake, enough woken ones will take the count
\* that wrapSemGive left.
THEOREM NoSignalLost == Spec => []NoLostSignal
  <1>1. Init => NoLostSignal
    BY DEF Init, NoLostSignal
  <1> QED
    BY <1>1, TypeCorrect, StepLosesNothing, PTL DEF Spec

-----------------------------------------------------------------------------

LEMMA StepImplements ==
    ASSUME TypeOK, [Next]_vars
    PROVE  [Abstract!SemaphoreNext]_Abstract!semaphore
  <1> DEFINE calling == waiting \cup woken \cup dead
  <1> USE DEF Abstract!semaphore, TypeOK
  <1>1. CASE wrapSemGive
    <2>1. calling' = calling
      BY <1>1 DEF wrapSemGive
    <2> QED
      BY <1>1, <2>1 DEF wrapSemGive, Abstract!SemaphoreNext, Abstract!Give
  <1>2. ASSUME NEW t \in Threads, wrapSemTake(t)
        PROVE  [Abstract!SemaphoreNext]_Abstract!semaphore
    <2>1. CASE TakeAtOnce(t)
      BY <2>1 DEF TakeAtOnce, Idle, Abstract!SemaphoreNext, Abstract!TakeAtOnce
    <2>2. CASE Wait(t)
      <3>1. calling' = calling \cup {t} /\ t \notin calling /\ cnt' = cnt
        BY <2>2 DEF Wait, Idle
      <3> QED
        BY <3>1 DEF Abstract!SemaphoreNext, Abstract!Call
    <2>3. CASE SpuriousWakeup(t)
      BY <2>3 DEF SpuriousWakeup
    <2>4. CASE Expire(t)
      BY <2>4 DEF Expire
    <2>5. CASE Return(t)
      <3>1. CASE cnt > 0
        <4>1. calling' = calling \ {t} /\ t \in calling /\ cnt' = cnt - 1
          BY <2>5, <3>1 DEF Return
        <4> QED
          BY <3>1, <4>1 DEF Abstract!SemaphoreNext, Abstract!Take
      <3>2. CASE cnt = 0 /\ t \in expired
        <4>1. calling' = calling \ {t} /\ t \in calling \ Patient /\ cnt' = cnt
          BY <2>5, <3>2 DEF Return
        <4> QED
          BY <3>2, <4>1 DEF Abstract!SemaphoreNext, Abstract!GiveUp
      <3>3. CASE cnt = 0 /\ t \notin expired
        <4>1. calling' = calling /\ cnt' = cnt
          BY <2>5, <3>3 DEF Return
        <4> QED
          BY <4>1
      <3> QED
        BY <3>1, <3>2, <3>3
    <2> QED
      BY <1>2, <2>1, <2>2, <2>3, <2>4, <2>5 DEF wrapSemTake
  <1>3. ASSUME NEW t \in Threads, wrapThreadStop(t)
        PROVE  [Abstract!SemaphoreNext]_Abstract!semaphore
    BY <1>3 DEF wrapThreadStop
  <1>4. ASSUME NEW t \in Threads, EndInWait(t)
        PROVE  [Abstract!SemaphoreNext]_Abstract!semaphore
    BY <1>4 DEF EndInWait
  <1>5. CASE UNCHANGED vars
    BY <1>5 DEF vars
  <1> QED
    BY <1>1, <1>2, <1>3, <1>4, <1>5 DEF Next

\* The semaphore of baseif.cpp implements a counting semaphore.
THEOREM SemaphoreIsOne == Spec => ImplementsSemaphore
  <1>1. Init => Abstract!SemaphoreInit
    BY CountsAssumption DEF Init, Abstract!SemaphoreInit
  <1> QED
    BY <1>1, TypeCorrect, StepImplements, PTL
    DEF Spec, ImplementsSemaphore, Abstract!SemaphoreSpec
====================================================================================
