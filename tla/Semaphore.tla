-------------------------------- MODULE Semaphore --------------------------------
(***************************************************************************)
(* The semaphore that src/Wrappers/linux/baseif.cpp builds from a mutex, a *)
(* condition variable and a counter, for the threads of the driver.        *)
(*                                                                         *)
(* The mutex is held from the start of a call to its end, except while the *)
(* call waits: a call is one step up to the wait and one step for each     *)
(* time it gets the mutex back.  A thread that waits is woken by a signal, *)
(* by its timeout or for no reason.  A thread that is cancelled ends in    *)
(* the wait and leaves the mutex locked: there is no cleanup handler.      *)
(***************************************************************************)
EXTENDS Integers, FiniteSets

CONSTANTS
    Threads,   \* the threads that use the semaphore
    Patient,   \* those that take it with a negative timeout, which is none
    Stoppable, \* those that another thread ends with wrapThreadStop
    Counts,    \* the counts wrapSemCreate is called with
    MaxGives   \* bound of the model: calls of wrapSemGive

ASSUME ThreadsAssumption ==
    IsFiniteSet(Threads) /\ Patient \subseteq Threads /\ Stoppable \subseteq Threads
ASSUME CountsAssumption == Counts \subseteq Nat /\ MaxGives \in Nat

VARIABLES
    cnt,       \* the counter cnt
    waiting,   \* threads blocked on the condition variable
    woken,     \* threads woken that do not have the mutex yet
    expired,   \* those of them whose wait returned ETIMEDOUT
    cancelled, \* threads that pthread_cancel was called on
    dead,      \* those of them that ended inside the wait, with the mutex
    gives      \* calls of wrapSemGive so far

vars == <<cnt, waiting, woken, expired, cancelled, dead, gives>>

Idle == Threads \ (waiting \cup woken \cup dead)

\* a thread that ended inside the wait got the mutex back and never unlocks it
MutexFree == dead = {}

\* wrapSemCreate
Init ==
    /\ cnt \in Counts
    /\ waiting = {} /\ woken = {} /\ expired = {}
    /\ cancelled = {} /\ dead = {}
    /\ gives = 0

\* mutant: a signal only when the count was zero
GiveFirst ==
    /\ MutexFree
    /\ gives < MaxGives
    /\ gives' = gives + 1
    /\ cnt' = cnt + 1
    /\ IF waiting = {} \/ cnt > 0 THEN UNCHANGED <<waiting, woken>>
       ELSE \E t \in waiting : waiting' = waiting \ {t} /\ woken' = woken \cup {t}
    /\ UNCHANGED <<expired, cancelled, dead>>

\* pthread_cond_signal wakes one of the threads that wait
wrapSemGive ==
    /\ MutexFree
    /\ gives < MaxGives
    /\ gives' = gives + 1
    /\ cnt' = cnt + 1
    /\ IF waiting = {} THEN UNCHANGED <<waiting, woken>>
       ELSE \E t \in waiting : waiting' = waiting \ {t} /\ woken' = woken \cup {t}
    /\ UNCHANGED <<expired, cancelled, dead>>

-----------------------------------------------------------------------------
(* wrapSemTake                                                             *)

TakeAtOnce(t) ==
    /\ MutexFree
    /\ t \in Idle
    /\ cnt > 0
    /\ cnt' = cnt - 1
    /\ UNCHANGED <<waiting, woken, expired, cancelled, dead, gives>>

Wait(t) ==
    /\ MutexFree
    /\ t \in Idle
    /\ cnt = 0
    /\ waiting' = waiting \cup {t}
    /\ UNCHANGED <<cnt, woken, expired, cancelled, dead, gives>>

SpuriousWakeup(t) ==
    /\ t \in waiting
    /\ waiting' = waiting \ {t}
    /\ woken' = woken \cup {t}
    /\ UNCHANGED <<cnt, expired, cancelled, dead, gives>>

Expire(t) ==
    /\ t \in waiting \ Patient
    /\ waiting' = waiting \ {t}
    /\ woken' = woken \cup {t}
    /\ expired' = expired \cup {t}
    /\ UNCHANGED <<cnt, cancelled, dead, gives>>

\* mutant: a wait that timed out returns without a look at the count
ReturnIfExpired(t) ==
    /\ MutexFree
    /\ t \in woken
    /\ woken' = woken \ {t}
    /\ IF t \notin expired /\ cnt > 0 THEN cnt' = cnt - 1 ELSE UNCHANGED cnt
    /\ waiting' = IF t \notin expired /\ cnt = 0 THEN waiting \cup {t} ELSE waiting
    /\ expired' = expired \ {t}
    /\ UNCHANGED <<cancelled, dead, gives>>

\* mutant: the result of an earlier wait is still there
ReturnStillExpired(t) ==
    /\ MutexFree
    /\ t \in woken
    /\ woken' = woken \ {t}
    /\ IF cnt > 0 THEN cnt' = cnt - 1 ELSE UNCHANGED cnt
    /\ waiting' = IF cnt = 0 /\ t \notin expired THEN waiting \cup {t} ELSE waiting
    /\ UNCHANGED <<expired, cancelled, dead, gives>>

\* the mutex again: the count decides before the result of the wait
Return(t) ==
    /\ MutexFree
    /\ t \in woken
    /\ woken' = woken \ {t}
    /\ IF cnt > 0 THEN cnt' = cnt - 1 ELSE UNCHANGED cnt
    /\ waiting' = IF cnt = 0 /\ t \notin expired THEN waiting \cup {t} ELSE waiting
    /\ expired' = expired \ {t}
    /\ UNCHANGED <<cancelled, dead, gives>>

wrapSemTake(t) == TakeAtOnce(t) \/ Wait(t) \/ SpuriousWakeup(t) \/ Expire(t) \/ Return(t)

-----------------------------------------------------------------------------
(* wrapThreadStop: pthread_cancel, and the end of the thread it joins.     *)

wrapThreadStop(t) ==
    /\ t \in Stoppable \ cancelled
    /\ cancelled' = cancelled \cup {t}
    /\ UNCHANGED <<cnt, waiting, woken, expired, dead, gives>>

\* the wait is where a cancelled thread ends; it takes the mutex back first
EndInWait(t) ==
    /\ MutexFree
    /\ t \in waiting \cap cancelled
    /\ waiting' = waiting \ {t}
    /\ dead' = dead \cup {t}
    /\ UNCHANGED <<cnt, woken, expired, cancelled, gives>>

Next ==
    \/ wrapSemGive
    \/ \E t \in Threads : wrapSemTake(t) \/ wrapThreadStop(t) \/ EndInWait(t)

Spec == Init /\ [][Next]_vars

(* A thread that was woken gets the mutex in the end, if it can be had.    *)
FairSpec == Spec /\ \A t \in Threads : WF_vars(Return(t))

-----------------------------------------------------------------------------
(* Properties.                                                             *)

\* Every variable keeps its type, and no thread is in two places.
TypeOK ==
    /\ cnt \in Nat /\ gives \in Nat
    /\ waiting \subseteq Threads /\ woken \subseteq Threads
    /\ waiting \cap woken = {}
    /\ expired \subseteq woken \ Patient
    /\ dead \subseteq cancelled \ (waiting \cup woken)
    /\ cancelled \subseteq Stoppable

\* No signal is lost: whenever threads wait, enough others are on their way to
\* take all of the count.  Neither a timeout nor the end of a thread that
\* meets a signal (wrapSemGive, wrapSemTake, wrapThreadStop) loses it.
NoLostSignal == waiting = {} \/ cnt <= Cardinality(woken)

\* The count does not stay positive for ever while a thread waits, unless a
\* thread that was stopped took the mutex with it.
CountIsTaken == (cnt > 0 /\ waiting # {}) ~> (cnt = 0 \/ waiting = {} \/ ~MutexFree)

\* The semaphore is one: a take returns with a unit or gives up at zero, and a
\* thread that is stopped in the middle of a take leaves with nothing.
Abstract == INSTANCE CountingSemaphore
    WITH count <- cnt, calling <- waiting \cup woken \cup dead

ImplementsSemaphore == Abstract!SemaphoreSpec
=================================================================================
