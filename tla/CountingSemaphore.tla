--------------------------- MODULE CountingSemaphore ---------------------------
(***************************************************************************)
(* What a counting semaphore promises: a call that takes it returns with   *)
(* one unit of the count, or gives up, and it gives up only if it had a    *)
(* timeout and the count was zero when it did.                             *)
(***************************************************************************)
EXTENDS Integers

CONSTANTS
    Threads,  \* the threads that use the semaphore
    Patient   \* those that take it without a timeout

VARIABLES
    count,    \* units that can be taken
    calling   \* threads inside a call that takes one

semaphore == <<count, calling>>

SemaphoreInit == count \in Nat /\ calling = {}

Give == count' = count + 1 /\ UNCHANGED calling

Call(t) == t \notin calling /\ calling' = calling \cup {t} /\ UNCHANGED count

Take(t) ==
    /\ count > 0
    /\ count' = count - 1
    /\ t \in calling /\ calling' = calling \ {t}

TakeAtOnce(t) == t \notin calling /\ count > 0 /\ count' = count - 1 /\ UNCHANGED calling

GiveUp(t) ==
    /\ count = 0
    /\ t \in calling \ Patient
    /\ calling' = calling \ {t}
    /\ UNCHANGED count

SemaphoreNext ==
    Give \/ \E t \in Threads : Call(t) \/ Take(t) \/ TakeAtOnce(t) \/ GiveUp(t)

SemaphoreSpec == SemaphoreInit /\ [][SemaphoreNext]_semaphore
=================================================================================
