------------------------------- MODULE MCSemaphore -------------------------------
(***************************************************************************)
(* Three threads, one of which waits without a timeout, and one of which   *)
(* another thread may stop.                                                *)
(***************************************************************************)
EXTENDS Semaphore

CONSTANTS t1, t2, t3

MCThreads == {t1, t2, t3}
MCPatient == {t1}
MCStoppable == {t2}
MCCounts == {0, 1}
=================================================================================
