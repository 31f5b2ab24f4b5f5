------------------------------ MODULE AsyncTransfer ------------------------------
(***************************************************************************)
(* An asynchronous bulk read (USBWrapperAsyncCtx_t, USBif.h, and           *)
(* bulkReadAsync with its callback, USBif.cpp, in src/Wrappers/linux).     *)
(*                                                                         *)
(* The driver (external) keeps a context, starts a read with it, polls it  *)
(* with getState or waits for it, reads again, and destroys it, which      *)
(* waits too.  The callback runs in a thread that handles the events of    *)
(* libusb, if there is one, at any time from the submission on, also       *)
(* before bulkReadAsync has returned.  The driver does not start a second  *)
(* read while one is under way; it knows that one is not when getState is  *)
(* not PENDING.                                                            *)
(***************************************************************************)
EXTENDS Integers

CONSTANT MaxReads  \* bound of the model: reads that are started

ASSUME ReadsAssumption == MaxReads \in Nat

(* The results that the callback gives (retTrSt) and the others there are. *)
TransferResults == {"SUCCESS", "IO", "TIMEOUT", "INTERRUPTED", "PIPE", "NO_DEVICE", "OVERFLOW"}
Results == TransferResults \cup {"PENDING", "NO_MEM", "OTHER"}

VARIABLES
    finished, \* the flag of the context
    result,   \* its result
    flying,   \* the reads whose transfers libusb has
    answer,   \* history: the read the result is of, or 0
    reads,    \* history: reads started so far
    driver,   \* what the driver does
    returned  \* what bulkReadAsync returned last

asyncVars == <<finished, result, flying, answer, reads, driver, returned>>

AsyncInit ==
    /\ finished = TRUE /\ result = "PENDING"
    /\ flying = {} /\ answer = 0 /\ reads = 0
    /\ driver = "idle" /\ returned = "SUCCESS"

\* mutant: the flag is forgotten
setQuietly(r, of) == result' = r /\ answer' = of /\ UNCHANGED finished

\* USBWrapperAsyncCtx_t::set, with the mutex
set(r, of) == finished' = TRUE /\ result' = r /\ answer' = of

-----------------------------------------------------------------------------
(* bulkReadAsync: init, then alloc and submit, then the return             *)

init ==
    /\ driver = "idle" /\ reads < MaxReads
    /\ reads' = reads + 1
    /\ finished' = FALSE /\ result' = "PENDING" /\ answer' = 0
    /\ driver' = "submit"
    /\ UNCHANGED <<flying, returned>>

\* no open device: set, and the macro returns its result
NotOpen ==
    /\ driver = "submit"
    /\ set("NO_DEVICE", reads)
    /\ returned' = "NO_DEVICE" /\ driver' = "returned"
    /\ UNCHANGED <<flying, reads>>

\* no transfer: the context stays as init left it
NoMemory ==
    /\ driver = "submit"
    /\ returned' = "NO_MEM" /\ driver' = "returned"
    /\ UNCHANGED <<finished, result, flying, answer, reads>>

SubmitFails ==
    /\ driver = "submit"
    /\ \E r \in {"IO", "NO_DEVICE", "OTHER"} : set(r, reads) /\ returned' = r
    /\ driver' = "returned"
    /\ UNCHANGED <<flying, reads>>

Submit ==
    /\ driver = "submit"
    /\ flying' = flying \cup {reads}
    /\ driver' = "submitted"
    /\ UNCHANGED <<finished, result, answer, reads, returned>>

\* mutant: init after the transfer was submitted
ReturnAndInit ==
    /\ driver = "submitted"
    /\ finished' = FALSE /\ result' = "PENDING" /\ answer' = 0
    /\ returned' = "SUCCESS" /\ driver' = "returned"
    /\ UNCHANGED <<flying, reads>>

Return ==
    /\ driver = "submitted"
    /\ returned' = "SUCCESS" /\ driver' = "returned"
    /\ UNCHANGED <<finished, result, flying, answer, reads>>

bulkReadAsync == init \/ NotOpen \/ NoMemory \/ SubmitFails \/ Submit \/ Return

-----------------------------------------------------------------------------
(* libusb, and what the driver does with the context                       *)

\* async_callback, which libusb calls once for a transfer
async_callback ==
    /\ \E read \in flying, r \in TransferResults \cup {"OTHER"} :
         set(r, read) /\ flying' = flying \ {read}
    /\ UNCHANGED <<reads, driver, returned>>

\* mutant: the result is not looked at
getStateOnce ==
    /\ driver = "returned" /\ returned = "SUCCESS"
    /\ driver' = "idle"
    /\ UNCHANGED <<finished, result, flying, answer, reads, returned>>

\* the driver polls a read that was accepted, and goes on when it has a result
getState ==
    /\ driver = "returned" /\ returned = "SUCCESS"
    /\ result # "PENDING"
    /\ driver' = "idle"
    /\ UNCHANGED <<finished, result, flying, answer, reads, returned>>

\* a read that was refused needs no wait
Refused ==
    /\ driver = "returned" /\ returned # "SUCCESS"
    /\ driver' = "idle"
    /\ UNCHANGED <<finished, result, flying, answer, reads, returned>>

BeginWait ==
    /\ driver = "returned" /\ returned = "SUCCESS"
    /\ driver' = "waiting"
    /\ UNCHANGED <<finished, result, flying, answer, reads, returned>>

\* mutant: one wait on the condition, without the loop on the flag
waitOnce ==
    /\ driver \in {"waiting", "destroying"}
    /\ driver' = IF driver = "waiting" THEN "idle" ELSE "destroyed"
    /\ UNCHANGED <<finished, result, flying, answer, reads, returned>>

\* wait, and the destructor's
wait ==
    /\ driver \in {"waiting", "destroying"}
    /\ finished
    /\ driver' = IF driver = "waiting" THEN "idle" ELSE "destroyed"
    /\ UNCHANGED <<finished, result, flying, answer, reads, returned>>

\* ~USBWrapperAsyncCtx_t, at any time after a call has returned
Destroy ==
    /\ driver \in {"idle", "returned"}
    /\ driver' = "destroying"
    /\ UNCHANGED <<finished, result, flying, answer, reads, returned>>

Driver == getState \/ Refused \/ BeginWait \/ wait

AsyncNext == bulkReadAsync \/ async_callback \/ Driver \/ Destroy

AsyncSpec == AsyncInit /\ [][AsyncNext]_asyncVars

(* The driver's thread runs.  Nothing is assumed of the callbacks.         *)
AsyncFairSpec == AsyncSpec /\ WF_asyncVars(wait)

-----------------------------------------------------------------------------
(* Properties.                                                             *)

\* Every variable keeps its type; a result is there exactly when the flag says so.
AsyncTypeOK ==
    /\ finished \in BOOLEAN
    /\ result \in Results /\ returned \in Results
    /\ reads \in 0..MaxReads /\ flying \subseteq 1..reads /\ answer \in 0..reads
    /\ driver \in {"idle", "submit", "submitted", "returned", "waiting", "destroying", "destroyed"}
    /\ (finished /\ reads > 0) <=> (result # "PENDING")

\* When the driver has the context to itself (it starts a read, it has waited, it has
\* destroyed the context) no transfer can write to it or to its buffer any more.
NoLateCallback == driver \in {"idle", "destroyed"} => flying = {}

\* A result is always the one of the read that was started last: an answer to an
\* earlier read is never taken for it.
ResultIsOwn == answer \in {0, reads}

(* Some thread handles the events of libusb as long as a transfer is under  *)
(* way, so that each one is completed, by its timeout or a cancellation if  *)
(* by nothing else.  The code does not see to it: nothing under src/ calls  *)
(* libusb_handle_events, and the libusb context is private to USBWrapper_t, *)
(* so the events are handled only while another thread is in a synchronous  *)
(* call of libusb.                                                          *)
EventsAreHandled == WF_asyncVars(async_callback)

\* If the events of libusb are handled, a wait ends, also when the callback came before
\* bulkReadAsync returned, and so does the destructor's, unless there was no memory for
\* the last transfer; without another thread to handle the events neither needs to end.
WaitEnds ==
    EventsAreHandled =>
        /\ (driver = "waiting") ~> (driver = "idle")
        /\ (driver = "destroying" /\ returned # "NO_MEM") ~> (driver = "destroyed")
=================================================================================
