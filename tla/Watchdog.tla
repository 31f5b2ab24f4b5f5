-------------------------------- MODULE Watchdog --------------------------------
(***************************************************************************)
(* The watchdog of the recorder: MythTV::Wait (src/MythTV.cpp), which      *)
(* wakes up every 2.5 seconds and declares the recorder wedged when the    *)
(* heartbeat of the packet buffer is more than 60 seconds old.             *)
(*                                                                         *)
(* Time is counted in ticks.  A tick passes only while the main thread     *)
(* waits and its timeout has not expired: its own work takes no time in    *)
(* comparison.  The heartbeat is taken from the system clock, which may be *)
(* set forwards and backwards; the wait goes by the monotonic clock.       *)
(* MythTV.tla has the locks and the shutdown.                              *)
(***************************************************************************)
EXTENDS Integers

CONSTANTS
    Limit,    \* age of the heartbeat that counts as wedged, 60 s in the code
    Period,   \* timeout of the wait, 2.5 s in the code
    MaxSkew,  \* bound of the model: by how much the system clock is ever wrong
    MaxTime   \* bound of the model: ticks in a behaviour

ASSUME TimesAssumption ==
    Limit \in Nat /\ Period \in Nat \ {0} /\ MaxSkew \in Nat /\ MaxTime \in Nat

VARIABLES
    now,        \* the monotonic clock
    skew,       \* system_clock::now() - now
    heartbeat,  \* Buffer::m_heartbeat
    last,       \* when it was set, by the monotonic clock
    run,        \* MythTV::m_run
    streaming,  \* MythTV::m_streaming
    capturing,  \* the device may call Fill (external)
    started,    \* when streaming was last set
    wedged,     \* Fatal("We seem to be wedged!") was called
    wake,       \* when the wait_for in progress times out
    wpc,        \* where the main thread is in Wait
    cpc         \* where the command thread is

clocks == <<now, skew>>
beat == <<heartbeat, last>>
watched == <<beat, streaming, capturing, started>>
vars == <<clocks, watched, run, wedged, wake, wpc, cpc>>

Latest(a, b) == IF a < b THEN b ELSE a

(* How long the stream has been open without a block. *)
silence == now - Latest(last, started)

Init ==
    /\ now = 0 /\ skew = 0 /\ started = 0
    /\ heartbeat = 0 /\ last = 0
    /\ run = TRUE /\ streaming = FALSE /\ capturing = FALSE
    /\ wedged = FALSE
    /\ wake = Period /\ wpc = "wait" /\ cpc = "poll"

Tick ==
    /\ now < MaxTime
    /\ wpc = "wait" /\ now < wake
    /\ now' = now + 1
    /\ UNCHANGED <<skew, watched, run, wedged, wake, wpc, cpc>>

\* the system clock is set (external)
SetClock ==
    /\ skew' \in -MaxSkew..MaxSkew
    /\ UNCHANGED <<now, watched, run, wedged, wake, wpc, cpc>>

-----------------------------------------------------------------------------
(* MythTV::Wait                                                            *)

\* mutant: 25000 milliseconds for 2500
NextLongWait == wpc' = "wait" /\ wake' = now + 10 * Period

NextWait == wpc' = "wait" /\ wake' = now + Period

\* wait_for returns, at its timeout or before it: m_run, then m_streaming
WaitEnds ==
    /\ wpc = "wait"
    /\ IF ~run THEN wpc' = "done" /\ UNCHANGED wake
       ELSE IF streaming THEN wpc' = "age" /\ UNCHANGED wake
       ELSE NextWait
    /\ UNCHANGED <<clocks, watched, run, wedged, cpc>>

TooOld(time) == time < now + skew - Limit

\* mutant: the alarm is raised and the recorder goes on
AlarmOnly ==
    /\ wpc = "age"
    /\ NextWait
    /\ wedged' = (wedged \/ TooOld(heartbeat))
    /\ UNCHANGED <<clocks, watched, run, cpc>>

\* Fatal terminates: m_run and m_streaming are cleared and the device stopped
CheckHeartBeat ==
    /\ wpc = "age"
    /\ NextWait
    /\ IF TooOld(heartbeat)
       THEN /\ wedged' = TRUE
            /\ run' = FALSE
            /\ streaming' = FALSE
            /\ capturing' \in {FALSE, capturing}
       ELSE UNCHANGED <<wedged, run, streaming, capturing>>
    /\ UNCHANGED <<clocks, beat, started, cpc>>

Wait == WaitEnds \/ CheckHeartBeat

-----------------------------------------------------------------------------
(* The other threads                                                       *)

\* Buffer::Fill, whether the block is stored or dropped
Fill ==
    /\ capturing
    /\ heartbeat' = now + skew /\ last' = now
    /\ UNCHANGED <<clocks, streaming, capturing, started, run, wedged, wake, wpc, cpc>>

StartCapture ==
    /\ cpc = "poll" /\ run
    /\ ~streaming
    /\ capturing' = TRUE
    /\ cpc' = "starting"
    /\ UNCHANGED <<clocks, beat, streaming, started, run, wedged, wake, wpc>>

SetStreaming ==
    /\ cpc = "starting"
    /\ streaming' = TRUE
    /\ started' = now
    /\ cpc' = "poll"
    /\ UNCHANGED <<clocks, beat, capturing, run, wedged, wake, wpc>>

StopEncoding ==
    /\ cpc = "poll" /\ run
    /\ streaming
    /\ streaming' = FALSE
    /\ capturing' \in {FALSE, capturing}
    /\ UNCHANGED <<clocks, beat, started, run, wedged, wake, wpc, cpc>>

\* CloseRecorder, or an error of another thread
Terminate ==
    /\ run
    /\ run' = FALSE
    /\ streaming' = FALSE
    /\ capturing' \in {FALSE, capturing}
    /\ UNCHANGED <<clocks, beat, started, wedged, wake, wpc, cpc>>

Next == Tick \/ SetClock \/ Wait \/ Fill \/ StartCapture \/ SetStreaming \/ StopEncoding \/ Terminate

Spec == Init /\ [][Next]_vars

-----------------------------------------------------------------------------
(* Properties.                                                             *)

\* Every variable keeps its type; the recorder ends when the watchdog has fired.
TypeOK ==
    /\ now \in Nat /\ last \in Nat /\ started \in Nat /\ wake \in Nat
    /\ skew \in -MaxSkew..MaxSkew /\ heartbeat \in Int
    /\ run \in BOOLEAN /\ streaming \in BOOLEAN /\ capturing \in BOOLEAN
    /\ wedged \in BOOLEAN /\ (wedged => ~run)
    /\ wpc \in {"wait", "age", "done"}
    /\ cpc \in {"poll", "starting"}

\* A stream that falls silent is not overlooked: as long as the recorder runs,
\* no stream is open without a block for longer than the limit, one period of the
\* wait and what the system clock was set back, however often the wait is
\* interrupted, the stream restarted and the clock set.
SilenceIsNoticed == run /\ streaming => silence <= Limit + Period + 2 * MaxSkew

\* "Check for wedged state": the recorder is declared wedged only after a
\* stream was open without a block for the limit.
OnlyWedged == [][wedged' # wedged => silence > Limit]_vars
=================================================================================
