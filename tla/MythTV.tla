--------------------------------- MODULE MythTV ---------------------------------
(***************************************************************************)
(* The life of a recorder (class MythTV, src/MythTV.cpp): the threads that *)
(* share it, its two mutexes, and every way in which it is shut down.      *)
(*                                                                         *)
(*  - "main" constructs the object, runs Wait and then the destructor;     *)
(*  - "cmd" is Commands::Run, which opens the device, starts and stops the *)
(*    encoder and closes the recorder;                                     *)
(*  - "buf" is Buffer::Run (Buffer.tla has its data);                      *)
(*  - "drv" is a thread of the capture driver (external), which calls      *)
(*    Buffer::Fill and, when a control message of its own fails, the error *)
(*    callback.                                                            *)
(*                                                                         *)
(* A location of the program is a label: F_ Fatal, T_ Terminate, S_        *)
(* StopEncoding, E_ StartEncoding, O_ OpenDev, C_ Commands::Run, B_        *)
(* Buffer::Run, M_ Wait, D_ the destructor, V_ the driver.  Fatal calls    *)
(* Terminate, which calls StopEncoding, which may report an error through  *)
(* Fatal: whether a thread is inside Fatal is whether it holds the run     *)
(* mutex, so the one return address that has to be kept is that of Fatal.  *)
(* Condition variables wait without a predicate and with a timeout, so     *)
(* notifications need no state.                                            *)
(***************************************************************************)
EXTENDS Integers

CONSTANTS
    ErrorPlaces,  \* where a control message may fail and the error callback run
    Wedge         \* whether the heartbeat may be found too old

ASSUME PlacesAssumption == ErrorPlaces \subseteq {"open", "start", "stop", "delete", "driver"}
ASSUME WedgeAssumption == Wedge \in BOOLEAN

VARIABLES
    run,        \* m_run
    fatal,      \* m_fatal, set together with m_fatal_msg
    streaming,  \* m_streaming
    ready,      \* m_ready
    dev,        \* m_dev is not null
    capturing,  \* the device is delivering blocks (external)
    runLock,    \* who holds m_run_mutex
    flowLock,   \* who holds m_flow_mutex
    pc,         \* location of each thread
    ret         \* where each thread goes on after Fatal

state == <<run, fatal, streaming, ready, dev, capturing>>
vars == <<state, runLock, flowLock, pc, ret>>

Threads == {"main", "cmd", "buf", "drv"}
nobody == "nobody"

Goto(t, label) == pc' = [pc EXCEPT ![t] = label]

(* Calls of Fatal, and of the error callback, by t; both go on at label.   *)
CallFatal(t, label) ==
    /\ Goto(t, "F_lock")
    /\ ret' = [ret EXCEPT ![t] = label]

MayReport(place) == place \in ErrorPlaces

Init ==
    /\ run = TRUE /\ fatal = FALSE /\ streaming = FALSE /\ ready = FALSE
    /\ dev = FALSE /\ capturing = FALSE
    /\ runLock = nobody /\ flowLock = nobody
    /\ pc = [t \in Threads |->
                CASE t = "main" -> "M_wait" [] t = "cmd" -> "C_loop"
                  [] t = "buf" -> "B_loop"  [] t = "drv" -> "V_idle"]
    /\ ret = [t \in Threads |-> "none"]

-----------------------------------------------------------------------------
(* MythTV::Fatal                                                           *)

\* A std::mutex: a thread that holds it already blocks for ever.
FatalLock(t) ==
    /\ pc[t] = "F_lock"
    /\ runLock = nobody
    /\ runLock' = t
    /\ Goto(t, "F_set")
    /\ UNCHANGED <<state, flowLock, ret>>

\* mutant: Fatal records the error and does not terminate
FatalSetOnly(t) ==
    /\ pc[t] = "F_set"
    /\ fatal' = TRUE
    /\ Goto(t, "F_unlock")
    /\ UNCHANGED <<run, streaming, ready, dev, capturing, runLock, flowLock, ret>>

FatalSet(t) ==
    /\ pc[t] = "F_set"
    /\ fatal' = TRUE
    /\ Goto(t, IF fatal THEN "F_unlock" ELSE "T_run")
    /\ UNCHANGED <<run, streaming, ready, dev, capturing, runLock, flowLock, ret>>

\* mutant: the run mutex is not released
FatalKeepsLock(t) ==
    /\ pc[t] = "F_unlock"
    /\ Goto(t, ret[t])
    /\ ret' = [ret EXCEPT ![t] = "none"]
    /\ UNCHANGED <<state, runLock, flowLock>>

FatalUnlock(t) ==
    /\ pc[t] = "F_unlock"
    /\ runLock' = nobody
    /\ Goto(t, ret[t])
    /\ ret' = [ret EXCEPT ![t] = "none"]
    /\ UNCHANGED <<state, flowLock>>

Fatal(t) == FatalLock(t) \/ FatalSet(t) \/ FatalUnlock(t)

-----------------------------------------------------------------------------
(* MythTV::Terminate and MythTV::StopEncoding                              *)

TerminateRun(t) ==
    /\ pc[t] = "T_run"
    /\ run' = FALSE
    /\ Goto(t, "S_streaming")
    /\ UNCHANGED <<fatal, streaming, ready, dev, capturing, runLock, flowLock, ret>>

\* mutant: Terminate does not return to Fatal
CallerForgotten(t) == IF t = "main" THEN "D_join" ELSE "C_loop"

\* Where StopEncoding, and Terminate after it, return to.
Caller(t) ==
    IF runLock = t THEN "F_unlock"
    ELSE IF t = "main" THEN "D_join" ELSE "C_loop"

StopTest(t) ==
    /\ pc[t] = "S_streaming"
    /\ Goto(t, IF streaming THEN "S_ready" ELSE Caller(t))
    /\ UNCHANGED <<state, runLock, flowLock, ret>>

StopReady(t) ==
    /\ pc[t] = "S_ready"
    /\ Goto(t, IF ready THEN "S_flow" ELSE Caller(t))
    /\ UNCHANGED <<state, runLock, flowLock, ret>>

\* m_dev is tested under the flow mutex, which is then released
StopCheck(t) ==
    /\ pc[t] = "S_flow"
    /\ flowLock = nobody
    /\ Goto(t, IF dev THEN "S_clear" ELSE Caller(t))
    /\ UNCHANGED <<state, runLock, flowLock, ret>>

\* mutant: the stream stays open
StopWithoutClear(t) ==
    /\ pc[t] = "S_clear"
    /\ Goto(t, "S_device")
    /\ UNCHANGED <<state, runLock, flowLock, ret>>

StopClear(t) ==
    /\ pc[t] = "S_clear"
    /\ streaming' = FALSE
    /\ Goto(t, "S_device")
    /\ UNCHANGED <<run, fatal, ready, dev, capturing, runLock, flowLock, ret>>

\* m_dev->StopEncoding() with an error callback on the way
StopError(t) ==
    /\ pc[t] = "S_device"
    /\ MayReport("stop")
    /\ CallFatal(t, "S_done")
    /\ UNCHANGED <<state, runLock, flowLock>>

\* m_dev->StopEncoding() returns; a device that fails goes on capturing
StopDevice(t) ==
    /\ pc[t] \in {"S_device", "S_done"}
    /\ capturing' \in {FALSE, capturing}
    /\ Goto(t, Caller(t))
    /\ UNCHANGED <<run, fatal, streaming, ready, dev, runLock, flowLock, ret>>

StopEncoding(t) ==
    \/ StopTest(t) \/ StopReady(t) \/ StopCheck(t) \/ StopClear(t)
    \/ StopError(t) \/ StopDevice(t)

-----------------------------------------------------------------------------
(* MythTV::StartEncoding                                                   *)

StartTest ==
    /\ pc["cmd"] = "E_streaming"
    /\ Goto("cmd", IF ~streaming /\ ready THEN "E_device" ELSE "C_loop")
    /\ UNCHANGED <<state, runLock, flowLock, ret>>

\* the device begins to capture inside m_dev->StartEncoding()
StartDevice ==
    /\ pc["cmd"] = "E_device"
    /\ capturing' = TRUE
    /\ \/ Goto("cmd", "E_set") /\ UNCHANGED ret
       \/ MayReport("start") /\ CallFatal("cmd", "E_set")
    /\ UNCHANGED <<run, fatal, streaming, ready, dev, runLock, flowLock>>

StartSet ==
    /\ pc["cmd"] = "E_set"
    /\ streaming' = TRUE
    /\ Goto("cmd", "C_loop")
    /\ UNCHANGED <<run, fatal, ready, dev, capturing, runLock, flowLock, ret>>

\* m_dev->StartEncoding() returns false and the device is not capturing
StartFails ==
    /\ pc["cmd"] = "E_set"
    /\ capturing' = FALSE
    /\ Goto("cmd", "C_loop")
    /\ UNCHANGED <<run, fatal, streaming, ready, dev, runLock, flowLock, ret>>

StartEncoding == StartTest \/ StartDevice \/ StartSet \/ StartFails

-----------------------------------------------------------------------------
(* MythTV::OpenDev, which holds the flow mutex to its end                  *)

OpenLock ==
    /\ pc["cmd"] = "O_lock"
    /\ flowLock = nobody
    /\ flowLock' = "cmd"
    /\ Goto("cmd", "O_test")
    /\ UNCHANGED <<state, runLock, ret>>

\* mutant: a device that is open is opened again
OpenAgain ==
    /\ pc["cmd"] = "O_test"
    /\ dev' = TRUE
    /\ Goto("cmd", "O_usb")
    /\ UNCHANGED <<run, fatal, streaming, ready, capturing, runLock, flowLock, ret>>

OpenTest ==
    /\ pc["cmd"] = "O_test"
    /\ dev' = TRUE
    /\ Goto("cmd", IF dev THEN "O_unlock" ELSE "O_usb")
    /\ UNCHANGED <<run, fatal, streaming, ready, capturing, runLock, flowLock, ret>>

\* m_usbio.Open succeeds, or the device is deleted and the error is fatal
OpenUsb ==
    /\ pc["cmd"] = "O_usb"
    /\ \/ Goto("cmd", "O_device") /\ UNCHANGED <<dev, ret>>
       \/ dev' = FALSE /\ CallFatal("cmd", "O_unlock")
    /\ UNCHANGED <<run, fatal, streaming, ready, capturing, runLock, flowLock>>

\* m_dev->Open with an error callback on the way; its result is still open
OpenError ==
    /\ pc["cmd"] = "O_device"
    /\ MayReport("open")
    /\ CallFatal("cmd", "O_result")
    /\ UNCHANGED <<state, runLock, flowLock>>

OpenSucceeds ==
    /\ pc["cmd"] \in {"O_device", "O_result"}
    /\ ready' = TRUE
    /\ Goto("cmd", "O_unlock")
    /\ UNCHANGED <<run, fatal, streaming, dev, capturing, runLock, flowLock, ret>>

\* Fatal first, then the device is deleted
OpenFails ==
    /\ pc["cmd"] \in {"O_device", "O_result"}
    /\ CallFatal("cmd", "O_delete")
    /\ UNCHANGED <<state, runLock, flowLock>>

\* delete m_dev closes the device, with an error callback on the way
OpenDeleteError ==
    /\ pc["cmd"] = "O_delete"
    /\ MayReport("delete")
    /\ CallFatal("cmd", "O_null")
    /\ UNCHANGED <<state, runLock, flowLock>>

OpenDelete ==
    /\ pc["cmd"] \in {"O_delete", "O_null"}
    /\ dev' = FALSE
    /\ Goto("cmd", "O_unlock")
    /\ UNCHANGED <<run, fatal, streaming, ready, capturing, runLock, flowLock, ret>>

OpenUnlock ==
    /\ pc["cmd"] = "O_unlock"
    /\ flowLock' = nobody
    /\ Goto("cmd", "C_loop")
    /\ UNCHANGED <<state, runLock, ret>>

OpenDev ==
    \/ OpenLock \/ OpenTest \/ OpenUsb \/ OpenError \/ OpenSucceeds
    \/ OpenFails \/ OpenDeleteError \/ OpenDelete \/ OpenUnlock

-----------------------------------------------------------------------------
(* Commands::Run and the commands that change the recorder                 *)

CmdLoop ==
    /\ pc["cmd"] = "C_loop"
    /\ Goto("cmd", IF run THEN "C_poll" ELSE "C_end")
    /\ UNCHANGED <<state, runLock, flowLock, ret>>

\* LockTimeout, StartStreaming, StopStreaming and CloseRecorder, and the commands
\* that take the run mutex: APIVersion?, Version?, IsOpen? and APIVersion
CmdCall ==
    /\ pc["cmd"] = "C_poll"
    /\ \E label \in {"O_lock", "E_streaming", "S_streaming", "T_run", "C_query"} :
         Goto("cmd", label)
    /\ UNCHANGED <<state, runLock, flowLock, ret>>

\* poll times out, or a command that takes no mutex and changes nothing here
CmdIdle ==
    /\ pc["cmd"] = "C_poll"
    /\ Goto("cmd", "C_loop")
    /\ UNCHANGED <<state, runLock, flowLock, ret>>

\* the run mutex is held for the reply only
CmdQuery ==
    /\ pc["cmd"] = "C_query"
    /\ runLock = nobody
    /\ Goto("cmd", "C_loop")
    /\ UNCHANGED <<state, runLock, flowLock, ret>>

\* POLLHUP ends the thread and leaves m_run set; POLLNVAL is fatal
CmdEnd ==
    /\ pc["cmd"] = "C_poll"
    /\ \/ Goto("cmd", "C_end") /\ UNCHANGED ret
       \/ CallFatal("cmd", "C_end")
    /\ UNCHANGED <<state, runLock, flowLock>>

-----------------------------------------------------------------------------
(* Buffer::Run: it takes the flow mutex by try_lock_for only               *)

BufLoop ==
    /\ pc["buf"] = "B_loop"
    /\ Goto("buf", IF run THEN "B_try" ELSE "B_end")
    /\ UNCHANGED <<state, runLock, flowLock, ret>>

BufTry ==
    /\ pc["buf"] = "B_try"
    /\ \/ flowLock = nobody /\ flowLock' = "buf" /\ Goto("buf", "B_queue")
       \/ Goto("buf", "B_loop") /\ UNCHANGED flowLock
    /\ UNCHANGED <<state, runLock, ret>>

BufUnlock ==
    /\ pc["buf"] = "B_queue"
    /\ flowLock' = nobody
    /\ Goto("buf", "B_loop")
    /\ UNCHANGED <<state, runLock, ret>>

BufferRun == BufLoop \/ BufTry \/ BufUnlock

-----------------------------------------------------------------------------
(* The driver: Buffer::Fill, and the error callback USBError               *)

DrvFill ==
    /\ pc["drv"] = "V_idle"
    /\ capturing
    /\ flowLock = nobody
    /\ flowLock' = "drv"
    /\ Goto("drv", "V_fill")
    /\ UNCHANGED <<state, runLock, ret>>

DrvUnlock ==
    /\ pc["drv"] = "V_fill"
    /\ flowLock' = nobody
    /\ Goto("drv", "V_idle")
    /\ UNCHANGED <<state, runLock, ret>>

DrvError ==
    /\ pc["drv"] = "V_idle"
    /\ capturing
    /\ MayReport("driver")
    /\ CallFatal("drv", "V_idle")
    /\ UNCHANGED <<state, runLock, flowLock>>

-----------------------------------------------------------------------------
(* MythTV::Wait and the destructor                                         *)

\* wait_for gives the run mutex back; m_run is tested with the mutex held again, and
\* the destructor begins with Terminate
MainWait ==
    /\ pc["main"] = "M_wait"
    /\ runLock = nobody
    /\ Goto("main", IF run THEN "M_check" ELSE "T_run")
    /\ UNCHANGED <<state, runLock, flowLock, ret>>

MainCheck ==
    /\ pc["main"] = "M_check"
    /\ \/ Goto("main", "M_wait") /\ UNCHANGED ret
       \/ streaming /\ Wedge /\ CallFatal("main", "M_wait")
    /\ UNCHANGED <<state, runLock, flowLock>>

\* mutant: the command thread is not joined
MainJoinBuffer ==
    /\ pc["main"] = "D_join"
    /\ pc["buf"] = "B_end"
    /\ Goto("main", "D_lock")
    /\ UNCHANGED <<state, runLock, flowLock, ret>>

MainJoin ==
    /\ pc["main"] = "D_join"
    /\ pc["cmd"] = "C_end" /\ pc["buf"] = "B_end"
    /\ Goto("main", "D_lock")
    /\ UNCHANGED <<state, runLock, flowLock, ret>>

MainLock ==
    /\ pc["main"] = "D_lock"
    /\ flowLock = nobody
    /\ flowLock' = "main"
    /\ Goto("main", "D_delete")
    /\ UNCHANGED <<state, runLock, ret>>

\* delete m_dev closes the device, with an error callback on the way
MainDeleteError ==
    /\ pc["main"] = "D_delete"
    /\ MayReport("delete")
    /\ CallFatal("main", "D_null")
    /\ UNCHANGED <<state, runLock, flowLock>>

MainDelete ==
    /\ pc["main"] \in {"D_delete", "D_null"}
    /\ dev' = FALSE /\ capturing' = FALSE
    /\ flowLock' = nobody
    /\ Goto("main", "D_deleted")
    /\ UNCHANGED <<run, fatal, streaming, ready, runLock, ret>>

\* main returns, which ends the process and every thread in it
MainExit ==
    /\ pc["main"] = "D_deleted"
    /\ pc' = [t \in Threads |-> "exited"]
    /\ UNCHANGED <<state, runLock, flowLock, ret>>

Main ==
    \/ MainWait \/ MainCheck \/ MainJoin \/ MainLock \/ MainDeleteError \/ MainDelete
    \/ MainExit

Exited ==
    /\ pc["main"] = "exited"
    /\ UNCHANGED vars

-----------------------------------------------------------------------------

Command == StartEncoding \/ OpenDev \/ CmdLoop \/ CmdCall \/ CmdIdle \/ CmdQuery \/ CmdEnd

Driver == DrvFill \/ DrvUnlock \/ DrvError

Next ==
    \/ \E t \in Threads : Fatal(t) \/ TerminateRun(t) \/ StopEncoding(t)
    \/ Command \/ BufferRun \/ Driver \/ Main
    \/ Exited

Spec == Init /\ [][Next]_vars

(* Every thread is scheduled, a blocking lock that is free again and again *)
(* is obtained in the end, poll returns within its 250 ms and device calls *)
(* return.  Nothing is assumed of which commands arrive or which faults    *)
(* happen.                                                                 *)
Fairness ==
    /\ \A t \in {"main", "cmd", "drv"} :
        WF_vars(FatalSet(t) \/ FatalUnlock(t) \/ TerminateRun(t) \/ StopTest(t)
                \/ StopReady(t) \/ StopClear(t) \/ StopError(t) \/ StopDevice(t))
    /\ SF_vars(FatalLock("main") \/ StopCheck("main") \/ MainWait \/ MainLock)
    /\ SF_vars(FatalLock("cmd") \/ StopCheck("cmd") \/ OpenLock \/ CmdQuery)
    /\ SF_vars(FatalLock("drv") \/ StopCheck("drv"))
    /\ WF_vars(Main) /\ WF_vars(Command) /\ WF_vars(BufferRun) /\ WF_vars(DrvUnlock)

FairSpec == Spec /\ Fairness

-----------------------------------------------------------------------------
(* Properties.                                                             *)

FatalPCs == {"F_lock", "F_set", "F_unlock"}
StopPCs == {"T_run", "S_streaming", "S_ready", "S_flow", "S_clear", "S_device", "S_done"}
StartPCs == {"E_streaming", "E_device", "E_set"}
OpenPCs == {"O_lock", "O_test", "O_usb", "O_device", "O_result", "O_delete", "O_null", "O_unlock"}

Labels(t) ==
    CASE t = "main" -> {"M_wait", "M_check", "D_join", "D_lock", "D_delete", "D_null", "D_deleted"}
                          \cup FatalPCs \cup StopPCs
      [] t = "cmd" -> {"C_loop", "C_poll", "C_query", "C_end"}
                          \cup FatalPCs \cup StopPCs \cup StartPCs \cup OpenPCs
      [] t = "buf" -> {"B_loop", "B_try", "B_queue", "B_end"}
      [] t = "drv" -> {"V_idle", "V_fill"} \cup FatalPCs \cup StopPCs

Returns(t) ==
    CASE t = "main" -> {"none", "M_wait", "S_done", "D_null"}
      [] t = "cmd" -> {"none", "S_done", "E_set", "O_unlock", "O_result", "O_delete", "O_null",
                       "C_end"}
      [] t = "buf" -> {"none"}
      [] t = "drv" -> {"none", "V_idle", "S_done"}

\* Every thread is at a location of its own code, and every lock is free or
\* held by a thread.
TypeOK ==
    /\ run \in BOOLEAN /\ fatal \in BOOLEAN /\ streaming \in BOOLEAN
    /\ ready \in BOOLEAN /\ dev \in BOOLEAN /\ capturing \in BOOLEAN
    /\ runLock \in Threads \cup {nobody} /\ flowLock \in Threads \cup {nobody}
    /\ DOMAIN pc = Threads /\ DOMAIN ret = Threads
    /\ \A t \in Threads : pc[t] \in Labels(t) \cup {"exited"} /\ ret[t] \in Returns(t)

(* Two threads that wait for each other's mutex, and a thread that waits for *)
(* its own.                                                                 *)
LockCycle(t, u) ==
    /\ flowLock = t /\ pc[t] = "F_lock"
    /\ runLock = u  /\ pc[u] = "S_flow"

SelfLock(t) == runLock = t /\ pc[t] = "F_lock"

(* t cannot go on before u has: u holds the mutex it asks for, or is joined. *)
WaitsFor(t, u) ==
    \/ pc[t] \in {"F_lock", "M_wait", "C_query"} /\ runLock = u
    \/ pc[t] \in {"S_flow", "O_lock", "D_lock"} /\ flowLock = u
    \/ /\ pc[t] = "D_join"
       /\ \/ u = "cmd" /\ pc[u] # "C_end"
          \/ u = "buf" /\ pc[u] # "B_end"

\* The two mutexes are taken in both orders: OpenDev and the destructor report an
\* error with the flow mutex held, and Fatal stops the encoder with the run mutex
\* held; and the destructor joins two threads. Threads that wait for mutexes and
\* joins in a circle are found in two cases only: the driver's thread reports an
\* error while a shutdown is in progress, and the destructor then has one to report
\* from deleting the device; or stopping the device inside Fatal fails, and that is
\* reported to Fatal.
NoWaitingCircle ==
    \A circle \in (SUBSET Threads) \ {{}} :
        (\A t \in circle : \E u \in circle : WaitsFor(t, u))
          => \/ \E t \in circle : SelfLock(t) /\ ret[t] = "S_done"
             \/ LockCycle("main", "drv") /\ ret["main"] = "D_null"

\* No thread asks for a mutex that it holds, which would block it for ever, but in
\* one place: stopping the device inside Fatal may fail and report that to Fatal.
NoSelfLock ==
    \A t \in Threads :
        /\ SelfLock(t) => ret[t] = "S_done"
        /\ pc[t] \in {"S_flow", "O_lock"} => flowLock # t

\* main and the command thread find the device where they work on it: m_dev is not
\* deleted between its test and its use, nor by the destructor.
DeviceIsThere ==
    \A t \in {"main", "cmd"} :
        pc[t] \in {"S_clear", "S_device", "S_done", "E_device", "E_set"} => dev

\* Whoever finds m_fatal set under the run mutex finds the shutdown begun.
FatalMeansTerminating == fatal /\ runLock = nobody => ~run

Life == INSTANCE RecorderLife WITH
    device <- IF dev THEN IF ready THEN "open" ELSE "opening" ELSE IF ready THEN "gone" ELSE "none",
    ending <- ~run,
    failed <- fatal

\* The recorder keeps the promises of RecorderLife: it has one device in its life, an
\* orderly end opens and starts nothing, and unless there was an error the device is
\* not deleted under an open stream.
ImplementsLife == Life!LifeSpec

\* Once m_run is cleared, by whomever and however the shutdowns overlap, the
\* process comes to its end, unless a thread waits for its own mutex or the
\* destructor and the driver wait for each other's.
EndsUnlessStuck ==
    ~run ~> \/ pc["main"] = "exited"
            \/ \E t \in Threads : SelfLock(t)
            \/ LockCycle("main", "drv")

\* Terminate announces it, "Terminating.": the process comes to its end.
ComesToAnEnd == ~run ~> (pc["main"] = "exited")
=================================================================================
