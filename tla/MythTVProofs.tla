------------------------------ MODULE MythTVProofs ------------------------------
(***************************************************************************)
(* Theorems about the shutdown of a recorder, whatever places report       *)
(* errors.                                                                 *)
(*                                                                         *)
(* OpenDev takes the flow mutex and then, to report an error, the run      *)
(* mutex; Fatal takes the run mutex and then, to stop the encoder, the     *)
(* flow mutex.  No deadlock comes of it because m_ready separates the two: *)
(* it is set when OpenDev succeeds and never cleared, OpenDev reports      *)
(* errors only before, and StopEncoding asks for the flow mutex only       *)
(* after.                                                                  *)
(***************************************************************************)
EXTENDS MythTV, TLAPS

\* locations past the test of m_ready in StopEncoding
PastReady == {"S_flow", "S_clear", "S_device", "S_done"}
\* locations of OpenDev with the flow mutex held and the device not yet opened
Opening == {"O_usb", "O_device", "O_result", "O_delete", "O_null"}
\* where Fatal returns to when OpenDev called it
OpenReturns == {"O_unlock", "O_result", "O_delete", "O_null"}
\* locations of the destructor
Destroying == {"D_join", "D_lock", "D_delete", "D_null", "D_deleted", "exited"}

\* every place Fatal may return to
Returning == {"none", "M_wait", "S_done", "D_null", "E_set", "C_end", "V_idle"} \cup OpenReturns

Shape ==
    /\ DOMAIN pc = Threads /\ DOMAIN ret = Threads
    /\ run \in BOOLEAN /\ fatal \in BOOLEAN /\ ready \in BOOLEAN /\ dev \in BOOLEAN

\* who is inside Fatal holds the run mutex, and only those have a return address
RunHeld ==
    \A t \in Threads :
        /\ ret[t] \in Returning
        /\ pc[t] \in {"F_set", "F_unlock"} => runLock = t
        /\ ret[t] # "none" =>
              \/ pc[t] \in {"F_lock", "exited"}
              \/ runLock = t /\ pc[t] \in {"F_set", "F_unlock"} \cup StopPCs

\* who holds the flow mutex is where it is held
FlowHeld ==
    /\ flowLock = "cmd" => \/ pc["cmd"] \in Opening \cup {"O_test", "O_unlock", "exited"}
                           \/ ret["cmd"] \in OpenReturns
    /\ flowLock = "main" => \/ pc["main"] \in {"D_delete", "D_null", "exited"}
                            \/ ret["main"] = "D_null"
    /\ flowLock = "buf" => pc["buf"] \in {"B_queue", "exited"}
    /\ flowLock = "drv" => pc["drv"] \in {"V_fill", "exited"}

\* before m_ready OpenDev may report an error, after it StopEncoding may lock
ReadySeparates ==
    /\ pc["cmd"] \in Opening \/ ret["cmd"] \in OpenReturns => ~ready
    /\ \A t \in Threads : pc[t] \in PastReady \/ ret[t] = "S_done" => ready

\* m_dev is null after m_ready was set only when nobody can open it again
DeletedLast ==
    /\ pc["cmd"] \in Opening \/ ret["cmd"] \in {"O_result", "O_delete", "O_null"} => dev
    /\ ready /\ ~dev => pc["main"] \in {"D_deleted", "exited"}
    /\ \/ pc["main"] \in {"D_lock", "D_delete", "D_null", "D_deleted"}
       \/ ret["main"] = "D_null"
       => pc["cmd"] = "C_end"
    /\ pc["main"] = "exited" => pc["cmd"] = "exited"

OrderInv == Shape /\ RunHeld /\ FlowHeld /\ ReadySeparates /\ DeletedLast

\* the destructor that reports an error does not stop the encoder any more
DeletingIdle ==
    ret["main"] = "D_null" /\ pc["main"] \in StopPCs =>
        pc["main"] \in {"T_run", "S_streaming"} /\ ~streaming

LEMMA OrderInit ==
    ASSUME Init
    PROVE  OrderInv
  BY DEF Init, OrderInv, Shape, RunHeld, FlowHeld, ReadySeparates, DeletedLast, Threads, nobody,
         PastReady, Opening, OpenReturns, Returning, StopPCs

LEMMA OrderStep ==
    ASSUME OrderInv, DeletingIdle, [Next]_vars
    PROVE  OrderInv'
<1> USE DEF OrderInv, Shape, RunHeld, FlowHeld, ReadySeparates, DeletedLast, Threads, nobody,
            PastReady, Opening, OpenReturns, Returning, StopPCs, Goto, CallFatal, state
<1>1. ASSUME NEW t \in Threads, Fatal(t) PROVE OrderInv'
  <2>1. CASE FatalLock(t)
    BY <2>1 DEF FatalLock
  <2>2. CASE FatalSet(t)
    BY <2>2 DEF FatalSet
  <2>3. CASE FatalUnlock(t)
    BY <2>3 DEF FatalUnlock
  <2> QED
    BY <1>1, <2>1, <2>2, <2>3 DEF Fatal
<1>2. ASSUME NEW t \in Threads, TerminateRun(t) PROVE OrderInv'
  <2>1. Shape'
    BY <1>2 DEF TerminateRun
  <2>2. RunHeld'
    BY <1>2 DEF TerminateRun
  <2>3. FlowHeld'
    BY <1>2 DEF TerminateRun
  <2>4. ReadySeparates'
    BY <1>2 DEF TerminateRun
  <2>5. DeletedLast'
    BY <1>2 DEF TerminateRun
  <2> QED
    BY <2>1, <2>2, <2>3, <2>4, <2>5
<1>3. ASSUME NEW t \in Threads, StopEncoding(t) PROVE OrderInv'
  <2>1. /\ Caller(t) \in {"F_unlock", "D_join", "C_loop"}
        /\ Caller(t) = "F_unlock" <=> runLock = t
    BY DEF Caller
  <2>2. CASE StopTest(t)
    <3>1. Shape' /\ RunHeld'
      BY <2>1, <2>2 DEF StopTest
    <3>2. FlowHeld'
      BY <2>1, <2>2 DEF StopTest
    <3>3. ReadySeparates'
      BY <2>1, <2>2 DEF StopTest
    <3>4. DeletedLast'
      BY <2>1, <2>2 DEF StopTest
    <3> QED
      BY <3>1, <3>2, <3>3, <3>4
  <2>3. CASE StopReady(t)
    <3>1. Shape' /\ RunHeld'
      BY <2>1, <2>3 DEF StopReady
    <3>2. FlowHeld'
      BY <2>1, <2>3 DEF StopReady
    <3>3. ReadySeparates'
      BY <2>1, <2>3 DEF StopReady
    <3>4. DeletedLast'
      BY <2>1, <2>3 DEF StopReady
    <3> QED
      BY <3>1, <3>2, <3>3, <3>4
  <2>4. CASE StopCheck(t)
    <3>1. Shape' /\ RunHeld'
      BY <2>1, <2>4 DEF StopCheck
    <3>2. FlowHeld'
      BY <2>1, <2>4 DEF StopCheck
    <3>3. ReadySeparates'
      BY <2>1, <2>4 DEF StopCheck
    <3>4. DeletedLast'
      BY <2>1, <2>4 DEF StopCheck
    <3> QED
      BY <3>1, <3>2, <3>3, <3>4
  <2>5. CASE StopClear(t)
    BY <2>5 DEF StopClear
  <2>6. CASE StopError(t)
    <3>1. Shape'
      BY <2>6 DEF StopError
    <3>2. RunHeld'
      <4>1. /\ pc'[t] = "F_lock" /\ ret'[t] = "S_done" /\ runLock' = runLock
            /\ \A u \in Threads \ {t} : pc'[u] = pc[u] /\ ret'[u] = ret[u]
        BY <2>6 DEF StopError
      <4> QED
        BY <4>1
    <3>3. FlowHeld'
      BY <2>6 DEF StopError, DeletingIdle
    <3>4. ReadySeparates'
      BY <2>6 DEF StopError
    <3>5. DeletedLast'
      BY <2>6 DEF StopError
    <3> QED
      BY <3>1, <3>2, <3>3, <3>4, <3>5
  <2>7. CASE StopDevice(t)
    <3>1. Shape' /\ RunHeld'
      BY <2>1, <2>7 DEF StopDevice
    <3>2. FlowHeld'
      BY <2>1, <2>7 DEF StopDevice
    <3>3. ReadySeparates'
      BY <2>1, <2>7 DEF StopDevice
    <3>4. DeletedLast'
      BY <2>1, <2>7 DEF StopDevice
    <3> QED
      BY <3>1, <3>2, <3>3, <3>4
  <2> QED
    BY <1>3, <2>2, <2>3, <2>4, <2>5, <2>6, <2>7 DEF StopEncoding
<1>4. CASE StartEncoding
  <2>1. CASE StartTest
    BY <2>1 DEF StartTest
  <2>2. CASE StartDevice
    BY <2>2 DEF StartDevice
  <2>3. CASE StartSet \/ StartFails
    BY <2>3 DEF StartSet, StartFails
  <2> QED
    BY <1>4, <2>1, <2>2, <2>3 DEF StartEncoding
<1>5. CASE OpenDev
  <2>1. CASE OpenLock
    BY <2>1 DEF OpenLock
  <2>2. CASE OpenTest
    BY <2>2 DEF OpenTest
  <2>3. CASE OpenUsb
    <3>0. Shape'
      BY <2>3 DEF OpenUsb
    <3>1. RunHeld'
      <4>1. CASE Goto("cmd", "O_device") /\ UNCHANGED <<dev, ret>>
        BY <2>3, <4>1 DEF OpenUsb
      <4>2. CASE dev' = FALSE /\ CallFatal("cmd", "O_unlock")
        BY <2>3, <4>2 DEF OpenUsb
      <4> QED
        BY <2>3, <4>1, <4>2 DEF OpenUsb
    <3>2. FlowHeld'
      BY <2>3 DEF OpenUsb
    <3>3. ReadySeparates'
      BY <2>3 DEF OpenUsb
    <3>4. DeletedLast'
      BY <2>3 DEF OpenUsb
    <3> QED
      BY <3>0, <3>1, <3>2, <3>3, <3>4
  <2>4. CASE OpenError \/ OpenFails
    BY <2>4 DEF OpenError, OpenFails
  <2>5. CASE OpenSucceeds
    <3>1. Shape' /\ RunHeld'
      BY <2>5 DEF OpenSucceeds
    <3>2. FlowHeld'
      BY <2>5 DEF OpenSucceeds
    <3>3. ReadySeparates'
      BY <2>5 DEF OpenSucceeds
    <3>4. DeletedLast'
      BY <2>5 DEF OpenSucceeds
    <3> QED
      BY <3>1, <3>2, <3>3, <3>4
  <2>7. CASE OpenDeleteError
    BY <2>7 DEF OpenDeleteError
  <2>6. CASE OpenDelete \/ OpenUnlock
    <3>1. Shape' /\ RunHeld'
      <4>1. CASE OpenDelete
        BY <4>1 DEF OpenDelete
      <4>2. CASE OpenUnlock
        BY <4>2 DEF OpenUnlock
      <4> QED
        BY <2>6, <4>1, <4>2
    <3>2. FlowHeld'
      BY <2>6 DEF OpenDelete, OpenUnlock
    <3>3. ReadySeparates'
      BY <2>6 DEF OpenDelete, OpenUnlock
    <3>4. DeletedLast'
      BY <2>6 DEF OpenDelete, OpenUnlock
    <3> QED
      BY <3>1, <3>2, <3>3, <3>4
  <2> QED
    BY <1>5, <2>1, <2>2, <2>3, <2>4, <2>5, <2>6, <2>7 DEF OpenDev
<1>6. CASE CmdLoop \/ CmdCall \/ CmdIdle \/ CmdQuery \/ CmdEnd
  BY <1>6 DEF CmdLoop, CmdCall, CmdIdle, CmdQuery, CmdEnd
<1>7. CASE BufferRun
  BY <1>7 DEF BufferRun, BufLoop, BufTry, BufUnlock
<1>8. CASE Driver
  BY <1>8 DEF Driver, DrvFill, DrvUnlock, DrvError
<1>9. CASE Main
  <2>1. CASE MainWait \/ MainCheck
    BY <2>1 DEF MainWait, MainCheck
  <2>2. CASE MainJoin \/ MainLock
    BY <2>2 DEF MainJoin, MainLock
  <2>3. CASE MainDelete
    <3>1. Shape'
      BY <2>3 DEF MainDelete
    <3>2. RunHeld'
      BY <2>3 DEF MainDelete
    <3>3. FlowHeld'
      BY <2>3 DEF MainDelete
    <3>4. ReadySeparates'
      BY <2>3 DEF MainDelete
    <3>5. DeletedLast'
      BY <2>3 DEF MainDelete
    <3> QED
      BY <3>1, <3>2, <3>3, <3>4, <3>5
  <2>4. CASE MainDeleteError
    BY <2>4 DEF MainDeleteError
  <2>5. CASE MainExit
    BY <2>5 DEF MainExit
  <2> QED
    BY <1>9, <2>1, <2>2, <2>3, <2>4, <2>5 DEF Main
<1>10. CASE UNCHANGED vars
  BY <1>10 DEF vars
<1> QED
  BY <1>1, <1>2, <1>3, <1>4, <1>5, <1>6, <1>7, <1>8, <1>9, <1>10 DEF Next, Command, Exited

-----------------------------------------------------------------------------
(* What m_fatal tells.                                                     *)

\* Between setting m_fatal and clearing m_run the run mutex is held; main is in
\* the destructor only after m_run was cleared.
FatalHeld == fatal => ~run \/ \E t \in Threads : runLock = t /\ pc[t] = "T_run"

MainEnding ==
    \/ pc["main"] \in Destroying \cup (StopPCs \ {"T_run"})
    \/ ret["main"] \in {"S_done", "D_null"}
    => ~run

FatalInv == FatalHeld /\ MainEnding

LEMMA FatalStep ==
    ASSUME OrderInv, FatalInv, [Next]_vars
    PROVE  FatalInv'
<1> USE DEF OrderInv, Shape, RunHeld, FatalInv, FatalHeld, MainEnding, Threads, nobody, Returning, OpenReturns,
            StopPCs, Destroying, Goto, CallFatal, state
<1>1. ASSUME NEW t \in Threads, Fatal(t) PROVE FatalInv'
  <2>1. CASE FatalLock(t)
    BY <2>1 DEF FatalLock
  <2>2. CASE FatalSet(t)
    BY <2>2 DEF FatalSet
  <2>3. CASE FatalUnlock(t)
    BY <2>3 DEF FatalUnlock
  <2> QED
    BY <1>1, <2>1, <2>2, <2>3 DEF Fatal
<1>2. ASSUME NEW t \in Threads, TerminateRun(t) PROVE FatalInv'
  BY <1>2 DEF TerminateRun
<1>3. ASSUME NEW t \in Threads, StopEncoding(t) PROVE FatalInv'
  <2>1. /\ Caller(t) \in {"F_unlock", "D_join", "C_loop"}
        /\ Caller(t) = "F_unlock" <=> runLock = t
        /\ Caller(t) = "D_join" => t = "main"
    BY DEF Caller
  <2>2. CASE StopTest(t)
    <3>1. FatalHeld'
      BY <2>1, <2>2 DEF StopTest
    <3>2. MainEnding'
      BY <2>1, <2>2 DEF StopTest
    <3> QED
      BY <3>1, <3>2
  <2>3. CASE StopReady(t)
    <3>1. FatalHeld'
      BY <2>1, <2>3 DEF StopReady
    <3>2. MainEnding'
      BY <2>1, <2>3 DEF StopReady
    <3> QED
      BY <3>1, <3>2
  <2>4. CASE StopCheck(t)
    <3>1. FatalHeld'
      BY <2>1, <2>4 DEF StopCheck
    <3>2. MainEnding'
      BY <2>1, <2>4 DEF StopCheck
    <3> QED
      BY <3>1, <3>2
  <2>5. CASE StopClear(t)
    BY <2>5 DEF StopClear
  <2>6. CASE StopError(t)
    <3>1. FatalHeld'
      BY <2>6 DEF StopError
    <3>2. MainEnding'
      BY <2>6 DEF StopError
    <3> QED
      BY <3>1, <3>2
  <2>7. CASE StopDevice(t)
    <3>1. FatalHeld'
      BY <2>1, <2>7 DEF StopDevice
    <3>2. MainEnding'
      BY <2>1, <2>7 DEF StopDevice
    <3> QED
      BY <3>1, <3>2
  <2> QED
    BY <1>3, <2>2, <2>3, <2>4, <2>5, <2>6, <2>7 DEF StopEncoding
<1>4. CASE StartEncoding
  BY <1>4 DEF StartEncoding, StartTest, StartDevice, StartSet, StartFails
<1>5. CASE OpenDev
  <2>1. CASE OpenLock \/ OpenTest \/ OpenUsb
    BY <2>1 DEF OpenLock, OpenTest, OpenUsb
  <2>2. CASE OpenError \/ OpenFails \/ OpenDeleteError \/ OpenSucceeds \/ OpenDelete \/ OpenUnlock
    BY <2>2 DEF OpenError, OpenFails, OpenDeleteError, OpenSucceeds, OpenDelete, OpenUnlock
  <2> QED
    BY <1>5, <2>1, <2>2 DEF OpenDev
<1>6. CASE CmdLoop \/ CmdCall \/ CmdIdle \/ CmdQuery \/ CmdEnd
  BY <1>6 DEF CmdLoop, CmdCall, CmdIdle, CmdQuery, CmdEnd
<1>7. CASE BufferRun
  BY <1>7 DEF BufferRun, BufLoop, BufTry, BufUnlock
<1>8. CASE Driver
  BY <1>8 DEF Driver, DrvFill, DrvUnlock, DrvError
<1>9. CASE Main
  <2>1. CASE MainWait \/ MainCheck
    BY <2>1 DEF MainWait, MainCheck
  <2>2. CASE MainJoin \/ MainLock \/ MainDeleteError \/ MainDelete
    BY <2>2 DEF MainJoin, MainLock, MainDeleteError, MainDelete
  <2>3. CASE MainExit
    <3>1. FatalHeld'
      BY <2>3 DEF MainExit
    <3>2. MainEnding'
      BY <2>3 DEF MainExit
    <3> QED
      BY <3>1, <3>2
  <2> QED
    BY <1>9, <2>1, <2>2, <2>3 DEF Main
<1>10. CASE UNCHANGED vars
  BY <1>10 DEF vars
<1> QED
  BY <1>1, <1>2, <1>3, <1>4, <1>5, <1>6, <1>7, <1>8, <1>9, <1>10 DEF Next, Command, Exited

-----------------------------------------------------------------------------
(* A thread that waits for itself.                                         *)

\* Whoever holds the run mutex is past the point where it asks for it, or has come
\* back to it from stopping the device.
SelfInv ==
    \A t \in Threads :
        runLock = t => \/ pc[t] \in {"F_set", "F_unlock", "exited"} \cup StopPCs
                       \/ pc[t] = "F_lock" /\ ret[t] = "S_done"

LEMMA SelfStep ==
    ASSUME OrderInv, SelfInv, [Next]_vars
    PROVE  SelfInv'
<1> USE DEF OrderInv, Shape, RunHeld, SelfInv, Threads, nobody, StopPCs,
            Goto, CallFatal, state
<1>1. ASSUME NEW t \in Threads, Fatal(t) PROVE SelfInv'
  BY <1>1 DEF Fatal, FatalLock, FatalSet, FatalUnlock
<1>2. ASSUME NEW t \in Threads, TerminateRun(t) PROVE SelfInv'
  BY <1>2 DEF TerminateRun
<1>3. ASSUME NEW t \in Threads, StopEncoding(t) PROVE SelfInv'
  <2>1. runLock = t => Caller(t) = "F_unlock"
    BY DEF Caller
  <2>2. CASE StopTest(t) \/ StopReady(t) \/ StopCheck(t)
    BY <2>1, <2>2 DEF StopTest, StopReady, StopCheck
  <2>3. CASE StopClear(t) \/ StopDevice(t)
    <3>1. /\ runLock = t => pc'[t] \in {"S_device", "F_unlock"}
          /\ \A u \in Threads \ {t} : pc'[u] = pc[u]
          /\ UNCHANGED <<runLock, ret>>
      BY <2>1, <2>3 DEF StopClear, StopDevice
    <3> QED
      BY <3>1
  <2>4. CASE StopError(t)
    <3>1. /\ pc'[t] = "F_lock" /\ ret'[t] = "S_done"
          /\ \A u \in Threads \ {t} : pc'[u] = pc[u] /\ ret'[u] = ret[u]
          /\ UNCHANGED runLock
      BY <2>4 DEF StopError
    <3> QED
      BY <3>1
  <2> QED
    BY <1>3, <2>2, <2>3, <2>4 DEF StopEncoding
<1>4. CASE StartEncoding
  BY <1>4 DEF StartEncoding, StartTest, StartDevice, StartSet, StartFails
<1>5. CASE OpenDev
  BY <1>5 DEF OpenDev, OpenLock, OpenTest, OpenUsb, OpenError, OpenFails, OpenSucceeds,
              OpenDeleteError, OpenDelete, OpenUnlock
<1>6. CASE CmdLoop \/ CmdCall \/ CmdIdle \/ CmdQuery \/ CmdEnd
  BY <1>6 DEF CmdLoop, CmdCall, CmdIdle, CmdQuery, CmdEnd
<1>7. CASE BufferRun \/ Driver
  BY <1>7 DEF BufferRun, BufLoop, BufTry, BufUnlock, Driver, DrvFill, DrvUnlock, DrvError
<1>8. CASE Main
  BY <1>8 DEF Main, MainWait, MainCheck, MainJoin, MainLock, MainDeleteError, MainDelete, MainExit
<1>9. CASE UNCHANGED vars
  BY <1>9 DEF vars
<1> QED
  BY <1>1, <1>2, <1>3, <1>4, <1>5, <1>6, <1>7, <1>8, <1>9 DEF Next, Command, Exited

-----------------------------------------------------------------------------
(* The stream at the end.                                                  *)

\* Unless there was an error it is CloseRecorder that cleared m_run: the command
\* thread is then closing the stream, or has closed it and does not open another.
Closing == {"S_streaming", "S_ready", "S_flow", "S_clear"}

StreamClosed ==
    ~fatal /\ ~run =>
        \/ pc["cmd"] \in Closing
        \/ /\ ~streaming
           /\ \/ pc["cmd"] \in {"S_device", "S_done", "C_loop", "C_end", "exited"}
              \/ pc["cmd"] \in {"F_lock", "F_set"} /\ ret["cmd"] = "S_done"

\* who is past setting m_fatal finds it set, and nobody else but the command
\* thread clears m_run first
FatalFirst ==
    /\ \A t \in Threads : runLock = t /\ pc[t] \in StopPCs \cup {"F_unlock"} => fatal
    /\ \A t \in Threads : pc[t] = "T_run" /\ ~fatal => t = "cmd" \/ ~run

\* a stream is opened only when the device is ready
StreamReady ==
    /\ streaming => ready
    /\ pc["cmd"] \in {"E_device", "E_set"} \/ ret["cmd"] = "E_set" => ready

StreamInv == StreamClosed /\ FatalFirst /\ StreamReady /\ DeletingIdle

LEMMA StreamStep ==
    ASSUME OrderInv, FatalInv, SelfInv, StreamInv, [Next]_vars
    PROVE  StreamInv'
<1> USE DEF OrderInv, Shape, RunHeld, FatalInv, MainEnding, DeletedLast, StreamInv, StreamClosed, FatalFirst,
            StreamReady, DeletingIdle, Closing, Threads, nobody, Returning, OpenReturns, Opening, StopPCs,
            Destroying, Goto, CallFatal, state
<1>1. ASSUME NEW t \in Threads, Fatal(t) PROVE StreamInv'
  <2>1. CASE FatalLock(t)
    <3>1. StreamClosed'
      BY <2>1 DEF FatalLock
    <3>2. FatalFirst'
      BY <2>1 DEF FatalLock
    <3>3. StreamReady'
      BY <2>1 DEF FatalLock
    <3>4. DeletingIdle'
      BY <2>1 DEF FatalLock
    <3> QED
      BY <3>1, <3>2, <3>3, <3>4
  <2>2. CASE FatalSet(t)
    <3>1. StreamClosed'
      BY <2>2 DEF FatalSet
    <3>2. FatalFirst'
      BY <2>2 DEF FatalSet
    <3>3. StreamReady'
      BY <2>2 DEF FatalSet
    <3>4. DeletingIdle'
      BY <2>2 DEF FatalSet
    <3> QED
      BY <3>1, <3>2, <3>3, <3>4
  <2>3. CASE FatalUnlock(t)
    <3>1. StreamClosed'
      BY <2>3 DEF FatalUnlock
    <3>2. FatalFirst'
      BY <2>3 DEF FatalUnlock
    <3>3. StreamReady'
      BY <2>3 DEF FatalUnlock
    <3>4. DeletingIdle'
      BY <2>3 DEF FatalUnlock
    <3> QED
      BY <3>1, <3>2, <3>3, <3>4
  <2> QED
    BY <1>1, <2>1, <2>2, <2>3 DEF Fatal
<1>2. ASSUME NEW t \in Threads, TerminateRun(t) PROVE StreamInv'
  <2>1. StreamClosed'
    BY <1>2 DEF TerminateRun
  <2>2. FatalFirst'
    BY <1>2 DEF TerminateRun
  <2>3. StreamReady'
    BY <1>2 DEF TerminateRun
  <2>4. DeletingIdle'
    BY <1>2 DEF TerminateRun
  <2> QED
    BY <2>1, <2>2, <2>3, <2>4
<1>3. ASSUME NEW t \in Threads, StopEncoding(t) PROVE StreamInv'
  <2>0. /\ Caller(t) \in {"F_unlock", "D_join", "C_loop"}
        /\ Caller(t) = "F_unlock" <=> runLock = t
        /\ t = "cmd" => Caller(t) \in {"F_unlock", "C_loop"}
    BY DEF Caller
  <2>1. CASE StopTest(t)
    <3>1. StreamClosed'
      BY <2>0, <2>1 DEF StopTest
    <3>2. FatalFirst'
      BY <2>0, <2>1 DEF StopTest
    <3>3. StreamReady'
      BY <2>0, <2>1 DEF StopTest
    <3>4. DeletingIdle'
      BY <2>0, <2>1 DEF StopTest
    <3> QED
      BY <3>1, <3>2, <3>3, <3>4
  <2>2. CASE StopReady(t)
    <3>1. StreamClosed'
      BY <2>0, <2>2 DEF StopReady
    <3>2. FatalFirst'
      BY <2>0, <2>2 DEF StopReady
    <3>3. StreamReady'
      BY <2>0, <2>2 DEF StopReady
    <3>4. DeletingIdle'
      BY <2>0, <2>2 DEF StopReady
    <3> QED
      BY <3>1, <3>2, <3>3, <3>4
  <2>3. CASE StopCheck(t)
    <3>1. StreamClosed'
      BY <2>0, <2>3 DEF StopCheck
    <3>2. FatalFirst'
      BY <2>0, <2>3 DEF StopCheck
    <3>3. StreamReady'
      BY <2>0, <2>3 DEF StopCheck
    <3>4. DeletingIdle'
      BY <2>0, <2>3 DEF StopCheck
    <3> QED
      BY <3>1, <3>2, <3>3, <3>4
  <2>4. CASE StopClear(t)
    <3>1. StreamClosed'
      BY <2>0, <2>4 DEF StopClear
    <3>2. FatalFirst'
      BY <2>0, <2>4 DEF StopClear
    <3>3. StreamReady'
      BY <2>0, <2>4 DEF StopClear
    <3>4. DeletingIdle'
      BY <2>0, <2>4 DEF StopClear
    <3> QED
      BY <3>1, <3>2, <3>3, <3>4
  <2>5. CASE StopError(t)
    <3>1. StreamClosed'
      BY <2>0, <2>5 DEF StopError
    <3>2. FatalFirst'
      BY <2>0, <2>5 DEF StopError
    <3>3. StreamReady'
      BY <2>0, <2>5 DEF StopError
    <3>4. DeletingIdle'
      BY <2>0, <2>5 DEF StopError
    <3> QED
      BY <3>1, <3>2, <3>3, <3>4
  <2>6. CASE StopDevice(t)
    <3>1. StreamClosed'
      BY <2>0, <2>6 DEF StopDevice
    <3>2. FatalFirst'
      BY <2>0, <2>6 DEF StopDevice
    <3>3. StreamReady'
      BY <2>0, <2>6 DEF StopDevice
    <3>4. DeletingIdle'
      BY <2>0, <2>6 DEF StopDevice
    <3> QED
      BY <3>1, <3>2, <3>3, <3>4
  <2> QED
    BY <1>3, <2>1, <2>2, <2>3, <2>4, <2>5, <2>6 DEF StopEncoding
<1>4. CASE StartEncoding
  <2>1. CASE StartTest
    BY <2>1 DEF StartTest
  <2>2. CASE StartDevice
    BY <2>2 DEF StartDevice
  <2>3. CASE StartSet
    BY <2>3 DEF StartSet
  <2>4. CASE StartFails
    BY <2>4 DEF StartFails
  <2> QED
    BY <1>4, <2>1, <2>2, <2>3, <2>4 DEF StartEncoding
<1>5. CASE OpenDev
  <2>1. CASE OpenLock
    BY <2>1 DEF OpenLock
  <2>2. CASE OpenTest
    BY <2>2 DEF OpenTest
  <2>3. CASE OpenUsb
    <3>1. StreamClosed'
      BY <2>3 DEF OpenUsb
    <3>2. FatalFirst'
      <4>1. /\ pc'["cmd"] \in {"O_device", "F_lock"}
            /\ \A t \in Threads \ {"cmd"} : pc'[t] = pc[t]
            /\ UNCHANGED <<run, fatal, runLock>>
        BY <2>3 DEF OpenUsb
      <4> QED
        BY <4>1
    <3>3. StreamReady'
      BY <2>3 DEF OpenUsb
    <3>4. DeletingIdle'
      BY <2>3 DEF OpenUsb
    <3> QED
      BY <3>1, <3>2, <3>3, <3>4
  <2>4. CASE OpenError
    BY <2>4 DEF OpenError
  <2>5. CASE OpenFails
    BY <2>5 DEF OpenFails
  <2>6. CASE OpenDeleteError
    BY <2>6 DEF OpenDeleteError
  <2>7. CASE OpenSucceeds
    BY <2>7 DEF OpenSucceeds
  <2>8. CASE OpenDelete
    BY <2>8 DEF OpenDelete
  <2>9. CASE OpenUnlock
    BY <2>9 DEF OpenUnlock
  <2> QED
    BY <1>5, <2>1, <2>2, <2>3, <2>4, <2>5, <2>6, <2>7, <2>8, <2>9 DEF OpenDev
<1>6. CASE CmdLoop \/ CmdCall \/ CmdIdle \/ CmdQuery \/ CmdEnd
  <2>1. CASE CmdLoop
    BY <2>1 DEF CmdLoop
  <2>2. CASE CmdCall
    <3>1. StreamClosed'
      BY <2>2 DEF CmdCall
    <3>2. FatalFirst'
      BY <2>2 DEF CmdCall, SelfInv
    <3>3. StreamReady'
      BY <2>2 DEF CmdCall
    <3>4. DeletingIdle'
      BY <2>2 DEF CmdCall
    <3> QED
      BY <3>1, <3>2, <3>3, <3>4
  <2>3. CASE CmdIdle
    BY <2>3 DEF CmdIdle
  <2>4. CASE CmdQuery
    BY <2>4 DEF CmdQuery
  <2>5. CASE CmdEnd
    BY <2>5 DEF CmdEnd
  <2> QED
    BY <1>6, <2>1, <2>2, <2>3, <2>4, <2>5
<1>7. CASE BufferRun \/ Driver
  BY <1>7 DEF BufferRun, BufLoop, BufTry, BufUnlock, Driver, DrvFill, DrvUnlock, DrvError
<1>8. CASE Main
  <2>1. CASE MainWait
    BY <2>1 DEF MainWait
  <2>2. CASE MainCheck
    BY <2>2 DEF MainCheck
  <2>3. CASE MainJoin
    BY <2>3 DEF MainJoin
  <2>4. CASE MainLock
    BY <2>4 DEF MainLock
  <2>5. CASE MainDeleteError
    BY <2>5 DEF MainDeleteError
  <2>6. CASE MainDelete
    BY <2>6 DEF MainDelete
  <2>7. CASE MainExit
    BY <2>7 DEF MainExit
  <2> QED
    BY <1>8, <2>1, <2>2, <2>3, <2>4, <2>5, <2>6, <2>7 DEF Main
<1>9. CASE UNCHANGED vars
  BY <1>9 DEF vars
<1> QED
  BY <1>1, <1>2, <1>3, <1>4, <1>5, <1>6, <1>7, <1>8, <1>9 DEF Next, Command, Exited

-----------------------------------------------------------------------------
(* Types.  Who is inside Fatal has a place to return to, and the driver's  *)
(* thread runs Terminate and StopEncoding inside Fatal only.               *)

Values ==
    /\ run \in BOOLEAN /\ fatal \in BOOLEAN /\ streaming \in BOOLEAN
    /\ ready \in BOOLEAN /\ dev \in BOOLEAN /\ capturing \in BOOLEAN
    /\ runLock \in Threads \cup {nobody} /\ flowLock \in Threads \cup {nobody}

AtLabel ==
    /\ pc["main"] \in Labels("main") \cup {"exited"}
    /\ pc["cmd"] \in Labels("cmd") \cup {"exited"}
    /\ pc["buf"] \in Labels("buf") \cup {"exited"}
    /\ pc["drv"] \in Labels("drv") \cup {"exited"}

Returned ==
    /\ ret["main"] \in Returns("main")
    /\ ret["cmd"] \in Returns("cmd")
    /\ ret["buf"] \in Returns("buf")
    /\ ret["drv"] \in Returns("drv")

FatalReturns ==
    \A t \in Threads :
        pc[t] = "F_lock" \/ (runLock = t /\ pc[t] \in FatalPCs \cup StopPCs) => ret[t] # "none"

DriverInFatal ==
    /\ pc["drv"] \in StopPCs \/ ret["drv"] = "S_done" => runLock = "drv"
    /\ ret["drv"] = "S_done" => pc["drv"] \in {"F_lock", "exited"}

TypeInv == Values /\ AtLabel /\ Returned /\ FatalReturns /\ DriverInFatal

LEMMA LabelSets ==
    /\ Labels("main") = {"M_wait", "M_check", "D_join", "D_lock", "D_delete", "D_null", "D_deleted"}
                            \cup FatalPCs \cup StopPCs
    /\ Labels("cmd") = {"C_loop", "C_poll", "C_query", "C_end"}
                           \cup FatalPCs \cup StopPCs \cup StartPCs \cup OpenPCs
    /\ Labels("buf") = {"B_loop", "B_try", "B_queue", "B_end"}
    /\ Labels("drv") = {"V_idle", "V_fill"} \cup FatalPCs \cup StopPCs
    /\ Returns("main") = {"none", "M_wait", "S_done", "D_null"}
    /\ Returns("cmd") = {"none", "S_done", "E_set", "O_unlock", "O_result", "O_delete", "O_null", "C_end"}
    /\ Returns("buf") = {"none"}
    /\ Returns("drv") = {"none", "V_idle", "S_done"}
  BY DEF Labels, Returns

LEMMA TypeStep ==
    ASSUME OrderInv, SelfInv, TypeInv, [Next]_vars
    PROVE  TypeInv'
<1> USE LabelSets DEF OrderInv, Shape, RunHeld, TypeInv, Values, AtLabel, Returned, FatalReturns, DriverInFatal,
                      Threads, nobody, FatalPCs, StopPCs, StartPCs, OpenPCs, Goto, CallFatal, state
<1>1. ASSUME NEW t \in Threads, Fatal(t) PROVE TypeInv'
  <2>1. CASE FatalLock(t)
    <3>1. Values'
      BY <2>1 DEF FatalLock
    <3>2. AtLabel'
      BY <2>1 DEF FatalLock
    <3>3. Returned'
      BY <2>1 DEF FatalLock
    <3>4. FatalReturns'
      BY <2>1 DEF FatalLock
    <3>5. DriverInFatal'
      BY <2>1 DEF FatalLock
    <3> QED
      BY <3>1, <3>2, <3>3, <3>4, <3>5
  <2>2. CASE FatalSet(t)
    <3>1. Values'
      BY <2>2 DEF FatalSet
    <3>2. AtLabel'
      BY <2>2 DEF FatalSet
    <3>3. Returned'
      BY <2>2 DEF FatalSet
    <3>4. FatalReturns'
      BY <2>2 DEF FatalSet
    <3>5. DriverInFatal'
      BY <2>2 DEF FatalSet
    <3> QED
      BY <3>1, <3>2, <3>3, <3>4, <3>5
  <2>3. CASE FatalUnlock(t)
    <3>1. Values'
      BY <2>3 DEF FatalUnlock
    <3>2. AtLabel'
      BY <2>3 DEF FatalUnlock
    <3>3. Returned'
      BY <2>3 DEF FatalUnlock
    <3>4. FatalReturns'
      BY <2>3 DEF FatalUnlock
    <3>5. DriverInFatal'
      BY <2>3 DEF FatalUnlock
    <3> QED
      BY <3>1, <3>2, <3>3, <3>4, <3>5
  <2> QED
    BY <1>1, <2>1, <2>2, <2>3 DEF Fatal
<1>2. ASSUME NEW t \in Threads, TerminateRun(t) PROVE TypeInv'
  <2>1. Values'
    BY <1>2 DEF TerminateRun
  <2>2. AtLabel'
    BY <1>2 DEF TerminateRun
  <2>3. Returned'
    BY <1>2 DEF TerminateRun
  <2>4. FatalReturns'
    BY <1>2 DEF TerminateRun
  <2>5. DriverInFatal'
    BY <1>2 DEF TerminateRun
  <2> QED
    BY <2>1, <2>2, <2>3, <2>4, <2>5
<1>3. ASSUME NEW t \in Threads, StopEncoding(t) PROVE TypeInv'
  <2>0. /\ runLock = t => Caller(t) = "F_unlock"
        /\ runLock # t => Caller(t) = (IF t = "main" THEN "D_join" ELSE "C_loop")
    BY DEF Caller
  <2>1. CASE StopTest(t)
    <3>1. Values'
      BY <2>0, <2>1 DEF StopTest
    <3>2. AtLabel'
      BY <2>0, <2>1 DEF StopTest
    <3>3. Returned'
      BY <2>0, <2>1 DEF StopTest
    <3>4. FatalReturns'
      BY <2>0, <2>1 DEF StopTest
    <3>5. DriverInFatal'
      BY <2>0, <2>1 DEF StopTest
    <3> QED
      BY <3>1, <3>2, <3>3, <3>4, <3>5
  <2>2. CASE StopReady(t)
    <3>1. Values'
      BY <2>0, <2>2 DEF StopReady
    <3>2. AtLabel'
      BY <2>0, <2>2 DEF StopReady
    <3>3. Returned'
      BY <2>0, <2>2 DEF StopReady
    <3>4. FatalReturns'
      BY <2>0, <2>2 DEF StopReady
    <3>5. DriverInFatal'
      BY <2>0, <2>2 DEF StopReady
    <3> QED
      BY <3>1, <3>2, <3>3, <3>4, <3>5
  <2>3. CASE StopCheck(t)
    <3>1. Values'
      BY <2>0, <2>3 DEF StopCheck
    <3>2. AtLabel'
      BY <2>0, <2>3 DEF StopCheck
    <3>3. Returned'
      BY <2>0, <2>3 DEF StopCheck
    <3>4. FatalReturns'
      BY <2>0, <2>3 DEF StopCheck
    <3>5. DriverInFatal'
      BY <2>0, <2>3 DEF StopCheck
    <3> QED
      BY <3>1, <3>2, <3>3, <3>4, <3>5
  <2>4. CASE StopClear(t)
    <3>1. Values'
      BY <2>0, <2>4 DEF StopClear
    <3>2. AtLabel'
      BY <2>0, <2>4 DEF StopClear
    <3>3. Returned'
      BY <2>0, <2>4 DEF StopClear
    <3>4. FatalReturns'
      BY <2>0, <2>4 DEF StopClear
    <3>5. DriverInFatal'
      BY <2>0, <2>4 DEF StopClear
    <3> QED
      BY <3>1, <3>2, <3>3, <3>4, <3>5
  <2>5. CASE StopError(t)
    <3>1. Values'
      BY <2>0, <2>5 DEF StopError
    <3>2. AtLabel'
      BY <2>0, <2>5 DEF StopError
    <3>3. Returned'
      BY <2>0, <2>5 DEF StopError
    <3>4. FatalReturns'
      BY <2>0, <2>5 DEF StopError
    <3>5. DriverInFatal'
      BY <2>0, <2>5 DEF StopError
    <3> QED
      BY <3>1, <3>2, <3>3, <3>4, <3>5
  <2>6. CASE StopDevice(t)
    <3>1. Values'
      BY <2>0, <2>6 DEF StopDevice
    <3>2. AtLabel'
      BY <2>0, <2>6 DEF StopDevice
    <3>3. Returned'
      BY <2>0, <2>6 DEF StopDevice
    <3>4. FatalReturns'
      BY <2>0, <2>6 DEF StopDevice
    <3>5. DriverInFatal'
      BY <2>0, <2>6 DEF StopDevice
    <3> QED
      BY <3>1, <3>2, <3>3, <3>4, <3>5
  <2> QED
    BY <1>3, <2>1, <2>2, <2>3, <2>4, <2>5, <2>6 DEF StopEncoding
<1>4. CASE StartEncoding
  <2>1. CASE StartTest
    BY <2>1 DEF StartTest
  <2>2. CASE StartDevice
    <3>1. Values'
      BY <2>2 DEF StartDevice
    <3>2. AtLabel'
      BY <2>2 DEF StartDevice
    <3>3. Returned'
      BY <2>2 DEF StartDevice
    <3>4. FatalReturns'
      BY <2>2 DEF StartDevice
    <3>5. DriverInFatal'
      BY <2>2 DEF StartDevice
    <3> QED
      BY <3>1, <3>2, <3>3, <3>4, <3>5
  <2>3. CASE StartSet
    BY <2>3 DEF StartSet
  <2>4. CASE StartFails
    <3>1. Values'
      BY <2>4 DEF StartFails
    <3>2. AtLabel'
      BY <2>4 DEF StartFails
    <3>3. Returned'
      BY <2>4 DEF StartFails
    <3>4. FatalReturns'
      BY <2>4 DEF StartFails
    <3>5. DriverInFatal'
      BY <2>4 DEF StartFails
    <3> QED
      BY <3>1, <3>2, <3>3, <3>4, <3>5
  <2> QED
    BY <1>4, <2>1, <2>2, <2>3, <2>4 DEF StartEncoding
<1>5. CASE OpenDev
  <2>1. CASE OpenLock
    BY <2>1 DEF OpenLock
  <2>2. CASE OpenTest
    <3>1. Values'
      BY <2>2 DEF OpenTest
    <3>2. AtLabel'
      BY <2>2 DEF OpenTest
    <3>3. Returned'
      BY <2>2 DEF OpenTest
    <3>4. FatalReturns'
      BY <2>2 DEF OpenTest
    <3>5. DriverInFatal'
      BY <2>2 DEF OpenTest
    <3> QED
      BY <3>1, <3>2, <3>3, <3>4, <3>5
  <2>3. CASE OpenUsb
    <3>1. Values'
      BY <2>3 DEF OpenUsb
    <3>2. AtLabel'
      BY <2>3 DEF OpenUsb
    <3>3. Returned'
      BY <2>3 DEF OpenUsb
    <3>4. FatalReturns'
      BY <2>3 DEF OpenUsb
    <3>5. DriverInFatal'
      BY <2>3 DEF OpenUsb
    <3> QED
      BY <3>1, <3>2, <3>3, <3>4, <3>5
  <2>4. CASE OpenError
    BY <2>4 DEF OpenError
  <2>5. CASE OpenFails
    <3>1. Values'
      BY <2>5 DEF OpenFails
    <3>2. AtLabel'
      BY <2>5 DEF OpenFails
    <3>3. Returned'
      BY <2>5 DEF OpenFails
    <3>4. FatalReturns'
      BY <2>5 DEF OpenFails
    <3>5. DriverInFatal'
      BY <2>5 DEF OpenFails
    <3> QED
      BY <3>1, <3>2, <3>3, <3>4, <3>5
  <2>6. CASE OpenDeleteError
    BY <2>6 DEF OpenDeleteError
  <2>7. CASE OpenSucceeds
    <3>1. Values'
      BY <2>7 DEF OpenSucceeds
    <3>2. AtLabel'
      BY <2>7 DEF OpenSucceeds
    <3>3. Returned'
      BY <2>7 DEF OpenSucceeds
    <3>4. FatalReturns'
      BY <2>7 DEF OpenSucceeds
    <3>5. DriverInFatal'
      BY <2>7 DEF OpenSucceeds
    <3> QED
      BY <3>1, <3>2, <3>3, <3>4, <3>5
  <2>8. CASE OpenDelete
    <3>1. Values'
      BY <2>8 DEF OpenDelete
    <3>2. AtLabel'
      BY <2>8 DEF OpenDelete
    <3>3. Returned'
      BY <2>8 DEF OpenDelete
    <3>4. FatalReturns'
      BY <2>8 DEF OpenDelete
    <3>5. DriverInFatal'
      BY <2>8 DEF OpenDelete
    <3> QED
      BY <3>1, <3>2, <3>3, <3>4, <3>5
  <2>9. CASE OpenUnlock
    <3>1. Values'
      BY <2>9 DEF OpenUnlock
    <3>2. AtLabel'
      BY <2>9 DEF OpenUnlock
    <3>3. Returned'
      BY <2>9 DEF OpenUnlock
    <3>4. FatalReturns'
      BY <2>9 DEF OpenUnlock
    <3>5. DriverInFatal'
      BY <2>9 DEF OpenUnlock
    <3> QED
      BY <3>1, <3>2, <3>3, <3>4, <3>5
  <2> QED
    BY <1>5, <2>1, <2>2, <2>3, <2>4, <2>5, <2>6, <2>7, <2>8, <2>9 DEF OpenDev
<1>6. CASE CmdLoop \/ CmdCall \/ CmdIdle \/ CmdQuery \/ CmdEnd
  <2>1. CASE CmdLoop
    BY <2>1 DEF CmdLoop
  <2>2. CASE CmdCall
    <3>1. Values'
      BY <2>2 DEF CmdCall, SelfInv
    <3>2. AtLabel'
      BY <2>2 DEF CmdCall, SelfInv
    <3>3. Returned'
      BY <2>2 DEF CmdCall, SelfInv
    <3>4. FatalReturns'
      BY <2>2 DEF CmdCall, SelfInv
    <3>5. DriverInFatal'
      BY <2>2 DEF CmdCall, SelfInv
    <3> QED
      BY <3>1, <3>2, <3>3, <3>4, <3>5
  <2>3. CASE CmdIdle
    BY <2>3 DEF CmdIdle
  <2>4. CASE CmdQuery
    BY <2>4 DEF CmdQuery
  <2>5. CASE CmdEnd
    <3>1. Values'
      BY <2>5 DEF CmdEnd
    <3>2. AtLabel'
      BY <2>5 DEF CmdEnd
    <3>3. Returned'
      BY <2>5 DEF CmdEnd
    <3>4. FatalReturns'
      BY <2>5 DEF CmdEnd
    <3>5. DriverInFatal'
      BY <2>5 DEF CmdEnd
    <3> QED
      BY <3>1, <3>2, <3>3, <3>4, <3>5
  <2> QED
    BY <1>6, <2>1, <2>2, <2>3, <2>4, <2>5
<1>7. CASE BufferRun
  <2>1. CASE BufLoop
    BY <2>1 DEF BufLoop
  <2>2. CASE BufTry
    <3>1. Values'
      BY <2>2 DEF BufTry
    <3>2. AtLabel'
      BY <2>2 DEF BufTry
    <3>3. Returned'
      BY <2>2 DEF BufTry
    <3>4. FatalReturns'
      BY <2>2 DEF BufTry
    <3>5. DriverInFatal'
      BY <2>2 DEF BufTry
    <3> QED
      BY <3>1, <3>2, <3>3, <3>4, <3>5
  <2>3. CASE BufUnlock
    BY <2>3 DEF BufUnlock
  <2> QED
    BY <1>7, <2>1, <2>2, <2>3 DEF BufferRun
<1>8. CASE Driver
  <2>1. CASE DrvFill
    BY <2>1 DEF DrvFill
  <2>2. CASE DrvUnlock
    BY <2>2 DEF DrvUnlock
  <2>3. CASE DrvError
    BY <2>3 DEF DrvError
  <2> QED
    BY <1>8, <2>1, <2>2, <2>3 DEF Driver
<1>9. CASE Main
  <2>1. CASE MainWait
    BY <2>1 DEF MainWait
  <2>2. CASE MainCheck
    <3>1. Values'
      BY <2>2 DEF MainCheck
    <3>2. AtLabel'
      BY <2>2 DEF MainCheck
    <3>3. Returned'
      BY <2>2 DEF MainCheck
    <3>4. FatalReturns'
      BY <2>2 DEF MainCheck
    <3>5. DriverInFatal'
      BY <2>2 DEF MainCheck
    <3> QED
      BY <3>1, <3>2, <3>3, <3>4, <3>5
  <2>3. CASE MainJoin
    BY <2>3 DEF MainJoin
  <2>4. CASE MainLock
    BY <2>4 DEF MainLock
  <2>5. CASE MainDeleteError
    BY <2>5 DEF MainDeleteError
  <2>6. CASE MainDelete
    <3>1. Values'
      BY <2>6 DEF MainDelete
    <3>2. AtLabel'
      BY <2>6 DEF MainDelete
    <3>3. Returned'
      BY <2>6 DEF MainDelete
    <3>4. FatalReturns'
      BY <2>6 DEF MainDelete
    <3>5. DriverInFatal'
      BY <2>6 DEF MainDelete
    <3> QED
      BY <3>1, <3>2, <3>3, <3>4, <3>5
  <2>7. CASE MainExit
    BY <2>7 DEF MainExit
  <2> QED
    BY <1>9, <2>1, <2>2, <2>3, <2>4, <2>5, <2>6, <2>7 DEF Main
<1>10. CASE UNCHANGED vars
  BY <1>10 DEF vars
<1> QED
  BY <1>1, <1>2, <1>3, <1>4, <1>5, <1>6, <1>7, <1>8, <1>9, <1>10 DEF Next, Command, Exited

-----------------------------------------------------------------------------
(* The invariant of the life of a recorder.                                *)

LifeInv == OrderInv /\ FatalInv /\ StreamInv /\ SelfInv /\ TypeInv

\* The invariant of the recorder's life holds in every state.
THEOREM LifeAlways == Spec => []LifeInv
<1>1. Init => LifeInv
  <2> SUFFICES ASSUME Init PROVE LifeInv
    OBVIOUS
  <2>1. OrderInv
    BY OrderInit
  <2>2. FatalInv
    BY DEF Init, FatalInv, FatalHeld, MainEnding, Threads, Destroying, StopPCs
  <2>3. StreamInv
    BY DEF Init, StreamInv, StreamClosed, FatalFirst, StreamReady, DeletingIdle, Threads, nobody, StopPCs
  <2>4. SelfInv
    BY DEF Init, SelfInv, Threads, nobody
  <2>5. TypeInv
    BY LabelSets DEF Init, TypeInv, Values, AtLabel, Returned, FatalReturns, DriverInFatal, Threads, nobody,
                     FatalPCs, StopPCs
  <2> QED
    BY <2>1, <2>2, <2>3, <2>4, <2>5 DEF LifeInv
<1>2. LifeInv /\ [Next]_vars => LifeInv'
  BY OrderStep, FatalStep, StreamStep, SelfStep, TypeStep DEF LifeInv, StreamInv
<1> QED
  BY <1>1, <1>2, PTL DEF Spec

\* Every thread stays in its own code, whatever reports errors and in what order.
THEOREM TypesHold == Spec => []TypeOK
<1>1. LifeInv => TypeOK
  BY LabelSets DEF LifeInv, OrderInv, Shape, TypeInv, Values, AtLabel, Returned, TypeOK, Threads
<1> QED
  BY <1>1, LifeAlways, PTL

(* Who waits for whom.                                                      *)

\* OpenDev and Fatal, which take the two mutexes in opposite orders, never wait
\* for each other; the destructor and the driver may.
LEMMA LocksCross ==
    ASSUME LifeInv, NEW t \in Threads, NEW u \in Threads, LockCycle(t, u)
    PROVE  t = "main" /\ u = "drv" /\ ret["main"] = "D_null"
<1> USE DEF LifeInv, OrderInv, LockCycle
<1>1. ready
  BY DEF ReadySeparates, PastReady
<1>2. t # "cmd"
  BY <1>1 DEF FlowHeld, ReadySeparates, Opening
<1>3. t = "main" /\ ret["main"] = "D_null"
  BY <1>2 DEF FlowHeld, Threads
<1>4. pc["cmd"] = "C_end"
  BY <1>3 DEF DeletedLast
<1>5. u # "buf"
  BY LabelSets DEF TypeInv, AtLabel
<1> QED
  BY <1>3, <1>4, <1>5 DEF Threads

\* The holder of the run mutex waits for the flow mutex, or for itself.
LEMMA RunHolderWaits ==
    ASSUME LifeInv, NEW t \in Threads, NEW u \in Threads, runLock = t, WaitsFor(t, u)
    PROVE  \/ pc[t] = "S_flow" /\ flowLock = u
           \/ SelfLock(t) /\ ret[t] = "S_done"
<1>1. \/ pc[t] \in {"F_set", "F_unlock", "exited"} \cup StopPCs
      \/ pc[t] = "F_lock" /\ ret[t] = "S_done"
  BY DEF LifeInv, SelfInv
<1> QED
  BY <1>1 DEF WaitsFor, SelfLock, StopPCs

\* The holder of the flow mutex waits for the run mutex.
LEMMA FlowHolderWaits ==
    ASSUME LifeInv, NEW t \in Threads, NEW u \in Threads, flowLock = t, WaitsFor(t, u)
    PROVE  pc[t] = "F_lock" /\ runLock = u
<1> USE DEF LifeInv, OrderInv
<1>1. ASSUME pc[t] = "S_flow" PROVE FALSE
  <2>1. \/ t = "cmd" /\ ret["cmd"] \in OpenReturns
        \/ t = "main" /\ ret["main"] = "D_null"
    BY <1>1 DEF FlowHeld, Opening, Threads
  <2>2. CASE t = "cmd"
    BY <1>1, <2>1, <2>2 DEF ReadySeparates, PastReady, Threads
  <2>3. CASE t = "main"
    BY <1>1, <2>1, <2>3 DEF StreamInv, DeletingIdle, StopPCs
  <2> QED
    BY <2>1, <2>2, <2>3
<1>2. ret[t] # "none" => pc[t] \in {"F_lock", "F_set", "F_unlock", "exited"} \cup StopPCs
  BY DEF RunHeld
<1>3. pc[t] \notin {"M_wait", "C_query", "O_lock", "D_lock", "D_join"}
  BY <1>2 DEF FlowHeld, Opening, OpenReturns, StopPCs, Threads
<1> QED
  BY <1>1, <1>3 DEF WaitsFor

\* Threads wait for each other, over mutexes and joins, in no circle but the two that
\* NoWaitingCircle names, whatever device calls report errors.
THEOREM NoDeadlyEmbrace == Spec => []NoWaitingCircle
<1>1. ASSUME LifeInv, NEW circle \in (SUBSET Threads) \ {{}},
             \A t \in circle : \E u \in circle : WaitsFor(t, u),
             ~ \E t \in circle : SelfLock(t) /\ ret[t] = "S_done"
      PROVE  LockCycle("main", "drv") /\ ret["main"] = "D_null"
  <2>1. ASSUME NEW t \in circle, runLock = t
        PROVE  LockCycle("main", "drv") /\ ret["main"] = "D_null"
    <3>1. PICK u \in circle : WaitsFor(t, u)
      BY <1>1
    <3>2. pc[t] = "S_flow" /\ flowLock = u
      BY <1>1, <2>1, <3>1, RunHolderWaits
    <3>3. PICK v \in circle : WaitsFor(u, v)
      BY <1>1
    <3>4. LockCycle(u, t)
      BY <1>1, <2>1, <3>2, <3>3, FlowHolderWaits DEF LockCycle
    <3> QED
      BY <1>1, <3>4, LocksCross
  <2>2. ASSUME NEW t \in circle, flowLock = t
        PROVE  LockCycle("main", "drv") /\ ret["main"] = "D_null"
    <3>1. PICK u \in circle : WaitsFor(t, u)
      BY <1>1
    <3> QED
      BY <1>1, <2>1, <2>2, <3>1, FlowHolderWaits
  <2>3. ASSUME NEW t \in circle, pc[t] # "D_join"
        PROVE  LockCycle("main", "drv") /\ ret["main"] = "D_null"
    <3>1. PICK u \in circle : WaitsFor(t, u)
      BY <1>1
    <3> QED
      BY <2>1, <2>2, <2>3, <3>1 DEF WaitsFor
  <2>4. ASSUME NEW t \in circle, pc[t] = "D_join"
        PROVE  LockCycle("main", "drv") /\ ret["main"] = "D_null"
    <3>1. PICK u \in circle : WaitsFor(t, u)
      BY <1>1
    <3>2. u \in {"cmd", "buf"}
      BY <2>4, <3>1 DEF WaitsFor
    <3>3. pc[u] # "D_join"
      BY <1>1, <3>2, LabelSets DEF LifeInv, TypeInv, AtLabel, FatalPCs, StopPCs, StartPCs, OpenPCs
    <3> QED
      BY <2>3, <3>3
  <2>5. PICK t \in circle : TRUE
    BY <1>1
  <2> QED
    BY <2>3, <2>4, <2>5
<1>2. LifeInv => NoWaitingCircle
  BY <1>1 DEF NoWaitingCircle
<1> QED
  BY <1>2, LifeAlways, PTL

\* A command that finds m_fatal set under the run mutex, and answers with the
\* error message, does so with the shutdown begun.
THEOREM FatalIsFinal == Spec => []FatalMeansTerminating
<1>1. LifeInv => FatalMeansTerminating
  BY DEF LifeInv, FatalInv, FatalHeld, FatalMeansTerminating, Threads, nobody
<1> QED
  BY <1>1, LifeAlways, PTL

\* No thread asks for a mutex that it holds, except in Fatal called by stopping
\* the device.
THEOREM NoSelfDeadlock == Spec => []NoSelfLock
<1>1. LifeInv => NoSelfLock
  <2> SUFFICES ASSUME LifeInv, NEW t \in Threads
               PROVE  /\ SelfLock(t) => ret[t] = "S_done"
                      /\ pc[t] \in {"S_flow", "O_lock"} => flowLock # t
    BY DEF NoSelfLock
  <2> USE DEF LifeInv, OrderInv
  <2>1. SelfLock(t) => ret[t] = "S_done"
    BY DEF SelfLock, SelfInv, StopPCs
  <2>2. ASSUME pc[t] \in {"S_flow", "O_lock"}, flowLock = t PROVE FALSE
    <3>1. \/ t = "cmd" /\ ret["cmd"] \in OpenReturns
          \/ t = "main" /\ ret["main"] = "D_null"
      BY <2>2 DEF FlowHeld, Opening, Threads
    <3>2. pc[t] = "S_flow"
      BY <2>2, <3>1 DEF RunHeld, StopPCs, OpenReturns, Threads
    <3>3. CASE t = "cmd"
      BY <3>1, <3>2, <3>3 DEF ReadySeparates, PastReady, Threads
    <3>4. CASE t = "main"
      BY <3>1, <3>2, <3>4 DEF StreamInv, DeletingIdle, StopPCs
    <3> QED
      BY <3>1, <3>3, <3>4
  <2> QED
    BY <2>1, <2>2
<1> QED
  BY <1>1, LifeAlways, PTL

\* The device is there wherever main and the command thread work on it.
THEOREM DeviceStays == Spec => []DeviceIsThere
<1>1. LifeInv => DeviceIsThere
  <2> SUFFICES ASSUME LifeInv, NEW t \in {"main", "cmd"},
                      pc[t] \in {"S_clear", "S_device", "S_done", "E_device", "E_set"}
               PROVE  dev
    BY DEF DeviceIsThere
  <2>1. ready
    BY LabelSets DEF LifeInv, OrderInv, ReadySeparates, PastReady, Threads, StreamInv, StreamReady,
                     TypeInv, AtLabel, FatalPCs, StopPCs
  <2> QED
    BY <2>1 DEF LifeInv, OrderInv, DeletedLast
<1> QED
  BY <1>1, LifeAlways, PTL

-----------------------------------------------------------------------------
(* The recorder implements RecorderLife.                                   *)

LEMMA LifeInitial ==
    ASSUME Init
    PROVE  Life!LifeInit
  BY DEF Init, Life!LifeInit

\* A step of RecorderLife, or one that changes nothing there.
LifeMove == [Life!LifeNext]_(Life!life)

LEMMA LifeStutter ==
    ASSUME UNCHANGED <<dev, ready, run, fatal, streaming>>
    PROVE  LifeMove
  BY DEF LifeMove, Life!life

\* What the command thread may rely on while it works.
LEMMA CommandAtWork ==
    ASSUME LifeInv, pc["cmd"] \in Opening \cup {"O_test", "E_set"}
    PROVE  /\ ~run => fatal
           /\ ready => dev
           /\ pc["cmd"] \in Opening => dev /\ ~ready
           /\ pc["cmd"] = "E_set" => ready
  BY DEF LifeInv, OrderInv, DeletedLast, ReadySeparates, StreamInv, StreamClosed, StreamReady,
         Closing, Opening

\* What main may rely on when it deletes the device.
LEMMA MainAtDelete ==
    ASSUME LifeInv, pc["main"] \in {"D_delete", "D_null"}
    PROVE  ~run /\ (streaming => fatal)
  <1>1. pc["cmd"] = "C_end" /\ ~run
    BY DEF LifeInv, OrderInv, DeletedLast, FatalInv, MainEnding, Destroying
  <1> QED
    BY <1>1 DEF LifeInv, StreamInv, StreamClosed, Closing

LEMMA LifeStep ==
    ASSUME LifeInv, [Next]_vars
    PROVE  LifeMove
<1>0. /\ run \in BOOLEAN /\ fatal \in BOOLEAN /\ ready \in BOOLEAN /\ dev \in BOOLEAN
      /\ streaming \in BOOLEAN
  BY DEF LifeInv, OrderInv, Shape, TypeInv, Values
<1>1. (UNCHANGED <<dev, ready, run, fatal, streaming>>) => LifeMove
  BY LifeStutter
<1> USE <1>0 DEF LifeMove, Life!life, Life!LifeNext, Life!MayBegin
<1>2. ASSUME NEW t \in Threads, FatalSet(t) PROVE LifeMove
  BY <1>2 DEF FatalSet, Life!Fail
<1>3. ASSUME NEW t \in Threads, TerminateRun(t) PROVE LifeMove
  BY <1>3 DEF TerminateRun, Life!End
<1>4. ASSUME NEW t \in Threads, StopClear(t) PROVE LifeMove
  BY <1>4 DEF StopClear, Life!Stop
<1>5. CASE StartSet
  BY <1>5, CommandAtWork DEF StartSet, Life!Start
<1>6. CASE OpenTest
  BY <1>6, CommandAtWork DEF OpenTest, Life!Create
<1>7. CASE OpenUsb
  BY <1>7, CommandAtWork DEF OpenUsb, Opening, Life!GiveUp
<1>8. CASE OpenSucceeds
  BY <1>8, CommandAtWork DEF OpenSucceeds, Opening, Life!Open
<1>9. CASE OpenDelete
  BY <1>9, CommandAtWork DEF OpenDelete, Opening, Life!GiveUp
<1>10. CASE MainDelete
  BY <1>10, MainAtDelete DEF MainDelete, Life!Delete, Life!GiveUp
<1> HIDE <1>0 DEF LifeMove, Life!life, Life!LifeNext, Life!MayBegin
<1>11. ASSUME NEW t \in Threads, Fatal(t) \/ TerminateRun(t) \/ StopEncoding(t) PROVE LifeMove
  <2>1. CASE FatalLock(t) \/ FatalUnlock(t)
    BY <2>1, <1>1 DEF FatalLock, FatalUnlock, state
  <2>2. CASE StopTest(t) \/ StopReady(t) \/ StopCheck(t)
    BY <2>2, <1>1 DEF StopTest, StopReady, StopCheck, state
  <2>3. CASE StopError(t) \/ StopDevice(t)
    BY <2>3, <1>1 DEF StopError, StopDevice, state
  <2> QED
    BY <1>2, <1>3, <1>4, <1>11, <2>1, <2>2, <2>3 DEF Fatal, StopEncoding
<1>12. CASE Command
  <2>1. CASE StartTest \/ StartDevice \/ StartFails
    BY <2>1, <1>1 DEF StartTest, StartDevice, StartFails, state
  <2>2. CASE OpenLock \/ OpenError \/ OpenFails \/ OpenDeleteError \/ OpenUnlock
    BY <2>2, <1>1 DEF OpenLock, OpenError, OpenFails, OpenDeleteError, OpenUnlock, state
  <2>3. CASE CmdLoop \/ CmdCall \/ CmdIdle \/ CmdQuery \/ CmdEnd
    BY <2>3, <1>1 DEF CmdLoop, CmdCall, CmdIdle, CmdQuery, CmdEnd, state
  <2> QED
    BY <1>5, <1>6, <1>7, <1>8, <1>9, <1>12, <2>1, <2>2, <2>3 DEF Command, StartEncoding, OpenDev
<1>13. CASE BufferRun \/ Driver
  BY <1>13, <1>1 DEF BufferRun, BufLoop, BufTry, BufUnlock, Driver, DrvFill, DrvUnlock, DrvError, state
<1>14. CASE Main
  <2>1. CASE MainWait \/ MainCheck \/ MainJoin \/ MainLock \/ MainDeleteError \/ MainExit
    BY <2>1, <1>1 DEF MainWait, MainCheck, MainJoin, MainLock, MainDeleteError, MainExit, state
  <2> QED
    BY <1>10, <1>14, <2>1 DEF Main
<1>15. CASE Exited \/ UNCHANGED vars
  BY <1>15, <1>1 DEF Exited, vars, state
<1> QED
  BY <1>11, <1>12, <1>13, <1>14, <1>15 DEF Next

\* The recorder keeps the promises of RecorderLife, whatever places report errors:
\* one device in its life, no start after an orderly end, and no deletion under a
\* stream but after an error.
THEOREM MythTVImplementsLife == Spec => ImplementsLife
<1> QED
  BY LifeInitial, LifeAlways, LifeStep, PTL DEF Spec, ImplementsLife, Life!LifeSpec, LifeMove

-----------------------------------------------------------------------------
(* How long a shutdown takes.                                              *)

(* The most steps a thread has left in Fatal, from a location in it or in  *)
(* what it calls, ...                                                      *)
FatalLeft(label) ==
    CASE label = "F_lock" -> 10 [] label = "F_set" -> 9 [] label = "T_run" -> 8
      [] label = "S_streaming" -> 7 [] label = "S_ready" -> 6 [] label = "S_flow" -> 5
      [] label = "S_clear" -> 4 [] label = "S_device" -> 3 [] label = "S_done" -> 2
      [] OTHER -> 1

(* ... in Terminate called by others, where the device may call Fatal, ... *)
StopLeft(label) ==
    CASE label = "T_run" -> 17 [] label = "S_streaming" -> 16 [] label = "S_ready" -> 15
      [] label = "S_flow" -> 14 [] label = "S_clear" -> 13 [] label = "S_device" -> 12
      [] OTHER -> 1

(* ... and in its own code: a call of Fatal is ten steps.                  *)
MainLeft(label) ==
    CASE label = "M_check" -> 44 [] label = "M_wait" -> 33
      [] label \in StopPCs -> 15 + StopLeft(label)
      [] label = "D_join" -> 15 [] label = "D_lock" -> 14 [] label = "D_delete" -> 13
      [] label = "D_null" -> 2 [] label = "D_deleted" -> 1
      [] OTHER -> 0

CmdLeft(label) ==
    CASE label = "C_poll" -> 40
      [] label = "O_lock" -> 39 [] label = "O_test" -> 38 [] label = "O_usb" -> 37
      [] label = "O_device" -> 36 [] label = "O_result" -> 25 [] label = "O_delete" -> 14
      [] label = "O_null" -> 3 [] label = "O_unlock" -> 2
      [] label = "E_streaming" -> 14 [] label = "E_device" -> 13 [] label = "E_set" -> 2
      [] label \in StopPCs -> 1 + StopLeft(label)
      [] label = "C_query" -> 2 [] label = "C_loop" -> 1
      [] OTHER -> 0

BufLeft(label) ==
    CASE label = "B_try" -> 3 [] label = "B_queue" -> 2 [] label = "B_loop" -> 1
      [] OTHER -> 0

(* The threads that are joined, and the one that joins them.               *)
OwnThreads == {"main", "cmd", "buf"}

OwnLeft(t, label) ==
    IF t = "main" THEN MainLeft(label) ELSE IF t = "cmd" THEN CmdLeft(label) ELSE BufLeft(label)

(* A thread that waits for itself makes no step any more.                  *)
StepsLeft(t) ==
    IF SelfLock(t) THEN 0
    ELSE IF runLock = t \/ pc[t] = "F_lock" THEN FatalLeft(pc[t]) + OwnLeft(t, ret[t])
    ELSE OwnLeft(t, pc[t])

Nearer(t) ==
    \/ StepsLeft(t)' < StepsLeft(t)
    \/ pc'[t] = pc[t] /\ StepsLeft(t)' = StepsLeft(t)
    \/ pc'[t] = "exited"

OutOfFatal(label) == label \notin FatalPCs \cup StopPCs \cup {"exited"}

LEMMA LeftIsNatural ==
    ASSUME NEW t \in OwnThreads, NEW label
    PROVE  OwnLeft(t, label) \in 0..44
  BY DEF OwnThreads, OwnLeft, MainLeft, CmdLeft, BufLeft, StopLeft, StopPCs

LEMMA StandsStill ==
    ASSUME NEW t \in OwnThreads, pc'[t] = pc[t], ret'[t] = ret[t], runLock' = t <=> runLock = t
    PROVE  Nearer(t)
<1>1. StepsLeft(t)' = StepsLeft(t)
  <2>1. FatalLeft(pc[t])' = FatalLeft(pc[t])
    BY DEF FatalLeft
  <2>2. OwnLeft(t, ret[t])' = OwnLeft(t, ret[t]) /\ OwnLeft(t, pc[t])' = OwnLeft(t, pc[t])
    BY DEF OwnLeft, MainLeft, CmdLeft, BufLeft, StopLeft
  <2>3. SelfLock(t)' <=> SelfLock(t)
    BY DEF SelfLock
  <2> QED
    BY <2>1, <2>2, <2>3 DEF StepsLeft
<1> QED
  BY <1>1 DEF Nearer

\* a step of a thread's own code
LEMMA MovesOn ==
    ASSUME LifeInv, NEW t \in OwnThreads, NEW label, OutOfFatal(pc[t]), label # "F_lock",
           Goto(t, label), UNCHANGED <<runLock, ret>>,
           OwnLeft(t, label) < OwnLeft(t, pc[t])
    PROVE  Nearer(t)
<1>1. runLock # t /\ pc[t] # "F_lock" /\ pc'[t] = label
  BY DEF LifeInv, SelfInv, OrderInv, Shape, OutOfFatal, FatalPCs, StopPCs, OwnThreads, Threads, Goto
<1>2. StepsLeft(t) = OwnLeft(t, pc[t])
  BY <1>1 DEF StepsLeft, SelfLock
<1>3. OwnLeft(t, pc[t])' = OwnLeft(t, label)
  BY <1>1 DEF OwnLeft, MainLeft, CmdLeft, BufLeft, StopLeft
<1>4. StepsLeft(t)' = OwnLeft(t, label)
  BY <1>1, <1>3 DEF StepsLeft, SelfLock
<1> QED
  BY <1>2, <1>4 DEF Nearer

\* a call of Fatal from a thread's own code
LEMMA CallsFatal ==
    ASSUME LifeInv, NEW t \in OwnThreads, NEW label, OutOfFatal(pc[t]),
           CallFatal(t, label), UNCHANGED runLock,
           OwnLeft(t, label) + 10 < OwnLeft(t, pc[t])
    PROVE  Nearer(t)
<1>1. runLock # t /\ pc[t] # "F_lock" /\ pc'[t] = "F_lock" /\ ret'[t] = label
  BY DEF LifeInv, SelfInv, OrderInv, Shape, OutOfFatal, FatalPCs, StopPCs, OwnThreads, Threads, Goto,
         CallFatal
<1>2. StepsLeft(t) = OwnLeft(t, pc[t])
  BY <1>1 DEF StepsLeft, SelfLock
<1>3. OwnLeft(t, ret[t])' = OwnLeft(t, label) /\ FatalLeft(pc[t])' = 10
  BY <1>1 DEF OwnLeft, MainLeft, CmdLeft, BufLeft, StopLeft, FatalLeft
<1>4. StepsLeft(t)' = 10 + OwnLeft(t, label)
  BY <1>1, <1>3 DEF StepsLeft, SelfLock
<1> QED
  BY <1>2, <1>4, LeftIsNatural DEF Nearer

\* a step inside Fatal, or in what Fatal calls, that does not leave it
LEMMA MovesInFatal ==
    ASSUME LifeInv, NEW t \in OwnThreads, NEW label, pc[t] = "F_lock" \/ runLock = t,
           ~SelfLock(t), label # "F_lock", runLock' = t, UNCHANGED ret, Goto(t, label),
           FatalLeft(label) < FatalLeft(pc[t])
    PROVE  Nearer(t)
<1>1. pc'[t] = label
  BY DEF LifeInv, OrderInv, Shape, OwnThreads, Threads, Goto
<1>2. StepsLeft(t) = FatalLeft(pc[t]) + OwnLeft(t, ret[t])
  BY DEF StepsLeft
<1>3. OwnLeft(t, ret[t])' = OwnLeft(t, ret[t]) /\ FatalLeft(pc[t])' = FatalLeft(label)
  BY <1>1 DEF OwnLeft, MainLeft, CmdLeft, BufLeft, StopLeft, FatalLeft
<1>4. StepsLeft(t)' = FatalLeft(label) + OwnLeft(t, ret[t])
  BY <1>1, <1>3 DEF StepsLeft, SelfLock
<1>5. FatalLeft(label) \in Nat /\ FatalLeft(pc[t]) \in Nat
  BY DEF FatalLeft
<1> QED
  BY <1>2, <1>4, <1>5, LeftIsNatural DEF Nearer

\* a step in Terminate or StopEncoding that was not called by Fatal
LEMMA MovesInStop ==
    ASSUME LifeInv, NEW t \in OwnThreads, NEW label, pc[t] \in StopPCs, runLock # t,
           label # "F_lock", UNCHANGED <<runLock, ret>>, Goto(t, label),
           OwnLeft(t, label) < OwnLeft(t, pc[t])
    PROVE  Nearer(t)
<1>1. pc'[t] = label
  BY DEF LifeInv, OrderInv, Shape, OwnThreads, Threads, Goto
<1>2. StepsLeft(t) = OwnLeft(t, pc[t])
  BY DEF StepsLeft, SelfLock, StopPCs
<1>3. OwnLeft(t, pc[t])' = OwnLeft(t, label)
  BY <1>1 DEF OwnLeft, MainLeft, CmdLeft, BufLeft, StopLeft
<1>4. StepsLeft(t)' = OwnLeft(t, label)
  BY <1>1, <1>3 DEF StepsLeft, SelfLock
<1> QED
  BY <1>2, <1>4 DEF Nearer

\* where OwnThreads may be in Terminate
LEMMA WhoStops ==
    ASSUME LifeInv, NEW t \in OwnThreads, pc[t] \in StopPCs \cup FatalPCs
    PROVE  t \in {"main", "cmd"}
  BY LabelSets DEF LifeInv, TypeInv, AtLabel, OwnThreads, StopPCs, FatalPCs

LEMMA FatalNearer ==
    ASSUME LifeInv, NEW t \in OwnThreads, Fatal(t)
    PROVE  Nearer(t)
<1>0. pc[t] # "F_lock" => ~SelfLock(t)
  BY DEF SelfLock
<1>1. CASE FatalLock(t)
  <2>1. pc[t] = "F_lock" /\ runLock = nobody /\ runLock' = t /\ Goto(t, "F_set") /\ UNCHANGED ret
    BY <1>1 DEF FatalLock
  <2>2. ~SelfLock(t)
    BY <2>1 DEF SelfLock, OwnThreads, nobody
  <2>3. FatalLeft("F_set") < FatalLeft("F_lock")
    BY DEF FatalLeft
  <2> QED
    BY <2>1, <2>2, <2>3, MovesInFatal
<1>2. CASE FatalSet(t)
  <2>1. /\ pc[t] = "F_set" /\ runLock' = runLock /\ UNCHANGED ret
        /\ Goto(t, "F_unlock") \/ Goto(t, "T_run")
    BY <1>2 DEF FatalSet
  <2>2. runLock = t
    BY <2>1 DEF LifeInv, OrderInv, RunHeld, OwnThreads, Threads
  <2>3. FatalLeft("T_run") < FatalLeft("F_set") /\ FatalLeft("F_unlock") < FatalLeft("F_set")
    BY DEF FatalLeft
  <2> QED
    BY <1>0, <2>1, <2>2, <2>3, MovesInFatal
<1>3. CASE FatalUnlock(t)
  <2>1. /\ pc[t] = "F_unlock" /\ runLock' = nobody /\ pc'[t] = ret[t]
    BY <1>3 DEF FatalUnlock, Goto, LifeInv, OrderInv, Shape, OwnThreads, Threads
  <2>2. runLock = t /\ ret[t] \in Returning
    BY <2>1 DEF LifeInv, OrderInv, RunHeld, OwnThreads, Threads
  <2>3. StepsLeft(t) = 1 + OwnLeft(t, ret[t])
    <3>1. FatalLeft(pc[t]) = 1
      BY <2>1 DEF FatalLeft
    <3> QED
      BY <1>0, <2>1, <2>2, <3>1 DEF StepsLeft
  <2>4. StepsLeft(t)' = OwnLeft(t, ret[t])
    <3>1. OwnLeft(t, pc[t])' = OwnLeft(t, ret[t])
      BY <2>1 DEF OwnLeft, MainLeft, CmdLeft, BufLeft, StopLeft
    <3>2. runLock' # t /\ pc'[t] # "F_lock"
      BY <2>1, <2>2 DEF Returning, OpenReturns, OwnThreads, nobody
    <3> QED
      BY <3>1, <3>2 DEF StepsLeft, SelfLock
  <2> QED
    BY <2>3, <2>4, LeftIsNatural DEF Nearer
<1> QED
  BY <1>1, <1>2, <1>3 DEF Fatal

(* A step of Terminate or StopEncoding that reports no error.              *)
StopGoesTo(t, label) ==
    /\ Goto(t, label)
    /\ \/ label = Caller(t) /\ pc[t] \in StopPCs \ {"T_run", "S_clear"}
       \/ label = "S_streaming" /\ pc[t] = "T_run"
       \/ label = "S_ready" /\ pc[t] = "S_streaming"
       \/ label = "S_flow" /\ pc[t] = "S_ready"
       \/ label = "S_clear" /\ pc[t] = "S_flow"
       \/ label = "S_device" /\ pc[t] = "S_clear"

LEMMA StopNearer ==
    ASSUME LifeInv, NEW t \in OwnThreads, TerminateRun(t) \/ StopEncoding(t)
    PROVE  Nearer(t)
<1>0. pc[t] \in StopPCs /\ UNCHANGED runLock /\ ~SelfLock(t)
  BY DEF TerminateRun, StopEncoding, StopTest, StopReady, StopCheck, StopClear, StopError, StopDevice,
         StopPCs, SelfLock
<1>1. t \in {"main", "cmd"}
  BY <1>0, WhoStops
<1>2. ASSUME ~StopError(t)
      PROVE  /\ UNCHANGED ret
             /\ \E label : StopGoesTo(t, label)
  <2>1. CASE TerminateRun(t)
    BY <2>1 DEF TerminateRun, StopGoesTo
  <2>2. CASE StopTest(t)
    BY <2>2 DEF StopTest, StopPCs, StopGoesTo
  <2>3. CASE StopReady(t)
    BY <2>3 DEF StopReady, StopPCs, StopGoesTo
  <2>4. CASE StopCheck(t)
    BY <2>4 DEF StopCheck, StopPCs, StopGoesTo
  <2>5. CASE StopClear(t)
    BY <2>5 DEF StopClear, StopGoesTo
  <2>6. CASE StopDevice(t)
    BY <2>6 DEF StopDevice, StopPCs, StopGoesTo
  <2> QED
    BY <1>2, <2>1, <2>2, <2>3, <2>4, <2>5, <2>6 DEF StopEncoding
<1>3. CASE ~StopError(t) /\ runLock = t
  <2>1. PICK label : StopGoesTo(t, label)
    BY <1>2, <1>3
  <2>2. Caller(t) = "F_unlock"
    BY <1>3 DEF Caller
  <2>3. FatalLeft(label) < FatalLeft(pc[t]) /\ label # "F_lock"
    BY <2>1, <2>2 DEF FatalLeft, StopPCs, StopGoesTo
  <2> QED
    BY <1>0, <1>2, <1>3, <2>1, <2>3, MovesInFatal DEF StopGoesTo
<1>4. CASE ~StopError(t) /\ runLock # t
  <2>1. PICK label : StopGoesTo(t, label)
    BY <1>2, <1>4
  <2>2. Caller(t) = IF t = "main" THEN "D_join" ELSE "C_loop"
    BY <1>4 DEF Caller
  <2>3. label # "F_lock" /\ OwnLeft(t, label) < OwnLeft(t, pc[t])
    BY <1>1, <2>1, <2>2 DEF OwnLeft, MainLeft, CmdLeft, StopLeft, StopPCs, StopGoesTo
  <2> QED
    BY <1>0, <1>2, <1>4, <2>1, <2>3, MovesInStop DEF StopGoesTo
<1>5. CASE StopError(t)
  <2>1. pc[t] = "S_device" /\ pc'[t] = "F_lock" /\ ret'[t] = "S_done"
    BY <1>5 DEF StopError, CallFatal, Goto, LifeInv, OrderInv, Shape, OwnThreads, Threads
  <2>2. CASE runLock = t
    <3>1. StepsLeft(t)' = 0
      BY <1>0, <2>1, <2>2 DEF StepsLeft, SelfLock
    <3>2. FatalLeft(pc[t]) = 3
      BY <2>1 DEF FatalLeft
    <3>3. StepsLeft(t) = 3 + OwnLeft(t, ret[t])
      BY <1>0, <2>2, <3>2 DEF StepsLeft
    <3> QED
      BY <3>1, <3>3, LeftIsNatural DEF Nearer
  <2>3. CASE runLock # t
    <3>1. FatalLeft(pc[t])' = 10 /\ OwnLeft(t, ret[t])' = OwnLeft(t, "S_done")
      BY <2>1 DEF FatalLeft, OwnLeft, MainLeft, CmdLeft, BufLeft, StopLeft
    <3>2. StepsLeft(t)' = 10 + OwnLeft(t, "S_done")
      BY <1>0, <2>1, <2>3, <3>1 DEF StepsLeft, SelfLock
    <3>3. StepsLeft(t) = OwnLeft(t, "S_device")
      BY <1>0, <2>1, <2>3 DEF StepsLeft
    <3>4. 10 + OwnLeft(t, "S_done") < OwnLeft(t, "S_device")
      BY <1>1 DEF OwnLeft, MainLeft, CmdLeft, StopLeft, StopPCs
    <3> QED
      BY <3>2, <3>3, <3>4 DEF Nearer
  <2> QED
    BY <2>2, <2>3
<1> QED
  BY <1>3, <1>4, <1>5

\* what another thread does leaves a thread where it is
LEMMA OthersStop ==
    ASSUME LifeInv, NEW u \in Threads, NEW t \in OwnThreads, t # u,
           Fatal(u) \/ TerminateRun(u) \/ StopEncoding(u)
    PROVE  Nearer(t)
<1>1. pc'[t] = pc[t] /\ ret'[t] = ret[t]
  BY DEF Fatal, FatalLock, FatalSet, FatalUnlock, TerminateRun, StopEncoding, StopTest, StopReady,
         StopCheck, StopClear, StopError, StopDevice, CallFatal, Goto, LifeInv, OrderInv, Shape,
         OwnThreads, Threads
<1>2. runLock' = t <=> runLock = t
  <2>1. CASE FatalLock(u)
    BY <2>1 DEF FatalLock, OwnThreads, nobody
  <2>2. CASE FatalUnlock(u)
    BY <2>2 DEF FatalUnlock, LifeInv, OrderInv, RunHeld, OwnThreads, nobody
  <2>3. CASE UNCHANGED runLock
    BY <2>3
  <2> QED
    BY <2>1, <2>2, <2>3 DEF Fatal, FatalSet, TerminateRun, StopEncoding, StopTest, StopReady,
       StopCheck, StopClear, StopError, StopDevice
<1> QED
  BY <1>1, <1>2, StandsStill

\* The command thread: each of its steps, with the steps that are left after it.
CmdGoesTo(label) == Goto("cmd", label) /\ UNCHANGED ret
CmdFails(label) == CallFatal("cmd", label)

LEMMA CommandSteps ==
    ASSUME ~run, Command
    PROVE  \/ CmdGoesTo("C_loop") /\ pc["cmd"] \in {"E_streaming", "E_set", "O_unlock", "C_poll",
                                                          "C_query"}
           \/ CmdGoesTo("C_end") /\ pc["cmd"] \in {"C_loop", "C_poll"}
           \/ CmdGoesTo("E_device") /\ pc["cmd"] = "E_streaming"
           \/ CmdGoesTo("E_set") /\ pc["cmd"] = "E_device"
           \/ CmdFails("E_set") /\ pc["cmd"] = "E_device"
           \/ CmdGoesTo("O_test") /\ pc["cmd"] = "O_lock"
           \/ CmdGoesTo("O_usb") /\ pc["cmd"] = "O_test"
           \/ CmdGoesTo("O_device") /\ pc["cmd"] = "O_usb"
           \/ CmdFails("O_unlock") /\ pc["cmd"] = "O_usb"
           \/ CmdFails("O_result") /\ pc["cmd"] = "O_device"
           \/ CmdFails("O_delete") /\ pc["cmd"] \in {"O_device", "O_result"}
           \/ CmdFails("O_null") /\ pc["cmd"] = "O_delete"
           \/ CmdGoesTo("O_unlock")
                /\ pc["cmd"] \in {"O_test", "O_device", "O_result", "O_delete", "O_null"}
           \/ /\ \E label \in {"O_lock", "E_streaming", "S_streaming", "T_run", "C_query"} :
                    CmdGoesTo(label)
              /\ pc["cmd"] = "C_poll"
           \/ CmdFails("C_end") /\ pc["cmd"] = "C_poll"
<1>1. CASE StartEncoding
  BY <1>1 DEF StartEncoding, StartTest, StartDevice, StartSet, StartFails, CmdGoesTo, CmdFails
<1>2. CASE OpenLock \/ OpenTest \/ OpenUsb \/ OpenError
  BY <1>2 DEF OpenLock, OpenTest, OpenUsb, OpenError, CmdGoesTo, CmdFails
<1>3. CASE OpenSucceeds \/ OpenFails \/ OpenDeleteError \/ OpenDelete \/ OpenUnlock
  BY <1>3 DEF OpenSucceeds, OpenFails, OpenDeleteError, OpenDelete, OpenUnlock, CmdGoesTo, CmdFails
<1>4. CASE CmdLoop \/ CmdCall \/ CmdIdle \/ CmdQuery \/ CmdEnd
  BY <1>4 DEF CmdLoop, CmdCall, CmdIdle, CmdQuery, CmdEnd, CmdGoesTo, CmdFails
<1> QED
  BY <1>1, <1>2, <1>3, <1>4 DEF Command, OpenDev

LEMMA CommandNearer ==
    ASSUME LifeInv, ~run, Command, NEW t \in OwnThreads
    PROVE  Nearer(t)
<1>0. UNCHANGED runLock
  BY DEF Command, StartEncoding, StartTest, StartDevice, StartSet, StartFails, OpenDev, OpenLock,
         OpenTest, OpenUsb, OpenError, OpenSucceeds, OpenFails, OpenDeleteError, OpenDelete, OpenUnlock,
         CmdLoop, CmdCall, CmdIdle, CmdQuery, CmdEnd
<1>1. CASE t # "cmd"
  <2>1. pc'[t] = pc[t] /\ ret'[t] = ret[t]
    BY <1>1, CommandSteps
       DEF CmdGoesTo, CmdFails, CallFatal, Goto, LifeInv, OrderInv, Shape, OwnThreads, Threads
  <2> QED
    BY <1>0, <2>1, StandsStill
<1>2. CASE t = "cmd"
  <2>1. OutOfFatal(pc["cmd"])
    BY CommandSteps DEF OutOfFatal, FatalPCs, StopPCs
  <2>2. \/ \E label : /\ CmdGoesTo(label) /\ label # "F_lock"
                      /\ OwnLeft("cmd", label) < OwnLeft("cmd", pc["cmd"])
        \/ \E label : CmdFails(label) /\ OwnLeft("cmd", label) + 10 < OwnLeft("cmd", pc["cmd"])
    BY CommandSteps DEF OwnLeft, CmdLeft, StopLeft, StopPCs
  <2>3. ASSUME NEW label, CmdGoesTo(label), label # "F_lock",
               OwnLeft("cmd", label) < OwnLeft("cmd", pc["cmd"])
        PROVE  Nearer("cmd")
    BY <1>0, <1>2, <2>1, <2>3, MovesOn DEF CmdGoesTo
  <2>4. ASSUME NEW label, CmdFails(label),
               OwnLeft("cmd", label) + 10 < OwnLeft("cmd", pc["cmd"])
        PROVE  Nearer("cmd")
    BY <1>0, <1>2, <2>1, <2>4, CallsFatal DEF CmdFails
  <2> QED
    BY <1>2, <2>2, <2>3, <2>4
<1> QED
  BY <1>1, <1>2

\* The buffer thread and the driver's.
LEMMA BufferNearer ==
    ASSUME LifeInv, ~run, BufferRun \/ Driver, NEW t \in OwnThreads
    PROVE  Nearer(t)
<1>0. UNCHANGED runLock
  BY DEF BufferRun, BufLoop, BufTry, BufUnlock, Driver, DrvFill, DrvUnlock, DrvError
<1>1. CASE t # "buf" \/ Driver
  <2>1. pc'[t] = pc[t] /\ ret'[t] = ret[t]
    BY <1>1 DEF BufferRun, BufLoop, BufTry, BufUnlock, Driver, DrvFill, DrvUnlock, DrvError,
                CallFatal, Goto, LifeInv, OrderInv, Shape, OwnThreads, Threads
  <2> QED
    BY <1>0, <2>1, StandsStill
<1>2. CASE t = "buf" /\ BufferRun
  <2>1. PICK label : /\ Goto("buf", label) /\ UNCHANGED ret
                     /\ \/ label = "B_end" /\ pc["buf"] = "B_loop"
                        \/ label = "B_queue" /\ pc["buf"] = "B_try"
                        \/ label = "B_loop" /\ pc["buf"] \in {"B_try", "B_queue"}
    BY <1>2 DEF BufferRun, BufLoop, BufTry, BufUnlock
  <2>2. OwnLeft("buf", label) < OwnLeft("buf", pc["buf"])
    BY <2>1 DEF OwnLeft, BufLeft
  <2>3. OutOfFatal(pc["buf"]) /\ label # "F_lock"
    BY <2>1 DEF OutOfFatal, FatalPCs, StopPCs
  <2> QED
    BY <1>0, <1>2, <2>1, <2>2, <2>3, MovesOn
<1> QED
  BY <1>1, <1>2

LEMMA MainNearer ==
    ASSUME LifeInv, ~run, Main, NEW t \in OwnThreads
    PROVE  Nearer(t)
<1>0. UNCHANGED runLock
  BY DEF Main, MainWait, MainCheck, MainJoin, MainLock, MainDeleteError, MainDelete, MainExit
<1>1. CASE MainExit
  BY <1>1 DEF MainExit, Nearer, OwnThreads, Threads
<1>2. CASE ~MainExit /\ t # "main"
  <2>1. pc'[t] = pc[t] /\ ret'[t] = ret[t]
    BY <1>2 DEF Main, MainWait, MainCheck, MainJoin, MainLock, MainDeleteError, MainDelete,
                CallFatal, Goto, LifeInv, OrderInv, Shape, OwnThreads, Threads
  <2> QED
    BY <1>0, <2>1, StandsStill
<1>3. CASE ~MainExit /\ t = "main"
  <2>1. \/ Goto("main", "T_run") /\ UNCHANGED ret /\ pc["main"] = "M_wait"
        \/ Goto("main", "M_wait") /\ UNCHANGED ret /\ pc["main"] = "M_check"
        \/ CallFatal("main", "M_wait") /\ pc["main"] = "M_check"
        \/ Goto("main", "D_lock") /\ UNCHANGED ret /\ pc["main"] = "D_join"
        \/ Goto("main", "D_delete") /\ UNCHANGED ret /\ pc["main"] = "D_lock"
        \/ CallFatal("main", "D_null") /\ pc["main"] = "D_delete"
        \/ Goto("main", "D_deleted") /\ UNCHANGED ret /\ pc["main"] \in {"D_delete", "D_null"}
    BY <1>3 DEF Main, MainWait, MainCheck, MainJoin, MainLock, MainDeleteError, MainDelete
  <2>2. OutOfFatal(pc["main"])
    BY <2>1 DEF OutOfFatal, FatalPCs, StopPCs
  <2>3. \/ \E label : /\ Goto("main", label) /\ UNCHANGED ret /\ label # "F_lock"
                      /\ OwnLeft("main", label) < OwnLeft("main", pc["main"])
        \/ \E label : /\ CallFatal("main", label)
                      /\ OwnLeft("main", label) + 10 < OwnLeft("main", pc["main"])
    BY <2>1 DEF OwnLeft, MainLeft, StopLeft, StopPCs
  <2>4. ASSUME NEW label, Goto("main", label), UNCHANGED ret, label # "F_lock",
               OwnLeft("main", label) < OwnLeft("main", pc["main"])
        PROVE  Nearer("main")
    BY <1>0, <1>3, <2>2, <2>4, MovesOn
  <2>5. ASSUME NEW label, CallFatal("main", label),
               OwnLeft("main", label) + 10 < OwnLeft("main", pc["main"])
        PROVE  Nearer("main")
    BY <1>0, <1>3, <2>2, <2>5, CallsFatal
  <2> QED
    BY <1>3, <2>3, <2>4, <2>5
<1> QED
  BY <1>1, <1>2, <1>3

LEMMA StepsAreFew ==
    ASSUME LifeInv, NEW t \in OwnThreads
    PROVE  StepsLeft(t) \in 0..44
<1>1. FatalLeft(pc[t]) \in 1..10
  BY DEF FatalLeft
<1>2. OwnLeft(t, ret[t]) \in 0..33
  <2>1. t = "main" => ret[t] \in {"none", "M_wait", "S_done", "D_null"}
    BY LabelSets DEF LifeInv, TypeInv, Returned
  <2>2. t = "buf" => ret[t] = "none"
    BY LabelSets DEF LifeInv, TypeInv, Returned
  <2>3. t = "cmd" => ret[t] \in {"none", "S_done", "E_set", "O_unlock", "O_result", "O_delete",
                                 "O_null", "C_end"}
    BY LabelSets DEF LifeInv, TypeInv, Returned
  <2> QED
    BY <2>1, <2>2, <2>3 DEF OwnThreads, OwnLeft, MainLeft, CmdLeft, BufLeft, StopLeft, StopPCs
<1>3. OwnLeft(t, pc[t]) \in 0..44
  BY LeftIsNatural
<1> QED
  BY <1>1, <1>2, <1>3 DEF StepsLeft

\* Once m_run is cleared it stays so, and every step of a thread of the program brings
\* that thread nearer to its end, while no step of another one takes it back: commands,
\* errors reported on the way and shutdowns that overlap (src/MythTV.cpp:45-75, 140-169)
\* do not keep the recorder busy.
Ending == ~run => ~run' /\ \A t \in OwnThreads : Nearer(t)

ShutdownIsBounded == [][Ending]_vars

\* A shutdown takes each thread at most 44 steps, wherever it finds the thread and
\* whatever reports errors: with NoDeadlyEmbrace, it ends if the threads are
\* scheduled, locks are fair and nobody waits for itself.
THEOREM BoundedShutdown ==
    Spec => [](\A t \in OwnThreads : StepsLeft(t) \in 0..44) /\ ShutdownIsBounded
<1>1. ASSUME LifeInv, [Next]_vars
      PROVE  [Ending]_vars
  <2> SUFFICES ASSUME ~run, Next
               PROVE  ~run' /\ \A t \in OwnThreads : Nearer(t)
    BY <1>1 DEF Ending
  <2>1. ~run'
    BY DEF Next, Fatal, FatalLock, FatalSet, FatalUnlock, TerminateRun, StopEncoding, StopTest,
           StopReady, StopCheck, StopClear, StopError, StopDevice, Command, StartEncoding, StartTest,
           StartDevice, StartSet, StartFails, OpenDev, OpenLock, OpenTest, OpenUsb, OpenError,
           OpenSucceeds, OpenFails, OpenDeleteError, OpenDelete, OpenUnlock, CmdLoop, CmdCall,
           CmdIdle, CmdQuery, CmdEnd, BufferRun, BufLoop, BufTry, BufUnlock, Driver, DrvFill,
           DrvUnlock, DrvError, Main, MainWait, MainCheck, MainJoin, MainLock, MainDeleteError,
           MainDelete, MainExit, Exited, state, vars
  <2>2. ASSUME NEW t \in OwnThreads
        PROVE  Nearer(t)
    <3>1. ASSUME NEW u \in Threads, Fatal(u) \/ TerminateRun(u) \/ StopEncoding(u)
          PROVE  Nearer(t)
      BY <1>1, <3>1, FatalNearer, StopNearer, OthersStop
    <3>2. CASE Exited
      BY <3>2, StandsStill DEF Exited, vars
    <3> QED
      BY <1>1, <3>1, <3>2, CommandNearer, BufferNearer, MainNearer DEF Next
  <2> QED
    BY <2>1, <2>2
<1>2. LifeInv => \A t \in OwnThreads : StepsLeft(t) \in 0..44
  BY StepsAreFew
<1> QED
  BY LifeAlways, <1>1, <1>2, PTL DEF Spec, ShutdownIsBounded

================================================================================
