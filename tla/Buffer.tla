--------------------------------- MODULE Buffer ---------------------------------
(***************************************************************************)
(* The packet buffer of the recorder (class Buffer, src/MythTV.cpp) and    *)
(* the parts of its parent MythTV that drive it.  Four actors meet here:   *)
(*                                                                         *)
(*  - the driver thread of the capture device calls Buffer::Fill with each *)
(*    block;                                                               *)
(*  - the buffer thread (Buffer::Run) moves blocks to standard output;     *)
(*  - the command thread starts and stops the encoder and sets XON/XOFF;   *)
(*  - some thread runs MythTV::Terminate (a fatal error, CloseRecorder or  *)
(*    the destructor), at any moment.                                      *)
(*                                                                         *)
(* A block is its number in the order of capture.  The flow mutex protects *)
(* single steps here; try_lock_for may still fail, so each use of it has a *)
(* step for the timeout.  A wait on m_flow_cond has no predicate and a     *)
(* bound of one second, so it may end at any time and the notifications    *)
(* need no state: MythTV.tla has the locks and the shutdown in detail.     *)
(* The reader of standard output may stop reading and start again, and a   *)
(* write may fail: the buffer thread waits, or loses the block.            *)
(***************************************************************************)
EXTENDS Integers, Sequences, Functions

CONSTANTS
    MaxQueue,     \* Buffer::MAX_QUEUE, 500 in the code
    MaxBlocks,    \* bound of the model: blocks captured in a behaviour
    MaxSessions   \* bound of the model: StartStreaming commands that reach the device

ASSUME MaxQueueAssumption == MaxQueue \in Nat \ {0}
ASSUME BoundsAssumption == MaxBlocks \in Nat /\ MaxSessions \in Nat

VARIABLES
    run,         \* MythTV::m_run
    streaming,   \* MythTV::m_streaming
    xon,         \* MythTV::m_xon
    capturing,   \* the device may call Fill (external)
    data,        \* Buffer::m_data
    bpc,         \* where the buffer thread is in Buffer::Run
    pkt,         \* its local pkt: <<>> or the block it is about to write
    isEmpty,     \* its local is_empty
    wait,        \* its local wait
    cpc,         \* where the command thread is ("pausing": XOFF is answered, m_xon still set)
    tpc,         \* where the thread that runs Terminate is
    sessions,    \* counts captures started
    filled,      \* number of calls of Fill so far, which numbers the blocks
    out,         \* what was written to standard output
    lost,        \* blocks that were refused or cleared
    lateStop,    \* blocks written since streaming was last cleared
    lateXoff     \* blocks written since xon was last cleared

flags == <<run, streaming, xon>>
consumer == <<bpc, pkt, isEmpty, wait>>
history == <<out, lateStop, lateXoff>>
vars == <<flags, capturing, data, consumer, cpc, tpc, sessions, filled, lost, history>>

Locations == {"loop", "wait", "streaming?", "xon?", "pop", "write", "blocked", "clear", "done"}

(* Inside the call of write. *)
Writing == bpc \in {"write", "blocked"}

(* Every block on its way, oldest first: the output, the block in the hands *)
(* of the buffer thread, the queue.                                         *)
pipeline == out \o (pkt \o data)

Init ==
    /\ run = TRUE /\ streaming = FALSE /\ xon = FALSE
    /\ capturing = FALSE
    /\ data = <<>>
    /\ bpc = "loop" /\ pkt = <<>> /\ isEmpty = FALSE /\ wait = FALSE
    /\ cpc = "loop" /\ tpc = "idle"
    /\ sessions = 0 /\ filled = 0
    /\ out = <<>> /\ lost = {}
    /\ lateStop = 0 /\ lateXoff = 0

-----------------------------------------------------------------------------
(* Buffer::Fill, called by the driver thread.                              *)

\* mutant: the size is compared with <=
QueueHasOneTooMany(q) == Len(q) <= MaxQueue

QueueHasRoom(q) == Len(q) < MaxQueue

Captured ==
    /\ capturing
    /\ filled < MaxBlocks
    /\ filled' = filled + 1

Fill ==
    /\ Captured
    /\ QueueHasRoom(data)
    /\ data' = Append(data, filled + 1)
    /\ UNCHANGED lost
    /\ UNCHANGED <<flags, capturing, consumer, cpc, tpc, sessions, history>>

\* the queue is full: the block is dropped and counted
FillOverrun ==
    /\ Captured
    /\ ~QueueHasRoom(data)
    /\ lost' = lost \cup {filled + 1}
    /\ UNCHANGED <<flags, capturing, data, consumer, cpc, tpc, sessions, history>>

\* two seconds without the flow lock: the block is dropped
FillTimesOut ==
    /\ Captured
    /\ lost' = lost \cup {filled + 1}
    /\ UNCHANGED <<flags, capturing, data, consumer, cpc, tpc, sessions, history>>

-----------------------------------------------------------------------------
(* Buffer::Run, one step for each access to shared state.                  *)

Shared == <<flags, capturing, cpc, tpc, sessions, filled>>

\* mutant: the loop goes on as long as the stream is open
LoopTopWhileStreaming ==
    /\ bpc = "loop"
    /\ bpc' = IF ~run /\ ~streaming THEN "done" ELSE IF wait THEN "wait" ELSE "streaming?"
    /\ UNCHANGED <<Shared, data, pkt, isEmpty, wait, lost, history>>

\* the while condition, and the test of the local flag wait
LoopTop ==
    /\ bpc = "loop"
    /\ bpc' = IF ~run THEN "done" ELSE IF wait THEN "wait" ELSE "streaming?"
    /\ UNCHANGED <<Shared, data, pkt, isEmpty, wait, lost, history>>

\* wait_for returns: notified, spurious, or after its second
WaitEnds ==
    /\ bpc = "wait"
    /\ wait' = FALSE
    /\ bpc' = "streaming?"
    /\ UNCHANGED <<Shared, data, pkt, isEmpty, lost, history>>

\* mutant: a recorder that is not XON never clears its queue
TestStreamingOrPaused ==
    /\ bpc = "streaming?"
    /\ bpc' = IF streaming \/ ~xon THEN "xon?" ELSE "clear"
    /\ UNCHANGED <<Shared, data, pkt, isEmpty, wait, lost, history>>

TestStreaming ==
    /\ bpc = "streaming?"
    /\ bpc' = IF streaming THEN "xon?" ELSE "clear"
    /\ UNCHANGED <<Shared, data, pkt, isEmpty, wait, lost, history>>

TestXon ==
    /\ bpc = "xon?"
    /\ IF xon THEN bpc' = "pop" /\ UNCHANGED wait
              ELSE bpc' = "loop" /\ wait' = TRUE
    /\ UNCHANGED <<Shared, data, pkt, isEmpty, lost, history>>

\* mutant: front() without pop()
RemainingAll(q) == q

Remaining(q) == Tail(q)

\* mutant: the last block is left in the queue
PopAllButOne ==
    /\ bpc = "pop"
    /\ Len(data) > 1
    /\ pkt' = <<Head(data)>>
    /\ data' = Remaining(data)
    /\ isEmpty' = (data' = <<>>)
    /\ bpc' = "write"
    /\ UNCHANGED <<Shared, wait, lost, history>>

Pop ==
    /\ bpc = "pop"
    /\ data # <<>>
    /\ pkt' = <<Head(data)>>
    /\ data' = Remaining(data)
    /\ isEmpty' = (data' = <<>>)
    /\ bpc' = "write"
    /\ UNCHANGED <<Shared, wait, lost, history>>

\* the queue is empty, or a second passed without the flow lock; is_empty keeps
\* the value of the last pop
PopNothing ==
    /\ bpc = "pop"
    /\ wait' = isEmpty
    /\ bpc' = "loop"
    /\ UNCHANGED <<Shared, data, pkt, isEmpty, lost, history>>

\* mutant: the stream is tested again and the block forgotten if it was closed
WriteIfStreaming ==
    /\ Writing
    /\ out' = IF streaming THEN out \o pkt ELSE out
    /\ pkt' = <<>>
    /\ wait' = isEmpty
    /\ bpc' = "loop"
    /\ UNCHANGED <<Shared, data, isEmpty, lost, lateStop, lateXoff>>

\* mutant: the backlog is written in one go
WriteBacklog ==
    /\ Writing
    /\ out' = out \o pkt
    /\ pkt' = <<>>
    /\ wait' = isEmpty
    /\ bpc' = IF isEmpty THEN "loop" ELSE "pop"
    /\ lateStop' = IF streaming THEN lateStop ELSE lateStop + 1
    /\ lateXoff' = IF xon THEN lateXoff ELSE lateXoff + 1
    /\ UNCHANGED <<Shared, data, isEmpty, lost>>

Write ==
    /\ Writing
    /\ out' = out \o pkt
    /\ pkt' = <<>>
    /\ wait' = isEmpty
    /\ bpc' = "loop"
    /\ lateStop' = IF streaming THEN lateStop ELSE lateStop + 1
    /\ lateXoff' = IF xon THEN lateXoff ELSE lateXoff + 1
    /\ UNCHANGED <<Shared, data, isEmpty, lost>>

\* write fails, or writes a part: the result is ignored, the block is gone
WriteFails ==
    /\ Writing
    /\ lost' = lost \cup Range(pkt)
    /\ pkt' = <<>>
    /\ wait' = isEmpty
    /\ bpc' = "loop"
    /\ UNCHANGED <<Shared, data, isEmpty, history>>

\* nobody reads standard output: write returns when somebody does (external)
WriteBlocks ==
    /\ bpc = "write"
    /\ bpc' = "blocked"
    /\ UNCHANGED <<Shared, data, pkt, isEmpty, wait, lost, history>>

\* the branch for not streaming
ClearQueue ==
    /\ bpc = "clear"
    /\ data' = <<>>
    /\ lost' = lost \cup Range(data)
    /\ wait' = TRUE
    /\ bpc' = "loop"
    /\ UNCHANGED <<Shared, pkt, isEmpty, history>>

ClearTimesOut ==
    /\ bpc = "clear"
    /\ wait' = TRUE
    /\ bpc' = "loop"
    /\ UNCHANGED <<Shared, data, pkt, isEmpty, lost, history>>

BufferRun ==
    \/ LoopTop \/ WaitEnds \/ TestStreaming \/ TestXon
    \/ Pop \/ PopNothing \/ Write \/ WriteFails \/ WriteBlocks
    \/ ClearQueue \/ ClearTimesOut

-----------------------------------------------------------------------------
(* The command thread.                                                     *)

\* the while condition of Commands::Run
CmdLoop ==
    /\ cpc = "loop"
    /\ cpc' = IF run THEN "poll" ELSE "end"
    /\ UNCHANGED <<flags, capturing, data, consumer, tpc, sessions, filled, lost, history>>

\* poll times out, the device refuses to start (it then captures nothing), or the
\* command changes nothing here
CmdOther ==
    /\ cpc = "poll"
    /\ cpc' = "loop"
    /\ UNCHANGED <<flags, capturing, data, consumer, tpc, sessions, filled, lost, history>>

\* XON and XOFF are answered first; the flag follows
CmdXon ==
    /\ cpc = "poll"
    /\ cpc' = "resuming"
    /\ UNCHANGED <<flags, capturing, data, consumer, tpc, sessions, filled, lost, history>>

SetXon ==
    /\ cpc = "resuming"
    /\ xon' = TRUE
    /\ lateXoff' = 0
    /\ cpc' = "loop"
    /\ UNCHANGED <<run, streaming, capturing, data, consumer, tpc, sessions,
                   filled, lost, out, lateStop>>

CmdXoff ==
    /\ cpc = "poll"
    /\ cpc' = "pausing"
    /\ UNCHANGED <<flags, capturing, data, consumer, tpc, sessions, filled, lost, history>>

ClearXon ==
    /\ cpc = "pausing"
    /\ xon' = FALSE
    /\ cpc' = "loop"
    /\ UNCHANGED <<run, streaming, capturing, data, consumer, tpc, sessions,
                   filled, lost, history>>

\* MythTV::StartEncoding: the device starts to deliver before m_streaming is set
StartCapture ==
    /\ cpc = "poll"
    /\ ~streaming
    /\ sessions < MaxSessions
    /\ sessions' = sessions + 1
    /\ capturing' = TRUE
    /\ cpc' = "starting"
    /\ UNCHANGED <<flags, data, consumer, tpc, filled, lost, history>>

SetStreaming ==
    /\ cpc = "starting"
    /\ streaming' = TRUE
    /\ lateStop' = 0
    /\ cpc' = "loop"
    /\ UNCHANGED <<run, xon, capturing, data, consumer, tpc, sessions,
                   filled, lost, out, lateXoff>>

\* MythTV::StopEncoding: m_streaming is cleared first, then the device is stopped
ClearStreaming ==
    /\ cpc = "poll"
    /\ streaming
    /\ streaming' = FALSE
    /\ cpc' = "stopping"
    /\ UNCHANGED <<run, xon, capturing, data, consumer, tpc, sessions,
                   filled, lost, history>>

\* a device that fails to stop goes on capturing
StopCapture ==
    /\ cpc = "stopping"
    /\ capturing' \in {FALSE, capturing}
    /\ cpc' = "loop"
    /\ UNCHANGED <<flags, data, consumer, tpc, sessions, filled, lost, history>>

Commands ==
    \/ CmdLoop \/ CmdOther \/ CmdXon \/ SetXon \/ CmdXoff \/ ClearXon
    \/ StartCapture \/ SetStreaming
    \/ ClearStreaming \/ StopCapture

-----------------------------------------------------------------------------
(* MythTV::Terminate, and the end of the destructor.                       *)

ClearRun ==
    /\ tpc = "idle"
    /\ run' = FALSE
    /\ tpc' = "stop"
    /\ UNCHANGED <<streaming, xon, capturing, data, consumer, cpc, sessions,
                   filled, lost, history>>

TerminateStop ==
    /\ tpc = "stop"
    /\ streaming' = FALSE
    /\ tpc' = IF streaming THEN "capture" ELSE "done"
    /\ UNCHANGED <<run, xon, capturing, data, consumer, cpc, sessions,
                   filled, lost, history>>

TerminateCapture ==
    /\ tpc = "capture"
    /\ capturing' \in {FALSE, capturing}
    /\ tpc' = "done"
    /\ UNCHANGED <<flags, data, consumer, cpc, sessions, filled, lost, history>>

Terminate == ClearRun \/ TerminateStop \/ TerminateCapture

AllEnded == bpc = "done" /\ cpc = "end" /\ tpc = "done"

\* both threads joined: the device is deleted, which ends its thread
DeleteDevice ==
    /\ AllEnded
    /\ capturing' = FALSE
    /\ UNCHANGED <<flags, data, consumer, cpc, tpc, sessions, filled, lost, history>>

Next ==
    \/ Fill \/ FillOverrun \/ FillTimesOut
    \/ BufferRun
    \/ Commands
    \/ Terminate \/ DeleteDevice

Spec == Init /\ [][Next]_vars

(* The threads are scheduled; a lock that is free again and again is taken  *)
(* sooner or later.  Nothing is assumed of the device, of the commands, of  *)
(* the moment Terminate runs or of the reader of standard output.           *)
Fairness ==
    /\ WF_vars(bpc # "blocked" /\ BufferRun)
    /\ SF_vars(Pop)
    /\ SF_vars(ClearQueue)
    /\ WF_vars(CmdLoop)
    /\ WF_vars(TerminateStop \/ TerminateCapture)

FairSpec == Spec /\ Fairness

-----------------------------------------------------------------------------
(* Properties.                                                             *)

FlagTypes ==
    /\ run \in BOOLEAN /\ streaming \in BOOLEAN /\ xon \in BOOLEAN
    /\ capturing \in BOOLEAN
    /\ isEmpty \in BOOLEAN /\ wait \in BOOLEAN

ThreadTypes ==
    /\ bpc \in Locations
    /\ cpc \in {"loop", "poll", "starting", "stopping", "resuming", "pausing", "end"}
    /\ tpc \in {"idle", "stop", "capture", "done"}

CountTypes ==
    /\ sessions \in Nat /\ filled \in Nat
    /\ lateStop \in Nat /\ lateXoff \in Nat

BlockTypes ==
    /\ data \in Seq(Nat) /\ Len(data) <= MaxQueue
    /\ pkt \in Seq(Nat) /\ Len(pkt) <= 1
    /\ Writing <=> (pkt # <<>>)
    /\ out \in Seq(Nat)
    /\ lost \in SUBSET Nat

\* Every variable keeps its type; the queue never holds more than MAX_QUEUE
\* blocks and the buffer thread never more than the one it writes.
TypeOK == FlagTypes /\ ThreadTypes /\ CountTypes /\ BlockTypes

Increasing(s) == \A i, j \in DOMAIN s : i < j => s[i] < s[j]

\* Blocks leave in the order of capture and none leaves twice, whatever is
\* dropped on the way and however the queue is cleared under the writer.
InOrder == Increasing(pipeline)

\* No block disappears without a trace: each captured block is in the output,
\* in the hands of the buffer thread, in the queue, or was dropped by one of
\* the paths that drop (overrun, lock timeout, clearing, a write that fails),
\* and a dropped block never shows up later.
Conserved ==
    /\ Range(pipeline) \cup lost = 1..filled
    /\ Range(pipeline) \cap lost = {}

\* After m_streaming or m_xon is cleared, at most the one block the buffer thread
\* was already committed to reaches standard output.  XOFF is answered before m_xon is
\* cleared, and nothing bounds the blocks that leave between the two: only a reader
\* that has the reply to a later command knows that there is one block more at most.
AtMostOneLate == lateStop <= 1 /\ lateXoff <= 1

(* Standard output is not read any more.                                   *)
NobodyReads == [](bpc = "blocked")

\* While the stream stays open and XON and somebody reads, a queued block is
\* handed to write, unless the buffer thread had found the stream closed just
\* before it opened: then it clears the queue once more, with the first blocks of
\* the new session in it.
QueuedIsWritten ==
    \A b \in 1..MaxBlocks :
        (b \in Range(data) /\ streaming /\ bpc # "clear")
            ~> (b \in Range(out) \cup lost \/ ~(run /\ streaming /\ xon) \/ NobodyReads)

\* A recorder that stays stopped empties its queue, if its last block is read.
StoppedIsCleared == <>[](run /\ ~streaming) => ([]<>(data = <<>>) \/ <>NobodyReads)

\* The buffer thread ends once Terminate has cleared m_run, so that the
\* destructor can join it; only a reader that never reads again keeps it, and
\* with it the destructor.
ThreadsEnd == ~run ~> (bpc = "done" \/ NobodyReads)

\* The buffer is a bounded, lossy, in-order channel; the block in the hands
\* of the buffer thread is one more place of the queue.
Channel == INSTANCE PacketChannel WITH
               Capacity <- MaxQueue + 1,
               offered <- filled,
               pending <- pkt \o data,
               delivered <- out

ImplementsChannel == Channel!ChannelSpec

=================================================================================
