# HauppaugeUSB in TLA+

A verification project for `hauppauge2`, the user-space program that records
from a Hauppauge HD-PVR2 or Colossus2 on Linux, by itself or as an *external
recorder* of MythTV. The modules are written from the C++ sources in `src/`;
`PROJECT.json` maps every definition to the lines it models.

Three kinds of result: TLC checks small instances (`MC*.cfg`), TLAPS proves
theorems for every value of the constants (`*Proofs.tla`), and three runs end
with a violation because the code does not do what one of its own messages or
comments says.

    tlc -config MCBuffer.cfg Buffer.tla     # see PROJECT.json for module and cfg of each run
    tlapm BufferProofs.tla

## 1. The system

One process. As MythTV's recorder it has four threads: **main** (`MythTV::Wait`,
then the destructor), the **command thread** (`Commands::Run`), the **buffer
thread** (`Buffer::Run`) and the **driver's threads** (external), which call
`Buffer::Fill` and the error callback.

| Component | State | Operations | Interacts by | What is hard |
|---|---|---|---|---|
| `Buffer` (MythTV.cpp) | queue `m_data`, `m_heartbeat`, `m_run` | `Fill`, `Run` | polls `m_run`, `m_streaming`, `m_xon` of its parent; flow mutex taken with a timeout; condition without predicate | every step of four threads interleaves; lost notifications; a full queue; a queue that is cleared under the writer; writes that fail or block |
| `MythTV` | `m_run`, `m_fatal`, `m_ready`, `m_streaming`, `m_xon`, `m_dev`, two mutexes | `OpenDev`, `StartEncoding`, `StopEncoding`, `Terminate`, `Fatal`, `Wait`, destructor | called by all threads; error callback re-enters it | two mutexes in both orders, calls to itself with a mutex held, tests that are stale after the unlock, shutdown from four sides, an error while the device is deleted |
| watchdog in `Wait` | `m_heartbeat` against the clock | the wedge test every 2.5 s | heartbeat of `Buffer` | waits that end early, streams that restart, times of different sessions, a system clock that is set |
| `Commands` | pipe, buffer of `getline`, `m_api_version` | `Run`, `process_command` | stdin and stderr | `poll` and `getline` look at different buffers; lines that come in parts or never end; the version changes in a conversation |
| `HauppaugeDev` | controller, encoder, receiver, registry, `m_video_initialized` | `Open`, `Close`, `StartEncoding`, `StopEncoding` | driver (external) | the source changes at any step; settings outlive a capture; four inputs with different paths; retry loops |
| `USBWrapper_t`, `ListDevs`, `FindDev` | device list, handle, claimed interface | `Open`, `Close`, `DeviceList` | libusb (external) | devices that come and go between two calls, failures of each call |
| `USBWrapperAsyncCtx_t` | `finished`, result, transfer | init, submit, callback, `getState`, `wait`, destructor | event thread of libusb | callback before the submission returns; reuse and destruction with a transfer pending |
| semaphores (`baseif.cpp`) | counter, condition, mutex | `wrapSemGive`, `wrapSemTake`, `wrapThreadStop` | threads of the driver | timeouts against signals, spurious wakeups, cancellation in the wait |
| `main`, options, log filter | two option sources, device, capture | reading, exits, recording loop | all of the above | precedence of sources with defaults; exits on each path; truncated seconds |

What makes each correct: no block is lost without being counted or delivered
out of order; the queue is bounded; a cleared `m_streaming` or `m_xon` takes effect within a block;
no two threads wait for each other; a shutdown that begins also ends; silence
is noticed; replies carry the serial of their command; a capture uses what this
start has found; handles balance; a transfer never writes to a context that is
not its own; a semaphore counts.

**Not modelled**: the Hauppauge driver and its patches (not in the repository;
its calls and failures are actions of our modules), synchronous USB transfers
and I2C (forward to one call, no state), log sinks and formatting, EDID tables,
enumeration names, Windows types, the vendored `libusb.h`, the loading of a
registry file (never called: the settings are those the process writes, part of
`HauppaugeDev`), the mutex wrapper of `baseif.h` (all its callers are in the
driver). `PROJECT.json` lists each with its reason.

## 2. The modules

| Module | Models | Actions and the code |
|---|---|---|
| `PacketChannel` | abstract: a bounded, lossy, in-order channel | `Accept`, `Refuse`, `Deliver`, `Lose`, `Flush` |
| `Buffer` | `Buffer` with the parts of `MythTV` and `Commands` that drive it | `Fill` (and its two ways to drop), `LoopTop` … `ClearQueue` are the steps of `Buffer::Run` between accesses to shared state, `WriteFails` and `WriteBlocks` the other ends of `write`, `Cmd*` (a reply to XON or XOFF) with `SetXon`/`ClearXon` after it, `StartCapture`/`SetStreaming`, `ClearStreaming`/`StopCapture` the command thread, `Terminate` the shutdown |
| `RecorderLife` | abstract: one device that is opened and deleted once, streams on it, an end | `Create`, `Open`, `GiveUp`, `Start`, `Stop`, `End`, `Fail`, `Delete` |
| `MythTV` | locks, shutdown and error callback of the recorder; implements `RecorderLife` | `pc[t]` is the source location of thread `t`, `ret[t]` where `Fatal` returns to; one action per access to shared state or lock |
| `Watchdog` | `MythTV::Wait` with time | `Tick`, `SetClock` (the heartbeat and the test read the system clock, the wait does not), the wait and its test, start and stop of a stream, blocks |
| `Commands` | `Commands::Run`, `process_command`, and a client | `Poll`, `LineFinished` and `LineCut` for `poll` and `getline`, `Reply` and one action for each kind of command, `MissingNumber` for a number that aborts the process; `part` is where an unfinished line is, `window` how many commands the client has on their way |
| `HauppaugeDev` | the capture device | `Open` to `InitReceiver`, `Start` to `StartCapture`, `StopEncoding`, `Close`, and `SourceChanges` |
| `UsbDevice`, `MCUsbDevice` | listing, search and opening of devices | a step for each device that is listed or looked at in a search, `Open` with its loop over the devices is one step; the bus changes between any two steps. A list of devices is the set of its places in the order of the bus |
| `AsyncTransfer` | a context of an asynchronous read | submission in two halves, `async_callback`, `getState`, `wait`, destruction. Its specification is `AsyncInit` … `AsyncSpec`, because `UsbProofs` extends `UsbDevice` too |
| `CountingSemaphore` | abstract: a counting semaphore | |
| `Semaphore`, `MCSemaphore` | semaphore of `baseif.cpp` | `wrapSemGive`, `wrapSemTake` up to its wait, `Return` for each time it gets the mutex back, cancellation |
| `Hauppauge2` | `main` and `setLogLevelFilter` | one action for each step of `main`; `Stored` and `GivenUp` are the two ends of reading a source, `ReadEmpty` the abort at an option without a value |

`Buffer` and `MythTV` are two views of one class. `Buffer` has the flow of
blocks and abstracts the mutexes (each critical section is a step that may also
time out); `MythTV` has each mutex and no blocks. `Watchdog` adds time to the
one function that depends on it. A block is its number in the order of capture,
a command its kind and position, a video format three Booleans: what the
properties tell apart. Actions marked `mutant` in a comment are plausible bugs,
not part of any specification: each property is shown to fail when one of them
replaces the action of the code (`PROJECT.json`, "mutants").

## 3. The runs

Nine runs pass.

| Run | Shows | Bounds, and why they are enough |
|---|---|---|
| `MCBuffer` | order, conservation, lateness after `m_streaming` and `m_xon` are cleared, refinement of `PacketChannel`, with writes that fail or block; if the output is read, a queued block is handed on, a stopped recorder empties its queue, the threads end | Queue of 2 (500 in the code), 4 blocks, 2 sessions: the queue overruns with one block in the hand of the buffer thread, and is cleared between two sessions. 338 478 states. |
| `MCMythTV` | circles of waiting, over mutexes and joins, and self-locks in one place each, the device is there, fatal means terminating, refinement of `RecorderLife`, the process ends but for those two | All five places where the device may report an error, and wedges; threads and locks as in the code. 20 342 states. |
| `MCWatchdog` | silence of an open stream is noticed within the limit, one period and what the clock was set back | Limit 3, period 2, clock off by up to 1 either way, 12 ticks: several waits, with restarts and a clock that is set in each. 494 613 states. |
| `MCCommands` | versions agree, replies in order and once, with the serials the client looks for, each command of a client that waits answered unless its number is bad, the thread ends | 3 commands of any kind, those with a bad number included, one or two on their way, whole or in parts, fatal errors: a change of version before and after another command, a line left behind in the buffer of `getline`, one that never ends. 892 194 states. |
| `MCDevice` | captures are fresh and set up: bus mode, and audio input, field order and coding mode unless the encoder took an HDMI code; calls return | Retry loops of 2 rounds (300 in the code): first, last and no further. Any number of starts. 1 087 452 states. |
| `MCSemaphore` | no signal lost, refinement of `CountingSemaphore`, counts are taken | 3 threads (patient, cancellable, neither), 4 gives: two sleepers and one on its way. |
| `MCMain` | the command line wins if both sources could be parsed, recordings last their duration, an exit leaves the device closed | Durations of 2 s at 2 ticks, sleeps late by 1: each rounding. A source that is given up fails before or after its other options. 1 701 944 states. |
| `MCUsbDevice` | handles balance, the device opened is the one asked for | 4 devices: two that differ in one character, one without a number, one of another kind. |
| `MCAsync` | no late callback, results are their own, waits end if some thread handles the events of libusb | 3 reads of one context. |

Three runs show a violation, each of a property that restates a line of the code:

| Run | Property | What happens |
|---|---|---|
| `MCMythTVStopError` | `ComesToAnEnd`, for "Terminating." (MythTV.cpp:65) | `Fatal` holds `m_run_mutex`, terminates, stops the device; the control message fails, its error callback calls `Fatal` on the same thread, which locks the same `std::mutex`. |
| `MCWatchdogStale` | `OnlyWedged`, for "Check for wedged state." (MythTV.cpp:89) | The heartbeat is only set by blocks: a stream opened after a pause of a minute is wedged at once. |
| `MCUsbMissing` | `MissingIsReported`, for "Unable to find serial" (USBif.cpp:344) | The index that is tested is shadowed by the one of the loop; a null handle is reset. |

`CHECK_DEADLOCK FALSE` is set where the program really stops: after the process
has ended or everybody hung up (`MCMain`, `MCCommands`, `MCAsync`), where the
self-lock of `Fatal` is reachable (`MCMythTV*`), and where the clock has reached
its bound (`MCWatchdog*`).

### Fairness

- `Buffer`: the buffer thread and the command loop are scheduled (weak
  fairness; their waits have timeouts of at most a second). `Pop` and
  `ClearQueue` are strongly fair: they need the flow mutex, which is tried for
  again and again and held for moments. A `write` that blocks is not fair:
  nobody has to read, and the liveness properties say so (`NobodyReads`). Nothing
  is assumed of capture or of commands.
- `MythTV`: threads are scheduled; a blocking lock that is free again and again
  is obtained in the end (strong fairness), also by a command that takes the run
  mutex for its reply only; device calls return. Which commands
  arrive, which faults happen and when, is free.
- `Commands`, `HauppaugeDev`: the thread runs. No client has to speak or to
  finish its line, no source to settle.
- `Semaphore`: a thread that was woken gets the mutex. Nobody has to give.
- `AsyncTransfer`: a thread that waits is scheduled. That callbacks run is not
  assumed, it is the hypothesis `EventsAreHandled` of `WaitEnds`: libusb runs them,
  those of timeouts too, in threads that handle its events, nothing in `src/` does so
  by itself, and whether the driver does cannot be read.

### Bounds of the models

`MaxBlocks`, `MaxSessions`, `MaxTime`, `MaxSkew`, `MaxCommands`, `MaxGives`, `MaxReads` and
`MaxLate` end what is endless in the program; `MaxQueue`, `MaxRetry`, `Limit` and
`Period` are constants of the code with smaller values. The theorems hold for
all values of the constants of their modules.

## 4. The proofs

| Module | Theorem | Argument |
|---|---|---|
| `BufferProofs` | `TypeCorrect` | the types are inductive by themselves, with the bound of the queue |
| | `OutputInOrder`, `BlocksConserved` | Inductive: the *pipeline* (output, block in hand, queue) is increasing and, with the lost blocks, is the numbers from 1 to the last. `InOrder` alone is not inductive: a new block is above all others only because nothing in the pipeline exceeds `filled`. Three lemmas, one for each way an action changes it: moves inside, appends, truncates. |
| | `FewLateBlocks` | `LateInv` relates the counters of late blocks to the location of the buffer thread: one that has already written a late block is past the tests and must read the flags again. Both are counted from the clear of the flag; XOFF is answered before it. |
| | `BufferImplementsChannel` | Each action maps to a step of `PacketChannel` with capacity `MaxQueue + 1`, or to a stutter. |
| | `BoundedEnd` | Once `m_run` is cleared, the buffer thread has at most 7 steps left and the command thread 3, whatever is queued. |
| `MythTVProofs` | `TypesHold` | Each thread is at a location of its own and returns to a caller of its own. |
| | `NoDeadlyEmbrace` | `NoWaitingCircle` is not inductive: it holds because `m_ready` separates the two orders. It is set when `OpenDev` succeeds and never cleared, `OpenDev` reports errors only before that, and `StopEncoding` takes the flow mutex only after it. The destructor takes the flow mutex after the two threads were joined: what is left is the driver. `OrderInv` states this, with who holds which mutex at which location. In a circle nobody waits for a thread that does not wait itself: a holder of the run mutex can only wait for the flow mutex, a holder of the flow mutex only for the run mutex (`RunHolderWaits`, `FlowHolderWaits`), so each circle comes down to the two. |
| | `FatalIsFinal` | The thread that set `m_fatal` holds the run mutex until it has cleared `m_run`. |
| | `NoSelfDeadlock` | A mutex is asked for by its owner only where the stop of the device, called by `Fatal`, reports an error. |
| | `DeviceStays` | A thread that works on the device has seen `m_ready`, and from then on only main deletes it, after the joins, when neither thread works on it. |
| | `MythTVImplementsLife` | Each action maps to a step of `RecorderLife` or to a stutter. Only the command thread opens a stream, and main has stopped it before the join; a start that a shutdown overtakes implies a fatal error. |
| | `BoundedShutdown` | Once `m_run` is cleared, a measure for each thread, at most 44, decreases with each of its steps and never grows by those of others: no thread of the program goes round in a shutdown, also if device calls report errors in the middle of it. |
| `WatchdogProofs` | `TypeCorrect`, `SilenceNoticed` | The heartbeat was young at the last test, and the next test is at most one period later: silence is bounded by the time of the next wake. |
| | `NoFalseAlarm` | The other side: at an alarm the last block is older than the limit, less what the system clock was set. (It may be the block of another session: `MCWatchdogStale`.) |
| `CommandsProofs` | `TypesHold`, `RepliesInOrder` | Every line that was sent and not answered is at one place: in process, in the buffer of the C library, in the pipe, or unfinished as the last one; together they are the rest of what was sent, in order. One lemma for what every command does (`CommandAnswers`), one for `getline` (`LineTaken`). |
| | `NeverMisunderstood` | A client that waits for each reply has one line under way, in the version the recorder speaks; a reply that changes the version is the last one the client has seen. |
| | `LineIsSeen` | A client that waits for each reply never finds its line left in the buffer of the C library, which `poll` does not see: there is nothing behind the line in process. With two lines under way this is false, and the runs have it. |
| | `BoundedReply`, `BoundedThread` | From `LineIsSeen`: each step of the command thread leads nearer to the answer to a whole line, three at most; the last one answers, or aborts the process if the number in the line is bad. After `m_run` is cleared or a hangup, the thread has at most four steps left. |
| `HauppaugeDevProofs` | `TypesHold`, `CapturesAreSetUp`, `FreshCapture` | A start reaches its capture only through a step that sets the format: by its code together with the bus mode, or together with bus mode, options and coding mode; nothing changes these without such a step, and which of the two it was is kept (`byCode`). A receiver that is initialized has the input of the device. |
| | `BoundedCalls` | The steps a call has left, at most 2 `MaxRetry` + 3, decrease with each of its own and are not changed by the source. |
| `Hauppauge2Proofs` | `TypesHold`, `RecordingTime` | A round begins before the duration is over, or one late sleep after that at most. |
| | `CommandLineFirst` | The map of options is empty before the command line is stored, and what is stored twice is the first of four: command line, file, two defaults. It is about sources that could be parsed. |
| `SemaphoreProofs` | `TypeCorrect`, `NoSignalLost` | The count never exceeds the threads on their way while others sleep; a give wakes a sleeper if there is one. |
| | `SemaphoreIsOne` | Steps map to steps of `CountingSemaphore`. |
| `UsbProofs` | `TypesHold`, `NoHandleLeaks` | `UsbInv`: besides the types, the handles that are open are that of the device in use, or none. One lemma for `Open`, one for `Close`; `ListDevs` and `FindDev` go through them. |
| | `BeginsAsAsked`, `DeviceAskedFor` | `Open` keeps the number that was asked for and the device it found by it together, also if devices come and go in between: the number of the device in use *begins* with the one asked for. That it *is* that one needs numbers of one length, which is a hypothesis of `DeviceAskedFor`; the numbers in README.md:102-138 of the repository are of that kind, and the observation below is about those that are not. |
| | `AsyncTypesHold`, `ContextIsPrivate`, `ResultsAreOwn` | One invariant relates the flag, the transfer in flight and the location of the driver: there is at most one transfer, that of the last read, and none once the flag is set. |

Assumptions: the named ASSUMEs of the modules, types of constants only (naturals,
a positive queue, a finite set of threads, serial numbers that are not empty, a
bus that is a sequence of devices), and the hypothesis of `DeviceAskedFor`.
Everything is checked to the last leaf.

Every type and safety invariant, every refinement and every action property the
passing runs check is proved. Only model-checked are the liveness properties:
`ThreadsEnd`, `QueuedIsWritten`, `StoppedIsCleared`, `EndsUnlessStuck`, `Answered`,
`CommandsEnd`, `CallsReturn`, `CountIsTaken` and `WaitEnds`. They rest on fairness (`WaitEnds` on a
fairness hypothesis of its own), and with it on ENABLED, which is out of reach of the prover. Their safety halves are
proved: for five of them the theorems `BoundedEnd`, `BoundedShutdown`,
`BoundedReply`, `BoundedThread` and `BoundedCalls` say that the end is at most so many
steps of the thread away and that each of its steps leads nearer to it, and
`NoDeadlyEmbrace` that no thread waits for ever. What TLC adds is that the threads do
take these steps.

## 5. Observations

Met while modelling; each is in the model as the code has it.

- *Old packets in a new session*: the queue is cleared only if the buffer thread
  sees `m_streaming` false (MythTV.cpp:580, 615); a stop and a start within one
  of its rounds keep what was queued.
- *XOFF* is answered before `m_xon` is cleared (MythTV.cpp:354-356): between the two
  any number of blocks may leave, and one more after the clear. A client that has the
  reply to a later command knows that the flag is cleared.
- *A late start*: a fatal error of another thread that comes between the start of the
  device and `m_streaming = true` (MythTV.cpp:179) finds no stream to stop; the device
  then captures, with the stream open, after `Terminate`. `RecorderLife` lets a
  stream begin after an end only if an error was reported.
- *CloseRecorder and hangup*: `POLLHUP` is tested before `POLLIN`
  (MythTV.cpp:459). A client that writes CloseRecorder and closes its end may not
  be heard, and `m_run` stays set.
- *HDMI options*: if the encoder takes the code of the format, `set_input_format`
  is skipped, and field flip, audio input and coding mode with it
  (HauppaugeDev.cpp:463): the capture has those of an earlier start, or none.
  `CaptureIsSetUp` asks only for the bus mode there.
- *Coding mode*: once written to the registry it stays there, so a progressive
  capture that announces to ignore it has the mode of an earlier one
  (HauppaugeDev.cpp:266-270).
- *Firmware*: the loop gives up after `MAX_RETRY` rounds and `Open` goes on
  (HauppaugeDev.cpp:568-578).
- *override-loglevel* has a default: any configuration file replaces the level
  of the command line (hauppauge2.cpp:259, etc/sample.conf:74). *err*, a level of
  the help text, is not known to the filter and means DEBUG (Logger.cpp:92-103).
- *videoLatency* is looked up as `videolatency` and never read; `params` is not
  initialized (hauppauge2.cpp:409).
- *A source that cannot be parsed* is reported, and the program goes on with what was
  stored before (hauppauge2.cpp:282, 298): without the defaults, and, if `--config`
  was not reached, without the file. The option whose text is no number keeps an empty
  entry; `count()` is 1 for it and `as<int>()` throws where nothing catches, so the
  program aborts when it comes to that option: before the recorder is made for most, with
  the device open for the duration (hauppauge2.cpp:445). A `videoLatency` is never
  read, so a bad one has no such effect.
- *Exit codes*: the exit with -2 cannot be reached. SIGINT and SIGPIPE are not
  blocked before they are waited for.
- *The driver's thread* may be inside `Fatal` while the destructor deletes the
  device; `DeviceIsThere` is about the threads of the program only. If the
  deletion reports an error itself, main asks for the run mutex with the flow
  mutex held, while the driver, in `Fatal` and `StopEncoding`, asks for the flow
  mutex with the run mutex held (MythTV.cpp:58, 147): neither goes on.
- *Writes*: the result of `write` is ignored (MythTV.cpp:599), so an error or a
  short write loses the block or its rest unseen. A reader that stops reading
  keeps the buffer thread in `write`, and the destructor in its join.
- *Lines without an end* keep the command thread in `getline` (MythTV.cpp:474),
  and the destructor in its join, until the client finishes the line or hangs up;
  at a hangup the fragment is processed.
- *Bad numbers*: `APIVersion:` or `BlockSize:` with a number that is empty or none, in
  a whole line or in one that is cut off, makes `stoul` throw on a thread that catches
  nothing, and the process is aborted without a reply, also if the client stays
  (MythTV.cpp:418, 429).
- *System clock*: the heartbeat and the wedge test read the system clock. One that
  is set forward by a minute ends a recording; one that is set back delays the
  test by as much.
- *Serial numbers* are compared as far as the text that was asked for goes
  (USBif.cpp:328): it opens any device whose number begins with it.
- `OpenDev` reads `m_dev->ErrorString()` after it has cleared `m_dev`
  (MythTV.cpp:115); it is not reached, since nothing sets the error flag of the
  device.
- *Asynchronous reads*: `wait` (USBif.h:100) ends when the callback has run, and nothing
  in `src/` handles the events of libusb: callbacks and timeouts of transfers run while
  some thread is in a synchronous transfer, or if the driver has a thread for them. Without memory for a transfer the context stays pending,
  and its destructor waits for ever (USBif.cpp:535). `WaitEnds` leaves this case out.
- *Cancelled threads* keep the mutex of the semaphore they waited for
  (baseif.cpp:174). `CountIsTaken` leaves this case out. The time that
  `wrapMutexLock` passes is absolute and long past: it is a `trylock`.

## 6. History and plan

Written in this order: `PacketChannel` and `Buffer` with its proofs; `MythTV` with
its locks; `Watchdog`; `Commands`; `HauppaugeDev`; `CountingSemaphore` and
`Semaphore`; `UsbDevice`; `AsyncTransfer`; `Hauppauge2`. Then, along the hazards:
errors while the device is deleted, writes that fail or block, lines that come in
parts, a system clock that is set, the coding mode; and the theorems about
`MythTV`, `Commands`, `HauppaugeDev` and `Hauppauge2`.

After these, `RecorderLife`, the lists of `UsbDevice` as sets of places, the theorems
about `UsbDevice`, and those that bound how long calls, replies and a shutdown take. Last: replies to XON and XOFF
that come before the flag, bad numbers in whole lines, HDMI captures by code, sources
that are given up half-way.

What is left:

1. A composition of `Commands` and `MythTV`, where a command's reply tells the
   outcome of the start or stop it made. In `Commands` each outcome is possible in
   each state that allows it; in `MythTV` nobody replies.
2. Bounds for the two waits that have none yet: a call of `wrapSemTake` while a
   count is there, and `wait` of `AsyncTransfer` after the callback.
3. The queue once the stream is stopped: that the steps to its clearing are bounded,
   as for the end of the threads.
