-------------------------------- MODULE Commands --------------------------------
(***************************************************************************)
(* The command thread of the recorder (class Commands, src/MythTV.cpp) and *)
(* its client, which writes commands to the standard input of the process  *)
(* and reads replies from its standard error.                              *)
(*                                                                         *)
(* A line passes through two buffers: the pipe, which poll watches, and    *)
(* the buffer of the C library, which getline empties and poll does not    *)
(* see.  A client may also write a line in two parts: the first one makes  *)
(* poll return, and getline then waits for the second.  A command is       *)
(* numbered by its position; version 2 of the protocol puts that number    *)
(* (the serial) in front of the command and of its reply.  Commands that   *)
(* behave alike are one kind.  MythTV.tla has the recorder the commands    *)
(* act on.                                                                 *)
(***************************************************************************)
EXTENDS Integers, Sequences

CONSTANTS
    Windows,      \* how many commands a client may have outstanding
    MaxCommands,  \* bound of the model: commands sent in a behaviour
    Fatals        \* whether another thread may report a fatal error

ASSUME WindowAssumption == Windows \subseteq Nat \ {0} /\ MaxCommands \in Nat
ASSUME FatalsAssumption == Fatals \in BOOLEAN

VARIABLES
    run, fatal, ready, streaming, xon,  \* the flags of MythTV
    api,      \* m_api_version
    pc,       \* where the command thread is in Commands::Run
    cmd,      \* its local cmd: <<>> or the line it is processing
    pipe,     \* lines written and not yet read
    stdio,    \* lines read and not yet returned by getline
    part,     \* where the unfinished line is: "none", "pipe", "stdio", or "cut" for ever
    hup,      \* the client has closed its end
    sent,     \* every command sent so far
    replies,  \* every reply so far
    version,  \* the version of the client's last command
    window    \* how many commands this client has outstanding

recorder == <<run, fatal, ready, streaming, xon>>
input == <<pipe, stdio, part, cmd>>
client == <<hup, sent, version, window>>
vars == <<recorder, api, pc, input, client, replies>>

max_api_version == 2

Kinds == {"APIVersion?", "Status?", "IsOpen?", "Constant?", "HasLock?", "LockTimeout",
          "XON", "XOFF", "CloseRecorder", "StartStreaming", "StopStreaming",
          "APIVersion:1", "APIVersion:2", "BlockSize", "BadNumber", "Unknown"}

Init ==
    /\ run = TRUE /\ fatal = FALSE /\ ready = FALSE /\ streaming = FALSE /\ xon = FALSE
    /\ api = 1
    /\ pc = "loop" /\ cmd = <<>>
    /\ pipe = <<>> /\ stdio = <<>> /\ part = "none" /\ hup = FALSE
    /\ sent = <<>> /\ replies = <<>> /\ version = 1
    /\ window \in Windows

-----------------------------------------------------------------------------
(* Commands::Run                                                           *)

LoopTop ==
    /\ pc = "loop"
    /\ pc' = IF run THEN "poll" ELSE "end"
    /\ UNCHANGED <<recorder, api, input, client, replies>>

TakeLine(lines) ==
    /\ cmd' = <<Head(lines)>>
    /\ stdio' = Tail(lines)
    /\ pc' = "process"

Drain == pipe' = <<>> /\ part' = IF part = "pipe" THEN "stdio" ELSE part

(* A line the C library has is returned without a look at the pipe; else   *)
(* the pipe is emptied, and without a whole line in it getline waits.      *)
getline ==
    \/ stdio # <<>> /\ TakeLine(stdio) /\ UNCHANGED <<pipe, part>>
    \/ stdio = <<>> /\ pipe # <<>> /\ Drain /\ TakeLine(pipe)
    \/ stdio = <<>> /\ pipe = <<>> /\ Drain /\ pc' = "getline" /\ UNCHANGED <<cmd, stdio>>

\* mutant: the line stays in the pipe
PollAgain ==
    /\ pc = "poll"
    /\ IF hup THEN pc' = "end" /\ UNCHANGED cmd
       ELSE IF pipe = <<>> THEN pc' = "loop" /\ UNCHANGED cmd
       ELSE cmd' = <<Head(pipe)>> /\ pc' = "process"
    /\ UNCHANGED <<recorder, api, pipe, stdio, part, client, replies>>

\* mutant: the hangup is looked at only when there is no input
PollInput ==
    /\ pc = "poll"
    /\ IF pipe = <<>> /\ part # "pipe" THEN pc' = "loop" /\ UNCHANGED input
       ELSE getline
    /\ UNCHANGED <<recorder, api, client, replies>>

\* poll and getline: the hangup is looked at before the input; an unfinished line
\* is input to poll, and getline waits for the rest of it
Poll ==
    /\ pc = "poll"
    /\ IF hup THEN pc' = "end" /\ UNCHANGED input
       ELSE IF pipe = <<>> /\ part # "pipe" THEN pc' = "loop" /\ UNCHANGED input
       ELSE getline
    /\ UNCHANGED <<recorder, api, client, replies>>

\* the rest of the line has come
LineFinished ==
    /\ pc = "getline" /\ pipe # <<>>
    /\ Drain
    /\ TakeLine(pipe)
    /\ UNCHANGED <<recorder, api, client, replies>>

(* What there is of a line that is cut off: all but its end, a name that   *)
(* is not a command's, or not even the whole serial.                       *)
Fragments(line) ==
    {line} \cup {[line EXCEPT !.kind = "Unknown", !.version = v] : v \in 1..line.version}

\* the client hangs up instead: getline returns what there is
LineCut ==
    /\ pc = "getline" /\ pipe = <<>> /\ hup
    /\ \E line \in Fragments(sent[Len(sent)]) : cmd' = <<line>>
    /\ part' = "cut"
    /\ pc' = "process"
    /\ UNCHANGED <<recorder, api, pipe, stdio, client, replies>>

-----------------------------------------------------------------------------
(* Commands::process_command and send_status                               *)

(* A reply: the command it answers, the serial it shows and its status.    *)
(* Version 1 shows no serial; an empty one leaves the separator.           *)
NoSerial == 0
EmptySerial == -1
WrongSerial == -2

send_status(v, serial, text) ==
    replies' = Append(replies, [to |-> cmd[1].id,
                                serial |-> IF v > 1 THEN serial ELSE NoSerial,
                                status |-> text])

Processing(kind) == pc = "process" /\ cmd[1].kind = kind

Done == pc' = "loop" /\ cmd' = <<>> /\ UNCHANGED <<pipe, stdio, part, client>>

(* The tokens of a line make sense in the version it is written in.        *)
Understood(line) == line.version = api

\* mutant: the serial is taken off the line and forgotten
SerialForgotten(line) == EmptySerial

SerialOf(line) == IF api = 1 THEN EmptySerial ELSE line.id

QueryVersion ==
    /\ Processing("APIVersion?")
    /\ IF fatal THEN send_status(api, EmptySerial, "ERR") /\ UNCHANGED api
                ELSE send_status(api, EmptySerial, "OK") /\ api' = max_api_version
    /\ Done /\ UNCHANGED recorder

\* a line of the other version is malformed, or names no command: the serial it
\* is answered with is -1 or its first token
Misunderstood ==
    /\ pc = "process"
    /\ cmd[1].kind # "APIVersion?"
    /\ ~Understood(cmd[1])
    /\ send_status(api, WrongSerial, "ERR")
    /\ Done /\ UNCHANGED <<recorder, api>>

\* the number of an APIVersion or a BlockSize is empty or no number (BadNumber), or
\* it is missing because the line is cut off: stoul throws, nobody catches it, and the
\* process is aborted without a reply
MissingNumber ==
    /\ \/ Processing("BadNumber")
       \/ /\ part = "cut"
          /\ \E kind \in {"APIVersion:1", "APIVersion:2", "BlockSize"} : Processing(kind)
    /\ Understood(cmd[1])
    /\ pc' = "aborted"
    /\ UNCHANGED <<recorder, api, input, client, replies>>

\* mutant: a command that is not recognized is not answered
ReplyIfKnown(kind, text) ==
    /\ Processing(kind)
    /\ Understood(cmd[1])
    /\ IF kind = "Unknown" THEN UNCHANGED replies
                           ELSE send_status(api, SerialOf(cmd[1]), text)
    /\ Done

Reply(kind, text) ==
    /\ Processing(kind)
    /\ Understood(cmd[1])
    /\ send_status(api, SerialOf(cmd[1]), text)
    /\ Done

Queries ==
    /\ \/ Reply("Status?", IF fatal THEN "ERR" ELSE "OK")
       \/ Reply("IsOpen?", IF fatal THEN "ERR" ELSE IF ready THEN "OK" ELSE "WARN")
       \/ Reply("HasLock?", IF ready THEN "OK" ELSE "No")
       \/ Reply("Constant?", "OK")
       \/ Reply("BlockSize", "OK")
       \/ Reply("Unknown", "ERR")
    /\ UNCHANGED <<recorder, api>>

\* the device opens, or that is fatal
LockTimeout ==
    /\ Reply("LockTimeout", "OK")
    /\ \/ ready' = TRUE /\ UNCHANGED <<run, fatal, streaming>>
       \/ ~ready /\ fatal' = TRUE /\ run' = FALSE /\ UNCHANGED <<ready, streaming>>
    /\ UNCHANGED <<xon, api>>

FlowControl ==
    /\ \/ Reply("XON", "OK") /\ xon' = TRUE
       \/ Reply("XOFF", "OK") /\ xon' = FALSE
    /\ UNCHANGED <<run, fatal, ready, streaming, api>>

CloseRecorder ==
    /\ Reply("CloseRecorder", "OK")
    /\ run' = FALSE
    /\ streaming' = FALSE
    /\ UNCHANGED <<fatal, ready, xon, api>>

StartStreaming ==
    /\ \/ /\ streaming \/ ready
          /\ Reply("StartStreaming", "OK") /\ streaming' = TRUE
       \/ /\ ~streaming
          /\ Reply("StartStreaming", "ERR") /\ UNCHANGED streaming
    /\ UNCHANGED <<run, fatal, ready, xon, api>>

\* a device that fails to stop is an error of a stream that is closed
StopStreaming ==
    /\ \/ Reply("StopStreaming", "OK")
       \/ streaming /\ Reply("StopStreaming", "ERR")
    /\ streaming' = FALSE
    /\ UNCHANGED <<run, fatal, ready, xon, api>>

\* mutant: the version is only confirmed
ConfirmVersion(v) ==
    /\ Processing(IF v = 1 THEN "APIVersion:1" ELSE "APIVersion:2")
    /\ Understood(cmd[1])
    /\ send_status(v, SerialOf(cmd[1]), "OK")
    /\ Done /\ UNCHANGED <<recorder, api>>

\* the reply is already in the version that was asked for
SetVersion(v) ==
    /\ Processing(IF v = 1 THEN "APIVersion:1" ELSE "APIVersion:2")
    /\ Understood(cmd[1])
    /\ api' = v
    /\ send_status(v, SerialOf(cmd[1]), "OK")
    /\ Done /\ UNCHANGED recorder

process_command ==
    \/ QueryVersion \/ Misunderstood \/ Queries \/ LockTimeout \/ FlowControl
    \/ CloseRecorder \/ StartStreaming \/ StopStreaming
    \/ SetVersion(1) \/ SetVersion(2)

Run == LoopTop \/ Poll \/ LineFinished \/ LineCut \/ process_command \/ MissingNumber

-----------------------------------------------------------------------------
(* The client, and the other threads of the recorder.                      *)

Outstanding == Len(sent) - Len(replies)

(* The version that the last reply settles.                                *)
Settled ==
    IF sent = <<>> \/ Outstanding > 0 \/ replies[Len(sent)].status # "OK" THEN version
    ELSE CASE sent[Len(sent)].kind = "APIVersion:1" -> 1
           [] sent[Len(sent)].kind \in {"APIVersion?", "APIVersion:2"} -> 2
           [] OTHER -> version

\* a client of version 2 knows the version and does not ask for it; the line is
\* written whole or in parts
Send(kind) ==
    /\ ~hup /\ part = "none"
    /\ Len(sent) < MaxCommands
    /\ Outstanding < window
    /\ kind = "APIVersion?" => Settled = 1
    /\ version' = Settled
    /\ LET line == [id |-> Len(sent) + 1, kind |-> kind, version |-> Settled]
       IN /\ sent' = Append(sent, line)
          /\ \/ pipe' = Append(pipe, line) /\ UNCHANGED part
             \/ part' = "pipe" /\ UNCHANGED pipe
    /\ UNCHANGED <<recorder, api, pc, stdio, cmd, hup, replies, window>>

SendRest ==
    /\ ~hup /\ part \in {"pipe", "stdio"}
    /\ pipe' = Append(pipe, sent[Len(sent)])
    /\ part' = "none"
    /\ UNCHANGED <<recorder, api, pc, stdio, cmd, client, replies>>

HangUp ==
    /\ ~hup
    /\ hup' = TRUE
    /\ UNCHANGED <<recorder, api, pc, input, sent, replies, version, window>>

FatalElsewhere ==
    /\ Fatals /\ run /\ pc # "aborted"
    /\ fatal' = TRUE /\ run' = FALSE /\ streaming' = FALSE
    /\ UNCHANGED <<ready, xon, api, pc, input, client, replies>>

Client == (\E kind \in Kinds : Send(kind)) \/ SendRest \/ HangUp

Next == Run \/ Client \/ FatalElsewhere

Spec == Init /\ [][Next]_vars

(* The command thread is scheduled, and its calls return.                  *)
FairSpec == Spec /\ WF_vars(Run)
-----------------------------------------------------------------------------
(* Properties.                                                             *)

Lines == [id : Nat, kind : Kinds, version : {1, 2}]

\* Every variable keeps its type, and no command is answered twice.
TypeOK ==
    /\ run \in BOOLEAN /\ fatal \in BOOLEAN /\ ready \in BOOLEAN
    /\ streaming \in BOOLEAN /\ xon \in BOOLEAN /\ hup \in BOOLEAN
    /\ api \in {1, 2} /\ version \in {1, 2} /\ window \in Windows
    /\ pc \in {"loop", "poll", "getline", "process", "end", "aborted"}
    /\ part \in {"none", "pipe", "stdio", "cut"} /\ (part # "none" => sent # <<>>)
    /\ pc \in {"process", "aborted"} <=> (cmd # <<>>)
    /\ pipe \in Seq(Lines) /\ stdio \in Seq(Lines) /\ cmd \in Seq(Lines) /\ sent \in Seq(Lines)
    /\ Len(replies) <= Len(sent)

\* A client that waits for each reply is never misunderstood: both sides speak
\* the same version whenever nothing is outstanding, whatever versions were asked
\* for before.
VersionsAgree == window = 1 /\ Outstanding = 0 => Settled = api

\* Commands are answered in their order and once each, also when several are on
\* their way, some stay behind in the buffer of the C library and some come in
\* parts; and a client that waits for each reply finds in it the serial it looks
\* for, in the version it speaks (replies that change the version are already in
\* the new one).
RepliesMatch ==
    \A i \in 1..Len(replies) :
        /\ replies[i].to = i
        /\ (/\ window = 1
            /\ sent[i].kind \notin {"APIVersion?", "APIVersion:1", "APIVersion:2"}
            /\ ~(part = "cut" /\ i = Len(sent)))
              => replies[i].serial = (IF sent[i].version = 1 THEN NoSerial ELSE i)

\* A client that waits for each reply gets one, unless it does not finish its
\* line, hangs up or the recorder is shut down; and unless the line has a number that
\* is none: that one ends the process, and no other line does.
Answered ==
    (window = 1 /\ Outstanding > 0) ~>
        (Outstanding = 0 \/ part # "none" \/ hup \/ ~run \/ sent[Len(sent)].kind = "BadNumber")

\* After a shutdown or a hangup the thread ends, and with it the wait of the
\* destructor, if not the process does; only a client that stays and never
\* finishes its line keeps it.
CommandsEnd ==
    (~run \/ hup) ~> (pc \in {"end", "aborted"} \/ [](pc = "getline" /\ part = "stdio" /\ ~hup))
=================================================================================
