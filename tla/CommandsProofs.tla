----------------------------- MODULE CommandsProofs -----------------------------
(***************************************************************************)
(* Theorems about the command protocol, for every number of commands a     *)
(* client has outstanding and however it cuts its lines.                   *)
(*                                                                         *)
(* The lines that are not answered yet are, in this order, the one being   *)
(* processed, those in the buffer of the C library and those in the pipe;  *)
(* an unfinished line is the last one sent.  A client that waits for each  *)
(* reply has at most one line there, written in the version the recorder   *)
(* speaks.                                                                 *)
(***************************************************************************)
EXTENDS Commands, SequenceTheorems, TLAPS

VersionKinds == {"APIVersion?", "APIVersion:1", "APIVersion:2"}

Statuses == {"OK", "WARN", "ERR", "No"}

Reply_ == [to : Nat, serial : Int, status : Statuses]

Unfinished == part \in {"pipe", "stdio"}

Types ==
    /\ run \in BOOLEAN /\ fatal \in BOOLEAN /\ ready \in BOOLEAN
    /\ streaming \in BOOLEAN /\ xon \in BOOLEAN /\ hup \in BOOLEAN
    /\ api \in {1, 2} /\ version \in {1, 2} /\ window \in Windows
    /\ pc \in {"loop", "poll", "getline", "process", "end", "aborted"}
    /\ part \in {"none", "pipe", "stdio", "cut"}
    /\ pipe \in Seq(Lines) /\ stdio \in Seq(Lines) /\ cmd \in Seq(Lines) /\ sent \in Seq(Lines)
    /\ replies \in Seq(Reply_)

Places ==
    /\ pc \in {"process", "aborted"} => Len(cmd) = 1
    /\ pc \notin {"process", "aborted"} => cmd = <<>>
    /\ pc = "getline" => /\ stdio = <<>> /\ part # "cut"
                         /\ part = "none" => pipe # <<>>
    /\ part = "cut" => /\ hup /\ stdio = <<>> /\ pipe = <<>>
                       /\ sent # <<>>

\* where each line that was sent and not answered is
Order ==
    /\ Len(sent) = Len(replies) + Len(cmd) + Len(stdio) + Len(pipe) + (IF Unfinished THEN 1 ELSE 0)
    /\ \A i \in 1..Len(sent) : sent[i].id = i
    /\ cmd # <<>> => /\ cmd[1].id = Len(replies) + 1
                     /\ part # "cut" => cmd[1] = sent[Len(replies) + 1]
                     /\ part = "cut" => cmd[1] \in Fragments(sent[Len(replies) + 1])
    /\ \A k \in 1..Len(stdio) : stdio[k] = sent[Len(replies) + Len(cmd) + k]
    /\ \A k \in 1..Len(pipe) : pipe[k] = sent[Len(replies) + Len(cmd) + Len(stdio) + k]
    /\ \A i \in 1..Len(replies) : replies[i].to = i

QueueInv == Types /\ Places /\ Order

LEMMA QueueInit ==
    ASSUME Init
    PROVE  QueueInv
<1>1. Types
  <2>1. <<>> \in Seq(Lines) /\ <<>> \in Seq(Reply_)
    OBVIOUS
  <2> QED
    BY <2>1 DEF Init, Types
<1>2. Places
  BY DEF Init, Places
<1>3. Order
  BY DEF Init, Order, Unfinished
<1> QED
  BY <1>1, <1>2, <1>3 DEF QueueInv

LEMMA CurrentLine ==
    ASSUME Types, Places, pc = "process"
    PROVE  cmd[1] \in Lines /\ Len(cmd) = 1
<1>1. cmd \in Seq(Lines) /\ Len(cmd) = 1
  BY DEF Types, Places
<1> QED
  BY <1>1, ElementOfSeq

(* What every command does.                                                *)
Answer(serial, text) ==
    /\ replies' = Append(replies, [to |-> cmd[1].id, serial |-> serial, status |-> text])
    /\ api' = IF text # "OK" THEN api
              ELSE IF cmd[1].kind = "APIVersion:1" THEN 1
              ELSE IF cmd[1].kind \in VersionKinds THEN 2 ELSE api
    /\ cmd[1].kind = "Unknown" => text # "OK"
    /\ cmd[1].kind \notin VersionKinds /\ cmd[1].version = api
          => serial = IF api = 1 THEN NoSerial ELSE cmd[1].id

Answered1 ==
    /\ pc = "process" /\ Done
    /\ cmd[1].kind = "BadNumber" => ~Understood(cmd[1])
    /\ \E serial \in Int, text \in Statuses : Answer(serial, text)

LEMMA ReplyAnswers ==
    ASSUME Types, Places, NEW kind \in Kinds, kind \notin VersionKinds \cup {"BadNumber"},
           NEW text \in Statuses, Reply(kind, text), api' = api,
           kind = "Unknown" => text # "OK"
    PROVE  Answered1
<1> DEFINE serial == IF api > 1 THEN SerialOf(cmd[1]) ELSE NoSerial
<1>1. /\ pc = "process" /\ Done /\ cmd[1].kind = kind /\ cmd[1].version = api
      /\ kind # "BadNumber"
  BY DEF Reply, Processing, Understood
<1>2. cmd[1] \in Lines /\ api \in {1, 2}
  BY <1>1, CurrentLine DEF Types
<1>3. serial \in Int /\ serial = IF api = 1 THEN NoSerial ELSE cmd[1].id
  BY <1>2 DEF SerialOf, NoSerial, Lines
<1>4. Answer(serial, text)
  BY <1>1, <1>3 DEF Answer, Reply, send_status, VersionKinds
<1> QED
  BY <1>1, <1>3, <1>4 DEF Answered1

Flags ==
    /\ run \in BOOLEAN /\ fatal \in BOOLEAN /\ ready \in BOOLEAN
    /\ streaming \in BOOLEAN /\ xon \in BOOLEAN

LEMMA CommandFlags ==
    ASSUME Types, process_command
    PROVE  Flags'
<1>1. Flags
  BY DEF Types, Flags
<1>2. CASE QueryVersion \/ Misunderstood \/ Queries \/ SetVersion(1) \/ SetVersion(2)
  BY <1>1, <1>2 DEF QueryVersion, Misunderstood, Queries, SetVersion, Flags, recorder
<1>3. CASE LockTimeout
  BY <1>1, <1>3 DEF LockTimeout, Flags
<1>4. CASE FlowControl
  BY <1>1, <1>4 DEF FlowControl, Flags
<1>5. CASE CloseRecorder
  BY <1>1, <1>5 DEF CloseRecorder, Flags
<1>6. CASE StartStreaming
  BY <1>1, <1>6 DEF StartStreaming, Flags
<1>7. CASE StopStreaming
  BY <1>1, <1>7 DEF StopStreaming, Flags
<1> QED
  BY <1>2, <1>3, <1>4, <1>5, <1>6, <1>7 DEF process_command

LEMMA CommandAnswers ==
    ASSUME Types, Places, process_command
    PROVE  Answered1
<1>1. CASE QueryVersion
  <2>1. pc = "process" /\ Done /\ cmd[1].kind = "APIVersion?"
    BY <1>1 DEF QueryVersion, Processing
  <2>2. "OK" \in Statuses /\ "ERR" \in Statuses
    BY DEF Statuses
  <2> DEFINE serial == IF api > 1 THEN EmptySerial ELSE NoSerial
  <2>3. serial \in Int
    BY DEF EmptySerial, NoSerial
  <2>4. Answer(serial, "ERR") \/ Answer(serial, "OK")
    BY <1>1, <2>1 DEF QueryVersion, Answer, send_status, VersionKinds, max_api_version
  <2> HIDE DEF serial
  <2> QED
    BY <2>1, <2>2, <2>3, <2>4 DEF Answered1
<1>2. CASE Misunderstood
  <2>1. pc = "process" /\ Done /\ cmd[1].version # api /\ ~Understood(cmd[1])
    BY <1>2 DEF Misunderstood, Understood
  <2> DEFINE serial == IF api > 1 THEN WrongSerial ELSE NoSerial
  <2>2. serial \in Int
    BY DEF WrongSerial, NoSerial
  <2>3. Answer(serial, "ERR")
    BY <1>2, <2>1 DEF Misunderstood, Answer, send_status
  <2>4. "ERR" \in Statuses
    BY DEF Statuses
  <2> HIDE DEF serial
  <2> QED
    BY <2>1, <2>2, <2>3, <2>4 DEF Answered1
<1>3. CASE Queries
  <2>1. \E kind \in Kinds \ (VersionKinds \cup {"BadNumber"}), text \in Statuses :
            Reply(kind, text) /\ (kind = "Unknown" => text # "OK")
    <3>1. /\ {"Status?", "IsOpen?", "HasLock?", "Constant?", "BlockSize", "Unknown"}
                \subseteq Kinds \ (VersionKinds \cup {"BadNumber"})
          /\ "Unknown" \notin {"Status?", "IsOpen?", "HasLock?", "Constant?", "BlockSize"}
          /\ "ERR" # "OK"
          /\ {"OK", "ERR"} \subseteq Statuses
      BY DEF Kinds, VersionKinds, Statuses
    <3>2. /\ (IF fatal THEN "ERR" ELSE "OK") \in Statuses
          /\ (IF fatal THEN "ERR" ELSE IF ready THEN "OK" ELSE "WARN") \in Statuses
          /\ (IF ready THEN "OK" ELSE "No") \in Statuses
      BY DEF Statuses
    <3> QED
      BY <1>3, <3>1, <3>2, Zenon DEF Queries
  <2>2. api' = api
    BY <1>3 DEF Queries
  <2> QED
    BY <2>1, <2>2, ReplyAnswers
<1>4. CASE LockTimeout \/ FlowControl \/ CloseRecorder \/ StartStreaming \/ StopStreaming
  <2>1. \E kind \in Kinds \ (VersionKinds \cup {"BadNumber", "Unknown"}), text \in Statuses : Reply(kind, text)
    <3>1. /\ {"LockTimeout", "XON", "XOFF", "CloseRecorder", "StartStreaming", "StopStreaming"}
                \subseteq Kinds \ (VersionKinds \cup {"BadNumber", "Unknown"})
          /\ {"OK", "ERR"} \subseteq Statuses
      BY DEF Kinds, VersionKinds, Statuses
    <3> QED
      BY <1>4, <3>1, Zenon DEF LockTimeout, FlowControl, CloseRecorder, StartStreaming, StopStreaming
  <2>2. api' = api
    BY <1>4 DEF LockTimeout, FlowControl, CloseRecorder, StartStreaming, StopStreaming
  <2> QED
    BY <2>1, <2>2, ReplyAnswers
<1>5. ASSUME NEW v \in {1, 2}, SetVersion(v)
      PROVE  Answered1
  <2> DEFINE serial == IF v > 1 THEN SerialOf(cmd[1]) ELSE NoSerial
  <2>1. pc = "process" /\ Done /\ cmd[1].kind = (IF v = 1 THEN "APIVersion:1" ELSE "APIVersion:2")
    BY <1>5 DEF SetVersion, Processing
  <2>2. cmd[1] \in Lines
    BY <2>1, CurrentLine
  <2>3. serial \in Int
    BY <2>2 DEF SerialOf, EmptySerial, NoSerial, Lines
  <2>4. Answer(serial, "OK")
    BY <1>5, <2>1 DEF SetVersion, Answer, send_status, VersionKinds
  <2>5. "OK" \in Statuses
    BY DEF Statuses
  <2> HIDE DEF serial
  <2> QED
    BY <2>1, <2>3, <2>4, <2>5 DEF Answered1
<1> QED
  BY <1>1, <1>2, <1>3, <1>4, <1>5 DEF process_command

\* getline takes the oldest line of those that wait, from L, which is what the C
\* library has then
LEMMA LineTaken ==
    ASSUME QueueInv, cmd = <<>>, NEW L \in Seq(Lines), L # <<>>,
           \/ L = stdio /\ UNCHANGED <<pipe, part>>
           \/ stdio = <<>> /\ L = pipe /\ Drain,
           TakeLine(L), UNCHANGED <<recorder, api, client, replies>>
    PROVE  QueueInv'
<1> USE DEF QueueInv
<1>0. /\ stdio \in Seq(Lines) /\ pipe \in Seq(Lines) /\ pipe' \in Seq(Lines)
      /\ Len(stdio) \in Nat /\ Len(pipe) \in Nat /\ Len(pipe') \in Nat /\ Len(replies) \in Nat
      /\ Len(cmd) = 0
  BY DEF Types, Drain
<1>1. /\ part # "cut" /\ part' \in {"none", "pipe", "stdio"} /\ (Unfinished' <=> Unfinished)
      /\ Len(L) + Len(pipe') = Len(stdio) + Len(pipe)
  <2>1. part \in {"none", "pipe", "stdio", "cut"} /\ part # "cut"
    BY DEF Types, Places
  <2>2. CASE L = stdio /\ UNCHANGED <<pipe, part>>
    BY <1>0, <2>1, <2>2 DEF Unfinished
  <2>3. CASE stdio = <<>> /\ L = pipe /\ Drain
    BY <1>0, <2>1, <2>3 DEF Drain, Unfinished
  <2> QED
    BY <2>2, <2>3
<1>2. /\ cmd' = <<L[1]>> /\ stdio' = Tail(L) /\ pc' = "process"
      /\ replies' = replies /\ sent' = sent
  BY DEF TakeLine, client
<1>3. /\ \A k \in 1..Len(L) : L[k] = sent[Len(replies) + k]
      /\ \A k \in 1..Len(pipe') : pipe'[k] = sent[Len(replies) + Len(L) + k]
  <2>1. CASE L = stdio /\ UNCHANGED <<pipe, part>>
    BY <1>0, <2>1 DEF Order
  <2>2. CASE stdio = <<>> /\ L = pipe /\ Drain
    BY <1>0, <2>2 DEF Order, Drain
  <2> QED
    BY <2>1, <2>2
<1>4. L[1] \in Lines /\ L[1] = sent[Len(replies) + 1] /\ Len(L) \in Nat \ {0}
  <2>1. L[1] \in Lines /\ Len(L) \in Nat \ {0}
    BY ElementOfSeq
  <2> QED
    BY <1>3, <2>1
<1>5. Types'
  <2>1. cmd' \in Seq(Lines) /\ stdio' \in Seq(Lines)
    BY <1>2, <1>4
  <2> QED
    BY <1>0, <1>1, <1>2, <2>1 DEF Types, client, recorder
<1>6. Places'
  BY <1>1, <1>2, <1>4 DEF Places
<1>7. Order'
  <2>1. Len(cmd') = 1 /\ Len(stdio') = Len(L) - 1
    BY <1>2, <1>4
  <2>2. \A k \in 1..Len(stdio') : stdio'[k] = L[k + 1]
    BY <1>2, <2>1
  <2> DEFINE unfinished == IF Unfinished THEN 1 ELSE 0
  <2>3. /\ unfinished \in Nat /\ unfinished' = unfinished
        /\ Len(sent) = Len(replies) + Len(cmd) + Len(stdio) + Len(pipe) + unfinished
        /\ \A i \in 1..Len(sent) : sent[i].id = i
    BY <1>1 DEF Order
  <2>4. Len(sent') = Len(replies') + Len(cmd') + Len(stdio') + Len(pipe') + unfinished'
    <3>1. /\ Len(replies') = Len(replies) /\ Len(sent') = Len(sent)
          /\ Len(L) + Len(pipe') = Len(stdio) + Len(pipe)
      BY <1>1, <1>2
    <3>2. /\ Len(stdio) \in Nat /\ Len(pipe) \in Nat /\ Len(pipe') \in Nat
          /\ Len(replies) \in Nat /\ Len(L) \in Nat /\ Len(cmd) = 0
      BY <1>0, <1>4
    <3>3. /\ unfinished \in Nat /\ unfinished' = unfinished
          /\ Len(sent) = Len(replies) + Len(cmd) + Len(stdio) + Len(pipe) + unfinished
      BY <2>3
    <3> HIDE DEF unfinished
    <3> QED
      BY <2>1, <3>1, <3>2, <3>3
  <2>5. cmd'[1].id = Len(replies) + 1 /\ cmd'[1] = sent[Len(replies) + 1]
    BY <1>0, <1>1, <1>2, <1>4, <2>3
  <2>6. \A k \in 1..Len(stdio') : stdio'[k] = sent[Len(replies) + 1 + k]
    <3>1. \A k \in 1..Len(stdio') : k + 1 \in 1..Len(L)
      BY <1>4, <2>1
    <3>2. \A k \in 1..Len(stdio') : L[k + 1] = sent[Len(replies) + (k + 1)]
      BY <1>3, <3>1
    <3>3. \A k \in 1..Len(stdio') : Len(replies) + (k + 1) = Len(replies) + 1 + k
      BY <1>0
    <3> QED
      BY <2>2, <3>2, <3>3
  <2>7. \A k \in 1..Len(pipe') : pipe'[k] = sent[Len(replies) + 1 + Len(stdio') + k]
    <3>1. \A k \in 1..Len(pipe') : Len(replies) + Len(L) + k = Len(replies) + 1 + Len(stdio') + k
      BY <1>0, <1>4, <2>1
    <3> QED
      BY <1>3, <3>1
  <2>8. \A i \in 1..Len(replies') : replies'[i].to = i
    BY <1>2 DEF Order
  <2> QED
    BY <1>1, <1>2, <2>1, <2>3, <2>4, <2>5, <2>6, <2>7, <2>8 DEF Order
<1> QED
  BY <1>5, <1>6, <1>7

\* a step that only moves the thread
LEMMA OnlyMoves ==
    ASSUME QueueInv, UNCHANGED <<recorder, api, input, client, replies>>,
           \/ pc \in {"loop", "poll"} /\ pc' \in {"loop", "poll", "end"}
           \/ pc = "process" /\ pc' = "aborted"
    PROVE  QueueInv'
<1>1. Types'
  BY DEF QueueInv, Types, recorder, input, client
<1>2. Places'
  BY DEF QueueInv, Places, input, client
<1>3. Order'
  BY DEF QueueInv, Order, Unfinished, input, client
<1> QED
  BY <1>1, <1>2, <1>3 DEF QueueInv

LEMMA QueueStep ==
    ASSUME QueueInv, [Next]_vars
    PROVE  QueueInv'
<1> USE DEF QueueInv
<1>1. CASE process_command
  <2>1. PICK serial \in Int, text \in Statuses : Answer(serial, text)
    BY <1>1, CommandAnswers DEF Answered1
  <2>2. /\ pc = "process" /\ Len(cmd) = 1 /\ cmd[1] \in Lines
        /\ Done
    BY <1>1, CommandAnswers, CurrentLine DEF Answered1
  <2>3. Types'
    <3>1. replies' \in Seq(Reply_)
      BY <2>1, <2>2 DEF Types, Answer, Reply_, Lines
    <3>2. api' \in {1, 2}
      BY <2>1 DEF Answer, Types
    <3> QED
      BY <1>1, <2>2, <3>1, <3>2, CommandFlags DEF Types, Flags, Done, client
  <2>4. Places'
    BY <2>2 DEF Places, Done, client
  <2>5. Order'
    <3>1. Len(replies') = Len(replies) + 1 /\ Len(cmd') = 0
      BY <2>1, <2>2 DEF Answer, Done, Types
    <3>2. \A i \in 1..Len(replies') : replies'[i].to = i
      <4>0. cmd # <<>>
        BY <2>2
      <4>1. cmd[1].id = Len(replies) + 1 /\ (\A i \in 1..Len(replies) : replies[i].to = i)
        BY <4>0 DEF Order
      <4>2. replies' = Append(replies, [to |-> cmd[1].id, serial |-> serial, status |-> text])
        BY <2>1 DEF Answer
      <4>3. replies \in Seq(Reply_)
        BY DEF Types
      <4> QED
        BY <4>1, <4>2, <4>3
    <3>3. /\ sent' = sent /\ stdio' = stdio /\ pipe' = pipe /\ part' = part /\ cmd' = <<>>
          /\ Len(cmd) = 1
      BY <2>2 DEF Done, client
    <3>4. /\ Len(replies) \in Nat /\ Len(stdio) \in Nat /\ Len(pipe) \in Nat
          /\ Len(replies') + Len(cmd') = Len(replies) + Len(cmd)
      BY <3>1, <3>3 DEF Types
    <3>5. (IF Unfinished THEN 1 ELSE 0)' = IF Unfinished THEN 1 ELSE 0
      BY <3>3 DEF Unfinished
    <3> QED
      BY <3>2, <3>3, <3>4, <3>5 DEF Order
  <2> QED
    BY <2>3, <2>4, <2>5
<1>2. CASE LoopTop
  BY <1>2, OnlyMoves DEF LoopTop
<1>3. CASE Poll
  <2>1. pc = "poll" /\ cmd = <<>> /\ UNCHANGED <<recorder, api, client, replies>>
    BY <1>3 DEF Poll, Places
  <2>2. CASE UNCHANGED input /\ pc' \in {"end", "loop"}
    BY <2>1, <2>2, OnlyMoves
  <2>3. CASE /\ stdio = <<>> /\ pipe = <<>> /\ Drain /\ part = "pipe"
             /\ pc' = "getline" /\ UNCHANGED <<cmd, stdio>>
    <3>1. pipe' = <<>> /\ part' = "stdio"
      BY <2>3 DEF Drain
    <3>2. Types'
      BY <2>1, <2>3, <3>1 DEF Types, recorder, client
    <3>3. Places'
      BY <2>1, <2>3, <3>1 DEF Places, client
    <3>4. Order'
      BY <2>1, <2>3, <3>1 DEF Order, Unfinished, client
    <3> QED
      BY <3>2, <3>3, <3>4
  <2>4. CASE stdio # <<>> /\ TakeLine(stdio) /\ UNCHANGED <<pipe, part>>
    BY <2>1, <2>4, LineTaken DEF Types
  <2>5. CASE stdio = <<>> /\ pipe # <<>> /\ Drain /\ TakeLine(pipe)
    BY <2>1, <2>5, LineTaken DEF Types
  <2> QED
    BY <1>3, <2>2, <2>3, <2>4, <2>5, Zenon DEF Poll, getline
<1>4. CASE LineFinished
  <2>1. /\ cmd = <<>> /\ stdio = <<>> /\ pipe # <<>> /\ Drain /\ TakeLine(pipe)
        /\ UNCHANGED <<recorder, api, client, replies>>
    BY <1>4 DEF LineFinished, Places
  <2> QED
    BY <2>1, LineTaken DEF Types
<1>5. CASE LineCut
  <2>1. /\ cmd = <<>> /\ stdio = <<>> /\ pipe = <<>> /\ hup /\ Unfinished
        /\ part' = "cut" /\ pc' = "process"
        /\ UNCHANGED <<recorder, api, pipe, stdio, client, replies>>
    BY <1>5 DEF LineCut, Places, Types, Unfinished
  <2>2. sent \in Seq(Lines) /\ replies \in Seq(Reply_) /\ Len(sent) = Len(replies) + 1
    BY <2>1 DEF Order, Types
  <2>3. sent[Len(sent)] \in Lines /\ sent[Len(sent)].id = Len(sent)
    BY <2>2, ElementOfSeq DEF Order
  <2>4. PICK line \in Fragments(sent[Len(sent)]) : cmd' = <<line>>
    BY <1>5 DEF LineCut
  <2>5. line \in Lines /\ line.id = Len(sent)
    <3>1. PICK last \in Lines : last = sent[Len(sent)] /\ last.id = Len(sent)
      BY <2>3
    <3>2. CASE line = last
      BY <3>1, <3>2
    <3>3. CASE \E v \in 1..last.version : line = [last EXCEPT !.kind = "Unknown", !.version = v]
      <4>1. PICK v \in 1..last.version : line = [last EXCEPT !.kind = "Unknown", !.version = v]
        BY <3>3
      <4>2. "Unknown" \in Kinds
        BY DEF Kinds
      <4>3. v \in {1, 2}
        BY <4>1 DEF Lines
      <4> QED
        BY <3>1, <4>1, <4>2, <4>3 DEF Lines
    <3> QED
      BY <2>4, <3>1, <3>2, <3>3 DEF Fragments
  <2>6. Types'
    <3>1. cmd' \in Seq(Lines)
      BY <2>4, <2>5
    <3> QED
      BY <2>1, <3>1 DEF Types, recorder, client
  <2>7. Places'
    BY <2>1, <2>2, <2>4 DEF Places, client
  <2>8. Order'
    <3>1. /\ Len(cmd') = 1 /\ cmd'[1] = line /\ Len(sent') = Len(replies') + 1
          /\ sent' = sent /\ replies' = replies /\ stdio' = <<>> /\ pipe' = <<>> /\ ~Unfinished'
      BY <2>1, <2>2, <2>4 DEF client, Unfinished
    <3> QED
      BY <2>1, <2>2, <2>4, <2>5, <3>1 DEF Order
  <2> QED
    BY <2>6, <2>7, <2>8
<1>6. ASSUME NEW kind \in Kinds, Send(kind) PROVE QueueInv'
  <2> DEFINE line == [id |-> Len(sent) + 1, kind |-> kind, version |-> Settled]
  <2>1. /\ ~hup /\ part = "none" /\ sent' = Append(sent, line) /\ version' = Settled
        /\ UNCHANGED <<recorder, api, pc, stdio, cmd, hup, replies, window>>
        /\ \/ pipe' = Append(pipe, line) /\ part' = part
           \/ pipe' = pipe /\ part' = "pipe"
    BY <1>6 DEF Send
  <2>2. Settled \in {1, 2} /\ line \in Lines /\ line.id = Len(sent) + 1
    BY <1>6 DEF Settled, Types, Lines
  <2> HIDE DEF line
  <2>3. /\ sent \in Seq(Lines) /\ replies \in Seq(Reply_) /\ cmd \in Seq(Lines)
        /\ stdio \in Seq(Lines) /\ pipe \in Seq(Lines)
    BY DEF Types
  <2>4. Types'
    <3>1. Append(sent, line) \in Seq(Lines) /\ Append(pipe, line) \in Seq(Lines)
      BY <2>2, <2>3
    <3>2. sent' \in Seq(Lines) /\ pipe' \in Seq(Lines)
      BY <2>1, <2>3, <3>1
    <3> QED
      BY <2>1, <2>2, <3>2 DEF Types, recorder
  <2>5. Places'
    BY <2>1, <2>3 DEF Places
  <2>6. Order'
    <3>1. /\ Len(sent') = Len(sent) + 1 /\ sent'[Len(sent) + 1] = line
          /\ \A i \in 1..Len(sent) : sent'[i] = sent[i]
      BY <2>1, <2>2, <2>3
    <3>2. Len(sent) = Len(replies) + Len(cmd) + Len(stdio) + Len(pipe)
      BY <2>1, <2>3 DEF Order, Unfinished
    <3>3. \/ Len(pipe') = Len(pipe) + 1 /\ ~Unfinished'
          \/ Len(pipe') = Len(pipe) /\ Unfinished'
      BY <2>1, <2>2, <2>3 DEF Unfinished
    <3>4. \A i \in 1..Len(sent') : sent'[i].id = i
      BY <2>2, <2>3, <3>1 DEF Order
    <3>5. cmd # <<>> => Len(cmd) >= 1
      BY <2>3
    <3>6. \A k \in 1..Len(pipe') : pipe'[k] = sent'[Len(replies) + Len(cmd) + Len(stdio) + k]
      <4>1. CASE pipe' = pipe
        BY <2>3, <3>1, <3>2, <4>1 DEF Order
      <4>2. CASE pipe' = Append(pipe, line)
        <5>1. /\ pipe'[Len(pipe) + 1] = line /\ Len(pipe') = Len(pipe) + 1
              /\ \A k \in 1..Len(pipe) : pipe'[k] = pipe[k]
          BY <2>2, <2>3, <4>2
        <5>2. \A k \in 1..Len(pipe) : pipe[k] = sent[Len(replies) + Len(cmd) + Len(stdio) + k]
          BY DEF Order
        <5>3. \A k \in 1..Len(pipe) : Len(replies) + Len(cmd) + Len(stdio) + k \in 1..Len(sent)
          BY <2>3, <3>2
        <5>4. \A k \in 1..Len(pipe) : pipe'[k] = sent'[Len(replies) + Len(cmd) + Len(stdio) + k]
          BY <3>1, <5>1, <5>2, <5>3
        <5>5. pipe'[Len(pipe) + 1] = sent'[Len(replies) + Len(cmd) + Len(stdio) + (Len(pipe) + 1)]
          BY <2>3, <3>1, <3>2, <5>1
        <5>6. \A k \in 1..Len(pipe') : k \in 1..Len(pipe) \/ k = Len(pipe) + 1
          BY <2>3, <5>1
        <5> QED
          BY <5>4, <5>5, <5>6
      <4> QED
        BY <2>1, <4>1, <4>2
    <3>7. \A k \in 1..Len(stdio) : stdio[k] = sent'[Len(replies) + Len(cmd) + k]
      BY <2>3, <3>1, <3>2 DEF Order
    <3>8. cmd # <<>> => cmd[1].id = Len(replies) + 1 /\ cmd[1] = sent'[Len(replies) + 1]
      BY <2>1, <2>3, <3>1, <3>2, <3>5 DEF Order
    <3>9. Len(sent') = Len(replies) + Len(cmd) + Len(stdio) + Len(pipe') + (IF Unfinished' THEN 1 ELSE 0)
      <4>1. /\ Len(replies) \in Nat /\ Len(cmd) \in Nat /\ Len(stdio) \in Nat
            /\ Len(pipe) \in Nat /\ Len(sent') = Len(sent) + 1
        BY <2>3, <3>1
      <4> QED
        BY <3>2, <3>3, <4>1
    <3>10. /\ replies' = replies /\ cmd' = cmd /\ stdio' = stdio /\ part' # "cut"
           /\ \A i \in 1..Len(replies) : replies[i].to = i
      BY <2>1 DEF Order
    <3> QED
      BY <3>4, <3>6, <3>7, <3>8, <3>9, <3>10 DEF Order
  <2> QED
    BY <2>4, <2>5, <2>6
<1>7. CASE SendRest
  <2>1. /\ Unfinished /\ part # "cut" /\ part' = "none" /\ pipe' = Append(pipe, sent[Len(sent)])
        /\ UNCHANGED <<recorder, api, pc, stdio, cmd, client, replies>>
    BY <1>7 DEF SendRest, Unfinished
  <2>2. /\ sent \in Seq(Lines) /\ replies \in Seq(Reply_) /\ cmd \in Seq(Lines)
        /\ stdio \in Seq(Lines) /\ pipe \in Seq(Lines)
    BY DEF Types
  <2>3. Len(sent) = Len(replies) + Len(cmd) + Len(stdio) + Len(pipe) + 1
    BY <2>1 DEF Order
  <2>4. sent[Len(sent)] \in Lines
    BY <2>2, <2>3, ElementOfSeq
  <2>5. /\ Len(pipe') = Len(pipe) + 1 /\ pipe'[Len(pipe) + 1] = sent[Len(sent)]
        /\ \A k \in 1..Len(pipe) : pipe'[k] = pipe[k]
        /\ pipe' \in Seq(Lines) /\ pipe' # <<>>
    BY <2>1, <2>2, <2>4
  <2>6. Types'
    BY <2>1, <2>5 DEF Types, recorder, client
  <2>7. Places'
    BY <2>1, <2>5 DEF Places, client
  <2>8. Order'
    <3>1. ~Unfinished' /\ sent' = sent /\ replies' = replies /\ cmd' = cmd /\ stdio' = stdio
      BY <2>1 DEF Unfinished, client
    <3>2. Len(sent) = Len(replies) + Len(cmd) + Len(stdio) + Len(pipe')
      BY <2>2, <2>3, <2>5
    <3>3. \A k \in 1..Len(pipe') : pipe'[k] = sent[Len(replies) + Len(cmd) + Len(stdio) + k]
      <4>1. \A k \in 1..Len(pipe) : pipe[k] = sent[Len(replies) + Len(cmd) + Len(stdio) + k]
        BY DEF Order
      <4>2. pipe'[Len(pipe) + 1] = sent[Len(replies) + Len(cmd) + Len(stdio) + (Len(pipe) + 1)]
        BY <2>2, <2>3, <2>5
      <4>3. \A k \in 1..Len(pipe') : k \in 1..Len(pipe) \/ k = Len(pipe) + 1
        BY <2>2, <2>5
      <4> QED
        BY <2>5, <4>1, <4>2, <4>3
    <3>4. Len(sent') = Len(replies') + Len(cmd') + Len(stdio') + Len(pipe')
      BY <3>1, <3>2
    <3>5. /\ \A i \in 1..Len(sent') : sent'[i].id = i
          /\ cmd' # <<>> => cmd'[1].id = Len(replies') + 1 /\ cmd'[1] = sent'[Len(replies') + 1]
          /\ \A k \in 1..Len(stdio') : stdio'[k] = sent'[Len(replies') + Len(cmd') + k]
          /\ \A i \in 1..Len(replies') : replies'[i].to = i
      BY <2>1, <3>1 DEF Order
    <3>6. part' # "cut" /\ Len(sent') \in Nat
      BY <2>1, <2>2, <3>1
    <3>7. \A k \in 1..Len(pipe') : pipe'[k] = sent'[Len(replies') + Len(cmd') + Len(stdio') + k]
      BY <3>1, <3>3
    <3>8. Len(replies') + Len(cmd') + Len(stdio') + Len(pipe') + 0
            = Len(replies') + Len(cmd') + Len(stdio') + Len(pipe')
      BY <2>2, <2>5, <3>1
    <3> QED
      BY <3>1, <3>4, <3>5, <3>6, <3>7, <3>8 DEF Order
  <2> QED
    BY <2>6, <2>7, <2>8
<1>8. CASE HangUp \/ FatalElsewhere
  <2>1. Types' /\ UNCHANGED <<pc, input, replies, sent>> /\ (hup => hup')
    <3>1. CASE HangUp
      <4>1. UNCHANGED <<recorder, api, pc, input, sent, replies, version, window>> /\ hup'
        BY <3>1 DEF HangUp
      <4>2. hup' \in BOOLEAN
        BY <4>1
      <4> QED
        BY <4>1, <4>2 DEF Types, recorder, input
    <3>2. CASE FatalElsewhere
      BY <3>2 DEF FatalElsewhere, Types, client, input
    <3> QED
      BY <1>8, <3>1, <3>2
  <2>2. Places'
    BY <2>1 DEF Places, input
  <2>3. Order'
    BY <2>1 DEF Order, Unfinished, input
  <2> QED
    BY <2>1, <2>2, <2>3
<1>9. CASE MissingNumber
  <2>1. /\ pc = "process" /\ pc' = "aborted"
        /\ UNCHANGED <<recorder, api, input, client, replies>>
    BY <1>9 DEF MissingNumber, Processing
  <2> QED
    BY <2>1, OnlyMoves
<1>10. CASE UNCHANGED vars
  <2>1. UNCHANGED <<recorder, api, pc, input, client, replies>>
    BY <1>10 DEF vars
  <2>2. Types'
    BY <2>1 DEF Types, recorder, input, client
  <2>3. Places'
    BY <2>1 DEF Places, input, client
  <2>4. Order'
    BY <2>1 DEF Order, Unfinished, input, client
  <2> QED
    BY <2>2, <2>3, <2>4
<1> QED
  BY <1>1, <1>2, <1>3, <1>4, <1>5, <1>6, <1>7, <1>8, <1>9, <1>10 DEF Next, Run, Client

-----------------------------------------------------------------------------
(* A client that waits for each reply has one line under way, written in   *)
(* the version the recorder speaks.                                        *)
OneLine ==
    window = 1 =>
        /\ Outstanding <= 1
        /\ Outstanding = 1 => api = version /\ sent[Len(sent)].version = version
        /\ Outstanding = 0 => Settled = api

Shown(i) ==
    (/\ window = 1
     /\ sent[i].kind \notin {"APIVersion?", "APIVersion:1", "APIVersion:2"}
     /\ ~(part = "cut" /\ i = Len(sent)))
       => replies[i].serial = (IF sent[i].version = 1 THEN NoSerial ELSE i)

VersionInv == OneLine /\ \A i \in 1..Len(replies) : Shown(i)

LEMMA VersionInit ==
    ASSUME Init
    PROVE  VersionInv
BY DEF Init, VersionInv, OneLine, Outstanding, Settled

LEMMA VersionStep ==
    ASSUME QueueInv, QueueInv', VersionInv, [Next]_vars
    PROVE  VersionInv'
<1>0. /\ sent \in Seq(Lines) /\ replies \in Seq(Reply_)
      /\ Len(sent) \in Nat /\ Len(replies) \in Nat /\ Len(replies) <= Len(sent)
  <2>1. /\ sent \in Seq(Lines) /\ replies \in Seq(Reply_) /\ cmd \in Seq(Lines)
        /\ stdio \in Seq(Lines) /\ pipe \in Seq(Lines)
    BY DEF QueueInv, Types
  <2>2. Len(sent) = Len(replies) + Len(cmd) + Len(stdio) + Len(pipe) + (IF Unfinished THEN 1 ELSE 0)
    BY DEF QueueInv, Order
  <2>3. Len(sent) >= Len(replies)
    <3>1. CASE Unfinished
      BY <2>1, <2>2, <3>1
    <3>2. CASE ~Unfinished
      BY <2>1, <2>2, <3>2
    <3> QED
      BY <3>1, <3>2
  <2> QED
    BY <2>1, <2>3
<1>1. CASE process_command
  <2>1. PICK serial \in Int, text \in Statuses : Answer(serial, text)
    BY <1>1, CommandAnswers DEF Answered1, QueueInv
  <2>2. /\ pc = "process" /\ Len(cmd) = 1 /\ cmd[1] \in Lines
        /\ sent' = sent /\ version' = version /\ window' = window /\ part' = part
    BY <1>1, CommandAnswers, CurrentLine DEF Answered1, Done, client, QueueInv
  <2> DEFINE n == Len(replies) + 1
  <2>3. /\ replies' = Append(replies, [to |-> cmd[1].id, serial |-> serial, status |-> text])
        /\ Len(replies') = n /\ replies'[n].serial = serial /\ replies'[n].status = text
        /\ \A i \in 1..Len(replies) : replies'[i] = replies[i]
    BY <1>0, <2>1 DEF Answer
  <2>4. n \in Nat /\ n <= Len(sent)
    <3>1. /\ cmd' = <<>> /\ stdio' \in Seq(Lines) /\ pipe' \in Seq(Lines)
      BY <1>1, CommandAnswers DEF Answered1, Done, QueueInv, Types
    <3>2. Len(sent) = n + Len(stdio') + Len(pipe') + (IF Unfinished' THEN 1 ELSE 0)
      <4>1. Len(sent') = Len(replies') + Len(cmd') + Len(stdio') + Len(pipe') + (IF Unfinished' THEN 1 ELSE 0)
        BY DEF QueueInv, Order
      <4>2. Len(cmd') = 0
        BY <3>1
      <4> QED
        BY <1>0, <2>2, <2>3, <3>1, <4>1, <4>2
    <3>3. Len(stdio') \in Nat /\ Len(pipe') \in Nat /\ (IF Unfinished' THEN 1 ELSE 0) \in Nat
      BY <3>1
    <3> QED
      BY <1>0, <3>2, <3>3
  <2>5. ASSUME window = 1
        PROVE  n = Len(sent) /\ api = version /\ sent[n].version = version
    <3>1. Outstanding <= 1 /\ Outstanding \in Int
      BY <1>0, <2>5 DEF VersionInv, OneLine, Outstanding
    <3>2. Outstanding = 1
      BY <1>0, <2>4, <3>1 DEF Outstanding
    <3> QED
      BY <1>0, <2>5, <3>2 DEF VersionInv, OneLine, Outstanding
  <2>6. /\ part # "cut" => cmd[1] = sent[n]
        /\ part = "cut" => cmd[1].kind = sent[n].kind \/ cmd[1].kind = "Unknown"
        /\ sent[n] \in Lines /\ cmd[1].id = n
    <3>1. cmd # <<>>
      BY <2>2
    <3>2. sent[n] \in Lines
      BY <1>0, <2>4, ElementOfSeq
    <3>3. part = "cut" => cmd[1] \in Fragments(sent[n])
      BY <3>1 DEF QueueInv, Order
    <3>4. cmd[1].id = n /\ (part # "cut" => cmd[1] = sent[n])
      BY <3>1 DEF QueueInv, Order
    <3>5. part = "cut" => cmd[1].kind = sent[n].kind \/ cmd[1].kind = "Unknown"
      BY <3>2, <3>3 DEF Fragments, Lines
    <3> QED
      BY <3>2, <3>4, <3>5
  <2> HIDE DEF n
  <2>7. OneLine'
    <3> SUFFICES ASSUME window = 1
                 PROVE  Outstanding' = 0 /\ Settled' = api'
      BY <2>2 DEF OneLine
    <3>1. n = Len(sent) /\ api = version /\ sent[n].version = version /\ Outstanding' = 0
      BY <1>0, <2>2, <2>3, <2>5 DEF Outstanding
    <3>2. sent # <<>> /\ replies'[Len(sent)].status = text
      BY <1>0, <2>3, <2>4, <3>1 DEF n
    <3>3. CASE text # "OK"
      BY <2>1, <2>2, <3>1, <3>2, <3>3 DEF Settled, Answer
    <3>4. CASE text = "OK"
      <4>1. cmd[1].kind = sent[n].kind
        BY <2>1, <2>6, <3>4 DEF Answer
      <4>2. api' = IF sent[n].kind = "APIVersion:1" THEN 1
                   ELSE IF sent[n].kind \in VersionKinds THEN 2 ELSE api
        BY <2>1, <3>4, <4>1 DEF Answer
      <4> QED
        BY <2>2, <3>1, <3>2, <3>4, <4>2 DEF Settled, VersionKinds
    <3> QED
      BY <3>1, <3>3, <3>4
  <2>8. ASSUME NEW i \in 1..Len(replies')
        PROVE  Shown(i)'
    <3>1. CASE i \in 1..Len(replies)
      BY <2>2, <2>3, <3>1 DEF VersionInv, Shown
    <3>2. CASE i = n
      <4> SUFFICES ASSUME window = 1, sent[n].kind \notin VersionKinds,
                          ~(part = "cut" /\ n = Len(sent))
                   PROVE  serial = IF sent[n].version = 1 THEN NoSerial ELSE n
        BY <2>2, <2>3, <3>2 DEF Shown, VersionKinds
      <4>1. cmd[1] = sent[n] /\ sent[n].version = api
        BY <2>5, <2>6
      <4> QED
        BY <2>1, <2>6, <4>1 DEF Answer
    <3> QED
      BY <1>0, <2>3, <3>1, <3>2 DEF n
  <2> QED
    BY <2>7, <2>8 DEF VersionInv
<1>2. CASE LoopTop \/ Poll \/ LineFinished \/ LineCut \/ SendRest \/ HangUp
           \/ FatalElsewhere \/ MissingNumber \/ UNCHANGED vars
  <2>1. UNCHANGED <<api, sent, replies, version, window>>
    BY <1>2 DEF LoopTop, Poll, LineFinished, LineCut, SendRest, HangUp,
               FatalElsewhere, MissingNumber, vars, client
  <2>2. part = "cut" => part' = "cut"
    <3>1. pc = "getline" => part # "cut"
      BY DEF QueueInv, Places
    <3> QED
      BY <1>2, <3>1 DEF LoopTop, Poll, getline, Drain, LineFinished, LineCut, SendRest, HangUp,
                        FatalElsewhere, MissingNumber, vars, input
  <2> QED
    BY <2>1, <2>2 DEF VersionInv, OneLine, Shown, Outstanding, Settled
<1>3. ASSUME NEW kind \in Kinds, Send(kind)
      PROVE  VersionInv'
  <2> DEFINE line == [id |-> Len(sent) + 1, kind |-> kind, version |-> Settled]
  <2>1. /\ part = "none" /\ Outstanding < window /\ sent' = Append(sent, line) /\ version' = Settled
        /\ UNCHANGED <<api, replies, window>>
    BY <1>3 DEF Send
  <2>2. line.version = Settled /\ line \in Lines
    <3>1. Settled \in {1, 2}
      BY DEF Settled, QueueInv, Types
    <3> QED
      BY <1>0, <3>1 DEF Lines
  <2> HIDE DEF line
  <2>3. /\ Len(sent') = Len(sent) + 1 /\ sent'[Len(sent) + 1] = line
        /\ \A i \in 1..Len(sent) : sent'[i] = sent[i]
    BY <1>0, <2>1, <2>2
  <2>4. OneLine'
    <3> SUFFICES ASSUME window = 1
                 PROVE  Outstanding' = 1 /\ api' = version' /\ sent'[Len(sent')].version = version'
      BY <2>1 DEF OneLine
    <3>1. Outstanding = 0
      BY <1>0, <2>1 DEF Outstanding
    <3>2. Settled = api
      BY <3>1 DEF VersionInv, OneLine
    <3> QED
      BY <1>0, <2>1, <2>2, <2>3, <3>1, <3>2 DEF Outstanding
  <2>5. ASSUME NEW i \in 1..Len(replies')
        PROVE  Shown(i)'
    <3>1. i \in 1..Len(replies) /\ i \in 1..Len(sent) /\ i # Len(sent')
      BY <1>0, <2>1, <2>3
    <3> QED
      BY <2>1, <2>3, <3>1 DEF VersionInv, Shown
  <2> QED
    BY <2>4, <2>5 DEF VersionInv
<1> QED
  BY <1>1, <1>2, <1>3 DEF Next, Run, Client

-----------------------------------------------------------------------------
LEMMA Invariants == Spec => [](QueueInv /\ VersionInv)
<1>1. QueueInv /\ VersionInv /\ [Next]_vars => (QueueInv /\ VersionInv)'
  BY QueueStep, VersionStep
<1> QED
  BY QueueInit, VersionInit, <1>1, PTL DEF Spec

\* Every variable of the command thread and of its client keeps its type, and no
\* command is answered twice.
THEOREM TypesHold == Spec => []TypeOK
<1>1. ASSUME QueueInv
      PROVE  TypeOK
  <2>1. /\ pipe \in Seq(Lines) /\ stdio \in Seq(Lines) /\ cmd \in Seq(Lines)
        /\ replies \in Seq(Reply_) /\ sent \in Seq(Lines)
    BY <1>1 DEF QueueInv, Types
  <2>2. Len(sent) = Len(replies) + Len(cmd) + Len(stdio) + Len(pipe) + (IF Unfinished THEN 1 ELSE 0)
    BY <1>1 DEF QueueInv, Order
  <2>3. Len(replies) <= Len(sent) /\ (Unfinished => sent # <<>>)
    <3>1. CASE Unfinished
      BY <2>1, <2>2, <3>1
    <3>2. CASE ~Unfinished
      BY <2>1, <2>2, <3>2
    <3> QED
      BY <3>1, <3>2
  <2>4. pc \in {"process", "aborted"} <=> (cmd # <<>>)
    <3>1. CASE pc \in {"process", "aborted"}
      <4>1. Len(cmd) = 1
        BY <1>1, <3>1 DEF QueueInv, Places
      <4> QED
        BY <3>1, <4>1
    <3>2. CASE pc \notin {"process", "aborted"}
      BY <1>1, <3>2 DEF QueueInv, Places
    <3> QED
      BY <3>1, <3>2
  <2>5. part # "none" => sent # <<>>
    BY <1>1, <2>3 DEF QueueInv, Types, Places, Unfinished
  <2> QED
    BY <1>1, <2>3, <2>4, <2>5 DEF QueueInv, Types, TypeOK
<1> QED
  BY Invariants, <1>1, PTL

\* For every number of commands under way and every way of cutting lines, commands
\* are answered in order and once each; a client that waits for each reply finds
\* the serial of its command in it.
THEOREM RepliesInOrder == Spec => []RepliesMatch
<1>1. ASSUME QueueInv, VersionInv
      PROVE  RepliesMatch
  BY <1>1 DEF QueueInv, Order, VersionInv, Shown, RepliesMatch
<1> QED
  BY Invariants, <1>1, PTL

\* A client that waits for each reply and the recorder agree on the version,
\* whatever versions the client asked for before.
THEOREM NeverMisunderstood == Spec => []VersionsAgree
<1>1. ASSUME VersionInv
      PROVE  VersionsAgree
  BY <1>1 DEF VersionInv, OneLine, VersionsAgree
<1> QED
  BY Invariants, <1>1, PTL

-----------------------------------------------------------------------------
(* How long a reply and the end of the thread take.                        *)

\* A client that waits for each reply never waits for a line that getline has left
\* in its buffer, which poll does not look at (src/MythTV.cpp:451-474): the line is
\* being processed, or poll sees it, or the client has not finished it.
NothingLeftBehind ==
    window = 1 => /\ stdio = <<>>
                  /\ Outstanding > 0 => cmd # <<>> \/ pipe # <<>> \/ Unfinished

\* the lines of a client that waits for each reply
LEMMA OneInPlay ==
    ASSUME QueueInv, VersionInv, window = 1
    PROVE  /\ Outstanding \in {0, 1}
           /\ Len(cmd) + Len(stdio) + Len(pipe) + (IF Unfinished THEN 1 ELSE 0) = Outstanding
<1>1. /\ Len(cmd) \in Nat /\ Len(stdio) \in Nat /\ Len(pipe) \in Nat /\ Len(replies) \in Nat
      /\ Len(sent) = Len(replies) + Len(cmd) + Len(stdio) + Len(pipe) + (IF Unfinished THEN 1 ELSE 0)
  BY DEF QueueInv, Types, Order
<1>2. Outstanding <= 1
  BY DEF VersionInv, OneLine
<1>3. CASE Unfinished
  BY <1>1, <1>2, <1>3 DEF Outstanding
<1>4. CASE ~Unfinished
  BY <1>1, <1>2, <1>4 DEF Outstanding
<1> QED
  BY <1>3, <1>4

LEMMA BufferStaysEmpty ==
    ASSUME QueueInv, VersionInv, window = 1 => stdio = <<>>, [Next]_vars
    PROVE  (window = 1 => stdio = <<>>)'
<1>0. window' = window
  BY DEF Next, Run, Client, LoopTop, Poll, LineFinished, LineCut, process_command, QueryVersion,
         Misunderstood, Queries, Reply, LockTimeout, FlowControl, CloseRecorder, StartStreaming,
         StopStreaming, SetVersion, MissingNumber, Send, SendRest, HangUp, FatalElsewhere, Done, client, vars
<1> SUFFICES ASSUME window = 1, stdio = <<>>
             PROVE  stdio' = <<>>
  BY <1>0
<1>1. ASSUME NEW L \in Seq(Lines), L # <<>>, Len(L) <= 1, TakeLine(L)
      PROVE  stdio' = <<>>
  <2>1. Len(L) = 1
    <3>1. Len(L) \in Nat \ {0}
      BY <1>1, EmptySeq
    <3>2. Len(L) <= 1
      BY <1>1
    <3> QED
      BY <3>1, <3>2
  <2>2. Tail(L) \in Seq(Lines) /\ Len(Tail(L)) = 0
    BY <1>1, <2>1, HeadTailProperties
  <2> QED
    BY <1>1, <2>2, EmptySeq DEF TakeLine
<1>2. stdio \in Seq(Lines) /\ pipe \in Seq(Lines) /\ cmd \in Seq(Lines)
  BY DEF QueueInv, Types
<1>3. Len(pipe) <= 1
  BY <1>2, OneInPlay
<1>4. CASE Poll
  <2>1. UNCHANGED stdio \/ (pipe # <<>> /\ TakeLine(pipe))
    BY <1>4, Zenon DEF Poll, getline, input
  <2> QED
    BY <1>1, <1>2, <1>3, <2>1
<1>5. CASE LineFinished
  BY <1>1, <1>2, <1>3, <1>5 DEF LineFinished
<1>6. CASE process_command
  BY <1>6, CommandAnswers DEF Answered1, Done, QueueInv
<1>7. CASE LoopTop \/ LineCut \/ MissingNumber \/ Client \/ FatalElsewhere \/ UNCHANGED vars
  BY <1>7 DEF LoopTop, LineCut, MissingNumber, Client, Send, SendRest, HangUp, FatalElsewhere, vars, input
<1> QED
  BY <1>4, <1>5, <1>6, <1>7 DEF Next, Run

QuickInv == QueueInv /\ VersionInv /\ (window = 1 => stdio = <<>>)

LEMMA QuickAlways == Spec => []QuickInv
<1>1. Init => (window = 1 => stdio = <<>>)
  BY DEF Init
<1>2. QueueInv /\ VersionInv /\ (window = 1 => stdio = <<>>) /\ [Next]_vars
        => (window = 1 => stdio = <<>>)'
  BY BufferStaysEmpty
<1> QED
  BY Invariants, <1>1, <1>2, PTL DEF Spec, QuickInv

\* No line of a client that waits for each reply is ever left where nobody looks.
THEOREM LineIsSeen == Spec => []NothingLeftBehind
<1>1. ASSUME QuickInv
      PROVE  NothingLeftBehind
  <2> SUFFICES ASSUME window = 1, Outstanding > 0, ~Unfinished, cmd = <<>>
               PROVE  pipe # <<>>
    BY <1>1 DEF NothingLeftBehind, QuickInv
  <2>1. Len(cmd) + Len(stdio) + Len(pipe) = Outstanding /\ stdio = <<>> /\ Outstanding \in {0, 1}
    BY <1>1, OneInPlay DEF QuickInv
  <2> QED
    BY <2>1
<1> QED
  BY QuickAlways, <1>1, PTL

(* The most steps the thread has left until it has answered the line a     *)
(* client waits for or that line has ended the process; and to its own end.*)
AnswerLeft ==
    IF Outstanding = 0 \/ pc = "aborted" THEN 0
    ELSE CASE pc = "process" -> 1 [] pc \in {"poll", "getline"} -> 2 [] OTHER -> 3

ThreadLeft ==
    CASE pc = "getline" -> IF run THEN 4 ELSE 3
      [] pc = "process" -> IF run THEN 3 ELSE 2
      [] pc = "loop" -> IF run THEN 2 ELSE 1
      [] pc = "poll" -> IF hup THEN 1 ELSE 4
      [] OTHER -> 0

LEMMA RunStaysCleared ==
    ASSUME [Next]_vars, ~run
    PROVE  ~run'
<1>1. CASE process_command
  <2>1. CASE QueryVersion \/ Misunderstood \/ Queries \/ SetVersion(1) \/ SetVersion(2)
    BY <2>1 DEF QueryVersion, Misunderstood, Queries, SetVersion, recorder
  <2>2. CASE LockTimeout \/ FlowControl \/ CloseRecorder \/ StartStreaming \/ StopStreaming
    BY <2>2 DEF LockTimeout, FlowControl, CloseRecorder, StartStreaming, StopStreaming
  <2> QED
    BY <1>1, <2>1, <2>2 DEF process_command
<1>2. CASE LoopTop \/ Poll \/ LineFinished \/ LineCut \/ MissingNumber
  BY <1>2 DEF LoopTop, Poll, LineFinished, LineCut, MissingNumber, recorder
<1>3. CASE Client \/ FatalElsewhere \/ UNCHANGED vars
  BY <1>3 DEF Client, Send, SendRest, HangUp, FatalElsewhere, vars, recorder
<1> QED
  BY <1>1, <1>2, <1>3 DEF Next, Run

\* what each step of the thread does to its place, and to what is answered
LEMMA RunSteps ==
    ASSUME QueueInv, Run
    PROVE  /\ UNCHANGED <<hup, sent, window>>
           /\ \/ /\ pc = "loop" /\ pc' = (IF run THEN "poll" ELSE "end")
                 /\ UNCHANGED <<replies, run>>
              \/ /\ pc = "poll"
                 /\ pc' \in (IF hup THEN {"end"} ELSE {"loop", "getline", "process"})
                 /\ stdio = <<>> /\ pipe # <<>> /\ part = "none" /\ ~hup => pc' = "process"
                 /\ UNCHANGED <<replies, run>>
              \/ pc = "getline" /\ pc' = "process" /\ UNCHANGED <<replies, run>>
              \/ /\ pc = "process" /\ pc' = "loop" /\ Len(replies') = Len(replies) + 1
                 /\ cmd[1].kind = "BadNumber" => cmd[1].version # api
              \/ /\ pc = "process" /\ pc' = "aborted" /\ UNCHANGED <<replies, run>>
                 /\ cmd[1].kind = "BadNumber" \/ part = "cut"
<1>1. CASE LoopTop
  BY <1>1 DEF LoopTop, client, recorder
<1>2. CASE Poll
  <2>1. pc = "poll" /\ UNCHANGED <<hup, sent, window, replies, run>>
    BY <1>2 DEF Poll, client, recorder
  <2>2. pc' \in (IF hup THEN {"end"} ELSE {"loop", "getline", "process"})
    BY <1>2, Zenon DEF Poll, getline, TakeLine
  <2>3. stdio = <<>> /\ pipe # <<>> /\ ~hup => pc' = "process"
    BY <1>2, Zenon DEF Poll, getline, TakeLine
  <2> QED
    BY <2>1, <2>2, <2>3
<1>3. CASE LineFinished
  BY <1>3 DEF LineFinished, TakeLine, client, recorder
<1>4. CASE LineCut
  BY <1>4 DEF LineCut, client, recorder
<1>5. CASE MissingNumber
  BY <1>5 DEF MissingNumber, Processing, client, recorder
<1>6. CASE process_command
  <2>1. Answered1
    BY <1>6, CommandAnswers DEF QueueInv
  <2>2. /\ pc = "process" /\ pc' = "loop" /\ UNCHANGED <<hup, sent, window>>
        /\ cmd[1].kind = "BadNumber" => cmd[1].version # api
    BY <2>1 DEF Answered1, Done, Understood, client
  <2>3. Len(replies') = Len(replies) + 1
    <3>1. PICK serial \in Int, text \in Statuses : Answer(serial, text)
      BY <2>1 DEF Answered1
    <3>2. replies \in Seq(Reply_)
      BY DEF QueueInv, Types
    <3> QED
      BY <3>1, <3>2 DEF Answer
  <2> QED
    BY <2>2, <2>3
<1> QED
  BY <1>1, <1>2, <1>3, <1>4, <1>5, <1>6 DEF Run

\* A client that waits for each reply has finished its line and stays, and the
\* recorder runs.
Asking == window = 1 /\ Outstanding > 0 /\ part = "none" /\ run /\ ~hup

(* The only line under way has a number that is none.                      *)
NumberIsBad == sent[Len(sent)].kind = "BadNumber"

\* The thread comes nearer to the reply with every step of its own, whatever the
\* command and whichever version it is in, and nobody takes it back; the last of these
\* steps answers the line, or ends the process without a reply if its number is none
\* (src/MythTV.cpp:415-431).
ReplyNearer ==
    Asking => /\ AnswerLeft' <= AnswerLeft
              /\ Run => AnswerLeft' < AnswerLeft
              /\ Run /\ AnswerLeft' = 0 =>
                    IF NumberIsBad THEN pc' = "aborted" /\ replies' = replies
                                   ELSE pc' = "loop" /\ Len(replies') = Len(sent)

ReplyIsBounded == [][ReplyNearer]_vars

\* A client that waits for each reply and has sent a whole line gets the reply within
\* three steps of the command thread; if the line is an APIVersion or a BlockSize whose
\* number is none, these steps abort the process instead.
THEOREM BoundedReply == Spec => [](AnswerLeft \in 0..3) /\ ReplyIsBounded
<1>1. AnswerLeft \in 0..3
  BY DEF AnswerLeft
<1>2. ASSUME QuickInv, [Next]_vars
      PROVE  [ReplyNearer]_vars
  <2> SUFFICES ASSUME Asking, Next
               PROVE  ReplyNearer
    BY <1>2 DEF ReplyNearer
  <2>1. /\ Outstanding = 1 /\ stdio = <<>> /\ (cmd # <<>> \/ pipe # <<>>) /\ part = "none"
        /\ Len(sent) = Len(replies) + 1 /\ Len(replies) \in Nat /\ Len(sent) \in Nat
    <3>1. window = 1 /\ Outstanding > 0 /\ ~Unfinished /\ part = "none"
      BY DEF Asking, Unfinished
    <3>2. stdio = <<>> /\ Outstanding \in {0, 1} /\ Len(cmd) + Len(stdio) + Len(pipe) = Outstanding
      BY <1>2, <3>1, OneInPlay DEF QuickInv
    <3>3. sent \in Seq(Lines) /\ replies \in Seq(Reply_)
      BY <1>2 DEF QuickInv, QueueInv, Types
    <3>4. cmd # <<>> \/ pipe # <<>>
      BY <3>1, <3>2
    <3> QED
      BY <3>1, <3>2, <3>3, <3>4 DEF Outstanding
  <2>2. pc \notin {"process", "aborted"} => pipe # <<>>
    BY <1>2, <2>1 DEF QuickInv, QueueInv, Places
  <2>3. CASE Run
    <3>0. run /\ ~hup /\ part # "cut" /\ QueueInv
      BY <1>2, <2>1 DEF Asking, QuickInv
    <3>1. pc = "process" => cmd[1] = sent[Len(sent)] /\ cmd[1].version = api
      <4>1. pc = "process" => cmd # <<>> /\ cmd[1] = sent[Len(replies) + 1]
        BY <3>0 DEF QueueInv, Places, Order
      <4>2. sent[Len(sent)].version = api
        BY <1>2, <2>1 DEF QuickInv, VersionInv, OneLine, Asking
      <4> QED
        BY <2>1, <4>1, <4>2
    <3>2. /\ sent' = sent
          /\ \/ pc = "loop" /\ pc' = "poll" /\ replies' = replies
             \/ pc \in {"poll", "getline"} /\ pc' = "process" /\ replies' = replies
             \/ pc = "process" /\ pc' = "loop" /\ Len(replies') = Len(replies) + 1 /\ ~NumberIsBad
             \/ pc = "process" /\ pc' = "aborted" /\ replies' = replies /\ NumberIsBad
      BY <2>1, <2>2, <2>3, <3>0, <3>1, RunSteps DEF NumberIsBad
    <3>3. CASE pc' # "loop"
      <4>1. Outstanding' = 1
        BY <2>1, <3>2, <3>3 DEF Outstanding
      <4> QED
        BY <2>1, <3>2, <3>3, <4>1 DEF ReplyNearer, AnswerLeft
    <3>4. CASE pc' = "loop"
      <4>0. pc = "process" /\ Len(sent') = Len(sent) /\ Len(replies') = Len(replies) + 1
        BY <3>2, <3>4
      <4>1. Outstanding' = 0
        BY <2>1, <4>0 DEF Outstanding
      <4> QED
        BY <2>1, <3>2, <3>4, <4>0, <4>1 DEF ReplyNearer, AnswerLeft
    <3> QED
      BY <3>3, <3>4
  <2>4. CASE ~Run
    <3>1. \A kind \in Kinds : ~Send(kind)
      BY <2>1 DEF Asking, Send
    <3>2. UNCHANGED <<pc, sent, replies>>
      BY <2>4, <3>1 DEF Next, Client, SendRest, HangUp, FatalElsewhere, client
    <3>3. AnswerLeft' = AnswerLeft
      BY <3>2 DEF AnswerLeft, Outstanding
    <3> QED
      BY <1>1, <2>4, <3>3 DEF ReplyNearer
  <2> QED
    BY <2>3, <2>4
<1> QED
  BY QuickAlways, <1>1, <1>2, PTL DEF Spec, ReplyIsBounded

\* After a shutdown or a hangup the command thread takes at most one more command, and
\* every step brings it nearer to its end.
ThreadNearer ==
    ~run \/ hup => /\ ~run' \/ hup'
                   /\ ThreadLeft' <= ThreadLeft
                   /\ Run => ThreadLeft' < ThreadLeft

ThreadIsBounded == [][ThreadNearer]_vars

\* The command thread, which the destructor joins, is at most four of its steps from
\* its end once m_run is cleared or the client hung up, whatever was sent before.
THEOREM BoundedThread == Spec => [](ThreadLeft \in 0..4) /\ ThreadIsBounded
<1>1. ThreadLeft \in 0..4
  BY DEF ThreadLeft
<1>2. ASSUME QueueInv, [Next]_vars
      PROVE  [ThreadNearer]_vars
  <2> SUFFICES ASSUME ~run \/ hup, Next
               PROVE  /\ ~run' \/ hup'
                      /\ ThreadLeft' <= ThreadLeft
                      /\ Run => ThreadLeft' < ThreadLeft
    BY <1>2 DEF ThreadNearer
  <2>1. ~run => ~run'
    BY RunStaysCleared
  <2>2. CASE Run
    <3>1. hup' = hup
      BY <1>2, <2>2, RunSteps
    <3>2. ThreadLeft' < ThreadLeft
      <4>1. CASE pc = "loop" /\ pc' = (IF run THEN "poll" ELSE "end") /\ run' = run
        BY <2>1, <3>1, <4>1 DEF ThreadLeft
      <4>2. CASE /\ pc = "poll" /\ run' = run
                 /\ pc' \in (IF hup THEN {"end"} ELSE {"loop", "getline", "process"})
        <5>1. CASE hup
          BY <4>2, <5>1 DEF ThreadLeft
        <5>2. CASE ~hup
          BY <2>1, <4>2, <5>2 DEF ThreadLeft
        <5> QED
          BY <5>1, <5>2
      <4>3. CASE pc = "getline" /\ pc' = "process" /\ run' = run
        BY <4>3 DEF ThreadLeft
      <4>4. CASE pc = "process" /\ pc' \in {"loop", "aborted"}
        BY <2>1, <4>4 DEF ThreadLeft
      <4> QED
        BY <1>2, <2>2, <4>1, <4>2, <4>3, <4>4, RunSteps
    <3> QED
      BY <2>1, <3>1, <3>2 DEF ThreadLeft
  <2>3. CASE ~Run
    <3>1. pc' = pc /\ (hup => hup')
      BY <2>3 DEF Next, Client, Send, SendRest, HangUp, FatalElsewhere, client
    <3> QED
      BY <2>1, <2>3, <3>1 DEF ThreadLeft
  <2> QED
    BY <2>2, <2>3
<1>3. QuickInv => QueueInv
  BY DEF QuickInv
<1> QED
  BY QuickAlways, <1>1, <1>2, <1>3, PTL DEF Spec, ThreadIsBounded

================================================================================
