----------------------------- MODULE Hauppauge2Proofs -----------------------------
(***************************************************************************)
(* Theorems about the program, for every set of durations and every delay  *)
(* of a sleep.                                                             *)
(*                                                                         *)
(* The time a recording takes is bounded by what one round knows of the    *)
(* round before: it began before the duration was over.                    *)
(***************************************************************************)
EXTENDS Hauppauge2, TLAPS

Early == {"command line", "file", "log", "find", "params", "serve", "usb", "device"}
InUse == {"start", "round", "sleep", "signal", "stop", "close"}

\* what a source gives for the options that are read here
Gives(s) == s["duration"] = <<>> \/ \E d \in Durations : s["duration"] = <<d>>

Types ==
    /\ pc \in Early \cup InUse \cup {"exited", "killed", "aborted"}
    /\ pc = "file" => file # <<>>
    /\ DOMAIN vm = Options
    /\ vm["duration"].value = <<>> \/ \E d \in Nat : vm["duration"].value = <<d>>
    /\ Gives(cmd) /\ (file # <<>> => Gives(file[1]))
    /\ level \in DEBUG..CRITICAL
    /\ exit \in {<<>>, <<0>>, <<-1>>, <<-3>>, <<-4>>}
    /\ clock \in Nat /\ elapsed \in Nat /\ wake \in Nat

\* the device is open from its opening to its close
DeviceInv ==
    /\ pc \in InUse => device
    /\ pc \in Early \cup {"exited"} => ~device /\ ~capturing

\* a round begins before the duration is over, or one sleep later
TimeInv ==
    /\ pc \in Early \cup {"start"} => clock = 0
    /\ pc \in {"round", "sleep"} => Count("duration") /\ Value("duration") > 0
    /\ pc = "signal" => ~(Count("duration") /\ Value("duration") > 0)
    /\ pc = "round" => clock < Value("duration") * Second + Second + MaxLate
    /\ pc = "sleep" => /\ wake - Second < Value("duration") * Second + Second + MaxLate
                       /\ wake >= Second
                       /\ elapsed = (wake - Second) \div Second
                       /\ clock >= wake - Second /\ clock <= wake + MaxLate
    /\ RecordsItsDuration

LEMMA LevelRange == \A name : LevelFilter(name) \in DEBUG..CRITICAL
BY DEF LevelFilter, DEBUG, INFO, WARNING, NOTICE, ERROR, CRITICAL

\* a source gives what it is enumerated with
LEMMA SourceGives ==
    ASSUME NEW overrides, NEW serials, NEW s \in Sources(overrides, serials)
    PROVE  Gives(s)
BY DEF Sources, Gives, Options

\* the duration of a set of options is a number or not there
Numbered(v) == v["duration"].value = <<>> \/ \E d \in Nat : v["duration"].value = <<d>>

\* whatever is stored, it stays so
LEMMA StoredDuration ==
    ASSUME Types, NEW given, Gives(given),
           NEW defaults, defaults = CommandLineDefaults \/ defaults = FileDefaults
    PROVE  /\ DOMAIN Store(vm, given, defaults) = Options
           /\ Numbered(Store(vm, given, defaults))
<1>1. "duration" \in Options
  BY DEF Options
<1>2. defaults["duration"] = <<0>>
  BY <1>1 DEF CommandLineDefaults, FileDefaults, Options
<1>3. Numbered(vm)
  BY DEF Types, Numbered
<1>4. given["duration"] = <<>> \/ \E d \in Nat : given["duration"] = <<d>>
  BY DurationsAssumption DEF Gives
<1> QED
  BY <1>1, <1>2, <1>3, <1>4 DEF Store, Numbered

LEMMA SomeStoredDuration ==
    ASSUME Types, NEW given, Gives(given), NEW S, NEW f
    PROVE  DOMAIN StoreSome(vm, given, S, f) = Options /\ Numbered(StoreSome(vm, given, S, f))
<1>1. "duration" \in Options
  BY DEF Options
<1>3. Numbered(vm)
  BY DEF Types, Numbered
<1>4. given["duration"] = <<>> \/ \E d \in Nat : given["duration"] = <<d>>
  BY DurationsAssumption DEF Gives
<1> QED
  BY <1>1, <1>3, <1>4 DEF StoreSome, Numbered

ProgInv == Types /\ DeviceInv /\ TimeInv

LEMMA ProgInit ==
    ASSUME Init
    PROVE  ProgInv
<1>1. Types
  <2>1. Gives(cmd)
    BY SourceGives DEF Init
  <2>2. file # <<>> => Gives(file[1])
    <3>1. file = <<>> \/ \E f \in Sources({<<>>, <<"info">>}, {<<>>, <<"B">>}) : file = <<f>>
      BY DEF Init
    <3> QED
      BY <3>1, SourceGives
  <2>3. DOMAIN vm = Options /\ vm["duration"].value = <<>>
    BY DEF Init, Nothing, Options
  <2>4. /\ pc = "command line" /\ level = 1 /\ exit = <<>>
        /\ clock = 0 /\ elapsed = 0 /\ wake = 0
    BY DEF Init, INFO
  <2>5. level \in DEBUG..CRITICAL
    <3>1. level = 1
      BY <2>4
    <3>2. DEBUG..CRITICAL = 0..5
      BY DEF DEBUG, CRITICAL
    <3> QED
      BY <3>1, <3>2
  <2>6. pc \in Early \cup InUse \cup {"exited", "killed", "aborted"} /\ pc # "file"
    BY <2>4 DEF Early, InUse
  <2>7. clock \in Nat /\ elapsed \in Nat /\ wake \in Nat
    BY <2>4
  <2> QED
    BY <2>1, <2>2, <2>3, <2>4, <2>5, <2>6, <2>7 DEF Types
<1>2. DeviceInv /\ TimeInv
  <2>1. pc = "command line" /\ device = FALSE /\ capturing = FALSE /\ clock = 0
    BY DEF Init
  <2> QED
    BY <2>1 DEF DeviceInv, TimeInv, RecordsItsDuration, Early, InUse
<1> QED
  BY <1>1, <1>2 DEF ProgInv

LEMMA ProgStep ==
    ASSUME ProgInv, [Next]_vars
    PROVE  ProgInv'
<1> USE DEF ProgInv
<1>0. /\ Early = {"command line", "file", "log", "find", "params", "serve", "usb", "device"}
      /\ InUse = {"start", "round", "sleep", "signal", "stop", "close"}
  BY DEF Early, InUse
<1>1. CASE ReadCommandLine \/ ReadFile
  <2>1. /\ pc \in Early /\ pc' \in {"file", "log"} /\ (pc' = "file" => file # <<>>)
        /\ UNCHANGED <<sources, level, params, device, capturing, exit, timing>>
    BY <1>1 DEF ReadCommandLine, ReadFile, Early
  <2>2. \E given, defaults, S, f :
            /\ Gives(given) /\ defaults \in {CommandLineDefaults, FileDefaults}
            /\ vm' = Store(vm, given, defaults) \/ vm' = StoreSome(vm, given, S, f)
    <3>1. CASE ReadCommandLine
      <4>1. Gives(cmd) /\ \E S, f : \/ vm' = Store(vm, cmd, CommandLineDefaults)
                                    \/ vm' = StoreSome(vm, cmd, S, f)
        BY <3>1 DEF ReadCommandLine, Stored, GivenUp, Types
      <4> QED
        BY <4>1
    <3>2. CASE ReadFile
      <4>1. Gives(file[1]) /\ \E S, f : \/ vm' = Store(vm, file[1], FileDefaults)
                                        \/ vm' = StoreSome(vm, file[1], S, f)
        BY <3>2 DEF ReadFile, Stored, GivenUp, Types
      <4> QED
        BY <4>1
    <3> QED
      BY <1>1, <3>1, <3>2
  <2>3. DOMAIN vm' = Options /\ (vm'["duration"].value = <<>> \/ \E d \in Nat : vm'["duration"].value = <<d>>)
    <3>1. PICK given, defaults, S, f :
            /\ Gives(given) /\ defaults \in {CommandLineDefaults, FileDefaults}
            /\ vm' = Store(vm, given, defaults) \/ vm' = StoreSome(vm, given, S, f)
      BY <2>2
    <3>2. CASE vm' = Store(vm, given, defaults)
      <4>1. DOMAIN Store(vm, given, defaults) = Options /\ Numbered(Store(vm, given, defaults))
        BY <3>1, StoredDuration
      <4> QED
        BY <3>2, <4>1 DEF Numbered
    <3>3. CASE vm' = StoreSome(vm, given, S, f)
      <4>1. DOMAIN StoreSome(vm, given, S, f) = Options /\ Numbered(StoreSome(vm, given, S, f))
        BY <3>1, SomeStoredDuration
      <4> QED
        BY <3>3, <4>1 DEF Numbered
    <3> QED
      BY <3>1, <3>2, <3>3
  <2>4. Types'
    BY <2>1, <2>3 DEF Types, Gives, sources, timing, Early
  <2>5. DeviceInv' /\ TimeInv'
    BY <1>0, <2>1 DEF DeviceInv, TimeInv, RecordsItsDuration, timing
  <2> QED
    BY <2>4, <2>5
<1>2. CASE ListDevices \/ SetLogLevel \/ FindDevice \/ ReadParams \/ ServeMythTV \/ OpenUsb \/ OpenDevice
  <2>1. /\ pc \in Early /\ pc' \in {"find", "params", "serve", "usb", "device", "start", "exited"}
        /\ UNCHANGED <<sources, vm, capturing, timing>>
        /\ exit' \in {<<0>>, <<-1>>, <<-3>>, <<-4>>, exit}
        /\ pc' = "start" => device'
        /\ pc' # "start" => device' = device
    BY <1>2 DEF ListDevices, SetLogLevel, FindDevice, ReadParams, ServeMythTV, OpenUsb,
                OpenDevice, Exit, Early
  <2>2. level' \in DEBUG..CRITICAL
    <3>1. CASE SetLogLevel
      BY <3>1, LevelRange DEF SetLogLevel, Types
    <3>2. CASE UNCHANGED level
      BY <3>2 DEF Types
    <3> QED
      BY <1>2, <3>1, <3>2 DEF ListDevices, FindDevice, ReadParams, ServeMythTV, OpenUsb, OpenDevice
  <2>3. Types'
    BY <2>1, <2>2 DEF Types, Gives, sources, timing, Early, InUse
  <2>4. DeviceInv' /\ TimeInv'
    BY <1>0, <2>1 DEF DeviceInv, TimeInv, RecordsItsDuration, timing
  <2> QED
    BY <2>3, <2>4
<1>3. CASE ReadEmpty \/ StartEncoding \/ SignalComes \/ StopEncoding \/ Close \/ Killed
  <2>1. /\ pc' \in {"round", "signal", "close", "stop", "exited", "killed", "aborted"}
        /\ UNCHANGED <<sources, vm, level, timing>>
        /\ exit' \in {<<0>>, exit}
        /\ pc' \in {"round", "signal", "close", "stop"} => device
        /\ pc' = "exited" => ~device' /\ ~capturing'
        /\ pc' # "exited" => device' = device
    BY <1>3 DEF ReadEmpty, StartEncoding, SignalComes, StopEncoding, Close, Killed,
                     Exit, DeviceInv, InUse
  <2>2. Types'
    BY <2>1 DEF Types, Gives, sources, timing, Early, InUse
  <2>3. DeviceInv'
    BY <1>0, <2>1 DEF DeviceInv
  <2>4. TimeInv'
    <3>1. pc' = "round" => clock = 0 /\ Count("duration") /\ Value("duration") > 0
      BY <1>0, <1>3 DEF ReadEmpty, StartEncoding, SignalComes, StopEncoding, Close, Killed,
                     Exit, TimeInv
    <3>2. pc' \in {"stop", "signal"} => ~(Count("duration") /\ Value("duration") > 0)
      BY <1>3 DEF ReadEmpty, StartEncoding, SignalComes, StopEncoding, Close, Killed,
                     Exit, TimeInv
    <3>3. /\ MaxLate \in Nat /\ (Count("duration") => Value("duration") \in Nat)
          /\ Second = 2 /\ Count("duration")' = Count("duration")
          /\ Value("duration")' = Value("duration") /\ clock' = clock
      BY <2>1, LateAssumption DEF Types, Count, Value, Second, timing
    <3>4. CASE pc' = "round"
      <4>1. clock' < Value("duration")' * Second + Second + MaxLate
        BY <3>1, <3>3, <3>4
      <4> QED
        BY <1>0, <3>1, <3>3, <3>4, <4>1 DEF TimeInv, RecordsItsDuration
    <3>5. CASE pc' \in {"stop", "signal"}
      BY <1>0, <3>2, <3>3, <3>5 DEF TimeInv, RecordsItsDuration
    <3>6. CASE pc' \in {"close", "exited", "killed", "aborted"}
      BY <1>0, <3>6 DEF TimeInv, RecordsItsDuration
    <3> QED
      BY <2>1, <3>4, <3>5, <3>6
  <2> QED
    BY <2>2, <2>3, <2>4
<1> DEFINE D == Value("duration")
<1>4. /\ MaxLate \in Nat /\ Second = 2
      /\ clock \in Nat /\ elapsed \in Nat /\ wake \in Nat
      /\ Count("duration") => D \in Nat
  BY LateAssumption DEF Second, Types, Count, Value
<1>5. CASE Round \/ Wake \/ Tick
  <2>1. /\ UNCHANGED <<sources, vm, level, device, capturing, exit>>
        /\ pc \in {"round", "sleep"} /\ pc' \in {"round", "sleep", "stop"}
        /\ D' = D /\ Count("duration")' = Count("duration")
        /\ Count("duration") /\ D > 0 /\ D \in Nat
    BY <1>4, <1>5 DEF Round, Wake, Tick, TimeInv, Count, Value
  <2>2. clock' \in Nat /\ elapsed' \in Nat /\ wake' \in Nat /\ TimeInv'
    <3> HIDE DEF D
    <3>1. CASE Round
      <4>1. /\ pc' = "sleep" /\ elapsed' = clock \div 2 /\ wake' = clock + 2 /\ clock' = clock
            /\ clock < D * 2 + 2 + MaxLate
        BY <1>4, <3>1 DEF Round, TimeInv, D
      <4>2. /\ clock' \in Nat /\ elapsed' \in Nat /\ wake' \in Nat
            /\ wake' - 2 < D * 2 + 2 + MaxLate /\ wake' >= 2
            /\ elapsed' = (wake' - 2) \div 2 /\ clock' >= wake' - 2 /\ clock' <= wake' + MaxLate
        BY <1>4, <2>1, <4>1
      <4> QED
        BY <1>0, <1>4, <2>1, <4>1, <4>2 DEF TimeInv, RecordsItsDuration, D
    <3>2. CASE Wake
      <4>1. /\ clock' = clock /\ elapsed' = elapsed /\ wake' = wake /\ clock >= wake
            /\ pc' = IF elapsed < D THEN "round" ELSE "stop"
            /\ wake - 2 < D * 2 + 2 + MaxLate /\ wake >= 2
            /\ elapsed = (wake - 2) \div 2 /\ clock <= wake + MaxLate
        BY <1>4, <3>2 DEF Wake, TimeInv, timing, D
      <4>2. CASE elapsed < D
        <5>1. clock < D * 2 + 2 + MaxLate
          BY <1>4, <2>1, <4>1, <4>2
        <5> QED
          BY <1>0, <1>4, <2>1, <4>1, <4>2, <5>1 DEF TimeInv, RecordsItsDuration, D
      <4>3. CASE ~(elapsed < D)
        <5>1. clock >= D * 2 /\ clock < D * 2 + 2 * (2 + MaxLate)
          BY <1>4, <2>1, <4>1, <4>3
        <5> QED
          BY <1>0, <1>4, <2>1, <4>1, <4>3, <5>1 DEF TimeInv, RecordsItsDuration, D
      <4> QED
        BY <4>2, <4>3
    <3>3. CASE Tick
      <4>1. /\ pc' = "sleep" /\ clock' = clock + 1 /\ elapsed' = elapsed /\ wake' = wake
            /\ clock < wake + MaxLate
            /\ wake - 2 < D * 2 + 2 + MaxLate /\ wake >= 2
            /\ elapsed = (wake - 2) \div 2 /\ clock >= wake - 2
        BY <1>4, <3>3 DEF Tick, TimeInv, D
      <4>2. clock' \in Nat /\ clock' >= wake' - 2 /\ clock' <= wake' + MaxLate
        BY <1>4, <4>1
      <4> QED
        BY <1>0, <1>4, <2>1, <4>1, <4>2 DEF TimeInv, RecordsItsDuration, D
    <3> QED
      BY <1>5, <3>1, <3>2, <3>3
  <2>3. Types' /\ DeviceInv'
    BY <1>0, <2>1, <2>2 DEF Types, DeviceInv, Gives, sources
  <2> QED
    BY <2>2, <2>3
<1>6. CASE UNCHANGED vars
  <2>1. UNCHANGED <<sources, pc, vm, level, device, capturing, exit, clock, elapsed, wake>>
    BY <1>6 DEF vars, timing
  <2> QED
    BY <2>1 DEF Types, Gives, DeviceInv, TimeInv, RecordsItsDuration, Count, Value, sources
<1> QED
  BY <1>1, <1>2, <1>3, <1>5, <1>6 DEF Next

LEMMA ProgAlways == Spec => []ProgInv
<1>1. Init => ProgInv
  BY ProgInit
<1>2. ProgInv /\ [Next]_vars => ProgInv'
  BY ProgStep
<1> QED
  BY <1>1, <1>2, PTL DEF Spec

-----------------------------------------------------------------------------
(* What the options are, from the reading of the second source on.         *)

Unread == {"command line", "file", "log", "find"}
Wanted(o) == First(cmd[o], FromFile(o))

OptionsInv ==
    /\ DOMAIN params = {"serial", "videoInput", "videoLatency"}
    /\ pc = "command line" => vm = Nothing /\ ~bad
    /\ pc = "file" /\ ~bad => vm = Store(Nothing, cmd, CommandLineDefaults)
    /\ pc \in (Early \cup InUse) \ {"command line", "file"} /\ ~bad =>
        /\ vm["serial"].value = Wanted("serial")
        /\ vm["duration"].value = First(Wanted("duration"), <<0>>)
    /\ pc \in Unread => params.serial = <<>>
    /\ pc \in (Early \cup InUse) \ Unread => params.serial = vm["serial"].value

\* the command line, and then the file, are stored in a map that is empty
LEMMA StoredTwice ==
    ASSUME NEW o \in Options, NEW a, NEW b, NEW d, NEW e
    PROVE  /\ Store(Nothing, a, d)[o].value = First(a[o], d[o])
           /\ Store(Store(Nothing, a, d), b, e)[o].value =
                  First(a[o], First(b[o], First(d[o], e[o])))
<1>1. Store(Nothing, a, d)[o] = IF a[o] # <<>> THEN [value |-> a[o], is |-> "final"]
                                ELSE [value |-> d[o], is |-> "default"]
  BY DEF Store, Nothing
<1>2. Store(Store(Nothing, a, d), b, e)[o] =
        IF Store(Nothing, a, d)[o].is = "final" THEN Store(Nothing, a, d)[o]
        ELSE IF b[o] # <<>> THEN [value |-> b[o], is |-> "final"]
        ELSE IF Store(Nothing, a, d)[o].value # <<>> \/ Store(Nothing, a, d)[o].is = "empty"
             THEN Store(Nothing, a, d)[o]
        ELSE [value |-> e[o], is |-> "default"]
  BY DEF Store
<1> QED
  BY <1>1, <1>2 DEF First

LEMMA OptionsInit ==
    ASSUME Init
    PROVE  OptionsInv
<1>1. params.serial = <<>> /\ DOMAIN params = {"serial", "videoInput", "videoLatency"}
  <2>1. PICK x : params = [serial |-> <<>>, videoInput |-> x, videoLatency |-> x]
    BY DEF Init
  <2> QED
    BY <2>1
<1>2. pc = "command line" /\ vm = Nothing /\ bad = FALSE
  BY DEF Init
<1> QED
  BY <1>1, <1>2 DEF OptionsInv, Unread, Early, InUse

LEMMA OptionsStep ==
    ASSUME ProgInv, OptionsInv, [Next]_vars
    PROVE  OptionsInv'
<1>0. /\ Early = {"command line", "file", "log", "find", "params", "serve", "usb", "device"}
      /\ InUse = {"start", "round", "sleep", "signal", "stop", "close"}
      /\ Unread = {"command line", "file", "log", "find"}
      /\ "serial" \in Options /\ "duration" \in Options
  BY DEF Early, InUse, Unread, Options
<1>1. /\ CommandLineDefaults["serial"] = <<>> /\ FileDefaults["serial"] = <<>>
      /\ CommandLineDefaults["duration"] = <<0>> /\ FileDefaults["duration"] = <<0>>
  BY DEF CommandLineDefaults, FileDefaults, Options
<1>2. CASE ReadCommandLine
  <2>1. /\ pc = "command line" /\ vm = Nothing /\ UNCHANGED <<cmd, file, params>>
        /\ pc' \in {"file", "log"}
        /\ pc' = "file" => file # <<>>
        /\ ~bad' => pc' = IF file # <<>> THEN "file" ELSE "log"
        /\ ~bad' => vm' = Store(Nothing, cmd, CommandLineDefaults)
        /\ params.serial = <<>> /\ DOMAIN params = {"serial", "videoInput", "videoLatency"}
    BY <1>0, <1>2 DEF ReadCommandLine, Stored, GivenUp, OptionsInv, sources
  <2>2. CASE file # <<>>
    BY <1>0, <2>1, <2>2 DEF OptionsInv
  <2>3. CASE file = <<>>
    <3>1. pc' = "log" /\ Wanted("serial")' = cmd["serial"] /\ Wanted("duration")' = cmd["duration"]
      BY <2>1, <2>3 DEF Wanted, First, FromFile
    <3>2. ~bad' => /\ vm'["serial"].value = First(cmd["serial"], <<>>)
                   /\ vm'["duration"].value = First(cmd["duration"], <<0>>)
      <4> DEFINE given == Store(Nothing, cmd, CommandLineDefaults)
      <4>1. \A o \in Options : given[o].value = First(cmd[o], CommandLineDefaults[o])
        BY StoredTwice
      <4> HIDE DEF given
      <4>2. /\ given["serial"].value = First(cmd["serial"], <<>>)
            /\ given["duration"].value = First(cmd["duration"], <<0>>)
        BY <1>0, <1>1, <4>1
      <4>3. ~bad' => vm' = given
        BY <2>1 DEF given
      <4> QED
        BY <4>2, <4>3
    <3>3. First(cmd["serial"], <<>>) = cmd["serial"]
      BY DEF First
    <3>4. /\ pc' = "log" /\ DOMAIN params' = {"serial", "videoInput", "videoLatency"}
          /\ params'.serial = <<>>
      BY <2>1, <3>1
    <3>5. ~bad' => /\ vm'["serial"].value = Wanted("serial")'
                   /\ vm'["duration"].value = First(Wanted("duration"), <<0>>)'
      BY <3>1, <3>2, <3>3 DEF First
    <3> QED
      BY <1>0, <3>4, <3>5 DEF OptionsInv
  <2> QED
    BY <2>2, <2>3
<1>3. CASE ReadFile
  <2>1. /\ pc = "file" /\ pc' = "log" /\ UNCHANGED <<cmd, file, params>>
        /\ ~bad' => ~bad /\ vm' = Store(vm, file[1], FileDefaults)
        /\ ~bad => vm = Store(Nothing, cmd, CommandLineDefaults)
        /\ params.serial = <<>> /\ DOMAIN params = {"serial", "videoInput", "videoLatency"}
    <3>1. /\ pc = "file" /\ pc' = "log" /\ UNCHANGED <<cmd, file, params>>
          /\ ~bad' => bad' = bad /\ vm' = Store(vm, file[1], FileDefaults)
      BY <1>3 DEF ReadFile, Stored, GivenUp, sources
    <3>2. /\ ~bad => vm = Store(Nothing, cmd, CommandLineDefaults)
          /\ params.serial = <<>> /\ DOMAIN params = {"serial", "videoInput", "videoLatency"}
      BY <1>0, <3>1 DEF OptionsInv
    <3> QED
      BY <3>1, <3>2
  <2>2. file # <<>>
    BY <2>1 DEF ProgInv, Types
  <2>3. Wanted("serial")' = First(cmd["serial"], file[1]["serial"])
    BY <2>1, <2>2 DEF Wanted, First, FromFile
  <2>4. Wanted("duration")' = First(cmd["duration"], file[1]["duration"])
    BY <2>1, <2>2 DEF Wanted, First, FromFile
  <2>5. ASSUME ~bad'
        PROVE  /\ vm'["serial"].value = First(cmd["serial"], First(file[1]["serial"], <<>>))
               /\ vm'["duration"].value = First(cmd["duration"], First(file[1]["duration"], <<0>>))
    <3>1. vm' = Store(Store(Nothing, cmd, CommandLineDefaults), file[1], FileDefaults)
      BY <2>1, <2>5
    <3>2. First(<<>>, <<>>) = <<>> /\ First(<<0>>, <<0>>) = <<0>>
      BY DEF First
    <3> DEFINE given == Store(Store(Nothing, cmd, CommandLineDefaults), file[1], FileDefaults)
    <3>3. \A o \in Options :
            given[o].value =
                First(cmd[o], First(file[1][o], First(CommandLineDefaults[o], FileDefaults[o])))
      BY StoredTwice
    <3>4. vm' = given
      BY <3>1
    <3> HIDE DEF given
    <3> QED
      BY <1>0, <1>1, <3>2, <3>3, <3>4
  <2>6. /\ \A a, b : First(a, First(b, <<>>)) = First(a, b)
        /\ \A a, b : First(a, First(b, <<0>>)) = First(First(a, b), <<0>>)
    BY DEF First
  <2>7. ~bad' => /\ vm'["serial"].value = Wanted("serial")'
                 /\ vm'["duration"].value = First(Wanted("duration"), <<0>>)'
    <3>1. First(Wanted("duration"), <<0>>)' = First(Wanted("duration")', <<0>>)
      BY DEF First
    <3> QED
      BY <2>3, <2>4, <2>5, <2>6, <3>1
  <2> QED
    BY <1>0, <2>1, <2>7 DEF OptionsInv
<1>4. CASE FindDevice
  <2>1. /\ pc = "find" /\ pc' \in {"params", "exited"}
        /\ UNCHANGED <<cmd, file, vm, bad>>
        /\ params' = IF vm["serial"].value # <<>>
                     THEN [params EXCEPT !.serial = vm["serial"].value] ELSE params
    BY <1>4 DEF FindDevice, Exit, Count, sources
  <2>2. DOMAIN params = {"serial", "videoInput", "videoLatency"} /\ params.serial = <<>>
    BY <1>0, <2>1 DEF OptionsInv
  <2>3. params'.serial = vm["serial"].value /\ DOMAIN params' = {"serial", "videoInput", "videoLatency"}
    BY <2>1, <2>2
  <2> QED
    BY <1>0, <2>1, <2>3 DEF OptionsInv, Wanted, First, FromFile
<1>5. CASE ListDevices \/ SetLogLevel \/ ReadEmpty \/ ServeMythTV \/ OpenUsb \/ OpenDevice
           \/ StartEncoding \/ Round \/ Wake \/ Tick \/ SignalComes \/ StopEncoding \/ Close \/ Killed
  <2>0. UNCHANGED <<cmd, file, vm, bad, params>>
    BY <1>5 DEF ListDevices, SetLogLevel, ReadEmpty, ServeMythTV, OpenUsb, OpenDevice,
                StartEncoding, Round, Wake, Tick, SignalComes, StopEncoding, Close, Killed,
                sources
  <2>1. \/ pc' \in {"exited", "killed", "aborted"}
        \/ pc = "log" /\ pc' = "find"
        \/ pc \in (Early \cup InUse) \ Unread /\ pc' \in (Early \cup InUse) \ Unread
    <3>1. CASE ListDevices \/ ReadEmpty \/ ServeMythTV \/ Close \/ Killed
      BY <3>1 DEF ListDevices, ReadEmpty, ServeMythTV, Close, Killed, Exit
    <3>2. CASE SetLogLevel \/ OpenUsb \/ OpenDevice
      BY <1>0, <3>2 DEF SetLogLevel, OpenUsb, OpenDevice, Exit
    <3>3. CASE StartEncoding \/ Round \/ Wake \/ Tick \/ SignalComes \/ StopEncoding
      BY <1>0, <3>3 DEF StartEncoding, Round, Wake, Tick, SignalComes, StopEncoding
    <3> QED
      BY <1>5, <3>1, <3>2, <3>3
  <2>2. CASE pc' \in {"exited", "killed", "aborted"}
    BY <1>0, <2>0, <2>1, <2>2 DEF OptionsInv, Wanted, First, FromFile
  <2>3. CASE pc' \notin {"exited", "killed", "aborted"}
    BY <1>0, <2>0, <2>1, <2>3 DEF OptionsInv, Wanted, First, FromFile
  <2> QED
    BY <2>2, <2>3
<1>6. CASE ReadParams
  <2>1. /\ pc = "params" /\ pc' \in {"serve", "usb"}
        /\ UNCHANGED <<cmd, file, vm, bad>>
        /\ params' \in {params, [params EXCEPT !.videoInput = Value("input")]}
    BY <1>6 DEF ReadParams, sources
  <2>2. /\ DOMAIN params = {"serial", "videoInput", "videoLatency"}
        /\ params.serial = vm["serial"].value
    BY <1>0, <2>1 DEF OptionsInv
  <2>3. /\ DOMAIN params' = {"serial", "videoInput", "videoLatency"}
        /\ params'.serial = vm["serial"].value
    BY <2>1, <2>2
  <2> QED
    BY <1>0, <2>1, <2>3 DEF OptionsInv, Wanted, First, FromFile
<1>7. CASE UNCHANGED vars
  BY <1>7 DEF vars, sources, OptionsInv, Wanted, First, FromFile
<1> QED
  BY <1>2, <1>3, <1>4, <1>5, <1>6, <1>7 DEF Next

LEMMA OptionsAlways == Spec => []OptionsInv
<1>1. Init => OptionsInv
  BY OptionsInit
<1>2. ProgInv /\ OptionsInv /\ [Next]_vars => OptionsInv'
  BY OptionsStep
<1> QED
  BY <1>1, <1>2, ProgAlways, PTL DEF Spec

-----------------------------------------------------------------------------
\* Every variable keeps its type, a step that uses the device finds it open, and
\* an exit leaves it closed.
THEOREM TypesHold == Spec => []TypeOK
<1>1. ProgInv => TypeOK
  BY DEF ProgInv, Types, DeviceInv, TypeOK, InUse, Early
<1> QED
  BY ProgAlways, <1>1, PTL

\* A recording is never shorter than its duration and at most two sleeps longer,
\* for every duration and every lateness of a sleep.
THEOREM RecordingTime == Spec => []RecordsItsDuration
<1>1. ProgInv => RecordsItsDuration
  BY DEF ProgInv, TimeInv
<1> QED
  BY ProgAlways, <1>1, PTL

\* What the command line gives is what the program looks for and how long it
\* records, whatever the file says, for every duration.
THEOREM CommandLineFirst == Spec => []CommandLineWins
<1>1. OptionsInv => CommandLineWins
  BY DEF OptionsInv, CommandLineWins, Wanted, Early, InUse, Unread
<1> QED
  BY OptionsAlways, <1>1, PTL
=================================================================================
