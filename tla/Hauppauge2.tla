------------------------------- MODULE Hauppauge2 -------------------------------
(***************************************************************************)
(* The program from its start to its end (main, src/hauppauge2.cpp), with  *)
(* the log filter it sets (setLogLevelFilter, src/Logger.cpp).             *)
(*                                                                         *)
(* It reads options from the command line and from a file, sets the log    *)
(* filter, looks for the device, and either serves MythTV or records by    *)
(* itself, for a duration or until a signal.  The device and the recorder  *)
(* are modules of their own: here each of their calls has its outcomes.    *)
(* An option is <<>> or <<its value>>.  Those that are left out are read   *)
(* the way "serial" (a text, no default) or "input" (a number, with a      *)
(* default) is.                                                            *)
(***************************************************************************)
EXTENDS Integers, Sequences

CONSTANTS
    Durations,  \* the values of --duration, in seconds
    MaxLate     \* bound of the model: ticks by which a sleep is too long

ASSUME DurationsAssumption == Durations \subseteq Nat
ASSUME LateAssumption == MaxLate \in Nat

Second == 2  \* ticks of the model in a second

(* The levels of Logger.h, in its order, and the one before any filter.    *)
DEBUG == 0
INFO == 1
NOTICE == 2
WARNING == 3
ERROR == 4
CRITICAL == 5

\* setLogLevelFilter(const std::string&), which does not look at the case
LevelFilter(name) ==
    CASE name = "critical" -> CRITICAL
      [] name = "error" -> ERROR
      [] name = "warning" -> WARNING
      [] name = "notice" -> NOTICE
      [] name = "info" -> INFO
      [] OTHER -> DEBUG

-----------------------------------------------------------------------------
(* Options.                                                                *)

Options == {"loglevel", "override-loglevel", "serial", "duration", "input"}

\* those whose text may be no value: every text is a string
Numbers == {"duration", "input"}

CommandLineDefaults ==
    [o \in Options |-> CASE o = "loglevel" -> <<"notice">>
                         [] o = "duration" -> <<0>>
                         [] o = "input" -> <<3>>
                         [] OTHER -> <<>>]

FileDefaults == [CommandLineDefaults EXCEPT !["override-loglevel"] = <<"notice">>]

(* What a user may give: the names of levels are those of the help text.   *)
Sources(overrides, serials) ==
    {[o \in Options |->
        CASE o = "loglevel" -> level
          [] o = "override-loglevel" -> override
          [] o = "serial" -> serial
          [] o = "duration" -> duration
          [] o = "input" -> input] :
     level \in {<<>>, <<"info">>, <<"err">>}, override \in overrides,
     serial \in serials, input \in {<<>>, <<0>>},
     duration \in {<<>>} \cup {<<d>> : d \in Durations}}

VARIABLES
    cmd,       \* what the command line gives
    file,      \* <<>> or <<what the file of --config gives>>
    mode,      \* what the options ask for: to list, to serve MythTV or to record
    pc,        \* the step of main
    vm,        \* the options, each with what its entry is
    bad,       \* a source could not be parsed
    level,     \* the log filter
    params,    \* three of the parameters
    device,    \* the device is open
    capturing, \* it captures
    exit,      \* <<>> or <<exit code>>
    clock,     \* ticks since StartEncoding returned
    elapsed,   \* seconds, the local of the loop
    wake       \* when the sleep of the loop is over

sources == <<cmd, file>>
timing == <<clock, elapsed, wake>>
vars == <<sources, mode, pc, vm, bad, level, params, device, capturing, exit, timing>>

(* An entry is a "default" (or there is none), "stored" by a source that   *)
(* was given up, "final" once a source is stored, or "empty": it is there  *)
(* and has no value, because its text could not be converted.              *)
Nothing == [o \in Options |-> [value |-> <<>>, is |-> "default"]]

(* params is not initialized: it is whatever the memory holds.             *)
Init ==
    /\ cmd \in Sources({<<>>}, {<<>>, <<"A">>})
    /\ file \in {<<>>} \cup {<<f>> : f \in Sources({<<>>, <<"info">>}, {<<>>, <<"B">>})}
    /\ mode \in {"list", "mythtv", "record"}
    /\ pc = "command line"
    /\ vm = Nothing /\ bad = FALSE
    /\ level = INFO
    /\ \E x \in {1, 77} :
        params = [serial |-> <<>>, videoInput |-> x, videoLatency |-> x]
    /\ device = FALSE /\ capturing = FALSE
    /\ exit = <<>>
    /\ clock = 0 /\ elapsed = 0 /\ wake = 0

(* boost's store: the first source that gives an option wins, a default    *)
(* gives way, and the defaults of the description fill what is left.  It   *)
(* throws at an option that a source that was given up has stored.         *)
Repeats(old, given) == \E o \in Options : given[o] # <<>> /\ old[o].is = "stored"

Store(old, given, defaults) ==
    [o \in Options |->
        IF old[o].is = "final" THEN old[o]
        ELSE IF given[o] # <<>> THEN [value |-> given[o], is |-> "final"]
        ELSE IF old[o].value # <<>> \/ old[o].is = "empty" THEN old[o]
        ELSE [value |-> defaults[o], is |-> "default"]]

(* An exception leaves what was stored before it, and no defaults.  If it  *)
(* is the text of f that could not be converted, f has lost its default    *)
(* and its entry is empty.                                                 *)
StoreSome(old, given, S, f) ==
    [o \in Options |->
        IF given[o] = <<>> \/ old[o].is \in {"stored", "final"} THEN old[o]
        ELSE IF o \in S THEN [value |-> given[o], is |-> "stored"]
        ELSE IF o = f THEN [value |-> <<>>, is |-> "empty"]
        ELSE old[o]]

(* A source is given up: the parser throws, or the store before or after   *)
(* the options that are modelled here; whether it had come to --mythtv and *)
(* --list, which then count, is left open.                                 *)
GivenUp(given) ==
    /\ \E f \in Numbers \cup {"another"} : \E S \in {{}, Options \ {f}} :
        vm' = StoreSome(vm, given, S, f)
    /\ mode' \in {mode, "record"}
    /\ bad' = TRUE

Stored(given, defaults) ==
    /\ ~Repeats(vm, given)
    /\ vm' = Store(vm, given, defaults)
    /\ UNCHANGED <<mode, bad>>

\* count() and as(): where an entry may be empty, Empty is looked at first
Empty(o) == vm[o].is = "empty"
Count(o) == vm[o].value # <<>>
Value(o) == vm[o].value[1]

-----------------------------------------------------------------------------
(* main, up to the parameters                                              *)

\* --config too may not be stored when the command line is given up
ReadCommandLine ==
    /\ pc = "command line"
    /\ \/ Stored(cmd, CommandLineDefaults) /\ pc' = IF file # <<>> THEN "file" ELSE "log"
       \/ GivenUp(cmd) /\ pc' \in IF file # <<>> THEN {"file", "log"} ELSE {"log"}
    /\ UNCHANGED <<sources, level, params, device, capturing, exit, timing>>

\* mutant: the file is stored in a map of its own, which takes the place of the other
ReadFileAnew ==
    /\ pc = "file"
    /\ vm' = Store(Nothing, file[1], FileDefaults) /\ UNCHANGED <<mode, bad>>
    /\ pc' = "log"
    /\ UNCHANGED <<sources, level, params, device, capturing, exit, timing>>

\* a file that cannot be opened is passed over without a word
ReadFile ==
    /\ pc = "file"
    /\ Stored(file[1], FileDefaults) \/ GivenUp(file[1])
    /\ pc' = "log"
    /\ UNCHANGED <<sources, level, params, device, capturing, exit, timing>>

Exit(code) == pc' = "exited" /\ exit' = <<code>>

\* --help and --version end here too
ListDevices ==
    /\ pc = "log" /\ mode = "list"
    /\ Exit(0)
    /\ UNCHANGED <<sources, mode, vm, bad, level, params, device, capturing, timing>>

SetLogLevel ==
    /\ pc = "log" /\ mode # "list"
    /\ level' = IF Count("override-loglevel") THEN LevelFilter(Value("override-loglevel"))
                ELSE IF Count("loglevel") THEN LevelFilter(Value("loglevel"))
                ELSE level
    /\ pc' = "find"
    /\ UNCHANGED <<sources, mode, vm, bad, params, device, capturing, exit, timing>>

FindDevice ==
    /\ pc = "find"
    /\ IF Count("serial")
       THEN /\ params' = [params EXCEPT !.serial = vm["serial"].value]
            /\ \/ pc' = "params" /\ UNCHANGED exit
               \/ Exit(-1)
       ELSE pc' = "params" /\ UNCHANGED <<params, exit>>
    /\ UNCHANGED <<sources, mode, vm, bad, level, device, capturing, timing>>

\* "videolatency" is not the name of an option, so count() is 0
ReadParams ==
    /\ pc = "params" /\ ~Empty("input")
    /\ params' = IF Count("input") THEN [params EXCEPT !.videoInput = Value("input")]
                 ELSE params
    /\ pc' = IF mode = "mythtv" THEN "serve" ELSE "usb"
    /\ UNCHANGED <<sources, mode, vm, bad, level, device, capturing, exit, timing>>

\* as() of an empty entry throws, and nothing catches it
ReadEmpty ==
    /\ \/ pc = "params" /\ Empty("input")
       \/ pc = "start" /\ Empty("duration")
    /\ pc' = "aborted"
    /\ UNCHANGED <<sources, mode, vm, bad, level, params, device, capturing, exit, timing>>

\* MythTV(params, desc) and Wait(): MythTV.tla
ServeMythTV ==
    /\ pc = "serve"
    /\ Exit(0)
    /\ UNCHANGED <<sources, mode, vm, bad, level, params, device, capturing, timing>>

-----------------------------------------------------------------------------
(* main, recording by itself                                               *)

\* USBWrapper_t::Open: UsbDevice.tla
OpenUsb ==
    /\ pc = "usb"
    /\ \/ pc' = "device" /\ UNCHANGED exit
       \/ Exit(-3)
    /\ UNCHANGED <<sources, mode, vm, bad, level, params, device, capturing, timing>>

OpenDevice ==
    /\ pc = "device"
    /\ \/ pc' = "start" /\ device' = TRUE /\ UNCHANGED exit
       \/ Exit(-4) /\ UNCHANGED device
    /\ UNCHANGED <<sources, mode, vm, bad, level, params, capturing, timing>>

\* mutant: a start that fails ends the program at once
StartOrExit ==
    /\ pc = "start" /\ ~Empty("duration")
    /\ \/ /\ capturing' = TRUE /\ UNCHANGED exit
          /\ pc' = IF Count("duration") /\ Value("duration") > 0 THEN "round" ELSE "signal"
       \/ capturing' = FALSE /\ Exit(0)
    /\ UNCHANGED <<sources, mode, vm, bad, level, params, device, timing>>

\* a start that fails ends the program with 0, like one that worked
StartEncoding ==
    /\ pc = "start" /\ ~Empty("duration")
    /\ \/ /\ capturing' = TRUE
          /\ pc' = IF Count("duration") /\ Value("duration") > 0 THEN "round" ELSE "signal"
       \/ capturing' = FALSE /\ pc' = "close"
    /\ UNCHANGED <<sources, mode, vm, bad, level, params, device, exit, timing>>

\* how long so far, and a sleep of a second
Round ==
    /\ pc = "round"
    /\ elapsed' = clock \div Second
    /\ wake' = clock + Second
    /\ pc' = "sleep"
    /\ UNCHANGED <<sources, mode, vm, bad, level, params, device, capturing, exit, clock>>

\* mutant: the time is compared before the sleep that ends it
WakeEarly ==
    /\ pc = "sleep"
    /\ clock >= wake
    /\ pc' = IF elapsed + 2 < Value("duration") THEN "round" ELSE "stop"
    /\ UNCHANGED <<sources, mode, vm, bad, level, params, device, capturing, exit, timing>>

Wake ==
    /\ pc = "sleep"
    /\ clock >= wake
    /\ pc' = IF elapsed < Value("duration") THEN "round" ELSE "stop"
    /\ UNCHANGED <<sources, mode, vm, bad, level, params, device, capturing, exit, timing>>

\* evtWait returns, if the signal did not end the process: it is not blocked
SignalComes ==
    /\ pc = "signal"
    /\ pc' = "stop"
    /\ UNCHANGED <<sources, mode, vm, bad, level, params, device, capturing, exit, timing>>

StopEncoding ==
    /\ pc = "stop"
    /\ capturing' \in {FALSE, capturing}
    /\ pc' = "close"
    /\ UNCHANGED <<sources, mode, vm, bad, level, params, device, exit, timing>>

\* the destructor of the encoder ends a capture that could not be stopped
Close ==
    /\ pc = "close"
    /\ device' = FALSE /\ capturing' = FALSE
    /\ Exit(0)
    /\ UNCHANGED <<sources, mode, vm, bad, level, params, timing>>

-----------------------------------------------------------------------------
(* SIGINT or SIGPIPE with its default action: nobody blocks them.          *)
Killed ==
    /\ pc \notin {"exited", "killed", "aborted"}
    /\ pc' = "killed"
    /\ UNCHANGED <<sources, mode, vm, bad, level, params, device, capturing, exit, timing>>

(* Time passes; a sleep is over at most MaxLate ticks too late.            *)
Tick ==
    /\ pc = "sleep" /\ clock < wake + MaxLate
    /\ clock' = clock + 1
    /\ UNCHANGED <<sources, mode, pc, vm, bad, level, params, device, capturing, exit>>
    /\ UNCHANGED <<elapsed, wake>>

Next ==
    \/ ReadCommandLine \/ ReadFile \/ ListDevices \/ SetLogLevel \/ FindDevice \/ ReadParams
    \/ ReadEmpty \/ ServeMythTV \/ OpenUsb \/ OpenDevice \/ StartEncoding \/ Round \/ Wake
    \/ StopEncoding \/ Close
    \/ SignalComes \/ Killed \/ Tick

Spec == Init /\ [][Next]_vars

-----------------------------------------------------------------------------
(* Properties.                                                             *)

\* Every variable keeps its type; the device is open from a successful open to
\* the close, and a process that has exited has closed it.
TypeOK ==
    /\ DOMAIN vm = Options
    /\ level \in DEBUG..CRITICAL
    /\ exit \in {<<>>, <<0>>, <<-1>>, <<-3>>, <<-4>>}
    /\ clock \in Nat /\ elapsed \in Nat /\ wake \in Nat
    /\ pc \in {"start", "round", "sleep", "signal", "stop", "close"} => device
    /\ pc = "exited" => ~device /\ ~capturing

First(a, b) == IF a # <<>> THEN a ELSE b
FromFile(o) == IF file = <<>> THEN <<>> ELSE file[1][o]

\* The program looks for the device, and records for the time, that the command
\* line names, else the file, else the default: whatever the file was parsed with
\* after the command line.
CommandLineWins ==
    pc \in {"usb", "round", "signal"} /\ ~bad =>
        /\ params.serial = First(cmd["serial"], FromFile("serial"))
        /\ vm["duration"].value = First(First(cmd["duration"], FromFile("duration")), <<0>>)

\* A recording with a duration is never short, and it is no more than the sleeps
\* of two rounds too long: the last sleep begins when the time is over.
RecordsItsDuration ==
    pc = "stop" /\ Count("duration") /\ Value("duration") > 0 =>
        /\ clock >= Value("duration") * Second
        /\ clock < Value("duration") * Second + 2 * (Second + MaxLate)

================================================================================
