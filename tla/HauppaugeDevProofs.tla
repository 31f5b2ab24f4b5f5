--------------------------- MODULE HauppaugeDevProofs ---------------------------
(***************************************************************************)
(* Theorems about the capture device, for every number of rounds its loops *)
(* make before they give up.                                               *)
(*                                                                         *)
(* What a capture finds is set by one step together with the format of the *)
(* encoder, and never again without it; a start reaches the capture only   *)
(* through such a step.                                                    *)
(***************************************************************************)
EXTENDS HauppaugeDev, TLAPS

Maybe(S) == {<<>>} \cup {<<f>> : f \in S}

Asked == [input : Inputs, audio : AudioInputs, flip : BOOLEAN, mode : BOOLEAN]

Types ==
    /\ params \in Asked
    /\ pc \in {"closed", "ready", "failed", "deleted"} \cup OpenSteps \cup StartSteps
    /\ tries \in 0..MaxRetry
    /\ signal \in Maybe(Formats) /\ seen \in Maybe(Formats) /\ encFormat \in Maybe(Formats)

\* the parts of the device, as the steps of Open add them
Parts ==
    /\ pc = "firmware" => objects = {"fx2"}
    /\ pc = "encoder" => objects = {"fx2"}
    /\ pc = "receiver" => objects = {"fx2", "enc"}
    /\ pc \in {"ready"} \cup StartSteps => objects = {"fx2", "enc", "rx"}

\* the loops are entered with a counter of zero and left at their bound
Rounds == pc \in {"signal", "params"} => tries < MaxRetry

Selected ==
    /\ initialized => rxInput = params.input
    /\ pc \in StartSteps => rxInput = params.input /\ params.input # "SDI"

Formatted ==
    /\ pc = "code" => params.input = "HDMI"
    /\ pc = "format" => seen # <<>>
    /\ pc = "capture" => encFormat # <<>> /\ fresh
    /\ capturing => encFormat # <<>>
    /\ encFormat # <<>> => Applied(encFormat[1])

DevInv == Types /\ Parts /\ Rounds /\ Selected /\ Formatted

LEMMA DevInit ==
    ASSUME Init
    PROVE  DevInv
BY RetryAssumption DEF Init, DevInv, Types, Parts, Rounds, Selected, Formatted, Maybe, Asked,
                       OpenSteps, StartSteps

\* a round of a loop counts, and the last one ends it
LEMMA RetryCounts ==
    ASSUME tries \in 0..MaxRetry, tries < MaxRetry, Retry
    PROVE  /\ tries' \in 0..MaxRetry
           /\ pc' = "ready" \/ (pc' = pc /\ tries' < MaxRetry)
<1>1. MaxRetry \in Nat /\ MaxRetry > 0 /\ tries \in Nat
  BY RetryAssumption
<1>2. CASE tries + 1 = MaxRetry
  BY <1>1, <1>2 DEF Retry, Goto
<1>3. CASE tries + 1 # MaxRetry
  <2>1. tries' = tries + 1 /\ pc' = pc
    BY <1>3 DEF Retry
  <2> QED
    BY <1>1, <1>3, <2>1
<1> QED
  BY <1>2, <1>3

LEMMA TypesStep ==
    ASSUME DevInv, [Next]_vars
    PROVE  Types'
<1> USE RetryAssumption DEF DevInv, Types, Maybe, OpenSteps, StartSteps, external, settings
<1>1. CASE SourceChanges
  BY <1>1 DEF SourceChanges
<1>2. CASE Open \/ LoadFirmware \/ InitEncoder \/ InitReceiver \/ Close
  BY <1>2 DEF Open, LoadFirmware, InitEncoder, InitReceiver, Close
<1>3. CASE Start \/ WaitForSignal \/ GetParams
  <2>1. CASE Retry /\ pc \in {"signal", "params"} /\ UNCHANGED <<params, signal, seen, encFormat>>
    BY <2>1, RetryCounts DEF Rounds
  <2>2. CASE Goto(pc') /\ pc' \in {"ready"} \cup StartSteps /\ UNCHANGED <<params, signal, encFormat>>
             /\ seen' \in {<<>>, seen, signal}
    <3>1. tries' \in 0..MaxRetry
      BY <2>2 DEF Goto
    <3> QED
      BY <2>2, <3>1
  <2>3. CASE Start
    BY <2>2, <2>3 DEF Start, Goto
  <2>4. CASE WaitForSignal
    BY <2>1, <2>2, <2>4 DEF WaitForSignal, Goto
  <2>5. CASE GetParams
    BY <2>1, <2>2, <2>5 DEF GetParams, Goto
  <2> QED
    BY <1>3, <2>3, <2>4, <2>5
<1>4. CASE SetHDMIFormat \/ SetInputFormat \/ StartCapture \/ StopEncoding
  <2>0. 0 \in 0..MaxRetry
    OBVIOUS
  <2>1. CASE SetHDMIFormat
    BY <2>0, <2>1 DEF SetHDMIFormat, Goto
  <2>2. CASE SetInputFormat
    BY <2>0, <2>2 DEF SetInputFormat, Goto
  <2>3. CASE StartCapture
    BY <2>0, <2>3 DEF StartCapture, Goto
  <2>4. CASE StopEncoding
    BY <2>4 DEF StopEncoding
  <2> QED
    BY <1>4, <2>1, <2>2, <2>3, <2>4
<1>5. CASE UNCHANGED vars
  BY <1>5 DEF vars
<1> QED
  BY <1>1, <1>2, <1>3, <1>4, <1>5 DEF Next, StartEncoding

LEMMA PartsStep ==
    ASSUME DevInv, [Next]_vars
    PROVE  Parts' /\ Rounds' /\ Selected'
<1> USE RetryAssumption DEF DevInv, Types, Parts, Rounds, Selected, OpenSteps, StartSteps,
                            external, settings
<1>1. CASE SourceChanges
  BY <1>1 DEF SourceChanges
<1>2. CASE Open \/ LoadFirmware \/ InitEncoder \/ InitReceiver \/ Close
  BY <1>2 DEF Open, LoadFirmware, InitEncoder, InitReceiver, Close
<1>3. CASE Start \/ WaitForSignal \/ GetParams
  <2>1. CASE Retry /\ pc \in {"signal", "params"} /\ UNCHANGED <<params, objects, initialized, rxInput>>
    BY <2>1, RetryCounts
  <2>2. CASE Start
    BY <2>2 DEF Start, Goto
  <2>3. CASE WaitForSignal
    BY <2>1, <2>3 DEF WaitForSignal, Goto
  <2>4. CASE GetParams
    BY <2>1, <2>4 DEF GetParams, Goto
  <2> QED
    BY <1>3, <2>2, <2>3, <2>4
<1>4. CASE SetHDMIFormat \/ SetInputFormat \/ StartCapture \/ StopEncoding
  <2>1. CASE SetHDMIFormat
    BY <2>1 DEF SetHDMIFormat, Goto
  <2>2. CASE SetInputFormat
    BY <2>2 DEF SetInputFormat, Goto
  <2>3. CASE StartCapture
    BY <2>3 DEF StartCapture, Goto
  <2>4. CASE StopEncoding
    BY <2>4 DEF StopEncoding
  <2> QED
    BY <1>4, <2>1, <2>2, <2>3, <2>4
<1>5. CASE UNCHANGED vars
  BY <1>5 DEF vars
<1> QED
  BY <1>1, <1>2, <1>3, <1>4, <1>5 DEF Next, StartEncoding

LEMMA FormattedStep ==
    ASSUME DevInv, [Next]_vars
    PROVE  Formatted'
<1> USE DEF DevInv, Types, Formatted, OpenSteps, StartSteps, external
<1> DEFINE Kept == UNCHANGED <<params, chip, audio, modeWritten, inverted, encFormat, byCode,
                           busMode>>
<1>1. Kept /\ encFormat # <<>> => Applied(encFormat[1])'
  BY DEF Applied, AudioRoute
<1>2. CASE SourceChanges \/ Open \/ LoadFirmware \/ InitEncoder \/ InitReceiver \/ Close
  BY <1>1, <1>2 DEF SourceChanges, Open, LoadFirmware, InitEncoder, InitReceiver, Close, settings
<1>3. CASE Start \/ WaitForSignal \/ GetParams
  BY <1>1, <1>3 DEF Start, WaitForSignal, GetParams, Goto, Retry, settings
<1>4. CASE SetHDMIFormat
  <2>1. CASE Kept /\ Goto("params") /\ UNCHANGED capturing
    BY <1>1, <2>1 DEF Goto
  <2>2. CASE /\ signal # <<>> /\ encFormat' = signal /\ fresh' = TRUE
             /\ byCode' = TRUE /\ busMode' = BusOf(signal[1]) /\ Goto("capture")
             /\ UNCHANGED params
    <3>1. params.input = "HDMI"
      BY <1>4 DEF SetHDMIFormat
    <3>2. Applied(encFormat[1])'
      BY <2>2, <3>1 DEF Applied, BusOf
    <3> QED
      BY <2>2, <3>2 DEF Goto
  <2> QED
    BY <1>4, <2>1, <2>2 DEF SetHDMIFormat
<1>5. CASE SetInputFormat
  <2>0. /\ params' = params /\ chip' = chip /\ audio' = AudioRoute /\ seen # <<>>
        /\ modeWritten' = (modeWritten \/ (params.mode /\ seen[1].interlaced))
        /\ inverted' = (inverted \/ (params.flip /\ seen[1].interlaced))
        /\ params.input \in Inputs \ {"SDI"} /\ capturing' = capturing
    BY <1>5 DEF SetInputFormat, Selected, Asked
  <2>1. CASE Goto("ready") /\ UNCHANGED <<encFormat, byCode, fresh, busMode>>
    <3>1. encFormat # <<>> => Applied(encFormat[1])'
      BY <2>0, <2>1 DEF Applied, AudioRoute
    <3> QED
      BY <2>0, <2>1, <3>1 DEF Goto
  <2>2. CASE /\ encFormat' = seen /\ byCode' = FALSE /\ fresh' = TRUE /\ Goto("capture")
             /\ busMode' = BusOfInput
    <3>1. Applied(encFormat[1])'
      BY <2>0, <2>2 DEF Applied, AudioRoute, BusOf, BusOfInput, Inputs
    <3> QED
      BY <2>0, <2>2, <3>1 DEF Goto
  <2> QED
    BY <1>5, <2>1, <2>2 DEF SetInputFormat
<1>6. CASE StartCapture \/ StopEncoding
  <2>1. encFormat' = encFormat /\ Kept /\ pc' = "ready" /\ (pc = "capture" => encFormat # <<>>)
    BY <1>6 DEF StartCapture, StopEncoding, Goto, settings
  <2>2. capturing' => capturing \/ pc = "capture"
    BY <1>6, Zenon DEF StartCapture, StopEncoding
  <2>3. encFormat # <<>> => Applied(encFormat[1])'
    BY <1>1, <2>1
  <2> QED
    BY <2>1, <2>2, <2>3
<1>7. CASE UNCHANGED vars
  BY <1>1, <1>7 DEF vars, settings
<1> QED
  BY <1>2, <1>3, <1>4, <1>5, <1>6, <1>7 DEF Next, StartEncoding

LEMMA DevAlways == Spec => []DevInv
<1>1. Init => DevInv
  BY DevInit
<1>2. DevInv /\ [Next]_vars => DevInv'
  BY TypesStep, PartsStep, FormattedStep DEF DevInv
<1> QED
  BY <1>1, <1>2, PTL DEF Spec

-----------------------------------------------------------------------------
\* Every variable keeps its type and every loop its bound, and each step of the
\* device finds the parts it uses, for every MAX_RETRY.
THEOREM TypesHold == Spec => []TypeOK
<1>1. DevInv => TypeOK
  <2> SUFFICES ASSUME DevInv PROVE TypeOK
    OBVIOUS
  <2>1. \A s \in Maybe(Formats) : s = <<>> \/ \E f \in Formats : s = <<f>>
    BY DEF Maybe
  <2> QED
    BY <2>1 DEF DevInv, Types, Parts, Selected, Formatted, TypeOK, Asked
<1> QED
  BY DevAlways, <1>1, PTL

\* A capture has the bus its input and format need and, unless an HDMI code set its
\* format, the audio input, the field order and the coding mode that were asked for,
\* whatever starts and failures went before.
THEOREM CapturesAreSetUp == Spec => []CaptureIsSetUp
<1>1. DevInv => CaptureIsSetUp
  BY DEF DevInv, Formatted, CaptureIsSetUp
<1> QED
  BY DevAlways, <1>1, PTL

\* A capture begins only with a format found by the same call of StartEncoding.
THEOREM FreshCapture == Spec => CaptureIsFresh
<1>1. DevInv /\ [Next]_vars => (capturing' /\ ~capturing => fresh)
  <2> SUFFICES ASSUME DevInv, [Next]_vars, capturing', ~capturing
               PROVE  fresh
    OBVIOUS
  <2>1. StartCapture
    BY DEF Next, SourceChanges, Open, LoadFirmware, InitEncoder, InitReceiver, Close,
           StartEncoding, Start, WaitForSignal, GetParams, SetHDMIFormat, SetInputFormat,
           StopEncoding, vars
  <2> QED
    BY <2>1 DEF StartCapture, DevInv, Formatted
<1> QED
  BY DevAlways, <1>1, PTL DEF Spec, CaptureIsFresh
-----------------------------------------------------------------------------
(* How long a call takes.                                                  *)

(* The most steps that a call in progress has still to make.               *)
Left ==
    CASE pc = "firmware" -> MaxRetry - tries + 3
      [] pc = "encoder" -> 2
      [] pc = "receiver" -> 1
      [] pc = "signal" -> MaxRetry - tries + MaxRetry + 3
      [] pc = "code" -> MaxRetry + 3
      [] pc = "params" -> MaxRetry - tries + 2
      [] pc = "format" -> 2
      [] pc = "capture" -> 1
      [] OTHER -> 0

MostSteps == 2 * MaxRetry + 3

LEMMA LeftIsBounded ==
    ASSUME DevInv
    PROVE  Left \in 0..MostSteps
<1>1. MaxRetry \in Nat /\ MaxRetry > 0 /\ tries \in Nat /\ tries <= MaxRetry
  BY RetryAssumption DEF DevInv, Types
<1> QED
  BY <1>1 DEF Left, MostSteps

\* one more round leaves less to do
LEMMA RetryShortens ==
    ASSUME DevInv, pc \in {"signal", "params"}, Retry
    PROVE  Left' < Left
<1>1. MaxRetry \in Nat /\ MaxRetry > 0 /\ tries \in Nat /\ tries < MaxRetry
  BY RetryAssumption DEF DevInv, Types, Rounds
<1>2. CASE tries + 1 = MaxRetry
  BY <1>1, <1>2 DEF Retry, Goto, Left
<1>3. CASE tries + 1 # MaxRetry
  BY <1>1, <1>3 DEF Retry, Left
<1> QED
  BY <1>2, <1>3

\* Whatever the source does, a call of Open or StartEncoding comes nearer to its end
\* with every step it makes: it is at most MostSteps steps long (the loops
\* at src/HauppaugeDev.cpp:311-475 and the one of Open at 568).
Shortens ==
    pc \in OpenSteps \cup StartSteps => Left' < Left \/ (SourceChanges /\ Left' = Left)

CallsAreBounded == [][Shortens]_vars

\* Open and StartEncoding return after at most MostSteps steps of their own, whatever
\* the source and the firmware do, for every MAX_RETRY.
THEOREM BoundedCalls == Spec => [](Left \in 0..MostSteps) /\ CallsAreBounded
<1>1. ASSUME DevInv, [Next]_vars
      PROVE  [Shortens]_vars
  <2> SUFFICES ASSUME pc \in OpenSteps \cup StartSteps, Next
               PROVE  Left' < Left \/ (SourceChanges /\ Left' = Left)
    BY <1>1 DEF Shortens
  <2>0. MaxRetry \in Nat /\ MaxRetry > 0 /\ tries \in Nat /\ tries <= MaxRetry
    BY <1>1, RetryAssumption DEF DevInv, Types
  <2>1. CASE SourceChanges
    BY <2>1 DEF SourceChanges, Left
  <2>2. CASE LoadFirmware
    <3>1. CASE ~highSpeed /\ tries < MaxRetry
      BY <2>0, <2>2, <3>1 DEF LoadFirmware, Left
    <3>2. CASE ~(~highSpeed /\ tries < MaxRetry)
      BY <2>0, <2>2, <3>2 DEF LoadFirmware, Left
    <3> QED
      BY <3>1, <3>2
  <2>3. CASE InitEncoder \/ InitReceiver
    BY <2>0, <2>3 DEF InitEncoder, InitReceiver, Left
  <2>4. CASE WaitForSignal
    <3>1. CASE Retry
      BY <1>1, <2>4, <3>1, RetryShortens DEF WaitForSignal
    <3>0. tries < MaxRetry
      BY <1>1, <2>4 DEF WaitForSignal, DevInv, Rounds
    <3>2. CASE signal # <<>> /\ params.input = "HDMI"
      BY <2>0, <3>0, <2>4, <3>2 DEF WaitForSignal, Goto, Left
    <3>3. CASE signal # <<>> /\ params.input # "HDMI"
      BY <2>0, <2>4, <3>3 DEF WaitForSignal, Goto, Left
    <3> QED
      BY <2>4, <3>1, <3>2, <3>3 DEF WaitForSignal
  <2>5. CASE GetParams
    <3>1. CASE Retry
      BY <1>1, <2>5, <3>1, RetryShortens DEF GetParams
    <3>2. CASE Goto("format")
      BY <1>1, <2>0, <2>5, <3>2 DEF GetParams, Goto, Left, DevInv, Rounds
    <3> QED
      BY <2>5, <3>1, <3>2 DEF GetParams
  <2>6. CASE SetHDMIFormat
    BY <2>0, <2>6 DEF SetHDMIFormat, Goto, Left
  <2>7. CASE SetInputFormat
    BY <2>0, <2>7 DEF SetInputFormat, Goto, Left
  <2>8. CASE StartCapture
    BY <2>0, <2>8 DEF StartCapture, Goto, Left
  <2>9. ~Open /\ ~Close /\ ~Start /\ ~StopEncoding
    BY DEF Open, Close, Start, StopEncoding, OpenSteps, StartSteps
  <2> QED
    BY <2>1, <2>2, <2>3, <2>4, <2>5, <2>6, <2>7, <2>8, <2>9 DEF Next, StartEncoding
<1>2. DevInv => Left \in 0..MostSteps
  BY LeftIsBounded
<1> QED
  BY DevAlways, <1>1, <1>2, PTL DEF Spec, CallsAreBounded
=================================================================================
