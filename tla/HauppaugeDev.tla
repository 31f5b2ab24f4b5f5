------------------------------ MODULE HauppaugeDev ------------------------------
(***************************************************************************)
(* The capture device (class HauppaugeDev, src/HauppaugeDev.cpp): opening  *)
(* it, starting a capture on whatever signal there is, stopping it.        *)
(*                                                                         *)
(* The object is used by one thread at a time (the command thread of the   *)
(* recorder, or main).  What varies under it is external: the source       *)
(* changes its format or goes away between any two steps, and each call of *)
(* the driver may fail.  The USB controller, the encoder, the receiver and *)
(* the settings the driver reads ("registry") outlive a capture, so what   *)
(* one start leaves behind is what the next one finds.                     *)
(***************************************************************************)
EXTENDS Integers, Sequences

CONSTANT MaxRetry  \* HauppaugeDev::MAX_RETRY, 300 in the code

ASSUME RetryAssumption == MaxRetry \in Nat \ {0}

Inputs == {"CVBS", "COMPONENT", "SDI", "HDMI"}

(* The audio input is chosen apart from the video input; LR stands for SDI, *)
(* which is treated as LR, too.                                             *)
AudioInputs == {"LR", "SPDIF", "HDMI"}

(* What a source sends: code is whether its format has a code (VIC) that   *)
(* the encoder may take instead of the size and rate.                      *)
Formats == [interlaced : BOOLEAN, sd : BOOLEAN, code : BOOLEAN]

VARIABLES
    params,       \* m_params: inputs, field flip, coding mode asked for
    chip,         \* the device has a CS8416 (external)
    signal,       \* <<>> or <<the format the source sends>> (external)
    pc,           \* the step the calling thread is at
    tries,        \* the loop counter idx
    seen,         \* the local vp: <<>> or <<format>>
    highSpeed,    \* the USB controller runs its firmware (external)
    objects,      \* which of m_fx2, m_encDev, m_rxDev exist
    initialized,  \* m_video_initialized is the input of params
    rxInput,      \* input selected in the receiver
    audio,        \* audio route set in the ports of the controller
    modeWritten,  \* the registry has a VideoCodingMode
    inverted,     \* the receiver inverts the field bit
    encFormat,    \* format set in the encoder
    byCode,       \* it was set by its code
    busMode,      \* output bus mode of the receiver
    fresh,        \* encFormat was set by the start in progress or the last one
    capturing     \* the encoder captures

external == <<params, chip>>
settings == <<rxInput, audio, modeWritten, inverted, encFormat, byCode, busMode, fresh>>
vars == <<external, signal, pc, tries, seen, highSpeed, objects, initialized, settings, capturing>>

Init ==
    /\ params \in [input : Inputs, audio : AudioInputs, flip : BOOLEAN, mode : BOOLEAN]
    /\ chip \in BOOLEAN
    /\ signal = <<>>
    /\ pc = "closed" /\ tries = 0 /\ seen = <<>>
    /\ highSpeed \in BOOLEAN
    /\ objects = {} /\ initialized = FALSE
    /\ rxInput = "none" /\ audio = "none" /\ modeWritten = FALSE /\ inverted = FALSE
    /\ encFormat = <<>> /\ byCode = FALSE /\ busMode = "none" /\ fresh = FALSE
    /\ capturing = FALSE

(* The source is switched on or off or changes its format.                 *)
SourceChanges ==
    /\ signal' \in {<<>>} \cup {<<f>> : f \in Formats}
    /\ UNCHANGED <<external, pc, tries, seen, highSpeed, objects, initialized, settings, capturing>>

-----------------------------------------------------------------------------
(* HauppaugeDev::Open and Close                                            *)

Open ==
    /\ pc = "closed"
    /\ pc' = "firmware" /\ tries' = 0
    /\ objects' = {"fx2"}
    /\ UNCHANGED <<external, signal, seen, highSpeed, initialized, settings, capturing>>

\* stop, load the firmware, start, look again; after MAX_RETRY times go on anyway
LoadFirmware ==
    /\ pc = "firmware"
    /\ IF ~highSpeed /\ tries < MaxRetry
       THEN highSpeed' \in BOOLEAN /\ tries' = tries + 1 /\ UNCHANGED pc
       ELSE pc' = "encoder" /\ UNCHANGED <<highSpeed, tries>>
    /\ UNCHANGED <<external, signal, seen, objects, initialized, settings, capturing>>

InitEncoder ==
    /\ pc = "encoder"
    /\ objects' = objects \cup {"enc"}
    /\ pc' \in {"receiver", "failed"}
    /\ UNCHANGED <<external, signal, tries, seen, highSpeed, initialized, settings, capturing>>

\* mutant: the step is entered without the encoder
InitReceiverOnly ==
    /\ pc = "receiver"
    /\ objects' = {"fx2", "rx"}
    /\ pc' \in {"ready", "failed"}
    /\ UNCHANGED <<external, signal, tries, seen, highSpeed, initialized, settings, capturing>>

\* the receiver gets its EDID, then the output file is opened
InitReceiver ==
    /\ pc = "receiver"
    /\ objects' = objects \cup {"rx"}
    /\ pc' \in {"ready", "failed"}
    /\ UNCHANGED <<external, signal, tries, seen, highSpeed, initialized, settings, capturing>>

\* after an error, or when the caller is done; the object is not used again
Close ==
    /\ pc \in {"ready", "failed"}
    /\ pc' = "deleted"
    /\ objects' = {}
    /\ capturing' = FALSE
    /\ UNCHANGED <<external, signal, tries, seen, highSpeed, initialized, settings>>

-----------------------------------------------------------------------------
(* HauppaugeDev::StartEncoding                                             *)

Goto(step) == pc' = step /\ tries' = 0

\* mutant: a device that was initialized starts with what it has
StartInitialized ==
    /\ pc = "ready"
    /\ Goto(IF params.input = "SDI" THEN "ready" ELSE IF initialized THEN "capture" ELSE "signal")
    /\ rxInput' = IF params.input = "SDI" THEN rxInput ELSE params.input
    /\ fresh' = FALSE
    /\ seen' = <<>>
    /\ UNCHANGED <<external, signal, highSpeed, objects, initialized,
                   audio, modeWritten, inverted, encFormat, byCode, busMode, capturing>>

Start ==
    /\ pc = "ready"
    /\ Goto(IF params.input = "SDI" THEN "ready" ELSE "signal")
    /\ rxInput' = IF params.input = "SDI" \/ initialized THEN rxInput ELSE params.input
    /\ fresh' = FALSE
    /\ seen' = <<>>
    /\ UNCHANGED <<external, signal, highSpeed, objects, initialized,
                   audio, modeWritten, inverted, encFormat, byCode, busMode, capturing>>

\* mutant: the rounds are not counted
RetryForEver == UNCHANGED <<pc, tries>>

\* one round of a loop that gives up after MAX_RETRY rounds
Retry == IF tries + 1 = MaxRetry THEN Goto("ready") ELSE tries' = tries + 1 /\ UNCHANGED pc

WaitForSignal ==
    /\ pc = "signal"
    /\ IF signal # <<>> THEN Goto(IF params.input = "HDMI" THEN "code" ELSE "params") ELSE Retry
    /\ UNCHANGED <<external, signal, seen, highSpeed, objects, initialized, settings, capturing>>

\* getOutputParams and getHDMIParams fail or return garbage, which is tried again
GetParams ==
    /\ pc = "params"
    /\ \/ signal # <<>> /\ seen' = signal /\ Goto("format")
       \/ Retry /\ UNCHANGED seen
    /\ UNCHANGED <<external, signal, highSpeed, objects, initialized, settings, capturing>>

\* codes 6, 7, 21 and 22 are the interlaced standard definition formats
BusOf(f) == IF f.sd /\ f.interlaced THEN "656_10_DC" ELSE "422_10x2"

\* init_hdmi: the encoder takes the code of the format, or the parameters are read
SetHDMIFormat ==
    /\ pc = "code"
    /\ \/ /\ signal # <<>> /\ signal[1].code
          /\ encFormat' = signal /\ byCode' = TRUE /\ fresh' = TRUE
          /\ busMode' = BusOf(signal[1])
          /\ initialized' = TRUE
          /\ Goto("capture")
       \/ /\ Goto("params")
          /\ UNCHANGED <<encFormat, byCode, fresh, busMode, initialized>>
    /\ UNCHANGED <<external, signal, seen, highSpeed, objects,
                   rxInput, audio, modeWritten, inverted, capturing>>

(* set_audio_format: S/PDIF needs the chip, and falls back to the RCA inputs *)
AudioRoute ==
    CASE params.audio = "SPDIF" /\ chip -> "optical"
      [] params.audio = "HDMI" -> "hdmi"
      [] OTHER -> "rca"

(* What the init_ functions set after set_input_format.                    *)
BusOfInput ==
    CASE params.input = "CVBS" -> "656_10"
      [] params.input = "COMPONENT" -> BusOf(seen[1])
      [] params.input = "HDMI" -> "422_10x2"

\* mutant: the second start of a device changes the format only
SetInputFormatOnce ==
    /\ pc = "format"
    /\ audio' = AudioRoute
    /\ modeWritten' = (modeWritten \/ (params.mode /\ seen[1].interlaced))
    /\ inverted' = (inverted \/ (~initialized /\ params.flip /\ seen[1].interlaced))
    /\ encFormat' = seen /\ byCode' = FALSE /\ fresh' = TRUE
    /\ busMode' = IF initialized THEN busMode ELSE BusOfInput
    /\ initialized' = TRUE
    /\ Goto("capture")
    /\ UNCHANGED <<external, signal, seen, highSpeed, objects, rxInput, capturing>>

\* set_input_format, and what the init_ functions do after it
SetInputFormat ==
    /\ pc = "format"
    /\ audio' = AudioRoute
    /\ modeWritten' = (modeWritten \/ (params.mode /\ seen[1].interlaced))
    /\ inverted' = (inverted \/ (params.flip /\ seen[1].interlaced))
    /\ \/ /\ encFormat' = seen /\ byCode' = FALSE /\ fresh' = TRUE
          /\ busMode' = BusOfInput
          /\ initialized' = TRUE
          /\ Goto("capture")
       \/ Goto("ready") /\ UNCHANGED <<encFormat, byCode, fresh, busMode, initialized>>
    /\ UNCHANGED <<external, signal, seen, highSpeed, objects, rxInput, capturing>>

StartCapture ==
    /\ pc = "capture"
    /\ capturing' \in {TRUE, capturing}
    /\ Goto("ready")
    /\ UNCHANGED <<external, signal, seen, highSpeed, objects, initialized, settings>>

StartEncoding ==
    \/ Start \/ WaitForSignal \/ GetParams \/ SetHDMIFormat \/ SetInputFormat \/ StartCapture

StopEncoding ==
    /\ pc = "ready"
    /\ capturing' \in {FALSE, capturing}
    /\ UNCHANGED <<external, signal, pc, tries, seen, highSpeed, objects, initialized, settings>>

Steps ==
    \/ LoadFirmware \/ InitEncoder \/ InitReceiver
    \/ WaitForSignal \/ GetParams \/ SetHDMIFormat \/ SetInputFormat \/ StartCapture

Next ==
    \/ SourceChanges
    \/ Open \/ LoadFirmware \/ InitEncoder \/ InitReceiver \/ Close
    \/ StartEncoding \/ StopEncoding

Spec == Init /\ [][Next]_vars

(* The thread is scheduled.  Nothing is assumed of the source.             *)
FairSpec == Spec /\ WF_vars(Steps)
-----------------------------------------------------------------------------
(* Properties.                                                             *)

OpenSteps == {"firmware", "encoder", "receiver"}
StartSteps == {"signal", "code", "params", "format", "capture"}

\* Every variable keeps its type, the loops their bound, and a step that uses a
\* part of the device finds it there.
TypeOK ==
    /\ params \in [input : Inputs, audio : AudioInputs, flip : BOOLEAN, mode : BOOLEAN]
    /\ pc \in {"closed", "ready", "failed", "deleted"} \cup OpenSteps \cup StartSteps
    /\ tries \in 0..MaxRetry
    /\ \A s \in {signal, seen, encFormat} : s = <<>> \/ \E f \in Formats : s = <<f>>
    /\ pc \in {"ready"} \cup StartSteps => objects = {"fx2", "enc", "rx"}
    /\ pc \in {"format"} => seen # <<>>
    /\ initialized => rxInput = params.input

\* A capture begins only with a format that this very start has found, however
\* many starts went before and whatever the source does meanwhile.
CaptureIsFresh == [][capturing' /\ ~capturing => fresh]_vars

(* The settings fit the format of the encoder: the bus between receiver and *)
(* encoder and, where set_input_format was called, the audio input and the  *)
(* options.  An HDMI format that the encoder took by its code does without  *)
(* that call: the audio input, the field order and the coding mode are then *)
(* what an earlier start left, whatever was asked for.                      *)
Applied(f) ==
    /\ params.input # "SDI"
    /\ busMode = CASE params.input = "CVBS" -> "656_10"
                   [] params.input = "HDMI" /\ ~byCode -> "422_10x2"
                   [] OTHER -> BusOf(f)
    /\ ~byCode =>
         /\ audio = AudioRoute
         /\ f.interlaced => (params.flip => inverted) /\ (params.mode => modeWritten)

\* A capture has the bus its input and format need and, unless its format was set by
\* an HDMI code, the audio input, the field order and the coding mode that were asked
\* for, also when the source was progressive at an earlier start, came by its code
\* then, went away meanwhile or the start before it failed half-way.  Not covered: the
\* options of an HDMI capture by code, and options that an earlier start set and this
\* capture has no use for (a progressive source after an interlaced one).
CaptureIsSetUp == pc = "ready" /\ capturing => Applied(encFormat[1])

\* Opening and starting come to an end without a signal, without firmware and
\* with a source that keeps changing: every loop gives up.
CallsReturn == (pc \in OpenSteps \cup StartSteps) ~> (pc \in {"ready", "failed", "deleted"})
================================================================================
