------------------------------ MODULE RecorderLife ------------------------------
(***************************************************************************)
(* What a recorder promises to those who use it, whichever of its threads  *)
(* acts: it works on one device, which is opened once and deleted once, a  *)
(* stream is opened only on a device that is open, an orderly end starts   *)
(* nothing any more, and only an error may take the device away under a    *)
(* stream.                                                                 *)
(***************************************************************************)

VARIABLES
    device,     \* "none", "opening", "open", or "gone" when it is deleted
    streaming,  \* a stream is open
    ending,     \* the recorder is being shut down
    failed      \* an error was reported

life == <<device, streaming, ending, failed>>

LifeInit == device = "none" /\ ~streaming /\ ~ending /\ ~failed

(* An error is reported at any time, and the command at work then goes on. *)
MayBegin == ending => failed

Create ==
    /\ device = "none" /\ MayBegin
    /\ device' = "opening"
    /\ UNCHANGED <<streaming, ending, failed>>

Open ==
    /\ device = "opening"
    /\ device' = "open"
    /\ UNCHANGED <<streaming, ending, failed>>

GiveUp ==
    /\ device = "opening"
    /\ device' = "none"
    /\ UNCHANGED <<streaming, ending, failed>>

Start ==
    /\ device = "open" /\ ~streaming /\ MayBegin
    /\ streaming' = TRUE
    /\ UNCHANGED <<device, ending, failed>>

(* A stream that is open when the device goes stays so until it is closed. *)
Stop ==
    /\ streaming /\ streaming' = FALSE
    /\ UNCHANGED <<device, ending, failed>>

End ==
    /\ ~ending /\ ending' = TRUE
    /\ UNCHANGED <<device, streaming, failed>>

Fail ==
    /\ ~failed /\ failed' = TRUE
    /\ UNCHANGED <<device, streaming, ending>>

Delete ==
    /\ device = "open" /\ ending
    /\ streaming => failed
    /\ device' = "gone"
    /\ UNCHANGED <<streaming, ending, failed>>

LifeNext == Create \/ Open \/ GiveUp \/ Start \/ Stop \/ End \/ Fail \/ Delete

LifeSpec == LifeInit /\ [][LifeNext]_life
=================================================================================
