---------------------------- MODULE WatchdogProofs ----------------------------
(***************************************************************************)
(* Proofs about the watchdog: it overlooks no silent stream, for every     *)
(* limit and every period.                                                 *)
(***************************************************************************)
EXTENDS Watchdog, TLAPS

(* A wait in progress times out soon enough: when it ends, the heartbeat or *)
(* the start of the stream is at most the limit, one period and the error   *)
(* of the system clock old.                                                 *)
Allowed == Limit + Period + 2 * MaxSkew

CheckedInTime ==
    /\ now <= wake /\ wake <= now + Period
    /\ run /\ streaming /\ wpc = "wait" => Latest(last, started) + Allowed >= wake
    /\ run /\ streaming /\ wpc = "age" => Latest(last, started) + Allowed >= now
    /\ heartbeat - last \in -MaxSkew..MaxSkew
    /\ run => wpc # "done"
    /\ last <= now /\ started <= now

WatchInv == TypeOK /\ CheckedInTime

LEMMA ChoiceIsBoolean ==
    ASSUME NEW a, NEW b \in BOOLEAN, a \in {FALSE, b}
    PROVE  a \in BOOLEAN
  OBVIOUS

LEMMA WatchInit == Init => WatchInv
  <1> SUFFICES ASSUME Init PROVE WatchInv
    OBVIOUS
  <1>0. 0 \in -MaxSkew..MaxSkew /\ 0 \in Nat /\ 0 \in Int
    BY TimesAssumption
  <1>1. TypeOK
    BY <1>0, TimesAssumption DEF Init, TypeOK
  <1>2. CheckedInTime
    BY <1>0, TimesAssumption DEF Init, CheckedInTime, Allowed, Latest
  <1> QED
    BY <1>1, <1>2 DEF WatchInv

LEMMA WatchStep == WatchInv /\ [Next]_vars => WatchInv'
  <1> SUFFICES ASSUME WatchInv, [Next]_vars PROVE WatchInv'
    OBVIOUS
  <1> USE TimesAssumption DEF WatchInv, TypeOK, CheckedInTime, Allowed, clocks, beat
  <1>1. CASE Tick
    BY <1>1 DEF Tick, watched, Latest
  <1>0. CASE SetClock
    BY <1>0 DEF SetClock, watched, Latest
  <1>2. CASE WaitEnds
    BY <1>2 DEF WaitEnds, NextWait, watched, Latest
  <1>3. CASE CheckHeartBeat
    <2>1. TypeOK'
      <3>1. CASE TooOld(heartbeat)
        <4>1. capturing' \in {FALSE, capturing}
          BY <1>3, <3>1 DEF CheckHeartBeat
        <4>2. capturing' \in BOOLEAN
          BY <4>1, ChoiceIsBoolean
        <4>3. /\ wpc' = "wait" /\ wake' = now + Period
              /\ wedged' = TRUE /\ run' = FALSE /\ streaming' = FALSE
              /\ now' = now /\ skew' = skew /\ heartbeat' = heartbeat /\ last' = last /\ started' = started /\ cpc' = cpc
          BY <1>3, <3>1 DEF CheckHeartBeat, NextWait
        <4>4. now' \in Nat /\ last' \in Nat /\ heartbeat' \in Int /\ skew' \in -MaxSkew..MaxSkew /\ started' \in Nat /\ wake' \in Nat
          BY <4>3
        <4>5. wpc' \in {"wait", "age", "done"} /\ cpc' \in {"poll", "starting"}
          BY <4>3
        <4> QED
          BY <4>2, <4>3, <4>4, <4>5, Zenon
      <3>2. CASE ~TooOld(heartbeat)
        BY <1>3, <3>2 DEF CheckHeartBeat, NextWait
      <3> QED
        BY <3>1, <3>2
    <2>2. CheckedInTime'
      <3>1. CASE TooOld(heartbeat)
        BY <1>3, <3>1 DEF CheckHeartBeat, NextWait
      <3>2. CASE ~TooOld(heartbeat)
        BY <1>3, <3>2 DEF CheckHeartBeat, NextWait, TooOld, Latest
      <3> QED
        BY <3>1, <3>2
    <2> QED
      BY <2>1, <2>2
  <1>4. CASE Fill
    BY <1>4 DEF Fill, Latest
  <1>5. CASE StartCapture
    BY <1>5 DEF StartCapture, Latest
  <1>6. CASE SetStreaming
    BY <1>6 DEF SetStreaming, Latest
  <1>7. CASE StopEncoding
    BY <1>7 DEF StopEncoding, Latest
  <1>8. CASE Terminate
    BY <1>8 DEF Terminate, Latest
  <1>9. CASE UNCHANGED vars
    BY <1>9 DEF vars, watched, Latest
  <1> QED
    BY <1>0, <1>1, <1>2, <1>3, <1>4, <1>5, <1>6, <1>7, <1>8, <1>9 DEF Next, Wait

(* No stream of a running recorder is open without a block for longer than  *)
(* the limit, one period and what the clock was set back (MythTV::Wait,     *)
(* lines 75-96).                                                            *)
THEOREM SilenceNoticed == Spec => []SilenceIsNoticed
  <1>1. WatchInv => SilenceIsNoticed
    BY TimesAssumption DEF WatchInv, TypeOK, CheckedInTime, Allowed, SilenceIsNoticed, silence, Latest
  <1> QED
    BY <1>1, WatchInit, WatchStep, PTL DEF Spec

(* The watchdog raises no false alarm while blocks arrive: whenever it      *)
(* declares the recorder wedged, the last block is at least as old as the   *)
(* limit, less what the system clock was set forwards (MythTV::Wait, lines  *)
(* 89-96).  Whether a stream was open all that time is another question.    *)
AlarmIsJustified == [][wedged' # wedged => now - last > Limit - 2 * MaxSkew]_vars

(* No alarm is given to a recorder whose last block is younger than the     *)
(* limit, less how far the system clock was set.                            *)
THEOREM NoFalseAlarm == Spec => AlarmIsJustified
  <1>1. ASSUME WatchInv, [Next]_vars
        PROVE  [wedged' # wedged => now - last > Limit - 2 * MaxSkew]_vars
    <2> SUFFICES ASSUME wedged' # wedged
                 PROVE  now - last > Limit - 2 * MaxSkew
      OBVIOUS
    <2>1. CheckHeartBeat /\ TooOld(heartbeat)
      BY <1>1 DEF Next, Wait, Tick, SetClock, WaitEnds, CheckHeartBeat, Fill, StartCapture,
                  SetStreaming, StopEncoding, Terminate, vars
    <2>2. heartbeat < now + skew - Limit
      BY <2>1 DEF TooOld
    <2> QED
      BY <1>1, <2>2, TimesAssumption DEF WatchInv, TypeOK, CheckedInTime
  <1> QED
    BY <1>1, WatchInit, WatchStep, PTL DEF Spec, AlarmIsJustified

(* Types, and the end of a recorder whose watchdog fired.                   *)
THEOREM TypeCorrect == Spec => []TypeOK
  <1>1. WatchInv => TypeOK
    BY DEF WatchInv
  <1> QED
    BY <1>1, WatchInit, WatchStep, PTL DEF Spec
===============================================================================
