----------------------------- MODULE UsbProofs -----------------------------
(***************************************************************************)
(* The two halves of the USB wrapper, for any devices and any number of    *)
(* reads: UsbDevice, finding, opening and closing devices, and             *)
(* AsyncTransfer, the context of an asynchronous read.                     *)
(***************************************************************************)
EXTENDS UsbDevice, AsyncTransfer, WellFoundedInduction, TLAPS

-----------------------------------------------------------------------------
(* Devices.  The invariant says, beside the types and the handles, that    *)
(* what was asked for is what the number of the device in use begins with. *)

Begins == serial # <<>> /\ read => Matches(serial, SerialOf[handle[1]])

UsbInv == TypeOK /\ HandlesBalanced /\ Begins

\* The least element of a set of places is one of them.
LEMMA MinIsMember ==
    ASSUME NEW S, S \subseteq Nat, S # {}
    PROVE  Min(S) \in S /\ \A x \in S : Min(S) <= x
  <1> DEFINE less == {p \in Nat \X Nat : p[1] < p[2]}
  <1>1. IsWellFoundedOn(less, Nat)
    BY NatLessThanWellFounded DEF OpToRel
  <1> HIDE DEF less
  <1>2. PICK x \in S : \A y \in S : <<y, x>> \notin less
    BY <1>1, WFMin
  <1>3. x \in S /\ \A y \in S : x <= y
    <2> SUFFICES ASSUME NEW y \in S PROVE x <= y
      OBVIOUS
    <2>1. <<y, x>> \notin less
      BY <1>2
    <2>2. ~(y < x)
      BY <2>1, Zenon DEF less
    <2> QED
      BY <2>2
  <1> DEFINE least(z) == z \in S /\ \A y \in S : z <= y
  <1>4. least(CHOOSE z : least(z))
    BY <1>3, Zenon
  <1> QED
    BY <1>4 DEF Min

\* An element that bounds a set of places is its greatest.
LEMMA MaxIsBound ==
    ASSUME NEW S, S \subseteq Nat, NEW x \in S, \A y \in S : y <= x
    PROVE  Max(S) = x
  <1> DEFINE greatest(z) == z \in S /\ \A y \in S : z >= y
  <1>1. greatest(CHOOSE z : greatest(z))
    <2>1. greatest(x)
      OBVIOUS
    <2> QED
      BY <2>1, Zenon
  <1>2. \A z : greatest(z) => z = x
    OBVIOUS
  <1> QED
    BY <1>1, <1>2 DEF Max

LEMMA UsbInitial ==
    ASSUME Init
    PROVE  UsbInv
  <1>1. TypeOK
    <2>1. DOMAIN devs = {}
      BY DEF Init
    <2>2. pc \notin {"describe", "opened"} /\ handle = <<>> /\ ~read /\ ~claimed
      BY DEF Init
    <2>3. serial \in Serials \cup {<<>>}
      BY DEF Init
    <2>4. bus \subseteq Devices /\ listed = <<>> /\ handles \in [Devices -> Nat]
      BY DEF Init
    <2> QED
      BY <2>1, <2>2, <2>3, <2>4 DEF Init, TypeOK
  <1>2. HandlesBalanced /\ Begins
    BY DEF Init, HandlesBalanced, Begins
  <1> QED
    BY <1>1, <1>2 DEF UsbInv

\* The places that a list may have, and the devices there.
LEMMA ListedPlaces ==
    ASSUME TypeOK
    PROVE  /\ DevList \subseteq DOMAIN Ports
           /\ DOMAIN Ports \subseteq Nat
           /\ \A i \in DOMAIN Ports : Ports[i] \in Devices
  <1>1. DOMAIN Ports \subseteq Nat /\ \A i \in DOMAIN Ports : Ports[i] \in Devices
    BY DevicesAssumption
  <1>2. CASE listed = <<>>
    BY <1>1, <1>2 DEF DevList
  <1>3. CASE listed # <<>>
    <2>1. PICK l \in SUBSET DOMAIN Ports : listed = <<l>>
      BY <1>3 DEF TypeOK
    <2> QED
      BY <1>1, <1>3, <2>1 DEF DevList
  <1> QED
    BY <1>2, <1>3, <1>1

\* A number that is a match for the text at the place of a device that could be
\* read is one that the device's own number begins with.
LEMMA TextOfReadable ==
    ASSUME NEW c, c \subseteq Nat, NEW i \in c, NEW readable, Ports[i] \in readable,
           NEW garbage
    PROVE  Text(c, i, readable, garbage) = SerialOf[Ports[i]]
  <1> DEFINE done == {j \in c : j <= i /\ Ports[j] \in readable}
  <1>1. done \subseteq Nat /\ i \in done /\ \A j \in done : j <= i
    <2>1. i \in Nat /\ i <= i
      OBVIOUS
    <2> QED
      BY <2>1
  <1>2. Max(done) = i
    <2> HIDE DEF done
    <2> QED
      BY <1>1, MaxIsBound
  <1> QED
    BY <1>1, <1>2 DEF Text

\* Open leaves open the device whose number was asked for, and no other.
LEMMA OpenStep ==
    ASSUME UsbInv, handle = <<>>, NEW next \in {"describe", "opened"}, Open(next)
    PROVE  UsbInv'
  <1>0. PICK opened \in SUBSET bus :
          \E readable \in SUBSET (opened \cap Numbered) : \E garbage \in Serials :
             LET c == {i \in DevList : Ports[i] \in Known \cap opened}
             IN /\ TakeFirst(c, {i \in c : Matches(serial, Text(c, i, readable, garbage))})
                /\ read' = (handle' # <<>> /\ handle'[1] \in readable)
    BY DEF Open
  <1>1. PICK readable \in SUBSET (opened \cap Numbered), garbage \in Serials :
          LET c == {i \in DevList : Ports[i] \in Known \cap opened}
          IN /\ TakeFirst(c, {i \in c : Matches(serial, Text(c, i, readable, garbage))})
             /\ read' = (handle' # <<>> /\ handle'[1] \in readable)
    BY <1>0
  <1> DEFINE c == {i \in DevList : Ports[i] \in Known \cap opened}
             matching == {i \in c : Matches(serial, Text(c, i, readable, garbage))}
  <1>2. /\ TakeFirst(c, matching)
        /\ read' = (handle' # <<>> /\ handle'[1] \in readable)
    BY <1>1
  <1>3. /\ DevList \subseteq DOMAIN Ports /\ DOMAIN Ports \subseteq Nat
        /\ \A i \in DOMAIN Ports : Ports[i] \in Devices
    BY ListedPlaces DEF UsbInv
  <1>4. c \subseteq Nat /\ c \subseteq DOMAIN Ports /\ matching \subseteq c
    BY <1>3
  <1>5. \A i \in matching : Matches(serial, Text(c, i, readable, garbage))
    OBVIOUS
  <1> HIDE DEF c, matching
  <1>6. UNCHANGED <<bus, serial, devs>> /\ listed' = <<DevList>>
    BY DEF Open
  <1>7. TypeOK /\ HandlesBalanced /\ ~read /\ ~claimed
    BY DEF UsbInv, TypeOK
  <1>8. /\ bus' \subseteq Devices
        /\ serial' \in Serials \cup {<<>>}
        /\ listed' \in {<<>>} \cup {<<l>> : l \in SUBSET DOMAIN Ports}
        /\ DOMAIN devs' \subseteq DOMAIN Ports /\ \A i \in DOMAIN devs' : devs'[i] \in Serials
    BY <1>3, <1>6, <1>7 DEF TypeOK
  <1>9. /\ pc' \in {"describe", "opened"} => handle' # <<>>
        /\ pc' \notin {"describe", "opened"} => handle' = <<>> \/ DevList = {}
        /\ claimed' => handle' # <<>>
        /\ claimed' \in BOOLEAN
    BY <1>7 DEF Open, TypeOK
  <1>10. CASE matching = {}
    <2>1. handle' = <<>> /\ handles' = handles /\ read' = FALSE
      BY <1>2, <1>10 DEF TakeFirst
    <2>2. TypeOK'
      <3>1. pc' \notin {"describe", "opened"} /\ claimed' = FALSE
        BY <1>9, <2>1
      <3>2. handles' \in [Devices -> Nat]
        BY <1>7, <2>1 DEF TypeOK
      <3> QED
        BY <1>8, <2>1, <3>1, <3>2 DEF TypeOK
    <2>3. HandlesBalanced' /\ Begins'
      BY <1>7, <2>1 DEF HandlesBalanced, Begins
    <2> QED
      BY <2>2, <2>3 DEF UsbInv
  <1>11. CASE matching # {}
    <2> DEFINE place == Min(matching)
               d == Ports[place]
    <2>1. place \in matching
      BY <1>4, <1>11, MinIsMember
    <2>2. place \in c /\ place \in DevList /\ d \in Devices
      BY <2>1, <1>3, <1>4 DEF c
    <2>3. handle' = <<d>> /\ handles' = [handles EXCEPT ![d] = @ + 1]
      BY <1>2, <1>11 DEF TakeFirst
    <2>4. read' = (d \in readable)
      BY <1>2, <2>3
    <2>5. d \in readable => Matches(serial, SerialOf[d])
      BY <1>4, <1>5, <2>1, <2>2, TextOfReadable
    <2> HIDE DEF place, d
    <2>6. HandlesBalanced'
      BY <1>7, <2>2, <2>3 DEF HandlesBalanced, TypeOK
    <2>7. Begins'
      BY <1>6, <2>3, <2>4, <2>5 DEF Begins
    <2>8. handles' \in [Devices -> Nat]
      BY <1>7, <2>2, <2>3 DEF TypeOK
    <2>9. pc' \in {"describe", "opened"}
      BY <2>2, <2>3 DEF Open
    <2>10. TypeOK'
      BY <1>8, <1>9, <2>2, <2>3, <2>4, <2>8, <2>9 DEF TypeOK
    <2> QED
      BY <2>6, <2>7, <2>10 DEF UsbInv
  <1> QED
    BY <1>10, <1>11

\* Close leaves no handle open.
LEMMA CloseStep ==
    ASSUME UsbInv, Close, handle # <<>>, pc' \in {"next", "done"},
           UNCHANGED <<bus, serial, listed, devs>>
    PROVE  UsbInv'
  <1>1. PICK d \in Devices : handle = <<d>>
    BY DEF UsbInv, TypeOK
  <1>2. handle' = <<>> /\ ~read' /\ ~claimed' /\ handles' = [handles EXCEPT ![d] = @ - 1]
    BY <1>1 DEF Close
  <1>3. handles[d] = 1 /\ \A e \in Devices \ {d} : handles[e] = 0
    BY <1>1 DEF UsbInv, HandlesBalanced
  <1>4. handles' \in [Devices -> Nat] /\ HandlesBalanced'
    BY <1>2, <1>3 DEF UsbInv, TypeOK, HandlesBalanced
  <1>5. TypeOK'
    BY <1>2, <1>4 DEF UsbInv, TypeOK, Close
  <1> QED
    BY <1>2, <1>4, <1>5 DEF UsbInv, Begins

LEMMA UsbStep ==
    ASSUME UsbInv, [Next]_vars
    PROVE  UsbInv'
  <1>1. CASE BusChanges
    <2>1. bus' \subseteq Devices
      BY <1>1 DEF BusChanges, UsbInv, TypeOK
    <2> QED
      BY <1>1, <2>1 DEF BusChanges, wrapper, UsbInv, TypeOK, HandlesBalanced, Begins
  <1>2. CASE ListDevices
    <2>0. PICK opened \in SUBSET bus : \E readable \in SUBSET opened : \E garbage \in Serials :
            devs' = DeviceList(opened, readable, garbage)
      BY <1>2 DEF ListDevices
    <2>1. PICK readable \in SUBSET opened, garbage \in Serials :
            devs' = DeviceList(opened, readable, garbage)
      BY <2>0
    <2>2. /\ DevList \subseteq DOMAIN Ports
          /\ \A i \in DOMAIN Ports : Ports[i] \in Devices
      BY ListedPlaces DEF UsbInv
    <2>3. DOMAIN devs' \subseteq DOMAIN Ports /\ \A i \in DOMAIN devs' : devs'[i] \in Serials
      BY <2>1, <2>2 DEF DeviceList, Serials
    <2>4. pc' \notin {"describe", "opened"} /\ handle = <<>>
      BY <1>2 DEF ListDevices, UsbInv, TypeOK
    <2>5. listed' \in {<<l>> : l \in SUBSET DOMAIN Ports}
      BY <1>2, <2>2 DEF ListDevices
    <2> QED
      BY <1>2, <2>3, <2>4, <2>5 DEF ListDevices, wrapper, UsbInv, TypeOK, HandlesBalanced, Begins
  <1>3. CASE ListNext
    <2>1. /\ serial' \in Serials \cup {<<>>}
          /\ DOMAIN devs' \subseteq DOMAIN Ports /\ \A i \in DOMAIN devs' : devs'[i] \in Serials
      <3>1. CASE DOMAIN devs = {}
        BY <1>3, <3>1 DEF ListNext, UsbInv, TypeOK
      <3>2. CASE DOMAIN devs # {}
        <4>1. DOMAIN devs \subseteq Nat
          BY DevicesAssumption DEF UsbInv, TypeOK
        <4>2. Min(DOMAIN devs) \in DOMAIN devs
          BY <3>2, <4>1, MinIsMember
        <4> QED
          BY <1>3, <3>2, <4>2 DEF ListNext, UsbInv, TypeOK
      <3> QED
        BY <3>1, <3>2
    <2>2. pc' \notin {"describe", "opened"} /\ handle = <<>> /\ ~read
      BY <1>3 DEF ListNext, UsbInv, TypeOK
    <2>3. TypeOK'
      BY <1>3, <2>1, <2>2 DEF ListNext, wrapper, UsbInv, TypeOK
    <2>4. HandlesBalanced' /\ Begins'
      BY <1>3, <2>2 DEF ListNext, wrapper, UsbInv, HandlesBalanced, Begins
    <2> QED
      BY <2>3, <2>4 DEF UsbInv
  <1>4. CASE FindDev
    <2>1. pc' \notin {"describe", "opened"} /\ pc \notin {"describe", "opened"}
      BY <1>4 DEF FindDev
    <2> QED
      BY <1>4, <2>1 DEF FindDev, wrapper, UsbInv, TypeOK, HandlesBalanced, Begins
  <1>5. CASE OpenListed
    BY <1>5, OpenStep DEF OpenListed, UsbInv, TypeOK
  <1>6. CASE OpenFound
    BY <1>6, OpenStep DEF OpenFound, UsbInv, TypeOK
  <1>7. CASE Describe
    BY <1>7, CloseStep DEF Describe, UsbInv, TypeOK
  <1>8. CASE CloseFound
    BY <1>8, CloseStep DEF CloseFound, UsbInv, TypeOK
  <1>9. CASE UNCHANGED vars
    BY <1>9 DEF vars, wrapper, UsbInv, TypeOK, HandlesBalanced, Begins
  <1> QED
    BY <1>1, <1>2, <1>3, <1>4, <1>5, <1>6, <1>7, <1>8, <1>9 DEF Next

\* The invariant of the selection holds in every state.
THEOREM UsbAlways == Spec => []UsbInv
  BY UsbInitial, UsbStep, PTL DEF Spec

\* Every variable keeps its type, and what is described or used is open.
THEOREM TypesHold == Spec => []TypeOK
  <1>1. UsbInv => TypeOK
    BY DEF UsbInv
  <1> QED
    BY <1>1, UsbAlways, PTL

\* Every handle that was opened is closed again, but the one of the device in use.
THEOREM NoHandleLeaks == Spec => []HandlesBalanced
  <1>1. UsbInv => HandlesBalanced
    BY DEF UsbInv
  <1> QED
    BY <1>1, UsbAlways, PTL

\* Whatever numbers there are: the number of the device in use begins with what was
\* asked for, also when the devices change between the search and the opening.
THEOREM BeginsAsAsked == Spec => []Begins
  <1>1. UsbInv => Begins
    BY DEF UsbInv
  <1> QED
    BY <1>1, UsbAlways, PTL

\* If the serial numbers all have one length, the device in use is the one asked for.
THEOREM DeviceAskedFor ==
    ASSUME \A d, e \in Devices : Len(SerialOf[d]) = Len(SerialOf[e])
    PROVE  Spec => []OpenedIsAsked
  <1>1. UsbInv => OpenedIsAsked
    <2> SUFFICES ASSUME UsbInv, serial # <<>>, read
                 PROVE  SerialOf[handle[1]] = serial
      BY DEF OpenedIsAsked
    <2>1. PICK d \in Devices : handle = <<d>>
      BY DEF UsbInv, TypeOK
    <2>2. PICK e \in Devices : serial = SerialOf[e]
      BY DEF UsbInv, TypeOK, Serials
    <2>3. SerialOf[d] \in Seq(Nat) /\ Len(SerialOf[d]) = Len(serial)
      BY <2>2, DevicesAssumption
    <2>4. SubSeq(SerialOf[d], 1, Len(SerialOf[d])) = serial
      BY <2>1, <2>3 DEF UsbInv, Begins, Matches
    <2> QED
      BY <2>1, <2>3, <2>4
  <1> QED
    BY <1>1, UsbAlways, PTL

-----------------------------------------------------------------------------
(* Reads.  The invariant says where a transfer can be under way: only of   *)
(* the last read, only while the flag is down, and only at the steps of    *)
(* the driver that know about it.                                          *)

Flight ==
    /\ flying \in {{}, {reads}}
    /\ flying # {} => ~finished /\ driver \in {"submitted", "returned", "waiting", "destroying"}
    /\ flying # {} /\ driver = "returned" => returned = "SUCCESS"
    /\ answer \in {0, reads}
    /\ driver \in {"submit", "submitted", "returned", "waiting"} => reads > 0
    /\ driver = "submit" => ~finished

AsyncInv == AsyncTypeOK /\ Flight

LEMMA AsyncInitial ==
    ASSUME AsyncInit
    PROVE  AsyncInv
  BY ReadsAssumption DEF AsyncInit, AsyncInv, AsyncTypeOK, Flight, Results, TransferResults

(* The flag and the result, and the rest of the types: each is small.      *)
Agree == (finished /\ reads > 0) <=> (result # "PENDING")

Numbers == reads \in 0..MaxReads /\ flying \subseteq 1..reads /\ answer \in 0..reads

Names ==
    /\ finished \in BOOLEAN
    /\ result \in Results /\ returned \in Results
    /\ driver \in {"idle", "submit", "submitted", "returned", "waiting", "destroying", "destroyed"}

LEMMA AsyncTypeParts == AsyncTypeOK <=> Agree /\ Numbers /\ Names
  BY DEF AsyncTypeOK, Agree, Numbers, Names

LEMMA StepAgree ==
    ASSUME AsyncInv, [AsyncNext]_asyncVars
    PROVE  Agree'
  <1>0. Agree /\ Numbers /\ Names /\ Flight
    BY AsyncTypeParts DEF AsyncInv
  <1> USE <1>0, ReadsAssumption DEF Agree, Numbers, Names, Flight, Results, TransferResults
  <1>1. CASE init
    BY <1>1 DEF init
  <1>2. CASE NotOpen
    BY <1>2 DEF NotOpen, set
  <1>3. CASE NoMemory
    BY <1>3 DEF NoMemory
  <1>4. CASE SubmitFails
    BY <1>4 DEF SubmitFails, set
  <1>5. CASE Submit
    BY <1>5 DEF Submit
  <1>6. CASE Return
    BY <1>6 DEF Return
  <1>7. CASE async_callback
    BY <1>7 DEF async_callback, set
  <1>8. CASE Driver
    BY <1>8 DEF Driver, getState, Refused, BeginWait, wait
  <1>9. CASE Destroy
    BY <1>9 DEF Destroy
  <1>10. CASE UNCHANGED asyncVars
    BY <1>10 DEF asyncVars
  <1> QED
    BY <1>1, <1>2, <1>3, <1>4, <1>5, <1>6, <1>7, <1>8, <1>9, <1>10 DEF AsyncNext, bulkReadAsync

LEMMA StepNumbers ==
    ASSUME AsyncInv, [AsyncNext]_asyncVars
    PROVE  Numbers'
  <1>0. Numbers /\ Flight
    BY AsyncTypeParts DEF AsyncInv
  <1> USE <1>0, ReadsAssumption DEF Numbers, Flight
  <1>1. CASE init
    BY <1>1 DEF init
  <1>2. CASE NotOpen
    BY <1>2 DEF NotOpen, set
  <1>3. CASE NoMemory
    BY <1>3 DEF NoMemory
  <1>4. CASE SubmitFails
    BY <1>4 DEF SubmitFails, set
  <1>5. CASE Submit
    BY <1>5 DEF Submit
  <1>6. CASE Return
    BY <1>6 DEF Return
  <1>7. CASE async_callback
    BY <1>7 DEF async_callback, set
  <1>8. CASE Driver
    BY <1>8 DEF Driver, getState, Refused, BeginWait, wait
  <1>9. CASE Destroy
    BY <1>9 DEF Destroy
  <1>10. CASE UNCHANGED asyncVars
    BY <1>10 DEF asyncVars
  <1> QED
    BY <1>1, <1>2, <1>3, <1>4, <1>5, <1>6, <1>7, <1>8, <1>9, <1>10 DEF AsyncNext, bulkReadAsync

LEMMA StepNames ==
    ASSUME AsyncInv, [AsyncNext]_asyncVars
    PROVE  Names'
  <1>0. Names
    BY AsyncTypeParts DEF AsyncInv
  <1> USE <1>0, ReadsAssumption DEF Names, Results, TransferResults
  <1>1. CASE init
    BY <1>1 DEF init
  <1>2. CASE NotOpen
    BY <1>2 DEF NotOpen, set
  <1>3. CASE NoMemory
    BY <1>3 DEF NoMemory
  <1>4. CASE SubmitFails
    BY <1>4 DEF SubmitFails, set
  <1>5. CASE Submit
    BY <1>5 DEF Submit
  <1>6. CASE Return
    BY <1>6 DEF Return
  <1>7. CASE async_callback
    BY <1>7 DEF async_callback, set
  <1>8. CASE Driver
    BY <1>8 DEF Driver, getState, Refused, BeginWait, wait
  <1>9. CASE Destroy
    BY <1>9 DEF Destroy
  <1>10. CASE UNCHANGED asyncVars
    BY <1>10 DEF asyncVars
  <1> QED
    BY <1>1, <1>2, <1>3, <1>4, <1>5, <1>6, <1>7, <1>8, <1>9, <1>10 DEF AsyncNext, bulkReadAsync

LEMMA StepFlight ==
    ASSUME AsyncInv, [AsyncNext]_asyncVars
    PROVE  Flight'
  <1> USE ReadsAssumption DEF AsyncInv, AsyncTypeOK, Flight
  <1>1. CASE init
    BY <1>1 DEF init
  <1>2. CASE NotOpen
    BY <1>2 DEF NotOpen, set
  <1>3. CASE NoMemory
    BY <1>3 DEF NoMemory
  <1>4. CASE SubmitFails
    BY <1>4 DEF SubmitFails, set
  <1>5. CASE Submit
    <2>1. flying = {}
      BY <1>5 DEF Submit
    <2>2. flying' = {reads'} /\ ~finished' /\ driver' = "submitted"
      BY <1>5, <2>1 DEF Submit
    <2> QED
      BY <1>5, <2>2 DEF Submit
  <1>6. CASE Return
    BY <1>6 DEF Return
  <1>7. CASE async_callback
    BY <1>7 DEF async_callback, set
  <1>8. CASE Driver
    <2>1. CASE getState
      BY <2>1 DEF getState
    <2>2. CASE Refused
      BY <2>2 DEF Refused
    <2>3. CASE BeginWait
      BY <2>3 DEF BeginWait
    <2>4. CASE wait
      BY <2>4 DEF wait
    <2> QED
      BY <1>8, <2>1, <2>2, <2>3, <2>4 DEF Driver
  <1>9. CASE Destroy
    BY <1>9 DEF Destroy
  <1>10. CASE UNCHANGED asyncVars
    BY <1>10 DEF asyncVars
  <1> QED
    BY <1>1, <1>2, <1>3, <1>4, <1>5, <1>6, <1>7, <1>8, <1>9, <1>10 DEF AsyncNext, bulkReadAsync

\* The invariant holds in every state.
THEOREM AsyncAlways == AsyncSpec => []AsyncInv
  <1>1. AsyncInv /\ [AsyncNext]_asyncVars => AsyncInv'
    BY AsyncTypeParts, StepAgree, StepNumbers, StepNames, StepFlight DEF AsyncInv, AsyncTypeOK, Agree, Numbers, Names
  <1> QED
    BY <1>1, AsyncInitial, PTL DEF AsyncSpec

\* Every variable keeps its type, and a result is there exactly when the flag is up.
THEOREM AsyncTypesHold == AsyncSpec => []AsyncTypeOK
  <1>1. AsyncInv => AsyncTypeOK
    BY DEF AsyncInv
  <1> QED
    BY <1>1, AsyncAlways, PTL

\* No transfer can write to a context, or to its buffer, that the driver has to itself.
THEOREM ContextIsPrivate == AsyncSpec => []NoLateCallback
  <1>1. AsyncInv => NoLateCallback
    BY DEF AsyncInv, Flight, NoLateCallback
  <1> QED
    BY <1>1, AsyncAlways, PTL

\* The result in a context is the answer to the read that was started last.
THEOREM ResultsAreOwn == AsyncSpec => []ResultIsOwn
  <1>1. AsyncInv => ResultIsOwn
    BY DEF AsyncInv, Flight, ResultIsOwn
  <1> QED
    BY <1>1, AsyncAlways, PTL
============================================================================
