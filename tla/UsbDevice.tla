-------------------------------- MODULE UsbDevice --------------------------------
(***************************************************************************)
(* Finding and opening a device by its serial number (USBWrapper_t,        *)
(* src/Wrappers/linux/USBif.cpp) for its users in src/hauppauge2.cpp:      *)
(* ListDevs opens every device it lists; FindDev looks the serial number   *)
(* up, and then the program opens it with a wrapper of its own.            *)
(*                                                                         *)
(* One thread runs; devices come and go at any time, and each call of      *)
(* libusb may fail.  A wrapper takes the list of devices once; a list is  *)
(* the set of the places on the bus that it has, in their order.           *)
(***************************************************************************)
EXTENDS Integers, Sequences, FiniteSetsExt

CONSTANTS
    Devices,   \* the USB devices there may be
    Known,     \* those that DevName has a name for
    Numbered,  \* those with a serial number (iSerialNumber > 0)
    SerialOf,  \* the serial number of each, a sequence of characters
    Ports      \* the order of the bus: every list of devices is in it

ASSUME DevicesAssumption ==
    /\ Known \subseteq Devices /\ Numbered \subseteq Devices
    /\ \A d \in Devices : SerialOf[d] \in Seq(Nat) \ {<<>>}
    /\ Ports \in Seq(Devices)

VARIABLES
    bus,      \* devices that are plugged in (external)
    pc,       \* what the program does next
    serial,   \* params.serial, or the one ListDevs is at
    listed,   \* m_dev_list of the wrapper in use: <<>> or <<a set of places>>
    devs,     \* serial numbers ListDevs still has to open, by place
    handle,   \* m_handle: <<>> or <<the device it is of>>
    read,     \* its serial number could be read
    handles,  \* libusb handles that are open, by device
    claimed   \* interface 0 is claimed by m_handle

wrapper == <<handle, read, handles, claimed>>
vars == <<bus, pc, serial, listed, devs, wrapper>>

Serials == {SerialOf[d] : d \in Devices}

Init ==
    /\ bus \in SUBSET Devices
    /\ pc \in {"list", "find", "open"}
    /\ serial \in IF pc = "find" THEN Serials ELSE {<<>>}
    /\ listed = <<>> /\ devs = <<>>
    /\ handle = <<>> /\ read = FALSE /\ claimed = FALSE
    /\ handles = [d \in Devices |-> 0]

BusChanges ==
    /\ \E d \in Devices : bus' \in {bus \cup {d}, bus \ {d}}
    /\ UNCHANGED <<pc, serial, listed, devs, wrapper>>

(* m_dev_list is filled by the first call that needs it.                   *)
DevList == IF listed # <<>> THEN listed[1] ELSE {i \in DOMAIN Ports : Ports[i] \in bus}

-----------------------------------------------------------------------------
(* DeviceList: for ListDevs and FindDev                                    *)

(* The devices with a name and a number that open.  A number that cannot   *)
(* be read leaves strDesc as it is, which is not initialized.              *)
DeviceList(opened, readable, garbage) ==
    [i \in {j \in DevList : Ports[j] \in Known \cap Numbered \cap opened} |->
        IF Ports[i] \in readable THEN SerialOf[Ports[i]] ELSE garbage]

ListDevices ==
    /\ pc = "list"
    /\ listed' = <<DevList>>
    /\ \E opened \in SUBSET bus : \E readable \in SUBSET opened : \E garbage \in Serials :
         devs' = DeviceList(opened, readable, garbage)
    /\ pc' = IF DOMAIN devs' = {} THEN "failed" ELSE "next"
    /\ UNCHANGED <<bus, serial, wrapper>>

ListNext ==
    /\ pc = "next"
    /\ IF DOMAIN devs = {} THEN pc' = "done" /\ UNCHANGED <<serial, devs>>
       ELSE LET i == Min(DOMAIN devs)
            IN /\ pc' = "open next" /\ serial' = devs[i]
               /\ devs' = [j \in DOMAIN devs \ {i} |-> devs[j]]
    /\ UNCHANGED <<bus, listed, wrapper>>

\* the wrapper of FindDev is gone when it returns, and its list too
FindDev ==
    /\ pc = "find"
    /\ \E opened \in SUBSET bus : \E readable \in SUBSET opened : \E garbage \in Serials :
         LET found == DeviceList(opened, readable, garbage)
         IN pc' = IF \E i \in DOMAIN found : found[i] = serial THEN "open" ELSE "failed"
    /\ UNCHANGED <<bus, serial, listed, devs, wrapper>>

-----------------------------------------------------------------------------
(* Open and Close                                                          *)

\* mutant: only the first character is compared
MatchesFirst(s, text) == s = <<>> \/ s[1] = text[1]

\* serial.compare(0, serial_sz, strDesc, serial_sz): strDesc starts with serial
Matches(s, text) == Len(s) <= Len(text) /\ SubSeq(text, 1, Len(s)) = s

(* strDesc when the loop has compared the device at place i of c: the last *)
(* number that could be read, or what it held before any.                  *)
Text(c, i, readable, garbage) ==
    LET done == {j \in c : j <= i /\ Ports[j] \in readable}
    IN IF done = {} THEN garbage ELSE SerialOf[Ports[Max(done)]]

\* mutant: a device with another number is not closed
TakeAll(c, matching) ==
    /\ handle' = IF matching = {} THEN <<>> ELSE <<Ports[Min(matching)]>>
    /\ handles' = [d \in Devices |-> handles[d] + IF \E i \in c : Ports[i] = d THEN 1 ELSE 0]

(* The first device that matches stays open, those before it are closed.   *)
TakeFirst(c, matching) ==
    /\ handle' = IF matching = {} THEN <<>> ELSE <<Ports[Min(matching)]>>
    /\ handles' = IF matching = {} THEN handles ELSE [handles EXCEPT ![handle'[1]] = @ + 1]

(* Open compares every device with a name that opens.  If none matches, it *)
(* goes on with m_handle as it is, because the idx it tests is not the one *)
(* of the loop; reset, detach and claim are not checked.                   *)
Open(next) ==
    /\ listed' = <<DevList>>
    /\ \E opened \in SUBSET bus : \E readable \in SUBSET (opened \cap Numbered) :
       \E garbage \in Serials :
         LET c == {i \in DevList : Ports[i] \in Known \cap opened}
         IN /\ TakeFirst(c, {i \in c : Matches(serial, Text(c, i, readable, garbage))})
            /\ read' = (handle' # <<>> /\ handle'[1] \in readable)
    /\ IF DevList = {} THEN pc' = "failed" /\ UNCHANGED claimed
       ELSE IF handle' = <<>> THEN pc' = "crashed" /\ UNCHANGED claimed
       ELSE pc' = next /\ claimed' \in BOOLEAN
    /\ UNCHANGED <<bus, serial, devs>>

OpenListed == pc = "open next" /\ Open("describe")
OpenFound == pc = "open" /\ Open("opened")

\* mutant: the interface is not released
CloseUnreleased ==
    /\ handle' = <<>> /\ read' = FALSE
    /\ handles' = IF handle = <<>> THEN handles ELSE [handles EXCEPT ![handle[1]] = @ - 1]
    /\ UNCHANGED claimed

Close ==
    /\ handle' = <<>> /\ read' = FALSE /\ claimed' = FALSE
    /\ handles' = IF handle = <<>> THEN handles ELSE [handles EXCEPT ![handle[1]] = @ - 1]

\* USBDevDesc, then Close and the next device
Describe ==
    /\ pc = "describe"
    /\ Close
    /\ pc' = "next"
    /\ UNCHANGED <<bus, serial, listed, devs>>

\* the end of a recording
CloseFound ==
    /\ pc = "opened"
    /\ Close
    /\ pc' = "done"
    /\ UNCHANGED <<bus, serial, listed, devs>>

Next ==
    \/ BusChanges
    \/ ListDevices \/ ListNext \/ FindDev \/ OpenListed \/ OpenFound \/ Describe \/ CloseFound

Spec == Init /\ [][Next]_vars

-----------------------------------------------------------------------------
(* Properties.                                                             *)

\* Every variable keeps its type, and what is described or used is open.
TypeOK ==
    /\ bus \subseteq Devices
    /\ serial \in Serials \cup {<<>>}
    /\ listed \in {<<>>} \cup {<<l>> : l \in SUBSET DOMAIN Ports}
    /\ DOMAIN devs \subseteq DOMAIN Ports /\ \A i \in DOMAIN devs : devs[i] \in Serials
    /\ handle \in {<<>>} \cup {<<d>> : d \in Devices}
    /\ handles \in [Devices -> Nat] /\ read \in BOOLEAN /\ claimed \in BOOLEAN
    /\ pc \in {"describe", "opened"} <=> handle # <<>>
    /\ read \/ claimed => handle # <<>>

\* The only handle that is open is the one of the device in use: the devices that
\* Open looked at and those ListDevs is done with are closed, however many there
\* are, and whichever of them come, go or fail meanwhile.
HandlesBalanced ==
    \A d \in Devices : handles[d] = IF handle = <<d>> THEN 1 ELSE 0

\* The device in use is the one whose serial number was asked for, if it could be
\* read, also when the device that FindDev had found is no longer there.
OpenedIsAsked == serial # <<>> /\ read => SerialOf[handle[1]] = serial

\* "Unable to find serial": Open reports a device that is not there, as when the
\* one that FindDev or DeviceList had found is gone.
MissingIsReported == serial # <<>> => pc # "crashed"
=================================================================================
