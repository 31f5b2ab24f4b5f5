------------------------------- MODULE MCUsbDevice -------------------------------
(***************************************************************************)
(* Four devices on the bus: two capture devices whose numbers differ in    *)
(* the last character, one without a number, and a mouse.                  *)
(***************************************************************************)
EXTENDS UsbDevice

CONSTANTS first, second, unnumbered, mouse

MCDevices == {first, second, unnumbered, mouse}
MCKnown == {first, second, unnumbered}
MCNumbered == {first, second, mouse}
MCPorts == <<mouse, unnumbered, first, second>>
MCSerialOf ==
    [d \in MCDevices |-> CASE d = first -> <<1, 1>> [] d = second -> <<1, 2>> [] OTHER -> <<2, 2>>]
=================================================================================
