SPECIFICATION Spec
CONSTANTS
    first = first
    second = second
    unnumbered = unnumbered
    mouse = mouse
    Devices <- MCDevices
    Known <- MCKnown
    Numbered <- MCNumbered
    Ports <- MCPorts
    SerialOf <- MCSerialOf
INVARIANTS
    TypeOK
    HandlesBalanced
    OpenedIsAsked
