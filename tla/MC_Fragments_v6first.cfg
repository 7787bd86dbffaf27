CONSTANTS
    MaxCopies = 1
    LittleEndian = TRUE
    NULL = NULL
SPECIFICATION Spec
CHECK_DEADLOCK FALSE
CONSTANT L3Proto = "ipv6"
CONSTANT Datagram <- MCThreeFragments
INVARIANT FirstFragmentHasL4
