CONSTANTS
    MaxCopies = 2
    LittleEndian = TRUE
    NULL = NULL
SPECIFICATION Spec
CHECK_DEADLOCK FALSE
CONSTANT L3Proto = "ipv4"
CONSTANT Datagram <- MCThreeFragments
INVARIANT TypeOK
INVARIANT FirstFragmentHasL4
