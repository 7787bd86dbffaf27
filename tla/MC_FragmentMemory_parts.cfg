\* Both input paths and translator-built fragments, two slots.
CONSTANTS
    Frags = {f1, f2}
    L3Protos = {"ipv4", "ipv6"}
    NULL = NULL
    WILD = WILD
SPECIFICATION Spec
\* Every fragment freed is a real end state of the code.
CHECK_DEADLOCK FALSE
INVARIANT TypeOK
INVARIANT NoDanglingPart
