\* Two fragment slots on the IPv4 input path plus translator-built fragments.
CONSTANTS
    Frags = {f1, f2}
    L3Protos = {"ipv4"}
    NULL = NULL
    WILD = WILD
SPECIFICATION Spec
\* Every fragment freed is a real end state of the code.
CHECK_DEADLOCK FALSE
INVARIANT FreesOnlyLive
INVARIANT NoLeak
