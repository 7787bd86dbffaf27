\* The IPv6 input path: frag_create_ipv6() never sets frag->skb.
CONSTANTS
    Frags = {f1}
    L3Protos = {"ipv6"}
    NULL = NULL
    WILD = WILD
SPECIFICATION Spec
CHECK_DEADLOCK FALSE
INVARIANT FreesOnlyLive
