CONSTANTS
    L4Protos4 = {"TCP", "UDP", "ICMP", "GRE"}
    L4Protos6 = {"TCP", "ICMP", "GRE"}
    DatagramLens = {8, 20, 24}
    PseudoSum = 4660
SPECIFICATION Spec
\* Validation is one step per packet; nothing follows it.
CHECK_DEADLOCK FALSE
INVARIANT ConformingAccepted
INVARIANT AcceptedVerifies
