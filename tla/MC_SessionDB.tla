---------------------------- MODULE MC_SessionDB ----------------------------
(* SessionDB instantiated for TLC: two packet threads, two session slots, *)
(* a TCP flow bound to a static BIB entry and two UDP flows bound to one  *)
(* dynamic one, both BIB entries on one IPv4 address; TTLs scaled to a    *)
(* few ticks in the order of constants.h (TCP_SYN < ICMP <= TCP_TRANS <   *)
(* UDP < EST), and UDP never configured below UDP_MIN (2 ticks, as        *)
(* ICMP_DEFAULT).                                                          *)
EXTENDS SessionDB

MCFlowBib == [f \in {"fT", "fU1", "fU2"} |-> IF f = "fT" THEN "b1" ELSE "b2"]
MCBibProto == [b \in {"b1", "b2"} |-> IF b = "b1" THEN "TCP" ELSE "UDP"]
MCBibAddr4 == [b \in {"b1", "b2"} |-> "a1"]
MCDefaultTtl == [UDP |-> 3, TCP_EST |-> 3, TCP_TRANS |-> 2, TCP_SYN |-> 1, ICMP |-> 2]
MCListTtls == [UDP |-> {2, 3}, TCP_EST |-> {3}, TCP_TRANS |-> {2},
               TCP_SYN |-> {1}, ICMP |-> {2}]
=============================================================================
