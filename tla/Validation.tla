----------------------------- MODULE Validation -----------------------------
(***************************************************************************)
(* The validation of incoming packets in src/mod/packet.c                  *)
(* (validate_skb_ipv4/ipv6 and their length and checksum helpers).        *)
(*                                                                         *)
(* A packet is abstracted to the header fields the code reads and to the  *)
(* one's-complement sum of its transport bytes: csum_partial() depends on *)
(* the bytes only through that sum, so the checksum arithmetic of          *)
(* csum_tcpudp_magic(), csum_ipv6_magic() and ip_compute_csum() (RFC 1071) *)
(* is computed exactly.  The IPv4 header checksum (ip_fast_csum) and the   *)
(* result of the IPv6 extension-header walk (hdr_iterator_last, not under  *)
(* src/) are inputs.                                                       *)
(*                                                                         *)
(* Each run starts from every packet of a bounded set, validates it once  *)
(* and compares the verdict with what RFC 791, 768, 793, 792 and 8200 say  *)
(* a conforming sender transmits and a receiver must verify.              *)
(***************************************************************************)
EXTENDS Integers, FiniteSets

CONSTANTS
    L4Protos4,      \* transport protocols of the IPv4 packets fed in
    L4Protos6,      \* transport protocols of the IPv6 packets fed in
    DatagramLens,   \* transport lengths (bytes) of the packets fed in
    PseudoSum       \* one's-complement sum of the addresses of the pseudo header

VARIABLES
    input,    \* the packet handed to validate_skb_*
    verdict   \* "none" before validation, then "CONTINUE" or "DROP"

vars == <<input, verdict>>

U16 == 2^16
MIN_IPV6_HDR_LEN == 40
MIN_TCP_HDR_LEN == 20
MIN_UDP_HDR_LEN == 8
MIN_ICMP6_HDR_LEN == 8
MIN_ICMP4_HDR_LEN == 8
ProtoNumber == [TCP |-> 6, UDP |-> 17, ICMP |-> 1, ICMPV6 |-> 58, GRE |-> 47]

-----------------------------------------------------------------------------
(* One's-complement arithmetic (RFC 1071), as the kernel's csum helpers do *)
(* it.                                                                     *)

\* csum_fold(): add the carries back in until the sum fits 16 bits.
RECURSIVE Fold(_)
Fold(s) == IF s < U16 THEN s ELSE Fold((s % U16) + (s \div U16))

Complement16(x) == U16 - 1 - x

\* csum_tcpudp_magic() and csum_ipv6_magic(): the complemented sum of the
\* pseudo header (addresses, length, protocol) and of the transport bytes.
CsumMagic(len, proto, sum) == Complement16(Fold(PseudoSum + len + proto + sum))

\* ip_compute_csum(): the complemented sum of the bytes alone.
IpComputeCsum(sum) == Complement16(Fold(sum))

-----------------------------------------------------------------------------
(* The helpers: TRUE is VER_CONTINUE, FALSE is VER_DROP.                   *)

ValidateLengthsTcp(p, l3len) ==
    /\ p.skbLen >= l3len + MIN_TCP_HDR_LEN
    /\ p.skbLen >= l3len + 4 * p.doff              \* tcp_hdrlen(skb)

\* Mutant: only the minimum UDP length is checked.
ValidateLengthsUdpMinOnly(p, l3len) == p.skbLen >= l3len + MIN_UDP_HDR_LEN

ValidateLengthsUdp(p, l3len) ==
    /\ p.skbLen >= l3len + MIN_UDP_HDR_LEN
    /\ p.skbLen = l3len + p.udpLen

ValidateLengthsIcmp6(p, l3len) == p.skbLen >= l3len + MIN_ICMP6_HDR_LEN
ValidateLengthsIcmp4(p, l3len) == p.skbLen >= l3len + MIN_ICMP4_HDR_LEN

\* validate_csum_ipv6() through validate_csum_tcp6/udp6/icmp6(): the field
\* must equal the recomputed checksum.
ValidateCsumIpv6(p, dl, l4proto) ==
    p.csum = CsumMagic(dl, ProtoNumber[l4proto], p.dataSum)

ValidateCsumTcp4(p, dl) == p.csum = CsumMagic(dl, ProtoNumber.TCP, p.dataSum)

\* Mutant: a computed checksum of 0 is not turned into 0xFFFF.
ValidateCsumUdp4NoOnes(p, dl) ==
    p.csum = 0 \/ p.csum = CsumMagic(dl, ProtoNumber.UDP, p.dataSum)

\* validate_csum_udp4(): a zero field means "no checksum"; a computed 0 is
\* compared as 0xFFFF.
ValidateCsumUdp4(p, dl) ==
    \/ p.csum = 0
    \/ LET c == CsumMagic(dl, ProtoNumber.UDP, p.dataSum)
       IN p.csum = IF c = 0 THEN U16 - 1 ELSE c

ValidateCsumIcmp4(p, dl) == p.csum = IpComputeCsum(p.dataSum)

\* validate_skb_ipv6(): the checks in the order of their early returns.
ValidateSkbIpv6(p) ==
    LET dl == (p.skbLen - p.l3len) % U16          \* u16 datagram_len
    IN  /\ p.skbLen = MIN_IPV6_HDR_LEN + p.lenField
        /\ p.iter = "END"
        /\ CASE p.proto = "TCP" -> ValidateLengthsTcp(p, p.l3len)
                                   /\ ValidateCsumIpv6(p, dl, "TCP")
             [] p.proto = "UDP" -> ValidateLengthsUdp(p, p.l3len)
                                   /\ ValidateCsumIpv6(p, dl, "UDP")
             [] p.proto = "ICMP" -> ValidateLengthsIcmp6(p, p.l3len)
                                    /\ ValidateCsumIpv6(p, dl, "ICMPV6")
             [] OTHER -> FALSE

\* validate_skb_ipv4(): the checks in the order of their early returns.
ValidateSkbIpv4(p) ==
    LET hl == 4 * p.ihl
        dl == (p.skbLen - hl) % U16                \* u16 datagram_len
    IN  /\ p.ihl >= 5
        /\ p.hdrCsumOk                             \* ip_fast_csum() == 0
        /\ p.skbLen >= hl
        /\ p.skbLen = p.lenField                   \* tot_len
        /\ CASE p.proto = "TCP" -> ValidateLengthsTcp(p, hl)
                                   /\ ValidateCsumTcp4(p, dl)
             [] p.proto = "UDP" -> ValidateLengthsUdp(p, hl)
                                   /\ ValidateCsumUdp4(p, dl)
             [] p.proto = "ICMP" -> ValidateLengthsIcmp4(p, hl)
                                    /\ ValidateCsumIcmp4(p, dl)
             [] OTHER -> FALSE

-----------------------------------------------------------------------------
(* What a conforming sender transmits (the reference).                     *)

\* The transport length, the IPv6 pseudo-header protocol number and the
\* checksum a sender computes for a packet.
DatagramLen(p) == p.skbLen - (IF p.l3 = "ipv4" THEN 4 * p.ihl ELSE p.l3len)
PseudoProto(p) ==
    IF p.proto = "ICMP" /\ p.l3 = "ipv6" THEN ProtoNumber.ICMPV6
    ELSE ProtoNumber[p.proto]
TransportSum(p) ==
    IF p.proto = "ICMP" /\ p.l3 = "ipv4" THEN p.dataSum
    ELSE PseudoSum + DatagramLen(p) + PseudoProto(p) + p.dataSum
SenderCsum(p) ==
    LET c == Complement16(Fold(TransportSum(p)))
    IN IF p.proto = "UDP" /\ c = 0 THEN U16 - 1 ELSE c   \* RFC 768

\* A receiver's check (RFC 1071): everything, the field included, sums to
\* all ones.  A zero UDP field over IPv4 means that no checksum was sent.
ChecksumVerifies(p) ==
    \/ Fold(TransportSum(p) + p.csum) = U16 - 1
    \/ p.l3 = "ipv4" /\ p.proto = "UDP" /\ p.csum = 0

HeaderConforms(p) ==
    IF p.l3 = "ipv4"
    THEN p.ihl >= 5 /\ p.hdrCsumOk /\ p.skbLen >= 4 * p.ihl /\ p.lenField = p.skbLen
    ELSE p.skbLen = MIN_IPV6_HDR_LEN + p.lenField /\ p.iter = "END"

TransportConforms(p) ==
    LET dl == DatagramLen(p) IN
    CASE p.proto = "TCP" -> p.doff >= 5 /\ 4 * p.doff <= dl
      [] p.proto = "UDP" -> p.udpLen = dl /\ dl >= MIN_UDP_HDR_LEN
      [] p.proto = "ICMP" -> dl >= 8
      [] OTHER -> FALSE

\* A packet a conforming sender puts on the wire.
Conforming(p) ==
    /\ HeaderConforms(p)
    /\ TransportConforms(p)
    /\ \/ p.csum = SenderCsum(p)
       \/ p.l3 = "ipv4" /\ p.proto = "UDP" /\ p.csum = 0

-----------------------------------------------------------------------------
(* The packets fed in.                                                     *)

Checksums(p) ==
    LET c == SenderCsum(p) IN {c, 0, U16 - 1, (c + 1) % U16}

\* A transport sum for which the checksum computes to 0 (a sender writes
\* 0xFFFF for UDP then), and one for which it does not.
DataSums(l3, proto, dl) ==
    LET base == IF proto = "ICMP" /\ l3 = "ipv4" THEN 0
                ELSE PseudoSum + dl + (IF proto = "ICMP" THEN 58 ELSE ProtoNumber[proto])
    IN {1000, U16 - 1 - Fold(base)}

WithTransport(h, proto) ==
    LET dl == DatagramLen(h) IN
    [l3 : {h.l3}, proto : {proto}, ihl : {h.ihl}, hdrCsumOk : {h.hdrCsumOk},
     l3len : {h.l3len}, iter : {h.iter}, skbLen : {h.skbLen},
     lenField : {h.lenField},
     doff : IF proto = "TCP" THEN {2, 5, 6} ELSE {5},
     udpLen : IF proto = "UDP" THEN {dl, dl + 4} ELSE {0},
     dataSum : DataSums(h.l3, proto, dl), csum : {0}]

\* IPv4 headers: IHL too small, minimal and with options; a right and a
\* wrong header checksum; a buffer as long as the header plus the datagram,
\* or shorter than the header; a tot_len that agrees or does not.
Headers4 ==
    LET Lens(ihl) == {4 * ihl + dl : dl \in DatagramLens} \cup {4 * ihl - 4}
    IN UNION { { [l3 |-> "ipv4", ihl |-> ihl, hdrCsumOk |-> ok, l3len |-> 0,
                  iter |-> "END", skbLen |-> len, lenField |-> len + d] :
                 d \in {0, 4} } :
               <<ihl, ok, len>> \in
                   { t \in {4, 5, 6} \X BOOLEAN \X (Lens(4) \cup Lens(5) \cup Lens(6)) :
                     t[3] \in Lens(t[1]) } }

\* IPv6 headers: with and without an 8-byte extension header; a payload
\* length that agrees or does not; every outcome of the extension-header walk.
Headers6 ==
    LET Iters(hl, len) == IF hl <= len THEN {"END", "UNSUPPORTED", "SUCCESS"}
                          ELSE {"OVERFLOW"}
        Pairs == {40, 48} \X {MIN_IPV6_HDR_LEN + dl : dl \in DatagramLens}
    IN UNION { { [l3 |-> "ipv6", ihl |-> 5, hdrCsumOk |-> TRUE, l3len |-> hp[1],
                  iter |-> it, skbLen |-> hp[2],
                  lenField |-> hp[2] - MIN_IPV6_HDR_LEN + d] :
                 d \in {0, 4}, it \in Iters(hp[1], hp[2]) } :
               hp \in Pairs }

Packets ==
    UNION { { [q EXCEPT !.csum = c] : c \in Checksums(q) } :
            q \in UNION { WithTransport(h, pr) :
                          <<h, pr>> \in (Headers4 \X L4Protos4) \cup (Headers6 \X L4Protos6) } }

-----------------------------------------------------------------------------

Init ==
    /\ input \in Packets
    /\ verdict = "none"

\* The packet goes through validate_skb_ipv4() or validate_skb_ipv6().
Validate ==
    /\ verdict = "none"
    /\ verdict' = IF (IF input.l3 = "ipv4" THEN ValidateSkbIpv4(input)
                     ELSE ValidateSkbIpv6(input))
                  THEN "CONTINUE" ELSE "DROP"
    /\ UNCHANGED input

Spec == Init /\ [][Validate]_vars

-----------------------------------------------------------------------------
(* Properties.                                                             *)

\* Every packet a conforming sender transmits is accepted by
\* validate_skb_*: no good packet is dropped by a length or checksum check.
ConformingAccepted ==
    verdict # "none" /\ Conforming(input) => verdict = "CONTINUE"

\* Every packet validate_skb_* accepts has length fields that agree with
\* the buffer and a checksum a receiver verifies (RFC 1071).
AcceptedVerifies ==
    verdict = "CONTINUE" =>
        /\ HeaderConforms(input)
        /\ input.proto = "UDP" => input.udpLen = DatagramLen(input)
        /\ ChecksumVerifies(input)
=============================================================================
