-------------------------- MODULE FragOffCodecCheck --------------------------
(***************************************************************************)
(* The frag_off codecs checked over every fragment offset a 13-bit field  *)
(* holds and every flag.  A field is built once with                      *)
(* build_ipv4/ipv6_frag_off_field(); it is then compared byte for byte    *)
(* with the header layout of RFC 791 and RFC 8200 (the reference), and    *)
(* decoded again with the code's decoders.                                 *)
(***************************************************************************)
EXTENDS FragOffCodec

VARIABLES
    input,   \* [off, mf, df]: what the translator asks to encode
    wire4,   \* the __be16 build_ipv4_frag_off_field() returned, or NoField
    wire6    \* the __be16 build_ipv6_frag_off_field() returned, or NoField

vars == <<input, wire4, wire6>>

NoField == -1

Init ==
    /\ input \in [off : 0..IP_OFFSET, mf : {0, 1}, df : {0, 1}]
    /\ wire4 = NoField
    /\ wire6 = NoField

\* Both fields are built from the input.
Encode ==
    /\ wire4 = NoField
    /\ wire4' = BuildIpv4FragOff(input.df, input.mf, input.off)
    /\ wire6' = BuildIpv6FragOff(input.off, input.mf)
    /\ UNCHANGED input

Spec == Init /\ [][Encode]_vars

\* The two bytes a __be16 occupies in memory, first byte first.
MemoryBytes(x) ==
    IF LittleEndian THEN <<x % 256, x \div 256>> ELSE <<x \div 256, x % 256>>

\* The header fields as RFC 791 (flags 0 DF MF, then 13 bits of offset) and
\* RFC 8200 (13 bits of offset, 2 reserved bits, M) lay them out on the wire.
ReferenceIpv4Bytes(in) ==
    <<in.df * 64 + in.mf * 32 + in.off \div 256, in.off % 256>>
ReferenceIpv6Bytes(in) ==
    <<(in.off * 8) \div 256, ((in.off * 8) % 256) + in.mf>>

\* build_ipv4/ipv6_frag_off_field() put the offset and flags where the
\* protocols place them, in network byte order, on this host.
FragOffMatchesReference ==
    wire4 # NoField =>
        /\ MemoryBytes(wire4) = ReferenceIpv4Bytes(input)
        /\ MemoryBytes(wire6) = ReferenceIpv6Bytes(input)

\* get_fragment_offset_* and is_more_fragments_set_* give back what the
\* build functions were given.
FragOffRoundTrip ==
    wire4 # NoField =>
        /\ GetFragmentOffsetIpv4(wire4) = input.off
        /\ IsMoreFragmentsSetIpv4(wire4) = input.mf
        /\ GetFragmentOffsetIpv6(wire6) = input.off
        /\ IsMoreFragmentsSetIpv6(wire6) = input.mf
=============================================================================
