---------------------------- MODULE FragOffCodec ----------------------------
(***************************************************************************)
(* The fragment-offset field codecs of src/mod/packet.c.  The fields are  *)
(* 16-bit values in network byte order; build_ipv4/ipv6_frag_off_field()  *)
(* encode them, is_more_fragments_set_* and get_fragment_offset_* decode  *)
(* them.  Arithmetic keeps the __u16 width, and cpu_to_be16() is the byte *)
(* swap it is on a little-endian host.                                     *)
(***************************************************************************)
EXTENDS Integers, Bitwise

CONSTANT LittleEndian   \* host byte order

U16 == 2^16
U16Values == 0..(U16 - 1)
IP_MF == 8192        \* 0x2000
IP_OFFSET == 8191    \* 0x1FFF

\* cpu_to_be16() and be16_to_cpu(): a byte swap on a little-endian host.
Swap16(x) == (x % 256) * 256 + x \div 256
CpuToBe16(x) == IF LittleEndian THEN Swap16(x) ELSE x
Be16ToCpu(x) == IF LittleEndian THEN Swap16(x) ELSE x

\* build_ipv6_frag_off_field(): (offset << 3) | (more << 0), as a __u16.
BuildIpv6FragOff(fragment_offset, more_fragments) ==
    CpuToBe16(((fragment_offset * 8) % U16) | more_fragments)

\* Mutant: the field is left in host byte order.
BuildIpv4FragOffHostOrder(dont_fragment, more_fragments, fragment_offset) ==
    (((dont_fragment * 16384) % U16) | ((more_fragments * 8192) % U16)
     | fragment_offset) % U16

\* build_ipv4_frag_off_field(): (df << 14) | (mf << 13) | offset, as a __u16.
BuildIpv4FragOff(dont_fragment, more_fragments, fragment_offset) ==
    CpuToBe16((((dont_fragment * 16384) % U16) | ((more_fragments * 8192) % U16)
               | fragment_offset) % U16)

IsMoreFragmentsSetIpv6(frag_off) == Be16ToCpu(frag_off) & 1
GetFragmentOffsetIpv6(frag_off) == shiftR(Be16ToCpu(frag_off), 3)

IsMoreFragmentsSetIpv4(frag_off) == shiftR(Be16ToCpu(frag_off) & IP_MF, 13)

\* Mutant: the offset mask loses its top bit.
GetFragmentOffsetIpv4Short(frag_off) == Be16ToCpu(frag_off) & 4095
GetFragmentOffsetIpv4(frag_off) == Be16ToCpu(frag_off) & IP_OFFSET

=============================================================================
