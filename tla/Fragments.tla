------------------------------ MODULE Fragments ------------------------------
(***************************************************************************)
(* Fragment reassembly accounting in src/mod/packet.c.  The frag_off     *)
(* fields are encoded and decoded with the operators of FragOffCodec.      *)
(*                                                                         *)
(* The fragments of one datagram arrive in any order, and the network may *)
(* deliver a fragment more than once.  Each arrival goes through          *)
(* frag_create_ipv4/ipv6() and then pkt_create_*() (the first one) or     *)
(* pkt_add_frag_*() (the others).  pkt_is_complete() decides when the     *)
(* packet is handed on.  The packet store around it (packet_db) is not    *)
(* under src/: it hands a complete packet on, or drops a packet when its  *)
(* fragment timer expires, and both are modelled from that role.          *)
(***************************************************************************)
EXTENDS Integers, Sequences, FragOffCodec

CONSTANTS
    L3Proto,       \* "ipv4" | "ipv6": which frag_create/pkt_add_frag path
    Datagram,      \* the fragments the sender made: [off, len, mf]; off in
                   \* bytes, len = bytes of layer-4 header plus payload
    MaxCopies,     \* times the network may deliver one fragment
    NULL

ASSUME L3Proto \in {"ipv4", "ipv6"}
ASSUME MaxCopies \in Nat \ {0}

VARIABLES
    pkt,       \* the struct packet being reassembled, or NULL
    copies,    \* deliveries of each fragment so far
    handedOn   \* fragment lists of the packets handed on as complete

vars == <<pkt, copies, handedOn>>

UDP_HDR_LEN == 8     \* sizeof(struct udphdr): the layer-4 header used here

-----------------------------------------------------------------------------
(* Fragments on the wire and through frag_create_*().                      *)

Indexes == 1..Len(Datagram)

\* The fragment header the sender wrote: offset in 8-octet units.
WireFragOff(i) ==
    IF L3Proto = "ipv4"
    THEN BuildIpv4FragOff(0, Datagram[i].mf, Datagram[i].off \div 8)
    ELSE BuildIpv6FragOff(Datagram[i].off \div 8, Datagram[i].mf)

\* frag_create_ipv6(): the layer-4 header is taken to be there iff the
\* whole frag_off field (offset, reserved bits and M flag) is 0.
FragCreateIpv6(i) ==
    LET fo == WireFragOff(i)
        first == Be16ToCpu(fo) = 0
        l4len == IF first THEN UDP_HDR_LEN ELSE 0
    IN [idx |-> i, frag_off |-> fo,
        l4proto |-> IF first THEN "UDP" ELSE "NONE",
        l4len |-> l4len, paylen |-> Datagram[i].len - l4len]

\* Mutant: the IPv4 path tests the whole field, flags included.
FragCreateIpv4WholeField(i) ==
    LET fo == WireFragOff(i)
        first == Be16ToCpu(fo) = 0
        l4len == IF first THEN UDP_HDR_LEN ELSE 0
    IN [idx |-> i, frag_off |-> fo,
        l4proto |-> IF first THEN "UDP" ELSE "NONE",
        l4len |-> l4len, paylen |-> Datagram[i].len - l4len]

\* frag_create_ipv4(): the layer-4 header is there iff the offset bits are 0.
FragCreateIpv4(i) ==
    LET fo == WireFragOff(i)
        first == (Be16ToCpu(fo) & IP_OFFSET) = 0
        l4len == IF first THEN UDP_HDR_LEN ELSE 0
    IN [idx |-> i, frag_off |-> fo,
        l4proto |-> IF first THEN "UDP" ELSE "NONE",
        l4len |-> l4len, paylen |-> Datagram[i].len - l4len]

FragCreate(i) ==
    IF L3Proto = "ipv4" THEN FragCreateIpv4(i) ELSE FragCreateIpv6(i)

-----------------------------------------------------------------------------
(* The packet.                                                             *)

MoreFragments(f) ==
    IF L3Proto = "ipv4" THEN IsMoreFragmentsSetIpv4(f.frag_off)
    ELSE IsMoreFragmentsSetIpv6(f.frag_off)
FragmentOffset(f) ==
    IF L3Proto = "ipv4" THEN GetFragmentOffsetIpv4(f.frag_off)
    ELSE GetFragmentOffsetIpv6(f.frag_off)

\* pkt_add_frag_ipv4/ipv6(): append; the last fragment (MF clear) fixes
\* total_bytes; every fragment adds its length to current_bytes.
PktAddFrag(p, f) ==
    [p EXCEPT !.frags = Append(@, f),
              !.total_bytes = IF MoreFragments(f) = 0
                              THEN FragmentOffset(f) + f.l4len + f.paylen
                              ELSE @,
              !.current_bytes = @ + f.l4len + f.paylen]

\* Mutant: the new packet is returned without its first fragment.
PktCreateEmpty(f) == [frags |-> <<>>, total_bytes |-> 0, current_bytes |-> 0]

\* pkt_create_ipv4/ipv6(): an empty packet, then pkt_add_frag_*().
PktCreate(f) == PktAddFrag([frags |-> <<>>, total_bytes |-> 0,
                            current_bytes |-> 0], f)

\* pkt_is_complete().
PktIsComplete(p) == p.total_bytes # 0 /\ p.total_bytes = p.current_bytes

-----------------------------------------------------------------------------

Init ==
    /\ pkt = NULL
    /\ copies = [i \in Indexes |-> 0]
    /\ handedOn = <<>>

\* A fragment arrives and is created and stored.
Arrive(i) ==
    /\ copies[i] < MaxCopies
    /\ copies' = [copies EXCEPT ![i] = @ + 1]
    /\ pkt' = IF pkt = NULL THEN PktCreate(FragCreate(i))
              ELSE PktAddFrag(pkt, FragCreate(i))
    /\ UNCHANGED handedOn

\* The packet store hands a complete packet on and forgets it.
HandOn ==
    /\ pkt # NULL
    /\ PktIsComplete(pkt)
    /\ handedOn' = Append(handedOn, pkt.frags)
    /\ pkt' = NULL
    /\ UNCHANGED copies

\* The fragment timer expires and the packet is freed (pkt_kfree()).
Expire ==
    /\ pkt # NULL
    /\ pkt' = NULL
    /\ UNCHANGED <<copies, handedOn>>

Next ==
    \/ \E i \in Indexes : Arrive(i)
    \/ HandOn
    \/ Expire

Spec == Init /\ [][Next]_vars

-----------------------------------------------------------------------------
(* Properties.                                                             *)

FragRecord == [idx : Indexes, frag_off : U16Values,
               l4proto : {"UDP", "NONE"}, l4len : Nat, paylen : Int]

TypeOK ==
    /\ pkt = NULL \/ pkt \in [frags : Seq(FragRecord) \ {<<>>},
                              total_bytes : Nat, current_bytes : Nat]
    /\ copies \in [Indexes -> 0..MaxCopies]
    /\ handedOn \in Seq(Seq(FragRecord))

Arrived(p) == {p.frags[k].idx : k \in 1..Len(p.frags)}

\* pkt_is_complete() holds only once every fragment of the datagram has
\* arrived: a packet is never handed on with a hole in it.
NoPrematureCompletion ==
    pkt # NULL /\ PktIsComplete(pkt) => Arrived(pkt) = Indexes

\* frag_create_*() sees the layer-4 header in the fragment at offset 0, and
\* only there.
FirstFragmentHasL4 ==
    pkt # NULL =>
        \A k \in 1..Len(pkt.frags) :
            (pkt.frags[k].l4proto # "NONE") <=> (Datagram[pkt.frags[k].idx].off = 0)
=============================================================================
