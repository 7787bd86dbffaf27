--------------------------- MODULE FragmentMemory ---------------------------
(***************************************************************************)
(* Who frees what among the buffers of a struct fragment (src/mod/packet.c)*)
(*                                                                         *)
(* A fragment holds frag->skb and three parts (l3_hdr, l4_hdr, payload),  *)
(* each a pointer with a ptr_needs_kfree flag.  frag_create_ipv4/ipv6()    *)
(* wrap an incoming skb, with every part pointing into it.  The           *)
(* translator (not under src/) builds outgoing fragments whose parts are  *)
(* kmalloc()ed, or replaces a part of an incoming one with a kmalloc()ed  *)
(* buffer.  frag_create_skb() joins the parts into a new skb and frees     *)
(* the kmalloc()ed ones; frag_kfree() frees the skb, the parts that need   *)
(* it and the fragment; pkt_kfree() frees every fragment of a packet.     *)
(*                                                                         *)
(* A buffer is identified by the slot of the fragment it was made for and *)
(* its kind.  Reading memory that kmalloc() did not initialise gives NULL *)
(* or a pointer to no live allocation (WILD).                              *)
(***************************************************************************)
EXTENDS FiniteSets, Sequences, SequencesExt

CONSTANTS
    Frags,       \* fragment slots
    L3Protos,    \* which frag_create_ipv4/ipv6 the incoming path uses
    NULL,
    WILD

Parts == {"l3_hdr", "l4_hdr", "payload"}
Kinds == {"inskb", "newskb"} \cup Parts
Buffers == Frags \X Kinds

VARIABLES
    frag,      \* frag[f]: the struct fragment of slot f and its state
    buf,       \* buf[b]: "unused", "live" or "freed"
    badFree    \* a kfree()/kfree_skb() hit something that was not a live allocation

vars == <<frag, buf, badFree>>

Part(ptr, needs) == [ptr |-> ptr, needs |-> needs]

\* A struct fragment whose skb field is skb and whose parts all point at p.
Fragment(skb, p, needs) ==
    [state |-> "live", skb |-> skb, l3_hdr |-> Part(p, needs),
     l4_hdr |-> Part(p, needs), payload |-> Part(p, needs)]

IsLive(f) == frag[f].state = "live"

\* buf after kfree()/kfree_skb() of the pointers of the sequence ps in turn;
\* NULL is ignored, as both ignore it.
NonNull(ps) == SelectSeq(ps, LAMBDA p : p # NULL)
FreedBuf(ps) == [b \in Buffers |-> IF b \in ToSet(NonNull(ps)) THEN "freed" ELSE buf[b]]

\* One of those frees is given a wild pointer, one that is not live, or one
\* freed earlier in the same sequence.
BadFreeIn(ps) ==
    LET nn == NonNull(ps)
    IN \E i \in 1..Len(nn) : \/ nn[i] = WILD
                             \/ buf[nn[i]] # "live"
                             \/ \E j \in 1..(i-1) : nn[j] = nn[i]

FreeSeq(ps) ==
    /\ buf' = FreedBuf(ps)
    /\ badFree' = (badFree \/ BadFreeIn(ps))

\* The parts of fr that need kfree(), in the order the code frees them.
PartsToFree(fr) ==
    SelectSeq(<<fr.l3_hdr, fr.l4_hdr, fr.payload>>, LAMBDA pt : pt.needs)

\* What frag_kfree() frees: frag->skb, then the parts that need it.
PartPtrs(fr) == [i \in 1..Len(PartsToFree(fr)) |-> PartsToFree(fr)[i].ptr]
KfreeSeq(fr) == <<fr.skb>> \o PartPtrs(fr)

\* The allocations a fragment owns.
Owned(fr) == ToSet(KfreeSeq(fr)) \ {NULL}

-----------------------------------------------------------------------------

Init ==
    /\ frag = [f \in Frags |-> [Fragment(NULL, NULL, FALSE) EXCEPT !.state = "none"]]
    /\ buf = [b \in Buffers |-> "unused"]
    /\ badFree = FALSE

\* The parts of fr pointed into skb, l4_hdr staying NULL where it was NULL.
Repoint(fr, skb) ==
    [Fragment(skb, skb, FALSE) EXCEPT
        !.l4_hdr.ptr = IF fr.l4_hdr.ptr = NULL THEN NULL ELSE skb]

\* Mutant: the non-first branch does not assign l4_hdr.ptr = NULL.
FragCreateIpv4NoL4Null(f) ==
    /\ "ipv4" \in L3Protos
    /\ frag[f].state = "none"
    /\ \E first \in BOOLEAN, junk \in {NULL, WILD} :
       LET skb == <<f, "inskb">>
       IN /\ frag' = [frag EXCEPT ![f] =
                 [Fragment(skb, skb, FALSE) EXCEPT !.l4_hdr.ptr = IF first THEN skb ELSE junk]]
          /\ buf' = [buf EXCEPT ![skb] = "live"]
    /\ UNCHANGED badFree

\* frag_create_ipv4(): frag->skb = skb; every part points into the skb and
\* needs no kfree; a fragment at a non-zero offset has l4_hdr.ptr = NULL.
FragCreateIpv4(f) ==
    /\ "ipv4" \in L3Protos
    /\ frag[f].state = "none"
    /\ \E first \in BOOLEAN :
       LET skb == <<f, "inskb">>
       IN /\ frag' = [frag EXCEPT ![f] =
                 [Fragment(skb, skb, FALSE) EXCEPT !.l4_hdr.ptr = IF first THEN skb ELSE NULL]]
          /\ buf' = [buf EXCEPT ![skb] = "live"]
    /\ UNCHANGED badFree

\* frag_create_ipv6(): as IPv4, but frag->skb is never assigned, so it holds
\* whatever the kmalloc()ed memory held.
FragCreateIpv6(f) ==
    /\ "ipv6" \in L3Protos
    /\ frag[f].state = "none"
    /\ \E junk \in {NULL, WILD} :
          LET skb == <<f, "inskb">>
          IN /\ frag' = [frag EXCEPT ![f] = Fragment(junk, skb, FALSE)]
             /\ buf' = [buf EXCEPT ![skb] = "live"]
    /\ UNCHANGED badFree

\* The translator builds an outgoing fragment: no skb, kmalloc()ed parts.
TranslatorCreateFrag(f) ==
    /\ frag[f].state = "none"
    /\ frag' = [frag EXCEPT ![f] = [state |-> "live", skb |-> NULL,
                                    l3_hdr |-> Part(<<f, "l3_hdr">>, TRUE),
                                    l4_hdr |-> Part(<<f, "l4_hdr">>, TRUE),
                                    payload |-> Part(<<f, "payload">>, TRUE)]]
    /\ buf' = [b \in Buffers |-> IF b \in {<<f, k>> : k \in Parts} THEN "live" ELSE buf[b]]
    /\ UNCHANGED badFree

\* The translator replaces a part that points into the skb with a new
\* kmalloc()ed buffer.
TranslatorReplacePart(f, k) ==
    /\ IsLive(f)
    /\ ~frag[f][k].needs
    /\ buf[<<f, k>>] = "unused"
    /\ frag' = [frag EXCEPT ![f][k] = Part(<<f, k>>, TRUE)]
    /\ buf' = [buf EXCEPT ![<<f, k>>] = "live"]
    /\ UNCHANGED badFree

\* Mutant: the parts are freed but keep pointing at the freed buffers.
FragCreateSkbNoRepoint(f) ==
    /\ IsLive(f)
    /\ frag[f].skb = NULL
    /\ buf[<<f, "newskb">>] = "unused"
    /\ LET fr == frag[f]
           newskb == <<f, "newskb">>
       IN /\ frag' = [frag EXCEPT ![f] = [fr EXCEPT !.skb = newskb,
                        !.l3_hdr.needs = FALSE, !.l4_hdr.needs = FALSE,
                        !.payload.needs = FALSE]]
          /\ buf' = [FreedBuf(PartPtrs(fr)) EXCEPT ![newskb] = "live"]
          /\ badFree' = (badFree \/ BadFreeIn(PartPtrs(fr)))

\* Mutant: the ptr_needs_kfree flags are not cleared.
FragCreateSkbKeepFlags(f) ==
    /\ IsLive(f)
    /\ frag[f].skb = NULL
    /\ buf[<<f, "newskb">>] = "unused"
    /\ LET fr == frag[f]
           newskb == <<f, "newskb">>
       IN /\ frag' = [frag EXCEPT ![f] = [Repoint(fr, newskb) EXCEPT
                        !.l3_hdr.needs = fr.l3_hdr.needs, !.l4_hdr.needs = fr.l4_hdr.needs,
                        !.payload.needs = fr.payload.needs]]
          /\ buf' = [FreedBuf(PartPtrs(fr)) EXCEPT ![newskb] = "live"]
          /\ badFree' = (badFree \/ BadFreeIn(PartPtrs(fr)))

\* frag_create_skb(): (requires frag->skb == NULL) allocate the new skb,
\* copy the parts into it, free the parts that need it, point the parts
\* into the new skb and clear their flags.  A failing alloc_skb() returns
\* before any change.
FragCreateSkb(f) ==
    /\ IsLive(f)
    /\ frag[f].skb = NULL
    /\ buf[<<f, "newskb">>] = "unused"
    /\ LET fr == frag[f]
           newskb == <<f, "newskb">>
       IN /\ frag' = [frag EXCEPT ![f] = Repoint(fr, newskb)]
          /\ buf' = [FreedBuf(PartPtrs(fr)) EXCEPT ![newskb] = "live"]
          /\ badFree' = (badFree \/ BadFreeIn(PartPtrs(fr)))

\* Mutant: the payload is not freed.
FragKfreeNoPayload(f) ==
    /\ IsLive(f)
    /\ LET fr == frag[f]
       IN FreeSeq(SelectSeq(KfreeSeq(fr), LAMBDA p : p # fr.payload.ptr \/ ~fr.payload.needs))
    /\ frag' = [frag EXCEPT ![f].state = "freed"]

\* frag_kfree(): kfree_skb(frag->skb) if not NULL, kfree() the parts that
\* need it, unlink and kfree() the fragment.
FragKfree(f) ==
    /\ IsLive(f)
    /\ FreeSeq(KfreeSeq(frag[f]))
    /\ frag' = [frag EXCEPT ![f].state = "freed"]

\* pkt_kfree(): frag_kfree() every fragment of the packet, then the packet.
PktKfree(S) ==
    /\ S # {}
    /\ \A f \in S : IsLive(f)
    /\ FreeSeq(FoldSet(LAMBDA f, acc : acc \o KfreeSeq(frag[f]), <<>>, S))
    /\ frag' = [f \in Frags |-> IF f \in S THEN [frag[f] EXCEPT !.state = "freed"]
                                ELSE frag[f]]

Next ==
    \/ \E f \in Frags :
          \/ FragCreateIpv4(f) \/ FragCreateIpv6(f) \/ TranslatorCreateFrag(f)
          \/ FragCreateSkb(f) \/ FragKfree(f)
          \/ \E k \in Parts : TranslatorReplacePart(f, k)
    \/ \E S \in SUBSET Frags : PktKfree(S)

Spec == Init /\ [][Next]_vars

-----------------------------------------------------------------------------
(* Properties.                                                             *)

\* Every field holds a value the code can have put there; no part pointer
\* is left uninitialised by frag_create_*().
PartType == [ptr : Buffers \cup {NULL}, needs : BOOLEAN]
TypeOK ==
    /\ frag \in [Frags -> [state : {"none", "live", "freed"},
                           skb : Buffers \cup {NULL, WILD},
                           l3_hdr : PartType, l4_hdr : PartType, payload : PartType]]
    /\ buf \in [Buffers -> {"unused", "live", "freed"}]
    /\ badFree \in BOOLEAN

\* kfree()/kfree_skb() are only ever given live allocations: nothing is
\* freed twice (frag_create_skb() then frag_kfree()) or freed wild.
FreesOnlyLive == ~badFree

\* Every live allocation is owned by a live fragment: when frag_kfree()
\* runs nothing it should have freed stays allocated, and no allocation is
\* dropped on the floor by frag_create_*() or frag_create_skb().
NoLeak == \A b \in Buffers : buf[b] = "live" =>
              \E f \in Frags : IsLive(f) /\ b \in Owned(frag[f])

\* The parts of a live fragment point only at live allocations (or are
\* NULL): frag_create_skb() never leaves a part pointing at what it freed.
NoDanglingPart == \A f \in Frags : IsLive(f) =>
                      \A k \in Parts : frag[f][k].ptr # NULL => buf[frag[f][k].ptr] = "live"
=============================================================================
