------------------------------ MODULE BibTable ------------------------------
(***************************************************************************)
(* One BIB table of src/mod/stateful/bib/table.c: two red-black trees     *)
(* (tree6 keyed by the IPv6 transport address, tree4 by the IPv4 one)     *)
(* over the same bib_entry objects, a count, and one spinlock.  Every     *)
(* table function runs its whole body under the spinlock, so each one is  *)
(* a single atomic action here; actors interleave between them.           *)
(*                                                                         *)
(* Around the table: the reference counts the entries carry (kref, with   *)
(* the "fake user" a static entry holds on itself), packet threads that   *)
(* look entries up and later return or keep the reference for a session,  *)
(* sessions that drop their reference when they die, and a management     *)
(* client that pages through the table with bibtable_foreach().  The      *)
(* entry and session code is not under src/; those actions are modelled   *)
(* from spec.md and say so.                                                *)
(***************************************************************************)
EXTENDS Integers, FiniteSets, Sequences, SequencesExt

CONSTANTS
    Entries,      \* bib_entry objects that can be allocated
    Addr6,        \* IPv6 transport addresses (only equality matters)
    Addr4,        \* ipv4_transport_addr <<l3, l4>>: an address below
                  \* 2^AddrBits and a port / ICMP id, as integers
    AddrBits,     \* width of an IPv4 address in this model
    Threads,      \* packet-processing threads
    Prefixes4,    \* ipv4_prefix arguments of bibtable_delete_taddr4s()
    PortRanges,   \* port_range arguments of bibtable_delete_taddr4s()
    Paging,       \* whether a management client pages through the table
    PageSize,     \* entries a management visitor accepts per call
    MaxSessions,  \* bound on sessions per entry
    SplitRelease, \* whether the last reference is dropped outside the
                  \* table lock, before the caller's bibtable_rm()
    NULL

ASSUME PageSize \in Nat \ {0} /\ MaxSessions \in Nat
ASSUME \A p \in Prefixes4 : p.len \in 0..AddrBits

VARIABLES
    tree6,     \* entries hooked into table->tree6
    tree4,     \* entries hooked into table->tree4
    count,     \* table->count
    bib,       \* the fields of each entry: ipv6, ipv4, is_static
    refs,      \* each entry's kref counter
    status,    \* "unused" | "live" | "freed" (kfree'd)
    sessions,  \* references held by sessions, per entry
    held,      \* the reference a packet thread holds, or NULL
    pgPhase,   \* management pager: "idle" | "paging" | "done"
    pgOffset,  \* the offset it passes to bibtable_foreach(), or NULL
    pgSeen,    \* entries it has been shown, in order
    pgStart    \* entries in the table when the paging began

vars == <<tree6, tree4, count, bib, refs, status, sessions, held,
          pgPhase, pgOffset, pgSeen, pgStart>>
tableVars == <<tree6, tree4, count, bib, refs, status, sessions, held>>
pagerVars == <<pgPhase, pgOffset, pgSeen, pgStart>>

NoEntry == [ipv6 |-> NULL, ipv4 |-> NULL, is_static |-> FALSE]

-----------------------------------------------------------------------------
(* Keys and the trees' order.                                              *)

\* compare_full4(): address first, then port.
Less4(a, b) == a[1] < b[1] \/ (a[1] = b[1] /\ a[2] < b[2])

Key4(e) == bib[e].ipv4
LessEntry(e, f) == Less4(Key4(e), Key4(f))

\* compare_full6() = 0: address and port equal.
SameAddr6(e, a6) == bib[e].ipv6 = a6

\* find_by_addr6() / find_by_addr4(): the entry with that key, or NULL.
Find6(a6) == IF \E e \in tree6 : SameAddr6(e, a6)
             THEN CHOOSE e \in tree6 : SameAddr6(e, a6) ELSE NULL
Find4(a4) == IF \E e \in tree4 : Key4(e) = a4
             THEN CHOOSE e \in tree4 : Key4(e) = a4 ELSE NULL

\* bibtable_contains4(): what the port allocator asks.
Contains4(a4) == Find4(a4) # NULL

\* The smallest entry of a set in tree4 order, or NULL (rb_first).
First4(S) == IF S = {} THEN NULL
             ELSE CHOOSE e \in S : \A f \in S : ~LessEntry(f, e)

\* rb_next() in tree4.
Next4(e) == First4({f \in tree4 : LessEntry(e, f)})

\* find_starting_point(): where __foreach() begins.  When the offset is
\* not in the tree, rbtree_find_node() leaves in "parent" the last node of
\* the search path, which is the offset's in-order predecessor or its
\* successor depending on the tree's shape: both are possible.
\* Mutant: the exclusive offset is ignored when it is found (the node
\* itself is returned instead of rb_next(node)).
StartingPointInclusive(offset, include_offset) ==
    IF offset = NULL THEN {First4(tree4)}
    ELSE IF Find4(offset) # NULL THEN {Find4(offset)}
    ELSE IF tree4 = {} THEN {NULL}
    ELSE LET below == {e \in tree4 : Less4(Key4(e), offset)}
             above == {e \in tree4 : Less4(offset, Key4(e))}
         IN IF above = {} THEN {NULL} ELSE {First4(above)}

StartingPoint(offset, include_offset) ==
    IF offset = NULL THEN {First4(tree4)}
    ELSE IF Find4(offset) # NULL
    THEN {IF include_offset THEN Find4(offset) ELSE Next4(Find4(offset))}
    ELSE IF tree4 = {} THEN {NULL}
    ELSE LET below == {e \in tree4 : Less4(Key4(e), offset)}
             above == {e \in tree4 : Less4(offset, Key4(e))}
             pred  == CHOOSE e \in below : \A f \in below : ~LessEntry(e, f)
             parents == (IF below = {} THEN {} ELSE {pred})
                        \cup (IF above = {} THEN {} ELSE {First4(above)})
         IN {IF Less4(Key4(p), offset) THEN Next4(p) ELSE p : p \in parents}

\* The nodes __foreach() walks from node s, in order (rb_next each time).
From(s) == IF s = NULL THEN <<>>
           ELSE SetToSortSeq({f \in tree4 : ~LessEntry(f, s)}, LessEntry)

\* prefix4_contains() and port_range_contains().
Prefix4Contains(p, l3) ==
    l3 \div 2^(AddrBits - p.len) = p.address \div 2^(AddrBits - p.len)
PortRangeContains(r, l4) == r.min <= l4 /\ l4 <= r.max

-----------------------------------------------------------------------------
(* Reference counting (the entry code is not under src/).                 *)

\* bibentry_return() on one reference of e by a packet thread or a
\* session, outside the table lock.  When the count reaches zero the
\* caller goes on to bibtable_rm() and kfree(): with SplitRelease that is
\* a later step (RmReleased) and e stays indexed, "released", meanwhile;
\* otherwise the removal happens in the same step.
ReleaseRef(e) ==
    /\ refs' = [refs EXCEPT ![e] = @ - 1]
    /\ IF refs[e] = 1 /\ ~SplitRelease
       THEN /\ tree6' = tree6 \ {e}
            /\ tree4' = tree4 \ {e}
            /\ count' = count - 1
            /\ status' = [status EXCEPT ![e] = "freed"]
       ELSE /\ status' = [status EXCEPT ![e] = IF refs[e] = 1 THEN "released" ELSE @]
            /\ UNCHANGED <<tree6, tree4, count>>

\* What a visitor does with entry e: bibtable_flush() passes every entry to
\* __flush(); __delete_taddr4s() breaks the walk at the first entry outside
\* the prefix, skips one whose port is outside the range, and __flush()es
\* the others.  tgt.all marks bibtable_flush(); otherwise tgt carries the
\* prefix and ports of a range deletion.
Visit(tgt, e) ==
    CASE tgt.all -> "flush"
      [] ~Prefix4Contains(tgt.prefix, Key4(e)[1]) -> "break"
      [] ~PortRangeContains(tgt.ports, Key4(e)[2]) -> "skip"
      [] OTHER -> "flush"

\* __flush() on e within a walk whose table state is st (tree4 and the
\* counters): a static entry
\* loses its fake user, and if that was its last reference it is rm()'d
\* and kfree()'d.
FlushOne(st, e) ==
    IF bib[e].is_static
    THEN [st EXCEPT !.refs[e] = @ - 1,
                    !.tree = IF st.refs[e] = 1 THEN @ \ {e} ELSE @]
    ELSE st

\* rb_next() of node in the tree nodes T (node itself may be gone).
NextIn(T, node) == First4({f \in T : LessEntry(node, f)})

\* __foreach() from node, one visit at a time, with the table state
\* threaded through: next is captured before the visitor runs.
\* Mutant: next is read after the visitor; when the visitor freed the
\* node, rb_next() reads freed memory, here as the walk ending.
RECURSIVE WalkNextAfterVisit(_, _, _)
WalkNextAfterVisit(tgt, node, st) ==
    IF node = NULL \/ Visit(tgt, node) = "break" THEN st
    ELSE LET st2 == IF Visit(tgt, node) = "flush" THEN FlushOne(st, node) ELSE st
         IN WalkNextAfterVisit(tgt, IF node \in st2.tree THEN NextIn(st2.tree, node)
                                  ELSE NULL, st2)

RECURSIVE Walk(_, _, _)
Walk(tgt, node, st) ==
    IF node = NULL \/ Visit(tgt, node) = "break" THEN st
    ELSE LET next == NextIn(st.tree, node)
         IN Walk(tgt, next, IF Visit(tgt, node) = "flush" THEN FlushOne(st, node)
                                                      ELSE st)

\* A flush walk from node over the current table, and its effect: the
\* entries it freed leave both trees and the count.
FlushWalk(tgt, node) ==
    LET st   == Walk(tgt, node, [tree |-> tree4, refs |-> refs])
        dead == tree4 \ st.tree
    IN /\ refs' = st.refs
       /\ tree4' = st.tree
       /\ tree6' = tree6 \ dead
       /\ count' = count - Cardinality(dead)
       /\ status' = [e \in Entries |-> IF e \in dead THEN "freed" ELSE status[e]]

-----------------------------------------------------------------------------
(* Operations.                                                             *)

Init ==
    /\ tree6 = {}
    /\ tree4 = {}
    /\ count = 0
    /\ bib = [e \in Entries |-> NoEntry]
    /\ refs = [e \in Entries |-> 0]
    /\ status = [e \in Entries |-> "unused"]
    /\ sessions = [e \in Entries |-> 0]
    /\ held = [t \in Threads |-> NULL]
    /\ pgPhase = "idle"
    /\ pgOffset = NULL
    /\ pgSeen = <<>>
    /\ pgStart = {}

\* A new entry (static: its fake user; dynamic: the reference of the
\* session being created) goes through bibtable_add().  add6() fails on an
\* IPv6 collision; add4() fails on an IPv4 one, and then the IPv6 node is
\* erased again.  On failure the caller frees the entry.
\* Mutant: when add4() fails the IPv6 node is not erased again.
AddNoRollback(e, a6, a4, static) ==
    /\ status[e] = "unused"
    /\ bib' = [bib EXCEPT ![e] = [ipv6 |-> a6, ipv4 |-> a4,
                                  is_static |-> static]]
    /\ IF Find6(a6) = NULL /\ Find4(a4) = NULL
       THEN /\ tree6' = tree6 \cup {e}
            /\ tree4' = tree4 \cup {e}
            /\ count' = count + 1
            /\ refs' = [refs EXCEPT ![e] = 1]
            /\ status' = [status EXCEPT ![e] = "live"]
            /\ sessions' = [sessions EXCEPT ![e] = IF static THEN 0 ELSE 1]
       ELSE /\ tree6' = IF Find6(a6) = NULL THEN tree6 \cup {e} ELSE tree6
            /\ status' = [status EXCEPT ![e] = "freed"]
            /\ UNCHANGED <<tree4, count, refs, sessions>>
    /\ UNCHANGED <<held, pagerVars>>

\* Mutant: table->count++ is left out.
AddUncounted(e, a6, a4, static) ==
    /\ status[e] = "unused"
    /\ bib' = [bib EXCEPT ![e] = [ipv6 |-> a6, ipv4 |-> a4,
                                  is_static |-> static]]
    /\ IF Find6(a6) = NULL /\ Find4(a4) = NULL
       THEN /\ tree6' = tree6 \cup {e}
            /\ tree4' = tree4 \cup {e}
            /\ refs' = [refs EXCEPT ![e] = 1]
            /\ status' = [status EXCEPT ![e] = "live"]
            /\ sessions' = [sessions EXCEPT ![e] = IF static THEN 0 ELSE 1]
       ELSE /\ status' = [status EXCEPT ![e] = "freed"]
            /\ UNCHANGED <<tree6, tree4, refs, sessions>>
    /\ UNCHANGED <<count, held, pagerVars>>

Add(e, a6, a4, static) ==
    LET add6ok == Find6(a6) = NULL
        add4ok == Find4(a4) = NULL
    IN
    /\ status[e] = "unused"
    /\ bib' = [bib EXCEPT ![e] = [ipv6 |-> a6, ipv4 |-> a4,
                                  is_static |-> static]]
    /\ IF add6ok /\ add4ok
       THEN /\ tree6' = tree6 \cup {e}
            /\ tree4' = tree4 \cup {e}
            /\ count' = count + 1
            /\ refs' = [refs EXCEPT ![e] = 1]
            /\ status' = [status EXCEPT ![e] = "live"]
            /\ sessions' = [sessions EXCEPT ![e] = IF static THEN 0 ELSE 1]
       ELSE /\ status' = [status EXCEPT ![e] = "freed"]
            /\ UNCHANGED <<tree6, tree4, count, refs, sessions>>
    /\ UNCHANGED <<held, pagerVars>>

\* bibtable_get6() / bibtable_get4() that find an entry: the reference is
\* taken under the lock.  A miss changes nothing.
Get(t, e) ==
    /\ held[t] = NULL
    /\ held' = [held EXCEPT ![t] = e]
    /\ refs' = [refs EXCEPT ![e] = @ + 1]
    /\ UNCHANGED <<tree6, tree4, count, bib, status, sessions, pagerVars>>

Get6(t, a6) == Find6(a6) # NULL /\ Get(t, Find6(a6))
Get4(t, a4) == Find4(a4) # NULL /\ Get(t, Find4(a4))

\* The thread is done with the entry (bibentry_return(), then
\* bibtable_rm() if that was the last reference).  Returning a reference
\* to freed memory is undefined; the model does not go there.
Put(t) ==
    /\ held[t] # NULL
    /\ status[held[t]] \in {"live", "released"}
    /\ ReleaseRef(held[t])
    /\ held' = [held EXCEPT ![t] = NULL]
    /\ UNCHANGED <<bib, sessions, pagerVars>>

\* A session is created on the entry the thread looked up; the session
\* keeps the reference.
BindSession(t) ==
    /\ held[t] # NULL
    /\ sessions[held[t]] < MaxSessions
    /\ sessions' = [sessions EXCEPT ![held[t]] = @ + 1]
    /\ held' = [held EXCEPT ![t] = NULL]
    /\ UNCHANGED <<tree6, tree4, count, bib, refs, status, pagerVars>>

\* A session of e expires and returns its reference.
EndSession(e) ==
    /\ sessions[e] > 0
    /\ status[e] \in {"live", "released"}
    /\ sessions' = [sessions EXCEPT ![e] = @ - 1]
    /\ ReleaseRef(e)
    /\ UNCHANGED <<bib, held, pagerVars>>

\* The caller whose bibentry_return() released e: bibtable_rm() under the
\* table lock, then kfree().  Nothing is re-checked: a lookup that found
\* e in the meantime has taken a reference on it.
RmReleased(e) ==
    /\ status[e] = "released"
    /\ tree6' = tree6 \ {e}
    /\ tree4' = tree4 \ {e}
    /\ count' = count - 1
    /\ status' = [status EXCEPT ![e] = "freed"]
    /\ UNCHANGED <<bib, refs, sessions, held, pagerVars>>

\* bibtable_flush(): __foreach() over the whole table with __flush().
Flush ==
    /\ FlushWalk([all |-> TRUE], First4(tree4))
    /\ UNCHANGED <<bib, sessions, held, pagerVars>>

\* bibtable_delete_taddr4s(): start at (prefix->address, ports->min),
\* inclusive, and walk with __delete_taddr4s().
DeleteTaddr4s(p, r) ==
    /\ \E s \in StartingPoint(<<p.address, r.min>>, TRUE) :
          FlushWalk([all |-> FALSE, prefix |-> p, ports |-> r], s)
    /\ UNCHANGED <<bib, sessions, held, pagerVars>>

\* The management client starts paging through the table.
StartPaging ==
    /\ Paging
    /\ pgPhase \in {"idle", "done"}
    /\ pgPhase' = "paging"
    /\ pgOffset' = NULL
    /\ pgSeen' = <<>>
    /\ pgStart' = tree4
    /\ UNCHANGED tableVars

\* bibtable_foreach() with the last entry seen as the (exclusive) offset;
\* the visitor stops the walk once it holds PageSize entries.  A short
\* page ends the paging.
ForeachPage ==
    /\ pgPhase = "paging"
    /\ \E s \in StartingPoint(pgOffset, FALSE) :
        LET walk == From(s)
            page == SubSeq(walk, 1, IF Len(walk) < PageSize
                                    THEN Len(walk) ELSE PageSize)
        IN /\ pgSeen' = pgSeen \o page
           /\ pgOffset' = IF page = <<>> THEN pgOffset
                          ELSE Key4(page[Len(page)])
           /\ pgPhase' = IF Len(page) < PageSize THEN "done" ELSE "paging"
    /\ UNCHANGED <<tableVars, pgStart>>

Next ==
    \/ \E e \in Entries, a6 \in Addr6, a4 \in Addr4, st \in BOOLEAN :
          Add(e, a6, a4, st)
    \/ \E t \in Threads :
          \/ \E a6 \in Addr6 : Get6(t, a6)
          \/ \E a4 \in Addr4 : Get4(t, a4)
          \/ Put(t)
          \/ BindSession(t)
    \/ \E e \in Entries : EndSession(e) \/ RmReleased(e)
    \/ Flush
    \/ \E p \in Prefixes4, r \in PortRanges : DeleteTaddr4s(p, r)
    \/ StartPaging
    \/ ForeachPage

Spec == Init /\ [][Next]_vars

-----------------------------------------------------------------------------
(* Properties.                                                             *)

TypeOK ==
    /\ tree6 \subseteq Entries /\ tree4 \subseteq Entries
    /\ count \in Nat
    /\ bib \in [Entries -> [ipv6 : Addr6 \cup {NULL},
                            ipv4 : Addr4 \cup {NULL}, is_static : BOOLEAN]]
    /\ refs \in [Entries -> Int]
    /\ status \in [Entries -> {"unused", "live", "released", "freed"}]
    /\ sessions \in [Entries -> 0..MaxSessions]
    /\ held \in [Threads -> Entries \cup {NULL}]
    /\ pgPhase \in {"idle", "paging", "done"}
    /\ pgOffset \in Addr4 \cup {NULL}
    /\ pgSeen \in Seq(Entries)
    /\ pgStart \subseteq Entries

\* The two indices of bibtable_add()/rm() hold the same entries, the count
\* is their size, no key appears twice in either, and every indexed entry
\* is allocated memory (a freed entry is never reachable from the table).
TableIntegrity ==
    /\ tree6 = tree4
    /\ count = Cardinality(tree4)
    /\ \A e \in tree4 : status[e] \in {"live", "released"}
    /\ \A e, f \in tree6 : bib[e].ipv6 = bib[f].ipv6 => e = f
    /\ \A e, f \in tree4 : Key4(e) = Key4(f) => e = f

\* A flush walk, whose visitor may free the node it is on, drops the fake
\* user of exactly the static entries it targets: bibtable_flush() every
\* static entry, bibtable_delete_taddr4s() those whose IPv4 address is in
\* the prefix and whose port is in the range, however the walk is started
\* and wherever it breaks.
StaticsIn(tgt) ==
    {e \in tree4 : /\ bib[e].is_static
                   /\ \/ tgt.all
                      \/ /\ Prefix4Contains(tgt.prefix, Key4(e)[1])
                         /\ PortRangeContains(tgt.ports, Key4(e)[2])}
\* Only the two flush operations move the counters without a holder or a
\* session changing, so the flush formulas are evaluated on those steps alone.
DroppedUsers == {e \in Entries : refs'[e] = refs[e] - 1}
FlushStep == refs' # refs /\ UNCHANGED <<held, sessions>>
FlushRangeExact ==
    [][FlushStep =>
       /\ Flush => DroppedUsers = StaticsIn([all |-> TRUE])
       /\ \A p \in Prefixes4, r \in PortRanges :
             DeleteTaddr4s(p, r) =>
                DroppedUsers = StaticsIn([all |-> FALSE, prefix |-> p, ports |-> r])]_vars

\* Paging with bibtable_foreach() and an exclusive offset, with the lock
\* released between pages while entries come and go: no entry is shown
\* twice, and once the paging ends every entry that was in the table both
\* when it began and now has been shown.
PagedIterationExact ==
    /\ \A i, j \in 1..Len(pgSeen) : i # j => pgSeen[i] # pgSeen[j]
    /\ pgPhase = "done" => pgStart \cap tree4 \subseteq ToSet(pgSeen)

\* An entry is freed only when nobody holds a reference to it: no session
\* and no packet thread still points to freed memory (spec.md section 3:
\* destroyed only after every owning session has released it).
ReferenceSafety ==
    \A e \in Entries : status[e] = "freed" =>
        /\ sessions[e] = 0
        /\ \A t \in Threads : held[t] # e
=============================================================================
