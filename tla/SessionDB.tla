------------------------------ MODULE SessionDB ------------------------------
(***************************************************************************)
(* The session table's expiration discipline (session_db.h, constants.h,  *)
(* spec.md sections 4.2-4.4).  Only the header is under src/: the enum     *)
(* tcp_states, struct session_entry, enum timer_type and the operations'   *)
(* declarations.  What the operations do is taken from spec.md.           *)
(*                                                                         *)
(* Every session sits in the expiry list of one timer type, ordered by     *)
(* dying_time.  A packet re-arms its session's timer (update_timer), a TCP *)
(* segment first moves the TCP state, and the class follows the state.    *)
(* update_list_timer changes the TTL of a whole class.  The reaper pops   *)
(* the expired heads of every list, stopping at the first unexpired head, *)
(* and releases each reaped session's reference on its BIB entry, which  *)
(* frees a dynamic entry no session holds any more.                       *)
(*                                                                         *)
(* Packet threads reach sessions through counted references (session_get,  *)
(* session_return): a lookup takes one under the table lock, the thread    *)
(* then drives the TCP machine and update_timer, and returns it.  A miss   *)
(* builds a session outside the lock and inserts it under the lock again,  *)
(* unless a racing thread inserted one for the flow first (spec.md 4.2,    *)
(* 5).  The table holds one reference on every stored session; a session  *)
(* is freed when the last reference goes.  A flow stands for its pair of  *)
(* tuples; addresses other than a BIB entry's IPv4 address are left out.  *)
(***************************************************************************)
EXTENDS Integers, Sequences, SequencesExt, FiniteSets

CONSTANTS
    Sessions,      \* session entry slots
    Threads,       \* packet-processing threads
    Flows,         \* the flows (pairs of tuples) packets belong to
    FlowBib,       \* FlowBib[f]: the BIB entry flow f is bound to
    Bibs,          \* BIB entry slots
    BibAddr4,      \* BibAddr4[b]: the IPv4 address of b's IPv4 endpoint
    StaticBibs,    \* the BIB entries configured as static (always present)
    BibProto,      \* BibProto[b]: the protocol of b's BIB table
    DefaultTtl,    \* DefaultTtl[c]: the TTL of timer type c at start, in ticks
    ListTtls,      \* ListTtls[c]: the TTLs update_list_timer may set for c
    MaxTime        \* the last clock value

\* enum timer_type, in the order of its values.
TimerOrder == <<"UDP", "TCP_EST", "TCP_TRANS", "TCP_SYN", "ICMP">>
TimerTypes == ToSet(TimerOrder)

\* enum tcp_states.
TcpStates == {"CLOSED", "V6_INIT", "V4_INIT", "ESTABLISHED", "V4_FIN_RCV",
              "V6_FIN_RCV", "V4_FIN_V6_FIN_RCV", "TRANS"}

\* The RFC 6146 timeouts of constants.h, in seconds.
Rfc6146Ttl == [UDP |-> 5 * 60, TCP_EST |-> 2 * 60 * 60, TCP_TRANS |-> 4 * 60,
               TCP_SYN |-> 6, ICMP |-> 1 * 60]

\* The scaled TTLs keep the order of the real ones.
ASSUME \A c, d \in TimerTypes :
          Rfc6146Ttl[c] < Rfc6146Ttl[d] => DefaultTtl[c] <= DefaultTtl[d]
ASSUME StaticBibs \subseteq Bibs /\ MaxTime \in Nat

Protos == {BibProto[b] : b \in Bibs}
Segments == {"SYN", "FIN", "RST", "DATA"}
Sides == {"v4", "v6"}

VARIABLES
    now,       \* jiffies
    session,   \* session[s]: the struct session_entry in slot s
    thread,    \* thread[t]: where packet thread t is, and what it holds
    bib,       \* bib[b]: whether b exists, and its reference count
    expiry,    \* expiry[c]: the expiry list of timer type c, head first
    ttl        \* ttl[c]: the TTL currently configured for timer type c

vars == <<now, session, thread, bib, expiry, ttl>>

-----------------------------------------------------------------------------
(* The TCP state machine (spec.md section 4.4).                            *)

\* <<state, segment, side it came from, next state>>; a segment matching no
\* row leaves the state as it is.
TcpTransitions ==
    { <<"CLOSED", "SYN", "v6", "V6_INIT">>, <<"CLOSED", "SYN", "v4", "V4_INIT">>,
      <<"V6_INIT", "SYN", "v4", "ESTABLISHED">>, <<"V4_INIT", "SYN", "v6", "ESTABLISHED">>,
      <<"ESTABLISHED", "FIN", "v4", "V4_FIN_RCV">>, <<"ESTABLISHED", "FIN", "v6", "V6_FIN_RCV">>,
      <<"V4_FIN_RCV", "FIN", "v6", "V4_FIN_V6_FIN_RCV">>,
      <<"V6_FIN_RCV", "FIN", "v4", "V4_FIN_V6_FIN_RCV">>,
      <<"ESTABLISHED", "RST", "v4", "TRANS">>, <<"ESTABLISHED", "RST", "v6", "TRANS">> }

TcpNext(st, seg, side) ==
    LET rows == {t \in TcpTransitions : t[1] = st /\ t[2] = seg /\ t[3] = side}
    IN IF rows = {} THEN st ELSE (CHOOSE t \in rows : TRUE)[4]

\* The timer type of a session: its protocol's, and for TCP its state's
\* (V6_INIT is a SYN seen from IPv6 with no IPv4 answer yet).
TimerOf(proto, st) ==
    CASE proto = "UDP" -> "UDP"
      [] proto = "ICMP" -> "ICMP"
      [] st = "ESTABLISHED" -> "TCP_EST"
      [] st = "V6_INIT" -> "TCP_SYN"
      [] OTHER -> "TCP_TRANS"

-----------------------------------------------------------------------------
(* Session entries, references and the expiry lists.                       *)

ProtoOf(f) == BibProto[FlowBib[f]]

\* session_create(): a new entry for flow f, referenced only by its
\* creator, in no table and no list.  The first packet of a TCP flow is a
\* SYN from side.
SessionCreate(f, side) ==
    [alloc |-> TRUE, stored |-> FALSE, refs |-> 1, flow |-> f, bib |-> FlowBib[f],
     proto |-> ProtoOf(f),
     state |-> IF ProtoOf(f) = "TCP" THEN TcpNext("CLOSED", "SYN", side) ELSE "CLOSED",
     dying |-> 0]

\* A free slot (kfree()d memory, whose contents nothing reads).
FreeSlot == [SessionCreate(CHOOSE f \in Flows : TRUE, "v6") EXCEPT !.alloc = FALSE,
                                                                 !.refs = 0]

\* Dropping one reference of entry x: the last one frees it.
PutRef(x) == IF x.refs > 1 THEN [x EXCEPT !.refs = @ - 1] ELSE FreeSlot

\* The packets of a protocol: TCP segments by flag and side; the other
\* protocols' packets differ in nothing the model keeps.
Packets(proto) ==
    IF proto = "TCP" THEN Segments \X Sides ELSE {<<"DATA", "v6">>}

Stored == {s \in Sessions : session[s].stored}

\* The session of flow f in the table, if any.
StoredOf(f) == {s \in Stored : session[s].flow = f}

\* sessiondb_update_timer(): unlink s from the list it is in and append it
\* to the tail of list c.
Requeue(s, c) ==
    [k \in TimerTypes |-> LET q == SelectSeq(expiry[k], LAMBDA x : x # s)
                          IN IF k = c THEN Append(q, s) ELSE q]

\* The heads of a list the reaper pops: while the head has expired.
RECURSIVE ExpiredHeads(_)
ExpiredHeads(q) ==
    IF q # <<>> /\ session[Head(q)].dying <= now
    THEN <<Head(q)>> \o ExpiredHeads(Tail(q))
    ELSE <<>>

\* bibentry_return() once per session of dead: a BIB entry whose count
\* reaches zero is removed and freed (a static one keeps its fake user).
ReleaseBibs(dead) ==
    [b \in Bibs |->
        LET n == Cardinality({x \in dead : session[x].bib = b})
        IN IF n = 0 THEN bib[b]
           ELSE [live |-> bib[b].refs - n > 0, refs |-> bib[b].refs - n]]

\* Removing the stored sessions dead from the table, under its lock: out of
\* both indices and their lists, the table's reference dropped (the entry
\* is freed if nobody else holds one), and the BIB reference returned.
Unlink(dead) ==
    /\ expiry' = [c \in TimerTypes |-> SelectSeq(expiry[c], LAMBDA x : x \notin dead)]
    /\ session' = [x \in Sessions |->
                     IF x \in dead
                     THEN PutRef([session[x] EXCEPT !.stored = FALSE])
                     ELSE session[x]]
    /\ bib' = ReleaseBibs(dead)

-----------------------------------------------------------------------------

Idle == [pc |-> "idle", sess |-> CHOOSE s \in Sessions : TRUE]

Init ==
    /\ now = 0
    /\ session = [s \in Sessions |-> FreeSlot]
    /\ thread = [t \in Threads |-> Idle]
    /\ bib = [b \in Bibs |-> IF b \in StaticBibs THEN [live |-> TRUE, refs |-> 1]
                                                ELSE [live |-> FALSE, refs |-> 0]]
    /\ expiry = [c \in TimerTypes |-> <<>>]
    /\ ttl = DefaultTtl

\* Mutant: a hit hands the session out without taking a reference.
LookupNoGet(t, f, side) ==
    /\ thread[t].pc = "idle"
    /\ \/ \E s \in StoredOf(f) :
             /\ thread' = [thread EXCEPT ![t] = [pc |-> "holding", sess |-> s]]
             /\ UNCHANGED session
       \/ /\ StoredOf(f) = {}
          /\ \E s \in Sessions :
                /\ ~session[s].alloc
                /\ session' = [session EXCEPT ![s] = SessionCreate(f, side)]
                /\ thread' = [thread EXCEPT ![t] = [pc |-> "building", sess |-> s]]
    /\ UNCHANGED <<now, bib, expiry, ttl>>

\* The first half of lookup_or_create(), under the table lock: a session of
\* flow f is found (sessiondb_get, which takes a reference for the thread),
\* or, on a miss, one is built with session_create() once the lock is
\* dropped.  With no free slot the allocation fails and nothing changes.
Lookup(t, f, side) ==
    /\ thread[t].pc = "idle"
    /\ \/ \E s \in StoredOf(f) :
             /\ session' = [session EXCEPT ![s].refs = @ + 1]
             /\ thread' = [thread EXCEPT ![t] = [pc |-> "holding", sess |-> s]]
       \/ /\ StoredOf(f) = {}
          /\ \E s \in Sessions :
                /\ ~session[s].alloc
                /\ session' = [session EXCEPT ![s] = SessionCreate(f, side)]
                /\ thread' = [thread EXCEPT ![t] = [pc |-> "building", sess |-> s]]
    /\ UNCHANGED <<now, bib, expiry, ttl>>

\* Mutant: the built session is added without looking again.
InsertNoRecheck(t) ==
    LET s == thread[t].sess
        c == TimerOf(session[s].proto, session[s].state)
    IN /\ thread[t].pc = "building"
       /\ session' = [session EXCEPT ![s].stored = TRUE, ![s].refs = 2,
                                     ![s].dying = now + ttl[c]]
       /\ expiry' = [expiry EXCEPT ![c] = Append(@, s)]
       /\ bib' = [bib EXCEPT ![session[s].bib] = [live |-> TRUE, refs |-> @.refs + 1]]
       /\ thread' = [thread EXCEPT ![t].pc = "done"]
       /\ UNCHANGED <<now, ttl>>

\* The second half of lookup_or_create(), under the lock again: if a racing
\* thread stored a session of the flow meanwhile, the built one is
\* session_kfree()d and the winner's is taken (with a reference);
\* otherwise sessiondb_add() stores it (the table's reference), it takes
\* its reference on the BIB entry (created if need be) and update_timer()
\* arms it with the class of its state.
Insert(t) ==
    LET s == thread[t].sess
        c == TimerOf(session[s].proto, session[s].state)
    IN /\ thread[t].pc = "building"
       /\ \/ \E w \in StoredOf(session[s].flow) :
                /\ session' = [session EXCEPT ![s] = FreeSlot, ![w].refs = @ + 1]
                /\ thread' = [thread EXCEPT ![t] = [pc |-> "holding", sess |-> w]]
                /\ UNCHANGED <<bib, expiry>>
          \/ /\ StoredOf(session[s].flow) = {}
             /\ session' = [session EXCEPT ![s].stored = TRUE, ![s].refs = 2,
                                           ![s].dying = now + ttl[c]]
             /\ expiry' = [expiry EXCEPT ![c] = Append(@, s)]
             /\ bib' = [bib EXCEPT ![session[s].bib] = [live |-> TRUE, refs |-> @.refs + 1]]
             /\ thread' = [thread EXCEPT ![t].pc = "done"]
       /\ UNCHANGED <<now, ttl>>

\* Mutant: update_timer() re-links a session the table no longer holds.
UseRequeueRemoved(t, seg, side) ==
    LET s == thread[t].sess
        st == IF session[s].proto = "TCP" THEN TcpNext(session[s].state, seg, side)
              ELSE session[s].state
        c == TimerOf(session[s].proto, st)
    IN /\ thread[t].pc = "holding"
       /\ session' = [session EXCEPT ![s].state = st, ![s].dying = now + ttl[c]]
       /\ expiry' = Requeue(s, c)
       /\ thread' = [thread EXCEPT ![t].pc = "done"]
       /\ UNCHANGED <<now, bib, ttl>>

\* Mutant: the timer is re-armed in the list the session was already in.
UseOldList(t, seg, side) ==
    LET s == thread[t].sess
        st == IF session[s].proto = "TCP" THEN TcpNext(session[s].state, seg, side)
              ELSE session[s].state
        c == TimerOf(session[s].proto, st)
    IN /\ thread[t].pc = "holding"
       /\ session' = [session EXCEPT ![s].state = st,
                                     ![s].dying = IF session[s].stored THEN now + ttl[c] ELSE @]
       /\ expiry' = IF session[s].stored
                    THEN Requeue(s, TimerOf(session[s].proto, session[s].state))
                    ELSE expiry
       /\ thread' = [thread EXCEPT ![t].pc = "done"]
       /\ UNCHANGED <<now, bib, ttl>>

\* The packet, through the held reference: a TCP segment moves the state
\* machine, and update_timer() re-arms the session in the list of its
\* (new) state.  A session the table has dropped meanwhile is in no list
\* and is not re-linked.
Use(t, seg, side) ==
    LET s == thread[t].sess
        st == IF session[s].proto = "TCP" THEN TcpNext(session[s].state, seg, side)
              ELSE session[s].state
        c == TimerOf(session[s].proto, st)
    IN /\ thread[t].pc = "holding"
       /\ session' = [session EXCEPT ![s].state = st,
                                     ![s].dying = IF session[s].stored THEN now + ttl[c] ELSE @]
       /\ expiry' = IF session[s].stored THEN Requeue(s, c) ELSE expiry
       /\ thread' = [thread EXCEPT ![t].pc = "done"]
       /\ UNCHANGED <<now, bib, ttl>>

\* Mutant: the count reaches zero but the entry is not freed.
ReturnNoFree(t) ==
    LET s == thread[t].sess
    IN /\ thread[t].pc \in {"holding", "done"}
       /\ session' = [session EXCEPT ![s].refs = @ - 1]
       /\ thread' = [thread EXCEPT ![t] = Idle]
       /\ UNCHANGED <<now, bib, expiry, ttl>>

\* session_return() at the end of the packet: the last reference frees the
\* entry.
Return(t) ==
    LET s == thread[t].sess
    IN /\ thread[t].pc \in {"holding", "done"}
       /\ session' = [session EXCEPT ![s] = PutRef(@)]
       /\ thread' = [thread EXCEPT ![t] = Idle]
       /\ UNCHANGED <<now, bib, expiry, ttl>>

\* Mutant: the TTL changes but the sessions already in the list keep their
\* dying_time.
UpdateListTimerNoShift(c, t) ==
    /\ c # "TCP_SYN"
    /\ t \in ListTtls[c] /\ t # ttl[c]
    /\ ttl' = [ttl EXCEPT ![c] = t]
    /\ UNCHANGED <<now, session, thread, bib, expiry>>

\* Mutant: the shift is applied with its sign reversed.
UpdateListTimerSwapped(c, t) ==
    /\ c # "TCP_SYN"
    /\ t \in ListTtls[c] /\ t # ttl[c]
    /\ ttl' = [ttl EXCEPT ![c] = t]
    /\ session' = [x \in Sessions |->
                     IF x \in ToSet(expiry[c])
                     THEN [session[x] EXCEPT !.dying = @ - t + ttl[c]]
                     ELSE session[x]]
    /\ UNCHANGED <<now, thread, bib, expiry>>

\* sessiondb_update_list_timer(): the TTL of class c goes from ttl[c] to t
\* and every session in list c has its dying_time moved by the difference.
\* TCP_SYN is not configurable.
UpdateListTimer(c, t) ==
    /\ c # "TCP_SYN"
    /\ t \in ListTtls[c] /\ t # ttl[c]
    /\ ttl' = [ttl EXCEPT ![c] = t]
    /\ session' = [x \in Sessions |->
                     IF x \in ToSet(expiry[c])
                     THEN [session[x] EXCEPT !.dying = @ - ttl[c] + t]
                     ELSE session[x]]
    /\ UNCHANGED <<now, thread, bib, expiry>>

\* jiffies advance.
Tick ==
    /\ now < MaxTime
    /\ now' = now + 1
    /\ UNCHANGED <<session, thread, bib, expiry, ttl>>

\* Mutant: the reaper returns at the first list whose head has not expired.
ReapBreakAtUnexpired ==
    LET stop == {i \in 1..Len(TimerOrder) : ExpiredHeads(expiry[TimerOrder[i]]) = <<>>
                                             /\ expiry[TimerOrder[i]] # <<>>}
        first == IF stop = {} THEN Len(TimerOrder) + 1
                 ELSE CHOOSE i \in stop : \A j \in stop : i <= j
        dead == UNION {ToSet(ExpiredHeads(expiry[TimerOrder[i]])) : i \in 1..(first - 1)}
    IN /\ dead # {}
       /\ Unlink(dead)
       /\ UNCHANGED <<now, thread, ttl>>

\* Mutant: one head per list per pass ("if" for "while").
ReapHeadOnly ==
    LET dead == {expiry[c][1] : c \in {k \in TimerTypes : ExpiredHeads(expiry[k]) # <<>>}}
    IN /\ dead # {}
       /\ Unlink(dead)
       /\ UNCHANGED <<now, thread, ttl>>

\* The reaper: in every list, pop the heads while they have expired, and
\* remove each popped session from the table.
Reap ==
    LET dead == UNION {ToSet(ExpiredHeads(expiry[c])) : c \in TimerTypes}
    IN /\ dead # {}
       /\ Unlink(dead)
       /\ UNCHANGED <<now, thread, ttl>>

\* sessiondb_delete_by_bib(): every stored session of b is removed.
DeleteByBib(b) ==
    LET dead == {x \in Stored : session[x].bib = b}
    IN /\ dead # {}
       /\ Unlink(dead)
       /\ UNCHANGED <<now, thread, ttl>>

\* sessiondb_delete_by_ipv4(): every stored session whose BIB entry has its
\* IPv4 endpoint on address a is removed (pool4 dropped the address).
DeleteByIpv4(a) ==
    LET dead == {x \in Stored : BibAddr4[session[x].bib] = a}
    IN /\ dead # {}
       /\ Unlink(dead)
       /\ UNCHANGED <<now, thread, ttl>>

Next ==
    \/ \E t \in Threads :
          \/ \E f \in Flows : \E p \in Packets(ProtoOf(f)) : Lookup(t, f, p[2])
          \/ Insert(t)
          \/ \E p \in Packets(session[thread[t].sess].proto) : Use(t, p[1], p[2])
          \/ Return(t)
    \/ \E c \in TimerTypes, t \in UNION {ListTtls[k] : k \in TimerTypes} :
          UpdateListTimer(c, t)
    \/ Tick
    \/ Reap
    \/ \E b \in Bibs : DeleteByBib(b)
    \/ \E a \in {BibAddr4[b] : b \in Bibs} : DeleteByIpv4(a)

\* The reaper is a periodic kernel timer: once a head has expired it cannot
\* be kept from running forever.  A packet thread never suspends inside this
\* core (spec.md section 5), so a thread that has started an insert or holds
\* a reference finishes.  New packets, configuration changes and the clock
\* are not assumed to happen.
Spec == Init /\ [][Next]_vars /\ WF_vars(Reap)
            /\ \A t \in Threads : WF_vars(Insert(t)) /\ WF_vars(Return(t))

-----------------------------------------------------------------------------
(* Properties.                                                             *)

\* Types, and a stored session's dying_time is never more than its class's
\* TTL ahead of the clock (update_timer arms now + ttl; update_list_timer
\* shifts).
TypeOK ==
    /\ now \in 0..MaxTime
    /\ \A s \in Stored : /\ session[s].alloc
                         /\ session[s].proto = BibProto[session[s].bib]
                         /\ session[s].state \in TcpStates
                         /\ session[s].dying \in
                               0..(now + ttl[TimerOf(session[s].proto, session[s].state)])
    /\ thread \in [Threads -> [pc : {"idle", "building", "holding", "done"}, sess : Sessions]]
    /\ bib \in [Bibs -> [live : BOOLEAN, refs : Nat]]
    /\ expiry \in [TimerTypes -> Seq(Sessions)]
    /\ ttl \in [TimerTypes -> Nat]

\* Timer monotonicity (spec.md section 8): in every expiry list dying_time
\* never decreases from head to tail, through update_timer appends, TCP
\* class changes and update_list_timer TTL changes.
QueuesOrdered ==
    \A c \in TimerTypes : \A i, j \in 1..Len(expiry[c]) :
        i < j => session[expiry[c][i]].dying <= session[expiry[c][j]].dying

\* Every stored session is in exactly one expiry list, the one its protocol
\* and TCP state select, and the lists hold stored sessions only.
InTheRightList ==
    \A c \in TimerTypes :
        /\ IsInjective(expiry[c])
        /\ ToSet(expiry[c]) = {s \in Stored : TimerOf(session[s].proto, session[s].state) = c}

\* A BIB entry's count is its stored sessions plus the fake user of a static
\* entry; a dynamic entry exists exactly while a session holds it.
BibRefsExact ==
    \A b \in Bibs :
        LET n == Cardinality({s \in Stored : session[s].bib = b})
        IN /\ bib[b].live => bib[b].refs = n + (IF b \in StaticBibs THEN 1 ELSE 0)
           /\ ~bib[b].live => n = 0
           /\ b \notin StaticBibs => (bib[b].live <=> n > 0)

Holders(s) == {t \in Threads : thread[t].pc # "idle" /\ thread[t].sess = s}

\* Reference safety (spec.md sections 5 and 8): a session's count is the
\* table's reference plus one per thread holding or building it, and no
\* thread holds a freed session, whatever the reaper, the deletions and the
\* other thread do between its lookup and its session_return().
SessionRefsExact ==
    \A s \in Sessions :
        IF session[s].alloc
        THEN session[s].refs = (IF session[s].stored THEN 1 ELSE 0) + Cardinality(Holders(s))
        ELSE ~session[s].stored /\ Holders(s) = {}

\* Idempotent convergence (spec.md sections 5 and 8): threads racing
\* through lookup_or_create() for one flow never store two sessions of it.
OneSessionPerFlow ==
    \A f \in Flows : Cardinality(StoredOf(f)) <= 1

\* A reaper pass removes exactly the expired sessions: stopping at the
\* first unexpired head of each list misses none, although update_timer
\* and update_list_timer keep re-ordering the lists, and takes none early.
ReapLeavesNoExpired ==
    [][Reap => \A s \in Stored : ~session'[s].stored <=> session[s].dying <= now]_vars

\* A session whose time has come is eventually reaped (or re-armed first).
ExpiredEventuallyReaped ==
    \A s \in Sessions :
        (session[s].stored /\ session[s].dying <= now)
            ~> (~session[s].stored \/ session[s].dying > now)

\* No session leaks: one out of the table (removed, or built by a thread
\* that lost the race) is eventually freed or, if still being built,
\* stored.
UnstoredEventuallyFreed ==
    \A s \in Sessions :
        (session[s].alloc /\ ~session[s].stored)
            ~> (~session[s].alloc \/ session[s].stored)
=============================================================================
