---------------------------- MODULE MC_BibTable ----------------------------
(***************************************************************************)
(* BibTable instantiated for TLC.  Three entry objects and two IPv6       *)
(* addresses: at most two entries are live at once and the third one is  *)
(* there to collide.  IPv4 transport addresses 1:1, 1:2 and 2:1 of a     *)
(* 2-bit address space: the prefix 0/1 covers address 1 only, so a range *)
(* walk starts at an offset (0:min) that is never in the tree, skips or  *)
(* flushes the two entries of address 1 by port, and must break at 2:1;  *)
(* the prefix 1/2 starts at an offset that can be in the tree.           *)
(***************************************************************************)
EXTENDS BibTable, TLC

MCAddr4 == {<<1, 1>>, <<1, 2>>, <<2, 1>>}
MCPrefixes == {[address |-> 0, len |-> 1], [address |-> 1, len |-> 2]}
MCPortRanges == {[min |-> 1, max |-> 1], [min |-> 2, max |-> 2]}
MCNoPrefixes == {}

\* With the release split, a released static entry stays indexed until
\* its bibtable_rm(), and each flush in between drops a fake user it no
\* longer has: the count then goes below zero without bound.  States with
\* a negative count are not explored.
MCRefsFloor == \A e \in Entries : refs[e] >= 0

\* Entry objects and IPv6 addresses are interchangeable.
MCSymmetry == Permutations(Entries) \cup Permutations(Addr6)
=============================================================================
