---------------------------- MODULE MC_Fragments ----------------------------
(***************************************************************************)
(* Datagrams for checking Fragments with TLC.  Lengths are bytes of layer *)
(* 4 header plus payload; a first fragment carries the 8-byte UDP header. *)
(***************************************************************************)
EXTENDS Fragments

\* Three fragments: the header alone, 56 bytes, and the last 8 bytes at
\* byte 64 (offset field 8).
MCThreeFragments ==
    << [off |-> 0, len |-> 8, mf |-> 1],
       [off |-> 8, len |-> 56, mf |-> 1],
       [off |-> 64, len |-> 8, mf |-> 0] >>

\* Two fragments of 8 bytes each.
MCTwoFragments ==
    << [off |-> 0, len |-> 8, mf |-> 1],
       [off |-> 8, len |-> 8, mf |-> 0] >>
=============================================================================
