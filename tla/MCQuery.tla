------------------------------ MODULE MCQuery -------------------------------
(***************************************************************************)
(* Small instances of Query for TLC.                                       *)
(***************************************************************************)
EXTENDS Aggregate, TLC

\* The handler threads that write are interchangeable.
ClientSymmetry == Permutations(Clients)

\* The whole series, and a range that cuts a chunk at both ends.
TwoRanges == {<<7, 11>>, <<8, 9>>}
=============================================================================
