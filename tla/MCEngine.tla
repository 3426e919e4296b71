------------------------------ MODULE MCEngine ------------------------------
(***************************************************************************)
(* Small instances of Engine for TLC.                                      *)
(***************************************************************************)
EXTENDS EngineInv, TLC

\* The handler threads are interchangeable.  Used by runs without liveness.
ClientSymmetry == Permutations(Clients)
=============================================================================
