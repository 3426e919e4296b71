------------------------------ MODULE MCWalFile ------------------------------
(***************************************************************************)
(* A small instance of WalFile for TLC.  As an int64_t a positive double   *)
(* is larger than any timestamp, a negative one is smaller.                *)
(***************************************************************************)
EXTENDS WalFile

MCDoubles == {-90, 91}
=============================================================================
