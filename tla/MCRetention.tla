----------------------------- MODULE MCRetention -----------------------------
(***************************************************************************)
(* Small instances of Retention for TLC: a block of one second and a later *)
(* one of two; one rule out of two, and one that is refused.               *)
(***************************************************************************)
EXTENDS Retention

MCBounds == {<<1, 1>>, <<2, 3>>}
MCSpecs == {<<"cpu", 1>>, <<"cpu", 3>>, <<"cpu", 0>>}
MCOneSpec == {<<"cpu", 1>>}
=============================================================================
