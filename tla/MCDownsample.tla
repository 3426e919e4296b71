---------------------------- MODULE MCDownsample -----------------------------
(***************************************************************************)
(* A small instance of Downsample for TLC: minutes of two seconds, first   *)
(* deltas of three bits.  All blocks but <<3, 4>> begin in the same        *)
(* minute; some have the same name.  <<1, 4>> decodes to itself and its    *)
(* two averages do not; <<0, 4>> and <<0, 4, 5>> decode to decreasing      *)
(* timestamps, for which max_buckets is zero and negative.                 *)
(***************************************************************************)
EXTENDS Downsample

MCBlocks == {<<0, 1>>, <<1, 2, 4>>, <<3, 4>>, <<1, 4>>, <<0, 4>>, <<0, 4, 5>>}
=============================================================================
