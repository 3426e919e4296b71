---------------------------- MODULE MCChunkStream ----------------------------
(***************************************************************************)
(* A scaled-down instance of ChunkStream for TLC.  Timestamps: fields of   *)
(* 2, 3, 4, 5 and 6 bits in place of 7, 9, 12, 14 and 32, words of 8 bits  *)
(* in place of 64.  Values: words of 8 bits, of which the low 2 are        *)
(* cleared.  Bytes have 3 bits, so that fields begin and end at every      *)
(* position of a byte and take up to four of them.                         *)
(***************************************************************************)
EXTENDS ChunkStream

\* Three of these, or four, have deltas of deltas on both sides of the bounds of
\* every class, and first deltas on both sides of half a field and of a field.
MCStamps == {-3} \cup 0 .. 6 \cup {8, 9, 15, 16, 31, 32, 33, 36}

\* All of them with one value, and some with values that differ in their low bits,
\* in their high bits and in one bit in the middle.
MCPoints == MCStamps \X {129} \cup {0, 1, 6, 16, 36} \X {0, 3, 4, 255}
=============================================================================
