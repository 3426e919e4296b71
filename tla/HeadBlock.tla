------------------------------ MODULE HeadBlock ------------------------------
(***************************************************************************)
(* The in-memory head block of one metric (head.c, head.h): a bounded,     *)
(* append-only array of points with a monotonicity guard.                  *)
(*                                                                         *)
(* A point is a timestamp and a value.  The engine never branches on a     *)
(* value, so a value is the number of the PUT that sent it; it stands for  *)
(* the 60 high bits of the double, the ones valencoderwrite keeps.         *)
(***************************************************************************)
EXTENDS Integers, Sequences, FiniteSets

CONSTANT HEAD_CAPACITY      \* 50000 in head.h

ASSUME CapacityAssumption == HEAD_CAPACITY \in Nat \ {0}

\* A block is a record: pts stands for the arrays timestamps and values and for
\* size, last for lastTimestamp.
\* malloc leaves lastTimestamp unset: `garbage' is whatever was there.
getNewHeadBlock(garbage) == [pts |-> << >>, last |-> garbage]

IsFull(head) == Len(head.pts) >= HEAD_CAPACITY

\* PUT_value returns true: the point is not older than the last one (a check
\* that is skipped when the block is empty) and there is room.
PUT_accepts(head, p) ==
    /\ ~ (Len(head.pts) > 0 /\ p.ts < head.last)
    /\ ~ IsFull(head)

\* The block after an accepted PUT_value.
PUT_value(head, p) == [pts |-> Append(head.pts, p), last |-> p.ts]

InRange(p, from, to) == p.ts >= from /\ p.ts < to

\* The points of a scan of an array for [from, to): the hits in their order.
Select(pts, from, to) ==
    LET hits == {k \in DOMAIN pts : InRange(pts[k], from, to)}
        Nth(n) == CHOOSE k \in hits : Cardinality({j \in hits : j <= k}) = n
    IN [n \in 1 .. Cardinality(hits) |-> pts[Nth(n)]]

GET_value(head, from, to) == Select(head.pts, from, to)
=============================================================================
