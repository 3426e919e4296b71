------------------------------ MODULE Aggregate ------------------------------
(***************************************************************************)
(* What AGG computes from the points that it has collected (agg_points in  *)
(* registry.c): the points sorted by timestamp, one result per bucket that *)
(* has points.  A result is a fraction <<numerator, denominator>>; the     *)
(* rounding of doubles and of %.6f is left out.                            *)
(***************************************************************************)
EXTENDS Query

LOCAL INSTANCE SequencesExt
LOCAL INSTANCE TLC
LOCAL INSTANCE FiniteSetsExt

CONSTANT BucketSizes        \* bucket_seconds of the AGG requests

ASSUME BucketAssumption == BucketSizes \subseteq Nat \ {0}

Funcs == {"avg", "min", "max", "sum", "count", "Dcount"}

cmp_point_ts_swapped(p, q) == p.ts > q.ts   \* mutant: the two results exchanged
cmp_point_ts(p, q) == p.ts < q.ts

\* qsort, which Head_AGG and agg_points both call; points of equal timestamp may
\* come in any order, which no result depends on.
qsort(pts) == SortSeq(pts, cmp_point_ts)

\* The inner loop passes over the points before the bucket and breaks at the
\* first one behind it.
BucketPoints(pts, bstart, bend) ==
    LET behind == {i \in DOMAIN pts : pts[i].ts >= bend}
        stop == IF behind = {} THEN Len(pts) ELSE Min(behind) - 1
    IN SelectSeq(SubSeq(pts, 1, stop), LAMBDA p : p.ts >= bstart)

\* One point: the local variables of the bucket, and the two of the whole loop.
AddValue(b, p) ==
    [count |-> b.count + 1,
     sum |-> b.sum + p.val,
     minv |-> IF b.count = 0 \/ p.val < b.minv THEN p.val ELSE b.minv,
     maxv |-> IF b.count = 0 \/ p.val > b.maxv THEN p.val ELSE b.maxv,
     distinctCount |-> b.distinctCount + (IF p.ts # b.prevTS THEN 1 ELSE 0),
     prevTS |-> p.ts]

BucketResult(func, b) ==
    CASE func = "avg" -> <<b.sum, b.count>>
      [] func = "min" -> <<b.minv, 1>>
      [] func = "max" -> <<b.maxv, 1>>
      [] func = "sum" -> <<b.sum, 1>>
      [] func = "count" -> <<b.count, 1>>
      [] func = "Dcount" -> <<b.distinctCount, 1>>

\* The lines of the reply.  A function that is not known is noticed at the first
\* bucket that has points, and there is one: the points are in the range.
InvalidFunc == << [start |-> 0, result |-> "ERR invalid func"] >>
agg_points(points, start, end, bucketSeconds, func) ==
    LET pts == qsort(points)
        bstarts == [k \in 1 .. (end - start + bucketSeconds - 1) \div bucketSeconds
                      |-> start + (k - 1) * bucketSeconds]
        Bucket(s, bstart) ==
          LET b == FoldLeft(AddValue, [s.b EXCEPT !.count = 0, !.sum = 0],
                            BucketPoints(pts, bstart, bstart + bucketSeconds))
          IN [b |-> b,
              out |-> IF b.count = 0 THEN s.out
                      ELSE Append(s.out, [start |-> bstart, result |-> BucketResult(func, b)])]
        zero == [count |-> 0, sum |-> 0, minv |-> 0, maxv |-> 0, distinctCount |-> 0, prevTS |-> 0]
    IN IF points = << >> THEN << >>                 \* Head_AGG: "(0 buckets)"
       ELSE IF func \notin Funcs THEN InvalidFunc
       ELSE FoldLeft(Bucket, [b |-> zero, out |-> << >>], bstarts).out

-----------------------------------------------------------------------------
\* What an AGG reply should say of the points of its bucket ps; Dcount runs on
\* over the buckets, so upto are the points of this and the earlier ones.
Reference(func, ps, upto) ==
    LET total == MapThenSumSet(LAMBDA p : p.val, ps)
        vals == {p.val : p \in ps}
    IN CASE func = "avg" -> <<total, Cardinality(ps)>>
         [] func = "sum" -> <<total, 1>>
         [] func = "min" -> <<Min(vals), 1>>
         [] func = "max" -> <<Max(vals), 1>>
         [] func = "count" -> <<Cardinality(ps), 1>>
         [] func = "Dcount" -> <<Cardinality({p.ts : p \in upto}), 1>>

\* An AGG reply has one line for each bucket with points, in order of time, and
\* the line is right about all of them, although they come from chunks and a
\* block that flushes have left in no order of time and agg_points stops at the
\* first point behind the bucket.
AggMatches ==
    \A r \in Readers : Answered(r, {"AGG"}) =>
      \A size \in BucketSizes, func \in Funcs :
        LET q == reader[r]
            out == agg_points(q.got, q.from, q.to, size, func)
            Upto(t) == {p \in Got(r) : p.ts < t + size}
            Pts(t) == {p \in Upto(t) : p.ts >= t}
            starts == {q.from + k * size : k \in 0 .. (q.to - q.from) \div size}
        IN /\ {out[k] : k \in DOMAIN out} =
                {[start |-> t, result |-> Reference(func, Pts(t), Upto(t))] :
                   t \in {x \in starts : Pts(x) # {}}}
           /\ \A j, k \in DOMAIN out : j < k => out[j].start < out[k].start
=============================================================================
