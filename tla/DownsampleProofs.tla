-------------------------- MODULE DownsampleProofs ---------------------------
(***************************************************************************)
(* Theorems about Downsample, for minutes of any length, blocks of         *)
(* timestamps below Horizon, and any number of flushes, crashes, failures  *)
(* and levels of directories: no client point is averaged twice; the       *)
(* averages fit their arrays where the last decoded timestamp is the       *)
(* latest; and a coarse AGG counts what the thread has read where neither  *)
(* file decodes shifted.                                                   *)
(***************************************************************************)
EXTENDS Downsample, SequenceTheorems, FiniteSetTheorems, TLAPS

-----------------------------------------------------------------------------
(***************************************************************************)
(* Minutes.                                                                *)
(***************************************************************************)

LEMMA MinuteNat == Minute \in Nat \ {0}
  BY DownsampleAssumption

\* Products of natural numbers.
LEMMA ProductNat ==
  ASSUME NEW m \in Nat, NEW q \in Nat
  PROVE  q * m \in Nat /\ (q + 1) * m = q * m + m
  OBVIOUS

LEMMA ProductMonotone ==
  ASSUME NEW m \in Nat, NEW q \in Nat, NEW r \in Nat, q <= r
  PROVE  q * m <= r * m
  <1>1. PICK d \in Nat : r = q + d
    BY r - q \in Nat
  <1>2. r * m = q * m + d * m
    BY <1>1
  <1>3. d * m \in Nat /\ q * m \in Nat
    BY ProductNat
  <1> QED
    BY <1>2, <1>3

\* Division by the length of a minute.
LEMMA Quotient ==
  ASSUME NEW m \in Nat \ {0}, NEW x \in Nat
  PROVE  (x \div m) \in Nat /\ (x \div m) * m <= x /\ x < (x \div m) * m + m
  OBVIOUS

\* The quotient is the only number with this property.
LEMMA QuotientUnique ==
  ASSUME NEW m \in Nat \ {0}, NEW x \in Nat, NEW q \in Nat, q * m <= x, x < q * m + m
  PROVE  (x \div m) = q
  <1> DEFINE d == x \div m
  <1>1. d \in Nat /\ d * m <= x /\ x < d * m + m
    BY Quotient
  <1> HIDE DEF d
  <1>2. ~ (d + 1 <= q)
    <2> SUFFICES ASSUME d + 1 <= q PROVE FALSE
      OBVIOUS
    <2>1. (d + 1) * m <= q * m
      BY <1>1, ProductMonotone
    <2>2. (d + 1) * m = d * m + m /\ d * m \in Nat /\ q * m \in Nat
      BY <1>1, ProductNat
    <2> QED
      BY <1>1, <2>1, <2>2
  <1>3. ~ (q + 1 <= d)
    <2> SUFFICES ASSUME q + 1 <= d PROVE FALSE
      OBVIOUS
    <2>1. (q + 1) * m <= d * m
      BY <1>1, ProductMonotone
    <2>2. (q + 1) * m = q * m + m /\ d * m \in Nat /\ q * m \in Nat
      BY <1>1, ProductNat
    <2> QED
      BY <1>1, <2>1, <2>2
  <1> QED
    BY <1>1, <1>2, <1>3 DEF d

\* The start of a minute.
LEMMA AlignFacts ==
  ASSUME NEW x \in Nat
  PROVE  Align(x) \in Nat /\ Align(x) <= x /\ x < Align(x) + Minute
  <1>1. (x \div Minute) \in Nat /\ (x \div Minute) * Minute <= x
        /\ x < (x \div Minute) * Minute + Minute
    BY MinuteNat, Quotient
  <1>2. (x \div Minute) * Minute \in Nat
    BY <1>1, MinuteNat, ProductNat
  <1> QED
    BY <1>1, <1>2 DEF Align

LEMMA AlignProduct ==
  ASSUME NEW q \in Nat
  PROVE  Align(q * Minute) = q * Minute
  <1> DEFINE x == q * Minute
  <1>1. x \in Nat /\ q * Minute <= x /\ x < q * Minute + Minute
    BY MinuteNat, ProductNat
  <1> HIDE DEF x
  <1>2. (x \div Minute) = q
    BY <1>1, MinuteNat, QuotientUnique
  <1> QED
    BY <1>2 DEF Align, x

LEMMA AlignIdempotent ==
  ASSUME NEW x \in Nat
  PROVE  Align(Align(x)) = Align(x)
  <1>1. (x \div Minute) \in Nat
    BY MinuteNat, Quotient
  <1>2. Align((x \div Minute) * Minute) = (x \div Minute) * Minute
    BY <1>1, AlignProduct
  <1> QED
    BY <1>2 DEF Align

\* Different minutes do not overlap.
LEMMA AlignApart ==
  ASSUME NEW x \in Nat, NEW y \in Nat, Align(x) < Align(y)
  PROVE  Align(x) + Minute <= Align(y)
  <1> DEFINE q == x \div Minute
             r == y \div Minute
  <1>1. q \in Nat /\ r \in Nat
    BY MinuteNat, Quotient
  <1>2. Align(x) = q * Minute /\ Align(y) = r * Minute
    BY DEF Align
  <1> HIDE DEF q, r
  <1>3. ~ (r <= q)
    <2> SUFFICES ASSUME r <= q PROVE FALSE
      OBVIOUS
    <2>1. r * Minute <= q * Minute
      BY <1>1, MinuteNat, ProductMonotone
    <2>2. r * Minute \in Nat /\ q * Minute \in Nat
      BY <1>1, MinuteNat, ProductNat
    <2> QED
      BY <1>2, <2>1, <2>2
  <1>4. q + 1 <= r
    BY <1>1, <1>3
  <1>5. (q + 1) * Minute <= r * Minute
    BY <1>1, <1>4, MinuteNat, ProductMonotone
  <1>6. (q + 1) * Minute = q * Minute + Minute
    BY <1>1, MinuteNat, ProductNat
  <1> QED
    BY <1>2, <1>5, <1>6

LEMMA AlignMonotone ==
  ASSUME NEW x \in Nat, NEW y \in Nat, x <= y
  PROVE  Align(x) <= Align(y)
  <1>1. /\ Align(x) \in Nat /\ Align(x) <= x
        /\ Align(y) \in Nat /\ y < Align(y) + Minute
    BY AlignFacts
  <1>2. CASE Align(y) < Align(x)
    <2>1. Align(y) + Minute <= Align(x)
      BY <1>2, AlignApart
    <2> QED
      BY <1>1, <2>1, MinuteNat
  <1> QED
    BY <1>1, <1>2

-----------------------------------------------------------------------------
(***************************************************************************)
(* Chunks and buckets.                                                     *)
(***************************************************************************)

\* The points that clients sent, and the points of chunks.
ClientPoint == [n : Nat, k : Nat, ts : Nat, of : Nat]
Point == [ts : Int, src : SUBSET ClientPoint]

\* The client points behind p were sent in blocks that begin in the minute of s,
Sound(s, p) == p.src # {} /\ \A x \in p.src : Align(x.of) = Align(s)

\* and in the minute of p.
Exact(p) == \A x \in p.src : Align(x.ts) = Align(p.ts)
AllExact(pts) == \A i \in 1 .. Len(pts) : Exact(pts[i])

\* No client point is behind two points.
Disjoint(pts) == \A i, j \in 1 .. Len(pts) : i # j => pts[i].src \cap pts[j].src = {}

Ordered(pts) == \A i, j \in 1 .. Len(pts) : i <= j => pts[i].ts <= pts[j].ts

\* What a reader gets from a chunk file with the name s: timestamps in any order, of
\* which only the first is sure.
GoodChunk(s, pts) ==
    /\ pts \in Seq(Point) /\ pts # << >> /\ pts[1].ts = s /\ s \in Nat
    /\ \A i \in 1 .. Len(pts) : Sound(s, pts[i]) /\ pts[i].ts < Horizon
    /\ Disjoint(pts)

\* What was written to it.
Stored(s, pts) == GoodChunk(s, pts) /\ Ordered(pts)

\* The contents of a coarse file: also one point for a minute.
OnePerMinute(pts) ==
    /\ \A i \in 1 .. Len(pts) : Align(pts[i].ts) = pts[i].ts
    /\ \A i, j \in 1 .. Len(pts) : i < j => pts[i].ts < pts[j].ts

\* Buckets of the chunk s that end before t: the first is that of s, and there are
\* no more of them than minutes.
Buckets(s, out, t) ==
    /\ out \in Seq(Point) /\ (out # << >> => out[1].ts = Align(s))
    /\ OnePerMinute(out) /\ Disjoint(out)
    /\ \A i \in 1 .. Len(out) :
         Sound(s, out[i]) /\ out[i].ts \in Nat /\ out[i].ts < t /\ out[i].ts < Horizon
    /\ Len(out) * Minute + Align(s) <= t

BucketRec == [k : Nat, start : Nat, src : SUBSET ClientPoint, out : Seq(Point)]

\* The client points behind the first k points.
SourcesTo(pts, k) == UNION {pts[i].src : i \in 1 .. k}

\* t is the minute of a point.
MinuteOf(pts, t) == \E j \in 1 .. Len(pts) : pts[j].ts \in Nat /\ t = Align(pts[j].ts)

\* The open bucket, and those before it, where timestamps are exact and in order.
LoopExact(pts, b) ==
    /\ b.start = Align(pts[IF b.k = 0 THEN 1 ELSE b.k].ts)
    /\ AllExact(b.out)
    /\ \A x \in b.src : Align(x.ts) = b.start

\* The invariant of the loop of write_coarse_chunk over the chunk s.
LoopInv(s, pts, b) ==
    /\ b.k <= Len(pts)
    /\ MinuteOf(pts, b.start)
    /\ Buckets(s, b.out, b.start)
    /\ b.out = << >> => b.start = Align(s)
    /\ \A x \in b.src : Align(x.of) = Align(s)
    /\ IF b.k = 0 THEN b.src = {} /\ b.out = << >> ELSE b.src # {}
    /\ Sources(b.out) \cup b.src = SourcesTo(pts, b.k)
    /\ Sources(b.out) \cap b.src = {}
    /\ Ordered(pts) /\ AllExact(pts) => LoopExact(pts, b)

\* What the loop has made when it is over.
Averaged(s, pts, out) ==
    /\ \E t \in Nat : MinuteOf(pts, t) /\ Buckets(s, out, t + Minute)
    /\ out # << >>
    /\ Sources(out) = Sources(pts)
    /\ Ordered(pts) /\ AllExact(pts) => AllExact(out)

\* The points of a sequence.
LEMMA PointsOf ==
  ASSUME NEW pts \in Seq(Point)
  PROVE  /\ Len(pts) \in Nat /\ DOMAIN pts = 1 .. Len(pts)
         /\ pts # << >> => 1 \in 1 .. Len(pts) /\ Len(pts) \in 1 .. Len(pts)
         /\ \A i \in 1 .. Len(pts) : pts[i] \in Point /\ pts[i].ts \in Int
                                       /\ pts[i].src \subseteq ClientPoint
  <1>1. /\ Len(pts) \in Nat /\ DOMAIN pts = 1 .. Len(pts)
        /\ pts # << >> => 1 \in 1 .. Len(pts) /\ Len(pts) \in 1 .. Len(pts)
    OBVIOUS
  <1>2. \A i \in 1 .. Len(pts) : pts[i] \in Point
    BY ElementOfSeq
  <1> QED
    BY <1>1, <1>2 DEF Point

LEMMA SourcesAll ==
  ASSUME NEW pts \in Seq(Point)
  PROVE  Sources(pts) = SourcesTo(pts, Len(pts))
  <1>1. DOMAIN pts = 1 .. Len(pts)
    BY PointsOf
  <1> HIDE DEF Point
  <1> QED
    BY <1>1 DEF Sources, SourcesTo, Range

LEMMA SourcesMore ==
  ASSUME NEW pts, NEW k \in Nat
  PROVE  SourcesTo(pts, k + 1) = SourcesTo(pts, k) \cup pts[k + 1].src
  <1>1. (1 .. k + 1) = (1 .. k) \cup {k + 1}
    OBVIOUS
  <1> QED
    BY <1>1, Zenon DEF SourcesTo

\* A point is not behind the earlier ones.
LEMMA SourcesNew ==
  ASSUME NEW pts, NEW k \in Nat, k + 1 \in 1 .. Len(pts), Len(pts) \in Nat, Disjoint(pts)
  PROVE  SourcesTo(pts, k) \cap pts[k + 1].src = {}
  <1>1. \A i \in 1 .. k : i \in 1 .. Len(pts) /\ i # k + 1
    OBVIOUS
  <1>2. \A i \in 1 .. k : pts[i].src \cap pts[k + 1].src = {}
    BY <1>1, Zenon DEF Disjoint
  <1> QED
    BY <1>2, Zenon DEF SourcesTo

-----------------------------------------------------------------------------
(***************************************************************************)
(* Decoding.                                                               *)
(***************************************************************************)

\* A field of 14 bits is no larger than the delta, and is the delta if it is small.
LEMMA FieldFacts ==
  ASSUME NEW d \in Nat
  PROVE  /\ Field14(d) \in Int /\ d - Field14(d) \in Nat
         /\ d < (W14 \div 2) => Field14(d) = d
  <1>1. PICK w \in Nat \ {0} : w = W14
    BY DownsampleAssumption
  <1>2. PICK h : h = (w \div 2)
    OBVIOUS
  <1>3. h \in Nat /\ h <= w
    BY <1>2
  <1>4. PICK u : u = (d % w)
    OBVIOUS
  <1>5. u \in Nat /\ u < w /\ u <= d /\ (d < w => u = d)
    <2>1. u \in 0 .. (w - 1) /\ d = w * (d \div w) + u
      BY <1>4
    <2>2. PICK q : q = (d \div w)
      OBVIOUS
    <2>3. q \in Nat
      BY <2>2
    <2>4. q * w \in Nat /\ w * q = q * w
      BY <2>3, ProductNat
    <2>5. q # 0 => w <= q * w
      <3>1. q # 0 => 1 * w <= q * w
        BY <2>3, ProductMonotone
      <3> QED
        BY <3>1
    <2>6. q = 0 => q * w = 0
      OBVIOUS
    <2> QED
      BY <2>1, <2>2, <2>3, <2>4, <2>5, <2>6
  <1>6. Field14(d) = IF u >= h THEN u - w ELSE u
    BY <1>1, <1>2, <1>4 DEF Field14
  <1> QED
    BY <1>1, <1>2, <1>3, <1>5, <1>6

LEMMA ShiftFacts ==
  ASSUME NEW s, NEW pts, Stored(s, pts)
  PROVE  Shift(pts) \in Nat /\ (Fits14(pts) => Shift(pts) = 0)
  <1>1. pts \in Seq(Point) /\ Len(pts) \in Nat
    BY PointsOf DEF Stored, GoodChunk
  <1>2. CASE Len(pts) < 2
    BY <1>2 DEF Shift
  <1>3. CASE Len(pts) >= 2
    <2>1. 1 \in 1 .. Len(pts) /\ 2 \in 1 .. Len(pts)
      BY <1>1, <1>3
    <2>2. pts[1].ts \in Int /\ pts[2].ts \in Int
      BY <1>1, <2>1, PointsOf
    <2>3. pts[1].ts <= pts[2].ts
      BY <2>1 DEF Stored, Ordered
    <2>4. PICK d \in Nat : d = pts[2].ts - pts[1].ts
      BY <2>2, <2>3
    <2>5. Shift(pts) = d - Field14(d)
      BY <1>1, <1>3, <2>4 DEF Shift
    <2>6. Fits14(pts) => d < (W14 \div 2)
      BY <1>3, <2>4 DEF Fits14
    <2> QED
      BY <2>5, <2>6, FieldFacts
  <1> QED
    BY <1>1, <1>2, <1>3

\* The points keep their places, their sources and the first its timestamp; none
\* comes out later.
LEMMA DecodedPoint ==
  ASSUME NEW s, NEW pts, Stored(s, pts)
  PROVE  /\ Decoded(pts) \in Seq(Point) /\ Len(Decoded(pts)) = Len(pts)
         /\ \A i \in 1 .. Len(pts) :
              /\ Decoded(pts)[i].src = pts[i].src
              /\ Decoded(pts)[i].ts \in Int /\ Decoded(pts)[i].ts <= pts[i].ts
              /\ i = 1 => Decoded(pts)[i].ts = pts[i].ts
              /\ Fits14(pts) => Decoded(pts)[i] = pts[i]
  <1>1. PICK z \in Nat : z = Shift(pts) /\ (Fits14(pts) => z = 0)
    BY ShiftFacts
  <1>2. pts \in Seq(Point)
    BY DEF Stored, GoodChunk
  <1>3. PICK n \in Nat : n = Len(pts) /\ DOMAIN pts = 1 .. n
    BY <1>2, PointsOf
  <1> DEFINE q == Decoded(pts)
  <1>4. q = [k \in 1 .. n |-> [pts[k] EXCEPT !.ts = @ - (k - 1) * z]]
    BY <1>1, <1>3 DEF Decoded
  <1>5. ASSUME NEW i \in 1 .. n
        PROVE  /\ q[i] \in Point
               /\ q[i].src = pts[i].src
               /\ q[i].ts \in Int /\ q[i].ts <= pts[i].ts
               /\ i = 1 => q[i].ts = pts[i].ts
               /\ z = 0 => q[i] = pts[i]
    <2>1. PICK p \in Point : p = pts[i]
      BY <1>2, <1>3, PointsOf
    <2>2. PICK t \in Int : t = p.ts
      BY DEF Point
    <2>3. PICK y \in Nat : y = (i - 1) * z /\ (i = 1 => y = 0) /\ (z = 0 => y = 0)
      <3>1. i - 1 \in Nat
        OBVIOUS
      <3>2. (i - 1) * z \in Nat
        BY <3>1, ProductNat
      <3>3. (i = 1 => (i - 1) * z = 0) /\ (z = 0 => (i - 1) * z = 0)
        BY <3>1
      <3> QED
        BY <3>2, <3>3
    <2>4. q[i] = [p EXCEPT !.ts = t - y]
      BY <1>4, <2>1, <2>2, <2>3
    <2>5. q[i] = [ts |-> t - y, src |-> p.src]
      BY <2>4 DEF Point
    <2>6. p = [ts |-> t, src |-> p.src]
      BY <2>2 DEF Point
    <2>7. q[i] \in Point /\ q[i].ts = t - y /\ q[i].src = p.src
      BY <2>5 DEF Point
    <2> HIDE DEF q
    <2>8. y = 0 => q[i] = p
      BY <2>5, <2>6
    <2> QED
      BY <2>1, <2>2, <2>3, <2>7, <2>8
  <1>6. q \in [1 .. n -> Point]
    <2>1. \A i \in 1 .. n : q[i] \in Point
      BY <1>5
    <2>2. q = [i \in 1 .. n |-> q[i]]
      BY <1>4, Zenon
    <2> HIDE DEF q
    <2> QED
      BY <2>1, <2>2
  <1> HIDE DEF q
  <1>7. q \in Seq(Point) /\ Len(q) = n
    BY <1>6
  <1> QED
    BY <1>1, <1>3, <1>5, <1>7, Zenon DEF q

\* A reader gets a good chunk, and the very points if the first delta fits its field.
LEMMA DecodedChunk ==
  ASSUME NEW s, NEW pts, Stored(s, pts)
  PROVE  /\ GoodChunk(s, Decoded(pts)) /\ Sources(Decoded(pts)) = Sources(pts)
         /\ Fits14(pts) => Decoded(pts) = pts
  <1> DEFINE q == Decoded(pts)
  <1>1. /\ q \in Seq(Point) /\ Len(q) = Len(pts)
        /\ \A i \in 1 .. Len(pts) :
             /\ q[i].src = pts[i].src
             /\ q[i].ts \in Int /\ q[i].ts <= pts[i].ts
             /\ i = 1 => q[i].ts = pts[i].ts
             /\ Fits14(pts) => q[i] = pts[i]
    BY DecodedPoint
  <1> HIDE DEF q
  <1>2. /\ pts \in Seq(Point) /\ pts # << >> /\ pts[1].ts = s /\ s \in Nat
        /\ \A i \in 1 .. Len(pts) : Sound(s, pts[i]) /\ pts[i].ts < Horizon
        /\ Disjoint(pts)
    BY DEF Stored, GoodChunk
  <1>3. PICK n \in Nat : n = Len(pts) /\ 1 \in 1 .. n
    BY <1>2, PointsOf
  <1>4. /\ q \in Seq(Point) /\ Len(q) = n
        /\ \A i \in 1 .. n :
             /\ q[i].src = pts[i].src
             /\ q[i].ts \in Int /\ q[i].ts <= pts[i].ts
             /\ i = 1 => q[i].ts = pts[i].ts
             /\ Fits14(pts) => q[i] = pts[i]
    BY <1>1, <1>3
  <1>5. q # << >> /\ q[1].ts = s
    BY <1>2, <1>3, <1>4
  <1>6. ASSUME NEW i \in 1 .. n PROVE Sound(s, q[i]) /\ q[i].ts < Horizon
    <2>1. q[i].ts \in Int /\ q[i].ts <= pts[i].ts /\ pts[i].ts < Horizon /\ pts[i].ts \in Int
      BY <1>2, <1>3, <1>4, PointsOf
    <2>2. q[i].ts < Horizon
      BY <2>1, DownsampleAssumption
    <2>3. Sound(s, q[i])
      BY <1>2, <1>3, <1>4 DEF Sound
    <2> QED
      BY <2>2, <2>3
  <1>7. Disjoint(q)
    BY <1>2, <1>3, <1>4, Zenon DEF Disjoint
  <1>8. GoodChunk(s, q)
    BY <1>2, <1>4, <1>5, <1>6, <1>7 DEF GoodChunk
  <1>9. Sources(q) = Sources(pts)
    <2>1. SourcesTo(q, n) = SourcesTo(pts, n)
      BY <1>4, ZenonT(40) DEF SourcesTo
    <2> QED
      BY <1>2, <1>3, <1>4, <2>1, SourcesAll
  <1>10. Fits14(pts) => q = pts
    <2>1. \A a, b \in Seq(Point) : Len(a) = Len(b) /\ (\A i \in 1 .. Len(a) : a[i] = b[i]) => a = b
      BY SeqEqual
    <2> QED
      BY <1>2, <1>3, <1>4, <2>1, Zenon
  <1> QED
    BY <1>8, <1>9, <1>10 DEF q

-----------------------------------------------------------------------------
(***************************************************************************)
(* The loop of write_coarse_chunk.                                         *)
(***************************************************************************)

\* The averages of a chunk make a coarse file named after the minute of the chunk.
LEMMA AveragedChunk ==
  ASSUME NEW s \in Nat, NEW out, NEW t, Buckets(s, out, t), out # << >>
  PROVE  Stored(Align(s), out) /\ OnePerMinute(out) /\ out[1].ts = Align(s)
  <1>1. out \in Seq(Point) /\ out[1].ts = Align(s) /\ OnePerMinute(out) /\ Disjoint(out)
    BY DEF Buckets
  <1>2. Align(Align(s)) = Align(s) /\ Align(s) \in Nat
    BY AlignIdempotent, AlignFacts
  <1>3. \A i \in 1 .. Len(out) : Sound(Align(s), out[i]) /\ out[i].ts < Horizon
    BY <1>2 DEF Buckets, Sound
  <1>4. \A i, j \in 1 .. Len(out) : i <= j => out[i].ts <= out[j].ts
    <2> SUFFICES ASSUME NEW i \in 1 .. Len(out), NEW j \in 1 .. Len(out), i <= j
                 PROVE  out[i].ts <= out[j].ts
      OBVIOUS
    <2>1. out[i].ts \in Int /\ out[j].ts \in Int
      BY <1>1, PointsOf
    <2>2. i = j \/ i < j
      BY <1>1, PointsOf
    <2>3. i < j => out[i].ts < out[j].ts
      BY <1>1 DEF OnePerMinute
    <2> QED
      BY <2>1, <2>2, <2>3
  <1> QED
    BY <1>1, <1>2, <1>3, <1>4 DEF GoodChunk, Stored, Ordered

\* Later is as good.
LEMMA BucketsLater ==
  ASSUME NEW s \in Nat, NEW out, NEW t \in Nat, NEW u \in Nat, t <= u, Buckets(s, out, t)
  PROVE  Buckets(s, out, u)
  <1>1. out \in Seq(Point) /\ Len(out) * Minute + Align(s) <= t
    BY DEF Buckets
  <1>2. Len(out) * Minute + Align(s) <= u
    <2>1. Len(out) * Minute \in Nat /\ Align(s) \in Nat
      BY <1>1, PointsOf, MinuteNat, ProductNat, AlignFacts
    <2> QED
      BY <1>1, <2>1
  <1>3. ASSUME NEW i \in 1 .. Len(out) PROVE out[i].ts < u
    <2>1. out[i].ts \in Nat /\ out[i].ts < t
      BY <1>1, <1>3, PointsOf DEF Buckets
    <2> QED
      BY <2>1
  <1> QED
    BY <1>2, <1>3 DEF Buckets

\* A point behind the others.
LEMMA OneMore ==
  ASSUME NEW out \in Seq(Point), NEW p \in Point
  PROVE  LET a == Append(out, p) IN
         /\ a \in Seq(Point) /\ a # << >> /\ Len(a) = Len(out) + 1
         /\ a[Len(out) + 1] = p
         /\ \A i \in 1 .. Len(out) : a[i] = out[i]
         /\ Sources(a) = Sources(out) \cup p.src
  <1> DEFINE a == Append(out, p)
  <1>1. /\ a \in Seq(Point) /\ Len(a) = Len(out) + 1
        /\ a[Len(out) + 1] = p
        /\ \A i \in 1 .. Len(out) : a[i] = out[i]
    BY AppendProperties
  <1>2. Len(out) \in Nat
    BY PointsOf
  <1>3. a # << >>
    BY <1>1, <1>2
  <1> HIDE DEF a
  <1>4. Sources(a) = SourcesTo(a, Len(out)) \cup p.src
    <2>1. Sources(a) = SourcesTo(a, Len(out) + 1)
      BY <1>1, SourcesAll
    <2> QED
      BY <1>1, <1>2, <2>1, SourcesMore
  <1>5. SourcesTo(a, Len(out)) = SourcesTo(out, Len(out))
    BY <1>1, Zenon DEF SourcesTo
  <1> QED
    BY <1>1, <1>3, <1>4, <1>5, SourcesAll DEF a

\* A point with sources of its own.
LEMMA OneMoreDisjoint ==
  ASSUME NEW out \in Seq(Point), Disjoint(out), NEW p \in Point, Sources(out) \cap p.src = {}
  PROVE  Disjoint(Append(out, p))
  <1>1. PICK n \in Nat : n = Len(out) /\ DOMAIN out = 1 .. n
    BY PointsOf
  <1> DEFINE a == Append(out, p)
  <1>2. Len(a) = n + 1 /\ a[n + 1] = p /\ \A i \in 1 .. n : a[i] = out[i]
    BY <1>1, OneMore
  <1> HIDE DEF a
  <1>3. \A i \in 1 .. n : out[i].src \subseteq Sources(out)
    BY <1>1 DEF Sources, Range
  <1>4. \A i \in 1 .. n : a[i].src \cap p.src = {} /\ p.src \cap a[i].src = {}
    BY <1>2, <1>3, Zenon
  <1>5. \A i, j \in 1 .. n : i # j => a[i].src \cap a[j].src = {}
    BY <1>1, <1>2, Zenon DEF Disjoint
  <1>6. \A i \in 1 .. n + 1 : i \in 1 .. n \/ i = n + 1
    OBVIOUS
  <1>7. \A i, j \in 1 .. n + 1 : i # j => a[i].src \cap a[j].src = {}
    BY <1>2, <1>4, <1>5, <1>6, Zenon
  <1> QED
    BY <1>2, <1>7, Zenon DEF Disjoint, a

\* A bucket is closed.
LEMMA BucketAdded ==
  ASSUME NEW s \in Nat, NEW out, NEW t \in Nat, Buckets(s, out, t), Align(t) = t, t < Horizon,
         out = << >> => t = Align(s), NEW p \in Point, p.ts = t, Sound(s, p),
         Sources(out) \cap p.src = {}
  PROVE  /\ Buckets(s, Append(out, p), t + Minute)
         /\ Append(out, p) # << >>
         /\ Sources(Append(out, p)) = Sources(out) \cup p.src
         /\ AllExact(out) /\ Exact(p) => AllExact(Append(out, p))
  <1>1. out \in Seq(Point) /\ Disjoint(out)
    BY DEF Buckets
  <1>2. PICK n \in Nat : n = Len(out)
    BY <1>1, PointsOf
  <1> DEFINE a == Append(out, p)
  <1>3. /\ a \in Seq(Point) /\ a # << >> /\ Len(a) = n + 1
        /\ a[n + 1] = p
        /\ \A i \in 1 .. n : a[i] = out[i]
        /\ Sources(a) = Sources(out) \cup p.src
    BY <1>1, <1>2, OneMore
  <1>a. Disjoint(a)
    BY <1>1, OneMoreDisjoint
  <1> HIDE DEF a
  <1>4. /\ out # << >> => out[1].ts = Align(s)
        /\ \A i \in 1 .. n : Align(out[i].ts) = out[i].ts
        /\ \A i, j \in 1 .. n : i < j => out[i].ts < out[j].ts
        /\ \A i \in 1 .. n :
             Sound(s, out[i]) /\ out[i].ts \in Nat /\ out[i].ts < t /\ out[i].ts < Horizon
        /\ n * Minute + Align(s) <= t
    BY <1>2, Zenon DEF Buckets, OnePerMinute
  <1>5. a[1].ts = Align(s)
    <2>1. CASE out = << >>
      <3>1. n = 0
        BY <1>2, <2>1
      <3> QED
        BY <1>3, <2>1, <3>1
    <2>2. CASE out # << >>
      <3>1. 1 \in 1 .. n
        BY <1>1, <1>2, <2>2, PointsOf
      <3> QED
        BY <1>3, <1>4, <2>2, <3>1
    <2> QED
      BY <2>1, <2>2
  <1>6. \A i \in 1 .. n + 1 : i \in 1 .. n \/ i = n + 1
    OBVIOUS
  <1>7. \A i \in 1 .. n + 1 : Align(a[i].ts) = a[i].ts
    BY <1>3, <1>4, <1>6, Zenon
  <1>8. ASSUME NEW i \in 1 .. n + 1, NEW j \in 1 .. n + 1, i < j PROVE a[i].ts < a[j].ts
    <2>1. i \in 1 .. n
      BY <1>8
    <2> QED
      BY <1>3, <1>4, <1>6, <2>1, <1>8, Zenon
  <1>9. ASSUME NEW i \in 1 .. n + 1
        PROVE  Sound(s, a[i]) /\ a[i].ts \in Nat /\ a[i].ts < t + Minute /\ a[i].ts < Horizon
    <2>1. CASE i \in 1 .. n
      <3>1. /\ a[i] = out[i] /\ Sound(s, out[i]) /\ out[i].ts < t /\ out[i].ts \in Nat
            /\ out[i].ts < Horizon
        BY <1>3, <1>4, <2>1
      <3> QED
        BY <3>1, MinuteNat
    <2>2. CASE i = n + 1
      <3>1. a[i] = p
        BY <1>3, <2>2
      <3>2. t < t + Minute
        BY MinuteNat
      <3> QED
        BY <3>1, <3>2
    <2> QED
      BY <2>1, <2>2, <1>6
  <1>10. (n + 1) * Minute + Align(s) <= t + Minute
    <2>1. (n + 1) * Minute = n * Minute + Minute /\ n * Minute \in Nat
      BY MinuteNat, ProductNat
    <2>2. Align(s) \in Nat
      BY AlignFacts
    <2> QED
      BY <1>4, <2>1, <2>2, MinuteNat
  <1>11. OnePerMinute(a)
    BY <1>3, <1>7, <1>8, Zenon DEF OnePerMinute
  <1>12. Buckets(s, a, t + Minute)
    BY <1>a, <1>3, <1>5, <1>9, <1>10, <1>11 DEF Buckets
  <1>13. AllExact(out) /\ Exact(p) => AllExact(a)
    BY <1>2, <1>3, <1>6, Zenon DEF AllExact
  <1> QED
    BY <1>3, <1>12, <1>13 DEF a

\* The arrays are large enough.
LEMMA MaxBuckets ==
  ASSUME NEW m \in Nat \ {0}, NEW n \in Nat, NEW first \in Nat, NEW last \in Nat, first <= last,
         NEW a \in Nat, NEW t \in Nat, first < a + m, t <= last + m, n * m + a <= t
  PROVE  n <= ((last - first + m) \div m) + 1
  <1>1. PICK x \in Nat : x = last - first + m
    BY last - first + m \in Nat
  <1>2. PICK d : d = (x \div m)
    OBVIOUS
  <1>3. d \in Nat /\ x < d * m + m
    BY <1>2, Quotient
  <1>4. n * m \in Nat /\ d * m \in Nat /\ (d + 1) * m = d * m + m /\ (d + 1 + 1) * m = (d + 1) * m + m
    BY <1>3, ProductNat
  <1>5. ~ (d + 2 <= n)
    <2> SUFFICES ASSUME d + 2 <= n PROVE FALSE
      OBVIOUS
    <2>1. (d + 1 + 1) * m <= n * m
      BY <1>3, ProductMonotone
    <2> QED
      BY <1>1, <1>3, <1>4, <2>1
  <1>6. n <= d + 1
    BY <1>3, <1>5
  <1> QED
    BY <1>1, <1>2, <1>6

\* A quotient is no larger than the number.
LEMMA QuotientBound ==
  ASSUME NEW m \in Nat \ {0}, NEW x \in Nat
  PROVE  (x \div m) \in Nat /\ (x \div m) <= x
  <1>1. PICK d : d = (x \div m)
    OBVIOUS
  <1>2. d \in Nat /\ d * m <= x
    BY <1>1, Quotient
  <1>3. d <= d * m
    <2>1. d * 1 <= d * m
      <3>1. 1 * d <= m * d
        BY <1>2, ProductMonotone
      <3>2. 1 * d = d * 1 /\ m * d = d * m
        BY <1>2
      <3> QED
        BY <3>1, <3>2
    <2> QED
      BY <1>2, <2>1
  <1>4. d * m \in Nat
    BY <1>2, ProductNat
  <1> QED
    BY <1>1, <1>2, <1>3, <1>4

\* A number of buckets before the horizon is not changed by its conversion to int.
LEMMA AsIntSame ==
  ASSUME NEW x \in Nat, x < (IntRange \div 2)
  PROVE  AsInt(x) = x
  <1>1. PICK r \in Nat \ {0} : r = IntRange
    BY DownsampleAssumption
  <1>2. PICK h : h = (r \div 2)
    OBVIOUS
  <1>3. h \in Nat /\ h <= r
    BY <1>2
  <1>4. x < r
    BY <1>1, <1>2, <1>3
  <1>5. (x % r) = x
    BY <1>4
  <1> QED
    BY <1>1, <1>2, <1>5 DEF AsInt

\* The facts about a chunk that the loop uses.
LEMMA ChunkFacts ==
  ASSUME NEW s, NEW pts, GoodChunk(s, pts)
  PROVE  /\ pts \in Seq(Point) /\ Len(pts) \in Nat /\ 1 \in 1 .. Len(pts) /\ Len(pts) \in 1 .. Len(pts)
         /\ s \in Nat /\ pts[1].ts = s
         /\ \A i \in 1 .. Len(pts) : Sound(s, pts[i]) /\ pts[i] \in Point /\ pts[i].ts \in Int
                                       /\ pts[i].ts < Horizon
                                       /\ pts[i].src \subseteq ClientPoint
         /\ Disjoint(pts)
  <1>1. pts \in Seq(Point) /\ pts # << >> /\ pts[1].ts = s /\ s \in Nat /\ Disjoint(pts)
    BY DEF GoodChunk
  <1>2. 1 \in 1 .. Len(pts)
    BY <1>1, PointsOf
  <1> QED
    BY <1>1, <1>2, PointsOf, Zenon DEF GoodChunk

\* A minute of one of its points.
LEMMA MinuteFacts ==
  ASSUME NEW s, NEW pts, GoodChunk(s, pts), NEW t, MinuteOf(pts, t)
  PROVE  t \in Nat /\ Align(t) = t /\ t < Horizon
  <1>1. PICK j \in 1 .. Len(pts) : pts[j].ts \in Nat /\ t = Align(pts[j].ts)
    BY DEF MinuteOf
  <1>2. PICK x \in Nat : x = pts[j].ts
    BY <1>1
  <1>3. t = Align(x) /\ x < Horizon
    BY <1>1, <1>2, ChunkFacts
  <1>4. Align(x) \in Nat /\ Align(x) <= x /\ Align(Align(x)) = Align(x)
    BY AlignFacts, AlignIdempotent
  <1> QED
    BY <1>3, <1>4, DownsampleAssumption
\* The open bucket is closed: at a later point, and at the end.
LEMMA ClosedFacts ==
  ASSUME NEW s, NEW pts, GoodChunk(s, pts), NEW b \in BucketRec, LoopInv(s, pts, b), b.k # 0
  PROVE  /\ Buckets(s, Closed(b), b.start + Minute)
         /\ Closed(b) # << >> /\ Closed(b) \in Seq(Point)
         /\ Sources(Closed(b)) = SourcesTo(pts, b.k)
         /\ LoopExact(pts, b) => AllExact(Closed(b))
  <1>1. b.k \in Nat /\ b.start \in Nat /\ b.src \in SUBSET ClientPoint
    BY DEF BucketRec
  <1>2. /\ MinuteOf(pts, b.start)
        /\ Buckets(s, b.out, b.start)
        /\ b.out = << >> => b.start = Align(s)
        /\ \A x \in b.src : Align(x.of) = Align(s)
        /\ b.src # {}
        /\ Sources(b.out) \cup b.src = SourcesTo(pts, b.k)
        /\ Sources(b.out) \cap b.src = {}
    BY <1>1, Zenon DEF LoopInv
  <1> DEFINE p == [ts |-> b.start, src |-> b.src]
  <1>3. p \in Point /\ p.ts = b.start /\ p.src = b.src
    BY <1>1 DEF Point
  <1>4. s \in Nat
    BY ChunkFacts
  <1>5. Align(b.start) = b.start /\ b.start < Horizon
    BY <1>2, MinuteFacts
  <1>6. Sound(s, p)
    BY <1>2, <1>3 DEF Sound
  <1>7. Closed(b) = Append(b.out, p)
    BY DEF Closed
  <1> HIDE DEF p
  <1>8. /\ Buckets(s, Append(b.out, p), b.start + Minute)
        /\ Append(b.out, p) # << >>
        /\ Sources(Append(b.out, p)) = Sources(b.out) \cup p.src
        /\ AllExact(b.out) /\ Exact(p) => AllExact(Append(b.out, p))
    <2>1. PICK out, t : out = b.out /\ t = b.start
      OBVIOUS
    <2>2. /\ s \in Nat /\ t \in Nat /\ Buckets(s, out, t) /\ Align(t) = t /\ t < Horizon
          /\ (out = << >> => t = Align(s)) /\ p \in Point /\ p.ts = t /\ Sound(s, p)
          /\ Sources(out) \cap p.src = {}
      BY <1>1, <1>2, <1>3, <1>4, <1>5, <1>6, <2>1
    <2>3. /\ Buckets(s, Append(out, p), t + Minute)
          /\ Append(out, p) # << >>
          /\ Sources(Append(out, p)) = Sources(out) \cup p.src
          /\ AllExact(out) /\ Exact(p) => AllExact(Append(out, p))
      BY <2>2, BucketAdded
    <2> QED
      BY <2>1, <2>3
  <1>9. Append(b.out, p) \in Seq(Point)
    BY <1>8 DEF Buckets
  <1>10. LoopExact(pts, b) => AllExact(b.out) /\ Exact(p)
    BY <1>3, <1>5 DEF LoopExact, Exact
  <1> QED
    BY <1>2, <1>3, <1>7, <1>8, <1>9, <1>10

\* The loop starts with the invariant,
LEMMA LoopBegins ==
  ASSUME NEW s, NEW pts, GoodChunk(s, pts)
  PROVE  FirstBucket(pts) \in BucketRec /\ LoopInv(s, pts, FirstBucket(pts))
  <1> DEFINE b == FirstBucket(pts)
  <1>1. s \in Nat /\ pts[1].ts = s /\ Len(pts) \in Nat /\ 1 \in 1 .. Len(pts)
    BY ChunkFacts
  <1>2. Align(s) \in Nat
    BY <1>1, AlignFacts
  <1>3. b = [k |-> 0, start |-> Align(s), src |-> {}, out |-> << >>]
    <2>1. \A r \in BucketRec : [r EXCEPT !.start = Align(s)] =
            [k |-> r.k, start |-> Align(s), src |-> r.src, out |-> r.out]
      BY SMTT(40) DEF BucketRec
    <2>2. /\ NoBuckets \in BucketRec
          /\ NoBuckets.k = 0 /\ NoBuckets.src = {} /\ NoBuckets.out = << >>
      BY DEF NoBuckets, BucketRec
    <2> QED
      BY <1>1, <2>1, <2>2, Zenon DEF FirstBucket
  <1>4. b.k = 0 /\ b.start = Align(s) /\ b.src = {} /\ b.out = << >>
    BY <1>3
  <1>5. b \in BucketRec
    BY <1>2, <1>3 DEF BucketRec
  <1> HIDE DEF b
  <1>6. << >> \in Seq(Point) /\ Len(<< >>) = 0
    OBVIOUS
  <1>7. 0 * Minute + Align(s) <= Align(s)
    BY <1>2, MinuteNat
  <1>8. Buckets(s, << >>, Align(s))
    BY <1>6, <1>7 DEF Buckets, OnePerMinute, Disjoint
  <1>9. /\ Sources(<< >>) \cup {} = SourcesTo(pts, 0)
        /\ Sources(<< >>) \cap {} = {}
    BY DEF Sources, SourcesTo, Range
  <1>10. MinuteOf(pts, b.start)
    BY <1>1, <1>4 DEF MinuteOf
  <1>11. AllExact(<< >>)
    BY <1>6 DEF AllExact
  <1>12. LoopExact(pts, b)
    BY <1>1, <1>4, <1>11 DEF LoopExact
  <1> QED
    BY <1>1, <1>4, <1>5, <1>8, <1>9, <1>10, <1>12 DEF LoopInv, b

\* one turn keeps it,
LEMMA LoopStep ==
  ASSUME NEW s, NEW pts, GoodChunk(s, pts), NEW b \in BucketRec, LoopInv(s, pts, b),
         b.k < Len(pts)
  PROVE  LET c == AddPoint(b, pts[b.k + 1]) IN c \in BucketRec /\ LoopInv(s, pts, c)
  <1> DEFINE c == AddPoint(b, pts[b.k + 1])
  <1>1. b.k \in Nat /\ b.start \in Nat /\ b.src \in SUBSET ClientPoint /\ b.out \in Seq(Point)
    BY DEF BucketRec
  <1>2. PICK n \in Nat : n = b.k
    BY <1>1
  <1>3. PICK p : p = pts[n + 1]
    OBVIOUS
  <1>4. n + 1 \in 1 .. Len(pts)
    BY <1>2, ChunkFacts
  <1>5. /\ MinuteOf(pts, b.start)
        /\ Buckets(s, b.out, b.start)
        /\ b.out = << >> => b.start = Align(s)
        /\ \A x \in b.src : Align(x.of) = Align(s)
        /\ n = 0 => b.src = {} /\ b.out = << >>
        /\ Sources(b.out) \cup b.src = SourcesTo(pts, n)
        /\ Sources(b.out) \cap b.src = {}
        /\ Ordered(pts) /\ AllExact(pts) => LoopExact(pts, b)
    BY <1>2, Zenon DEF LoopInv
  <1>6. /\ s \in Nat /\ p \in Point /\ p.ts \in Int /\ p.src \subseteq ClientPoint /\ p.src # {}
        /\ \A x \in p.src : Align(x.of) = Align(s)
    BY <1>3, <1>4, ChunkFacts DEF Sound
  <1>7. /\ SourcesTo(pts, n + 1) = SourcesTo(pts, n) \cup p.src
        /\ SourcesTo(pts, n) \cap p.src = {}
    BY <1>3, <1>4, SourcesMore, SourcesNew, ChunkFacts
  <1>8. Align(b.start) = b.start
    BY <1>5, MinuteFacts
  <1>9. ASSUME Ordered(pts), AllExact(pts)
        PROVE  /\ p.ts \in Nat /\ b.start <= Align(p.ts)
               /\ \A x \in p.src : Align(x.ts) = Align(p.ts)
    <2>1. PICK j \in 1 .. Len(pts) : j = (IF n = 0 THEN 1 ELSE n) /\ j <= n + 1
      BY <1>4, ChunkFacts
    <2>2. b.start = Align(pts[j].ts)
      BY <1>2, <1>5, <1>9, <2>1 DEF LoopExact
    <2>3. pts[1].ts \in Nat /\ 1 \in 1 .. Len(pts) /\ 1 <= j /\ j \in Nat
      BY <2>1, ChunkFacts
    <2>4. pts[1].ts <= pts[j].ts /\ pts[j].ts <= p.ts /\ pts[j].ts \in Int
      BY <1>3, <1>4, <1>9, <2>1, <2>3, ChunkFacts DEF Ordered
    <2>5. p.ts \in Nat /\ pts[j].ts \in Nat
      BY <1>6, <2>3, <2>4
    <2>6. b.start <= Align(p.ts)
      BY <2>2, <2>4, <2>5, AlignMonotone
    <2> QED
      BY <1>3, <1>4, <1>9, <2>5, <2>6 DEF AllExact, Exact
  <1>10. CASE p.ts < b.start + Minute
    <2>1. Ordered(pts) /\ AllExact(pts) => b.start = Align(p.ts)
      <3> SUFFICES ASSUME Ordered(pts), AllExact(pts) PROVE b.start = Align(p.ts)
        OBVIOUS
      <3>1. PICK x \in Nat : x = p.ts /\ b.start <= Align(x)
        BY <1>9
      <3>2. Align(x) \in Nat /\ Align(x) <= x
        BY AlignFacts
      <3>3. b.start < Align(x) => b.start + Minute <= Align(x)
        BY <1>1, <1>8, AlignApart
      <3> QED
        BY <1>1, <1>10, <3>1, <3>2, <3>3, MinuteNat
    <2>2. c = [b EXCEPT !.k = @ + 1, !.src = @ \cup p.src]
      BY <1>2, <1>3, <1>10 DEF AddPoint
    <2>3. c.k = n + 1 /\ c.start = b.start /\ c.src = b.src \cup p.src /\ c.out = b.out
      BY <1>2, <2>2 DEF BucketRec
    <2>4. c \in BucketRec
      <3>1. c = [k |-> n + 1, start |-> b.start, src |-> b.src \cup p.src, out |-> b.out]
        BY <1>2, <2>2 DEF BucketRec
      <3> QED
        BY <3>1, <1>1, <1>6 DEF BucketRec
    <2> HIDE DEF c
    <2>5. c.k <= Len(pts) /\ c.k # 0 /\ pts[c.k] = p
      BY <1>3, <1>4, <2>3, ChunkFacts
    <2>6. /\ \A x \in c.src : Align(x.of) = Align(s)
          /\ c.src # {}
          /\ Sources(c.out) \cup c.src = SourcesTo(pts, c.k)
      BY <1>5, <1>6, <1>7, <2>3
    <2>7. Sources(c.out) \cap c.src = {}
      BY <1>5, <1>7, <2>3
    <2>8. /\ MinuteOf(pts, c.start) /\ Buckets(s, c.out, c.start)
          /\ (c.out = << >> => c.start = Align(s))
      BY <1>5, <2>3
    <2>9. Ordered(pts) /\ AllExact(pts) => LoopExact(pts, c)
      BY <1>5, <1>9, <2>1, <2>3, <2>5 DEF LoopExact
    <2> QED
      BY <2>4, <2>5, <2>6, <2>7, <2>8, <2>9, Zenon DEF LoopInv, c
  <1>11. CASE ~ (p.ts < b.start + Minute)
    <2>1. PICK x \in Nat : x = p.ts /\ b.start + Minute <= x
      BY <1>1, <1>6, <1>11, MinuteNat
    <2>2. Align(x) \in Nat /\ Align(x) <= x /\ x < Align(x) + Minute
      BY AlignFacts
    <2>3. b.start + Minute <= Align(x)
      <3>1. b.start < Align(x) => b.start + Minute <= Align(x)
        BY <1>1, <1>8, AlignApart
      <3> QED
        BY <1>1, <2>1, <2>2, <3>1, MinuteNat
    <2>4. n # 0
      <3> SUFFICES ASSUME n = 0 PROVE FALSE
        OBVIOUS
      <3>1. b.start = Align(s) /\ s = x
        BY <1>3, <1>5, <2>1, ChunkFacts
      <3>2. b.start = Align(x)
        BY <3>1
      <3> QED
        BY <1>1, <2>1, <2>2, <3>2, MinuteNat
    <2>5. /\ Buckets(s, Closed(b), b.start + Minute)
          /\ Closed(b) # << >> /\ Closed(b) \in Seq(Point)
          /\ Sources(Closed(b)) = SourcesTo(pts, n)
          /\ LoopExact(pts, b) => AllExact(Closed(b))
      BY <1>2, <2>4, ClosedFacts
    <2>6. c = [k |-> n + 1, start |-> Align(x), src |-> p.src, out |-> Closed(b)]
      BY <1>2, <1>3, <1>11, <2>1 DEF AddPoint
    <2>7. c.k = n + 1 /\ c.start = Align(x) /\ c.src = p.src /\ c.out = Closed(b)
      BY <2>6
    <2>8. c \in BucketRec
      BY <2>2, <2>5, <2>6, <1>6, SMTT(40) DEF BucketRec
    <2> HIDE DEF c
    <2>9. c.k <= Len(pts) /\ c.k # 0 /\ pts[c.k] = p
      BY <1>3, <1>4, <2>7, ChunkFacts
    <2>10. Buckets(s, c.out, c.start) /\ c.out # << >>
      <3>1. b.start + Minute \in Nat
        BY <1>1, MinuteNat
      <3> QED
        BY <1>6, <2>2, <2>3, <2>5, <2>7, <3>1, BucketsLater
    <2>11. /\ \A y \in c.src : Align(y.of) = Align(s)
           /\ c.src # {}
           /\ Sources(c.out) \cup c.src = SourcesTo(pts, c.k)
           /\ Sources(c.out) \cap c.src = {}
      BY <1>6, <1>7, <2>5, <2>7
    <2>12. MinuteOf(pts, c.start)
      BY <1>3, <1>4, <2>1, <2>7 DEF MinuteOf
    <2>13. Ordered(pts) /\ AllExact(pts) => LoopExact(pts, c)
      <3> SUFFICES ASSUME Ordered(pts), AllExact(pts) PROVE LoopExact(pts, c)
        OBVIOUS
      <3>1. AllExact(c.out)
        BY <1>5, <2>5, <2>7
      <3>2. c.start = Align(pts[c.k].ts) /\ \A y \in c.src : Align(y.ts) = c.start
        BY <1>9, <2>1, <2>7, <2>9
      <3> QED
        BY <2>9, <3>1, <3>2 DEF LoopExact
    <2> QED
      BY <2>8, <2>9, <2>10, <2>11, <2>12, <2>13, Zenon DEF LoopInv, c
  <1> QED
    BY <1>10, <1>11

\* and at the end the averages are made.
LEMMA LoopEnds ==
  ASSUME NEW s, NEW pts, GoodChunk(s, pts), NEW b \in BucketRec, LoopInv(s, pts, b),
         b.k = Len(pts)
  PROVE  Averaged(s, pts, Closed(b)) /\ Closed(b) \in Seq(Point)
  <1>1. pts \in Seq(Point) /\ Len(pts) \in Nat /\ Len(pts) # 0
    BY ChunkFacts
  <1>2. /\ Buckets(s, Closed(b), b.start + Minute)
        /\ Closed(b) # << >> /\ Closed(b) \in Seq(Point)
        /\ Sources(Closed(b)) = SourcesTo(pts, Len(pts))
        /\ LoopExact(pts, b) => AllExact(Closed(b))
    BY <1>1, ClosedFacts
  <1>3. MinuteOf(pts, b.start) /\ b.start \in Nat
    BY DEF LoopInv, BucketRec
  <1>4. Ordered(pts) /\ AllExact(pts) => AllExact(Closed(b))
    BY <1>2 DEF LoopInv
  <1>5. Sources(Closed(b)) = Sources(pts)
    BY <1>1, <1>2, SourcesAll
  <1> QED
    BY <1>2, <1>3, <1>4, <1>5, Zenon DEF Averaged

\* The buckets of a chunk fit their arrays, if it ends with its latest point.
LEMMA BucketsFitIn ==
  ASSUME NEW s, NEW pts, GoodChunk(s, pts), NEW out, NEW t \in Nat, Buckets(s, out, t + Minute),
         MinuteOf(pts, t), \A k \in 1 .. Len(pts) : pts[k].ts <= pts[Len(pts)].ts
  PROVE  Len(out) <= max_buckets(pts)
  <1>1. PICK first \in Nat, last \in Int : first = pts[1].ts /\ last = pts[Len(pts)].ts
    BY ChunkFacts
  <1>2. first = s /\ first <= last /\ last \in Nat /\ last < Horizon
    <2>1. 1 \in 1 .. Len(pts) /\ first = s /\ last < Horizon
      BY <1>1, ChunkFacts
    <2>2. first <= last
      BY <1>1, <2>1
    <2> QED
      BY <2>1, <2>2
  <1>3. PICK a \in Nat : a = Align(first) /\ first < a + Minute
    BY AlignFacts
  <1>4. t <= last
    <2>1. PICK j \in 1 .. Len(pts) : pts[j].ts \in Nat /\ t = Align(pts[j].ts)
      BY DEF MinuteOf
    <2>2. PICK x \in Nat : x = pts[j].ts /\ x <= last
      BY <1>1, <2>1
    <2>3. Align(x) \in Nat /\ Align(x) <= x
      BY AlignFacts
    <2> QED
      BY <1>2, <2>1, <2>2, <2>3
  <1>5. PICK n \in Nat : n = Len(out) /\ n * Minute + a <= t + Minute
    <2>1. out \in Seq(Point) /\ Len(out) * Minute + Align(s) <= t + Minute
      BY DEF Buckets
    <2> QED
      BY <1>2, <1>3, <2>1, PointsOf
  <1>6. t + Minute \in Nat /\ t + Minute <= last + Minute
    BY <1>2, <1>4, MinuteNat
  <1>7. n <= ((last - first + Minute) \div Minute) + 1
    BY <1>2, <1>3, <1>5, <1>6, MinuteNat, MaxBuckets
  <1>8. PICK x \in Nat : x = last - first + Minute /\ x < (IntRange \div 2)
    <2>1. PICK h : h = (IntRange \div 2)
      OBVIOUS
    <2>2. h \in Int /\ Horizon + Minute <= h /\ Horizon \in Nat
      BY <2>1, DownsampleAssumption
    <2>3. last - first + Minute \in Nat /\ last - first + Minute < h
      BY <1>2, <2>2, MinuteNat
    <2> QED
      BY <2>1, <2>3
  <1>9. PICK d \in Nat : d = (x \div Minute) /\ d <= x
    BY MinuteNat, QuotientBound
  <1>10. d < (IntRange \div 2)
    <2>1. PICK h : h = (IntRange \div 2)
      OBVIOUS
    <2>2. h \in Int
      BY <2>1, DownsampleAssumption
    <2> QED
      BY <1>8, <1>9, <2>1, <2>2
  <1>11. CDiv(x, Minute) = d
    BY <1>9 DEF CDiv
  <1>12. AsInt(d) = d
    BY <1>10, AsIntSame
  <1>13. max_buckets(pts) = AsInt(CDiv(x, Minute)) + 1
    BY <1>1, <1>8 DEF max_buckets
  <1> QED
    BY <1>5, <1>7, <1>8, <1>9, <1>11, <1>12, <1>13
-----------------------------------------------------------------------------
(***************************************************************************)
(* The inductive invariant.                                                *)
(***************************************************************************)

Chunk == [start_ts : Starts, end_ts : Int]
File == [state : {"none", "torn", "whole"}, pts : Seq(Point)]

\* The thread holds the lock or sleeps; it has a chunk in its hands.
Working == {"read", "alloc", "bucket", "open", "write", "mark"}
Thread ==
    [pc : {"sleep", "chunk"} \cup Working, m : Nat, i : Nat, cutoff : Int, id : Nat,
     pts : Seq(Point), b : BucketRec]

DownsampleTypeOK ==
    /\ order \in Seq(Levels)
    /\ chunks \in [Levels -> Seq(Chunk)]
    /\ ds \in Thread
    /\ dirs \subseteq Levels
    /\ files \in [Levels -> [Starts -> File]]
    /\ now \in Nat /\ nflush \in Nat
    /\ read \in [Levels -> [Starts -> Seq(Point)]]

\* The contents of chunk files; readdir lists finitely many.
GoodFile(l, s, f) ==
    f.state = "whole" =>
      /\ Stored(s, f.pts)
      /\ IF l = 0 THEN AllExact(f.pts) ELSE OnePerMinute(f.pts)
FilesInv == \A l \in Levels, s \in Starts : GoodFile(l, s, files[l][s])
FiniteInv == \A l \in Levels : IsFiniteSet(Whole(l))

\* What the thread has in its hands.
ChunkInHand ==
    /\ ds.m \in 1 .. Len(order) /\ Level \in Levels /\ Level + 1 \in Levels
    /\ ds.id \in Starts /\ << Level, ds.id >> \notin done
ThreadInv ==
    /\ proc = "down" => ds.pc = "sleep"
    /\ ds.pc # "sleep" => ds.m # 0 /\ ds.i # 0
    /\ ds.pc \in Working => ChunkInHand
    /\ ds.pc \in {"alloc", "bucket", "open", "write"} => GoodChunk(ds.id, ds.pts)
    /\ ds.pc = "bucket" => LoopInv(ds.id, ds.pts, ds.b)
    /\ ds.pc \in {"open", "write"} => Averaged(ds.id, ds.pts, ds.b.out)

\* The coarse file of a raw chunk has the averages of what was read from it, each
\* in its minute if the raw file did not decode shifted.
Covered(id) ==
    /\ files[1][Align(id)].state = "whole"
    /\ Sources(files[1][Align(id)].pts) = Sources(read[0][id])
    /\ Fits14(read[0][id]) => AllExact(files[1][Align(id)].pts)

\* The points in hand are those of the raw file pts.
InHand(pts) ==
    /\ Sources(ds.pts) = Sources(pts)
    /\ Fits14(pts) => Ordered(ds.pts) /\ AllExact(ds.pts)

\* A raw chunk on its way to its marker.
ReadInv ==
    ds.pc \in {"alloc", "bucket", "open", "write", "mark"} /\ Level = 0 =>
      /\ read[0][ds.id] # << >>
      /\ ds.pc # "mark" => InHand(read[0][ds.id])
      /\ ds.pc = "mark" /\ Undisturbed(ds.id) => Covered(ds.id)
CoverInv == \A id \in Starts : << 0, id >> \in done /\ Undisturbed(id) => Covered(id)

DownsampleInv ==
    /\ DownsampleTypeOK /\ FilesInv /\ FiniteInv /\ ThreadInv /\ ReadInv /\ CoverInv

LEMMA LevelsFacts ==
  /\ Levels \subseteq Nat /\ 0 \in Levels /\ 1 \in Levels
  /\ \A l \in Levels : l < MaxLevel => l + 1 \in Levels /\ l + 1 # 0
  BY DownsampleAssumption DEF Levels

\* Blocks have a first and a last point.
LEMMA BlockFacts ==
  ASSUME NEW b \in Blocks
  PROVE  /\ b \in Seq(Nat) /\ Len(b) \in Nat /\ DOMAIN b = 1 .. Len(b)
         /\ 1 \in 1 .. Len(b) /\ Len(b) \in 1 .. Len(b)
         /\ \A k \in 1 .. Len(b) : b[k] \in Nat /\ b[k] < Horizon
         /\ \A i, j \in 1 .. Len(b) : i <= j => b[i] <= b[j]
  <1>1. b \in Seq(Nat) /\ b # << >>
    BY DownsampleAssumption
  <1>2. Len(b) \in Nat /\ DOMAIN b = 1 .. Len(b) /\ Len(b) # 0
    BY <1>1
  <1>3. \A i, j \in 1 .. Len(b) : i <= j => b[i] <= b[j]
    BY <1>2, DownsampleAssumption
  <1>4. \A k \in 1 .. Len(b) : b[k] \in Nat
    BY <1>1, ElementOfSeq
  <1>5. \A k \in 1 .. Len(b) : b[k] < Horizon
    BY <1>2, DownsampleAssumption
  <1> QED
    BY <1>1, <1>2, <1>3, <1>4, <1>5

LEMMA StartsFacts ==
  /\ Starts \subseteq Nat
  /\ \A s \in Starts : Align(s) \in Starts
  /\ \A b \in Blocks : b[1] \in Starts
  <1>1. \A b \in Blocks : b[1] \in Nat
    BY BlockFacts
  <1>2. \A b \in Blocks : Align(b[1]) \in Nat /\ Align(Align(b[1])) = Align(b[1])
    BY <1>1, AlignFacts, AlignIdempotent
  <1> QED
    BY <1>1, <1>2, Zenon DEF Starts

-----------------------------------------------------------------------------
(***************************************************************************)
(* What the steps have in common.                                          *)
(***************************************************************************)

\* A chunk file is replaced.
LEMMA FileReplaced ==
  ASSUME files \in [Levels -> [Starts -> File]], FilesInv, FiniteInv,
         NEW l \in Levels, NEW s \in Starts, NEW f \in File, GoodFile(l, s, f),
         files' = [files EXCEPT ![l][s] = f]
  PROVE  /\ files' \in [Levels -> [Starts -> File]] /\ FilesInv' /\ FiniteInv'
         /\ files'[l][s] = f
         /\ \A k \in Levels, t \in Starts : k # l \/ t # s => files'[k][t] = files[k][t]
  <1> HIDE DEF File
  <1>1. files' \in [Levels -> [Starts -> File]]
    OBVIOUS
  <1>2. files'[l][s] = f
    OBVIOUS
  <1>3. \A k \in Levels, t \in Starts : k # l \/ t # s => files'[k][t] = files[k][t]
    OBVIOUS
  <1>4. FilesInv'
    <2> SUFFICES ASSUME NEW k \in Levels, NEW t \in Starts PROVE GoodFile(k, t, files'[k][t])
      BY DEF FilesInv, GoodFile
    <2>1. GoodFile(k, t, files[k][t])
      BY DEF FilesInv
    <2> QED
      BY <1>2, <1>3, <2>1
  <1>5. FiniteInv'
    <2> SUFFICES ASSUME NEW k \in Levels PROVE IsFiniteSet(Whole(k)')
      BY DEF FiniteInv
    <2>1. Whole(k)' \subseteq Whole(k) \cup {s}
      BY <1>3 DEF Whole
    <2>2. IsFiniteSet(Whole(k) \cup {s})
      BY FS_AddElement DEF FiniteInv
    <2> QED
      BY <2>1, <2>2, FS_Subset
  <1> QED
    BY <1>1, <1>2, <1>3, <1>4, <1>5

\* No file changes.
LEMMA FilesSame ==
  ASSUME FilesInv, FiniteInv, files' = files
  PROVE  FilesInv' /\ FiniteInv'
  BY DEF FilesInv, FiniteInv, GoodFile, Whole

\* What has been read and what has failed stays so.
LEMMA DisturbedStays ==
  ASSUME \A o \in Starts : read'[0][o] = << >> => read[0][o] = << >>, failed \subseteq failed', NEW id
  PROVE  Undisturbed(id)' => Undisturbed(id)
  BY DEF Undisturbed

\* Chunks that are done stay covered.
LEMMA CoverKept ==
  ASSUME CoverInv, done' = done,
         \A id \in Starts : Undisturbed(id)' => Undisturbed(id),
         \A id \in Starts : << 0, id >> \in done /\ Undisturbed(id)' =>
           read'[0][id] = read[0][id] /\ files'[1][Align(id)] = files[1][Align(id)]
  PROVE  CoverInv'
  BY DEF CoverInv, Covered

\* Neither the history nor the coarse files of level 1 change.
LEMMA CoverSame ==
  ASSUME CoverInv, done' = done, read' = read, failed' = failed,
         \A s \in Starts : files'[1][s] = files[1][s]
  PROVE  /\ CoverInv'
         /\ \A id \in Starts : Undisturbed(id)' => Undisturbed(id)
         /\ \A id \in Starts : Covered(id) => Covered(id)'
  <1>1. \A id \in Starts : Undisturbed(id)' => Undisturbed(id)
    BY DEF Undisturbed
  <1>2. \A id \in Starts : files'[1][Align(id)] = files[1][Align(id)]
    BY StartsFacts
  <1>3. \A id \in Starts : Covered(id) => Covered(id)'
    BY <1>2 DEF Covered
  <1> QED
    BY <1>1, <1>2, <1>3, CoverKept

\* The thread has nothing in its hands.
LEMMA HandsFree ==
  ASSUME ds'.pc \in {"sleep", "chunk"}, proc' = "down" => ds'.pc = "sleep",
         ds'.pc # "sleep" => ds'.m # 0 /\ ds'.i # 0
  PROVE  ThreadInv' /\ ReadInv'
  BY DEF ThreadInv, ReadInv, Working

\* The fields of the thread.
LEMMA ThreadFields ==
  ASSUME ds \in Thread
  PROVE  /\ ds.pc \in {"sleep", "chunk"} \cup Working /\ ds.m \in Nat /\ ds.i \in Nat
         /\ ds.cutoff \in Int /\ ds.id \in Nat /\ ds.pts \in Seq(Point) /\ ds.b \in BucketRec
  BY DEF Thread

LEMMA AsleepFacts ==
  Asleep \in Thread /\ Asleep.pc = "sleep"
  <1>1. NoBuckets \in BucketRec
    BY DEF NoBuckets, BucketRec
  <1> HIDE DEF NoBuckets, BucketRec
  <1>2. << >> \in Seq(Point)
    OBVIOUS
  <1> QED
    BY <1>1, <1>2 DEF Asleep, Thread

\* Some fields are replaced.
LEMMA ThreadUpdate ==
  ASSUME NEW r \in Thread, NEW pc \in {"sleep", "chunk"} \cup Working, NEW i \in Nat, NEW id \in Nat,
         NEW pts \in Seq(Point), NEW b \in BucketRec
  PROVE  [r EXCEPT !.pc = pc, !.i = i, !.id = id, !.pts = pts, !.b = b] \in Thread
  <1> DEFINE q == [r EXCEPT !.pc = pc, !.i = i, !.id = id]
  <1>1. q \in Thread
    BY DEF Thread
  <1> HIDE DEF q
  <1>2. [q EXCEPT !.pts = pts, !.b = b] \in Thread
    BY <1>1 DEF Thread
  <1> QED
    BY <1>2 DEF q

LEMMA NextChunkFacts ==
  ASSUME ds \in Thread
  PROVE  /\ NextChunk \in Thread /\ NextChunk.pc = "chunk"
         /\ NextChunk.m = ds.m /\ NextChunk.i = ds.i + 1 /\ NextChunk.i # 0
  <1>1. NoBuckets \in BucketRec /\ << >> \in Seq(Point)
    BY DEF NoBuckets, BucketRec
  <1> HIDE DEF NoBuckets, BucketRec, Point
  <1>2. ds.i \in Nat
    BY DEF Thread
  <1>3. /\ NextChunk.pc = "chunk" /\ NextChunk.m = ds.m /\ NextChunk.i = ds.i + 1
    BY DEF NextChunk, Thread
  <1>4. NextChunk \in Thread
    <2>1. PICK pc \in {"sleep", "chunk"} \cup Working, i \in Nat, id \in Nat, pts \in Seq(Point) :
            pc = "chunk" /\ i = ds.i + 1 /\ id = 0 /\ pts = << >>
      <3>1. ds.i + 1 \in Nat /\ 0 \in Nat
        BY <1>2
      <3> QED
        BY <1>1, <3>1, Zenon
    <2>2. [ds EXCEPT !.pc = pc, !.i = i, !.id = id, !.pts = pts, !.b = NoBuckets] \in Thread
      BY <1>1, ThreadUpdate
    <2> QED
      BY <2>1, <2>2, Zenon DEF NextChunk
  <1> QED
    BY <1>2, <1>3, <1>4

-----------------------------------------------------------------------------
(***************************************************************************)
(* The initial state and the steps.                                        *)
(***************************************************************************)

LEMMA NoFileFacts ==
  NoFile \in File /\ NoFile.state # "whole" /\ \A l, s : GoodFile(l, s, NoFile)
  <1>1. << >> \in Seq(Point)
    OBVIOUS
  <1>2. NoFile \in File /\ NoFile.state = "none"
    BY <1>1 DEF NoFile, File
  <1> QED
    BY <1>2, Zenon DEF GoodFile

LEMMA InitInv == Init => DownsampleInv
  <1> SUFFICES ASSUME Init PROVE DownsampleInv
    OBVIOUS
  <1>1. DownsampleTypeOK
    <2>1. order \in Seq(Levels) /\ dirs \subseteq Levels /\ now \in Nat /\ nflush \in Nat
      BY DEF Init
    <2>2. chunks \in [Levels -> Seq(Chunk)]
      <3>1. << >> \in Seq(Chunk)
        OBVIOUS
      <3> QED
        BY <3>1 DEF Init
    <2>3. ds \in Thread
      BY AsleepFacts DEF Init
    <2>4. files \in [Levels -> [Starts -> File]]
      BY NoFileFacts DEF Init
    <2>5. read \in [Levels -> [Starts -> Seq(Point)]]
      <3>1. << >> \in Seq(Point)
        OBVIOUS
      <3> QED
        BY <3>1 DEF Init
    <2> QED
      BY <2>1, <2>2, <2>3, <2>4, <2>5 DEF DownsampleTypeOK
  <1>2. \A l \in Levels, s \in Starts : files[l][s] = NoFile
    BY DEF Init
  <1>3. FilesInv
    BY <1>2, NoFileFacts DEF FilesInv
  <1>4. FiniteInv
    <2> SUFFICES ASSUME NEW l \in Levels PROVE IsFiniteSet(Whole(l))
      BY DEF FiniteInv
    <2>1. Whole(l) = {}
      BY <1>2, NoFileFacts DEF Whole
    <2> QED
      BY <2>1, FS_EmptySet
  <1>5. ThreadInv /\ ReadInv
    <2>1. ds.pc = "sleep"
      BY AsleepFacts DEF Init
    <2> QED
      BY <2>1 DEF ThreadInv, ReadInv, Working
  <1>6. CoverInv
    BY DEF Init, CoverInv
  <1> QED
    BY <1>1, <1>3, <1>4, <1>5, <1>6 DEF DownsampleInv

\* The parts of the invariant.
LEMMA Parts ==
  ASSUME DownsampleInv
  PROVE  /\ order \in Seq(Levels) /\ chunks \in [Levels -> Seq(Chunk)] /\ ds \in Thread
         /\ dirs \subseteq Levels /\ files \in [Levels -> [Starts -> File]]
         /\ now \in Nat /\ nflush \in Nat
         /\ read \in [Levels -> [Starts -> Seq(Point)]]
         /\ FilesInv /\ FiniteInv /\ ThreadInv /\ ReadInv /\ CoverInv
  BY DEF DownsampleInv, DownsampleTypeOK

\* Only the thread moves, and its hands are free.
LEMMA ThreadMoves ==
  ASSUME DownsampleInv, ds' \in Thread, ds'.pc \in {"sleep", "chunk"},
         proc' = "down" => ds'.pc = "sleep", ds'.pc # "sleep" => ds'.m # 0 /\ ds'.i # 0,
         dirs' \subseteq Levels,
         UNCHANGED << order, chunks, files, done, now, read, failed, nflush >>
  PROVE  DownsampleInv'
  <1>1. DownsampleTypeOK'
    BY Parts DEF DownsampleTypeOK
  <1>2. FilesInv' /\ FiniteInv'
    BY Parts, FilesSame
  <1>3. ThreadInv' /\ ReadInv'
    BY HandsFree
  <1>4. CoverInv'
    BY Parts, CoverSame
  <1> QED
    BY <1>1, <1>2, <1>3, <1>4 DEF DownsampleInv

LEMMA ThreadStep ==
  ASSUME DownsampleInv, downsample_thread
  PROVE  DownsampleInv'
  <1>1. /\ now - After \in Int /\ dirs \subseteq Levels
    BY Parts, DownsampleAssumption
  <1>2. \A r \in Thread : LET q == [r EXCEPT !.pc = "chunk", !.m = 1, !.i = 1, !.cutoff = now - After] IN
          q \in Thread /\ q.pc = "chunk" /\ q.m = 1 /\ q.i = 1
    BY <1>1 DEF Thread
  <1>3. ds' \in Thread /\ ds'.pc = "chunk" /\ ds'.m = 1 /\ ds'.i = 1
    BY <1>2, AsleepFacts, Zenon DEF downsample_thread
  <1>4. proc' = "up" /\ dirs' = dirs
    BY DEF downsample_thread
  <1>5. UNCHANGED << order, chunks, files, done, now, read, failed, nflush >>
    BY DEF downsample_thread, counts
  <1> QED
    BY <1>1, <1>3, <1>4, <1>5, ThreadMoves

\* The metric that the thread is at.
LEMMA LevelFacts ==
  ASSUME DownsampleInv, ds.m # 0, ds.m <= Len(order)
  PROVE  ds.m \in 1 .. Len(order) /\ Level \in Levels
  <1>1. order \in Seq(Levels) /\ ds.m \in Nat
    BY Parts, ThreadFields
  <1>2. Len(order) \in Nat
    BY <1>1
  <1>3. ds.m \in 1 .. Len(order)
    BY <1>1, <1>2
  <1> QED
    BY <1>1, <1>3, ElementOfSeq DEF Level

LEMMA MetricStep ==
  ASSUME DownsampleInv, downsample_metric
  PROVE  DownsampleInv'
  <1>1. /\ ds.pc = "chunk" /\ ds.m # 0 /\ ds.i # 0 /\ proc # "down" /\ ds \in Thread
        /\ dirs \subseteq Levels /\ ds.m \in Nat /\ ds.i \in Nat
    <2>1. ds.pc = "chunk" /\ "chunk" # "sleep"
      BY DEF downsample_metric
    <2> QED
      BY <2>1, Parts, ThreadFields DEF ThreadInv
  <1>2. /\ UNCHANGED << order, chunks, files, done, now, read, failed, nflush >>
        /\ proc' = proc
    BY DEF downsample_metric, counts
  <1>3. now - After \in Int
    BY Parts, DownsampleAssumption
  <1>4. CASE ds' = Asleep /\ dirs' = dirs
    BY <1>1, <1>2, <1>4, AsleepFacts, ThreadMoves
  <1>5. CASE ds' = [ds EXCEPT !.m = @ + 1, !.i = 1, !.cutoff = now - After] /\ dirs' = dirs
    <2>1. ds' \in Thread /\ ds'.pc = "chunk" /\ ds'.m = ds.m + 1 /\ ds'.i = 1
      <3>1. PICK m \in Nat, c \in Int : m = ds.m + 1 /\ c = now - After
        BY <1>1, <1>3
      <3>2. ds' = [ds EXCEPT !.m = m, !.i = 1, !.cutoff = c]
        BY <1>5, <3>1
      <3>3. ds' \in Thread /\ ds'.pc = ds.pc /\ ds'.m = m /\ ds'.i = 1
        BY <1>1, <3>2 DEF Thread
      <3> QED
        BY <1>1, <3>1, <3>3
    <2>2. ds'.m # 0 /\ ds'.i # 0
      BY <1>1, <2>1
    <2> QED
      BY <1>1, <1>2, <1>5, <2>1, <2>2, ThreadMoves
  <1>6. CASE ds' = [ds EXCEPT !.i = @ + 1] /\ dirs' = dirs
    <2>1. ds' \in Thread /\ ds'.pc = "chunk" /\ ds'.m = ds.m /\ ds'.i = ds.i + 1
      BY <1>1, <1>6 DEF Thread
    <2>2. ds'.m # 0 /\ ds'.i # 0
      BY <1>1, <2>1
    <2> QED
      BY <1>1, <1>2, <1>6, <2>1, <2>2, ThreadMoves
  <1>7. CASE /\ ds.m <= Len(order) /\ ds.i <= Len(chunks[Level])
             /\ ~ Skip(chunks[Level][ds.i])
             /\ Level < MaxLevel
             /\ dirs' = dirs \cup {Level + 1}
             /\ ds' = [ds EXCEPT !.pc = "read", !.id = chunks[Level][ds.i].start_ts]
    <2>1. ds.m \in 1 .. Len(order) /\ Level \in Levels /\ Level + 1 \in Levels
      BY <1>1, <1>7, LevelFacts, LevelsFacts
    <2>2. PICK list : list = chunks[Level]
      OBVIOUS
    <2>3. list \in Seq(Chunk)
      BY <2>1, <2>2, Parts
    <2>4. ds.i \in 1 .. Len(list)
      <3>1. Len(list) \in Nat
        BY <2>3
      <3> QED
        BY <1>1, <1>7, <2>2, <3>1
    <2>5. PICK c \in Chunk : c = chunks[Level][ds.i]
      BY <2>2, <2>3, <2>4, ElementOfSeq
    <2>6. c.start_ts \in Starts
      BY DEF Chunk
    <2>7. c.start_ts \in Nat
      BY <2>6, StartsFacts
    <2>8. /\ ds' \in Thread /\ ds'.pc = "read" /\ ds'.id = c.start_ts /\ ds'.m = ds.m /\ ds'.i = ds.i
      <3>1. ds' = [ds EXCEPT !.pc = "read", !.id = c.start_ts] /\ "read" \in Working
        BY <1>7, <2>5 DEF Working
      <3> QED
        BY <1>1, <2>7, <3>1 DEF Thread
    <2>9. Level' = Level
      BY <1>2, <2>8 DEF Level
    <2>10. << Level, c.start_ts >> \notin done
      BY <1>7, <2>5 DEF Skip
    <2>11. ChunkInHand'
      BY <1>2, <2>1, <2>6, <2>8, <2>9, <2>10 DEF ChunkInHand
    <2>12. ThreadInv'
      BY <1>1, <1>2, <2>8, <2>11 DEF ThreadInv
    <2>13. ReadInv'
      BY <2>8 DEF ReadInv
    <2>14. dirs' \subseteq Levels
      BY <1>1, <1>7, <2>1
    <2>15. DownsampleTypeOK'
      BY <1>2, <2>8, <2>14, Parts DEF DownsampleTypeOK
    <2>16. FilesInv' /\ FiniteInv'
      BY <1>2, Parts, FilesSame
    <2>17. CoverInv'
      BY <1>2, Parts, CoverSame
    <2> QED
      BY <2>12, <2>13, <2>15, <2>16, <2>17 DEF DownsampleInv
  <1> QED
    BY <1>4, <1>5, <1>6, <1>7, Zenon DEF downsample_metric

\* The thread has a chunk in its hands.
LEMMA HandFacts ==
  ASSUME DownsampleInv, ds.pc \in Working
  PROVE  /\ ds.m \in 1 .. Len(order) /\ Level \in Levels /\ Level + 1 \in Levels
         /\ ds.id \in Starts /\ << Level, ds.id >> \notin done
         /\ ds.m # 0 /\ ds.i # 0 /\ proc # "down" /\ ds \in Thread
  <1>1. ds.pc # "sleep"
    BY DEF Working
  <1> QED
    BY <1>1, Parts DEF ThreadInv, ChunkInHand

\* The chunk stays in its hands.
LEMMA HandKept ==
  ASSUME DownsampleInv, ds.pc \in Working, order' = order, done' = done,
         ds'.m = ds.m, ds'.i = ds.i, ds'.id = ds.id, ds'.pc \in Working, proc' = proc
  PROVE  /\ Level' = Level /\ ChunkInHand'
         /\ proc' = "down" => ds'.pc = "sleep"
         /\ ds'.pc # "sleep" => ds'.m # 0 /\ ds'.i # 0
  <1>1. Level' = Level
    BY DEF Level
  <1> QED
    BY <1>1, HandFacts DEF ChunkInHand

LEMMA ReadStep ==
  ASSUME DownsampleInv, decompress_all
  PROVE  DownsampleInv'
  <1>1. ds.pc = "read" /\ ds.pc \in Working
    BY DEF decompress_all, Working
  <1>2. /\ UNCHANGED << order, chunks, dirs, files, done, now, failed, nflush >>
        /\ proc' = proc
    BY DEF decompress_all, counts
  <1>3. PICK f : f = files[Level][ds.id]
    OBVIOUS
  <1>4. f \in File /\ GoodFile(Level, ds.id, f)
    BY <1>1, <1>3, HandFacts, Parts DEF FilesInv
  <1>5. CASE ds' = NextChunk /\ read' = read
    <2>1. ds' \in Thread /\ ds'.pc = "chunk" /\ ds'.m # 0 /\ ds'.i # 0 /\ proc' # "down"
      BY <1>1, <1>2, <1>5, HandFacts, NextChunkFacts
    <2>2. dirs' \subseteq Levels
      BY <1>2, Parts
    <2> QED
      BY <1>2, <1>5, <2>1, <2>2, ThreadMoves
  <1>6. CASE /\ f.state = "whole"
             /\ ds' = [ds EXCEPT !.pc = "alloc", !.pts = Decoded(f.pts)]
             /\ read' = [read EXCEPT ![Level][ds.id] = f.pts]
    <2>1. Stored(ds.id, f.pts) /\ (Level = 0 => AllExact(f.pts))
      BY <1>4, <1>6 DEF GoodFile
    <2>2. PICK q : q = Decoded(f.pts)
      OBVIOUS
    <2>3. /\ GoodChunk(ds.id, q) /\ Sources(q) = Sources(f.pts)
          /\ Fits14(f.pts) => q = f.pts
      BY <2>1, <2>2, DecodedChunk
    <2>4. q \in Seq(Point) /\ f.pts \in Seq(Point) /\ f.pts # << >> /\ Ordered(f.pts)
      BY <2>1, <2>3 DEF GoodChunk, Stored
    <2>5. /\ ds' \in Thread /\ ds'.pc = "alloc" /\ ds'.m = ds.m /\ ds'.i = ds.i /\ ds'.id = ds.id
          /\ ds'.pts = q
      <3>1. ds \in Thread /\ ds' = [ds EXCEPT !.pc = "alloc", !.pts = q] /\ "alloc" \in Working
        BY <1>1, <1>6, <2>2, HandFacts DEF Working
      <3> QED
        BY <2>4, <3>1 DEF Thread
    <2>6. /\ Level' = Level /\ ChunkInHand'
          /\ proc' = "down" => ds'.pc = "sleep"
          /\ ds'.pc # "sleep" => ds'.m # 0 /\ ds'.i # 0
      <3>1. ds'.pc \in Working
        BY <2>5 DEF Working
      <3> QED
        BY <1>1, <1>2, <2>5, <3>1, HandKept
    <2>7. ThreadInv'
      BY <2>3, <2>5, <2>6 DEF ThreadInv
    <2>8. /\ read' \in [Levels -> [Starts -> Seq(Point)]]
          /\ read'[Level][ds.id] = f.pts
          /\ \A l \in Levels, s \in Starts : l # Level \/ s # ds.id => read'[l][s] = read[l][s]
      <3>1. /\ read \in [Levels -> [Starts -> Seq(Point)]]
            /\ Level \in Levels /\ ds.id \in Starts
        BY <1>1, HandFacts, Parts
      <3>2. PICK pts, S : pts = f.pts /\ S = Seq(Point) /\ pts \in S
        BY <2>4
      <3> HIDE DEF ClientPoint, Level, Levels, Starts
      <3> QED
        BY <1>6, <3>1, <3>2
    <2>9. ReadInv'
      <3> SUFFICES ASSUME Level' = 0
                   PROVE  /\ read'[0][ds'.id] # << >>
                          /\ Sources(ds'.pts) = Sources(read'[0][ds'.id])
                          /\ Fits14(read'[0][ds'.id]) => Ordered(ds'.pts) /\ AllExact(ds'.pts)
        BY <2>5 DEF ReadInv, InHand, Sources, Fits14, Ordered, AllExact, Exact
      <3>1. read'[0][ds'.id] = f.pts /\ AllExact(f.pts)
        BY <2>1, <2>5, <2>6, <2>8
      <3> QED
        BY <2>3, <2>4, <2>5, <3>1
    <2>10. DownsampleTypeOK'
      BY <1>2, <2>5, <2>8, Parts DEF DownsampleTypeOK
    <2>11. FilesInv' /\ FiniteInv'
      BY <1>2, Parts, FilesSame
    <2>12. CoverInv'
      <3>1. \A o \in Starts : read'[0][o] = << >> => read[0][o] = << >>
        BY <2>4, <2>8, LevelsFacts
      <3>2. \A id \in Starts : Undisturbed(id)' => Undisturbed(id)
        BY <1>2, <3>1, DisturbedStays
      <3>3. \A id \in Starts : << 0, id >> \in done =>
              read'[0][id] = read[0][id] /\ files'[1][Align(id)] = files[1][Align(id)]
        BY <1>1, <1>2, <2>8, HandFacts, LevelsFacts
      <3> QED
        BY <1>2, <3>2, <3>3, Parts, CoverKept
    <2> QED
      BY <2>7, <2>9, <2>10, <2>11, <2>12 DEF DownsampleInv
  <1> QED
    BY <1>3, <1>5, <1>6, Zenon DEF decompress_all

\* The thread goes on with its chunk.
LEMMA PcMoves ==
  ASSUME DownsampleInv, ds.pc \in Working, NEW p \in Working, ds' = [ds EXCEPT !.pc = p],
         order' = order, done' = done, proc' = proc
  PROVE  /\ ds' \in Thread /\ ds'.pc = p /\ ds'.id = ds.id /\ ds'.pts = ds.pts /\ ds'.b = ds.b
         /\ Level' = Level /\ ChunkInHand'
         /\ proc' = "down" => ds'.pc = "sleep"
         /\ ds'.pc # "sleep" => ds'.m # 0 /\ ds'.i # 0
  <1>1. /\ ds' \in Thread /\ ds'.pc = p /\ ds'.id = ds.id /\ ds'.pts = ds.pts /\ ds'.b = ds.b
        /\ ds'.m = ds.m /\ ds'.i = ds.i
    BY Parts DEF Thread
  <1> QED
    BY <1>1, HandKept

\* No coarse file is written, and nobody is told.
LEMMA WriteFails ==
  ASSUME DownsampleInv, ds.pc \in {"alloc", "open", "write"}, NoCoarse,
         UNCHANGED << proc, order, chunks, dirs, files, done, now, read, nflush >>
  PROVE  DownsampleInv'
  <1>0. /\ failed' = failed \cup {<< Level, ds.id >>} /\ ds' = [ds EXCEPT !.pc = "mark"]
        /\ ds.pc \in Working
    BY DEF NoCoarse, Working
  <1>1. /\ ds' \in Thread /\ ds'.pc = "mark" /\ ds'.id = ds.id
        /\ Level' = Level /\ ChunkInHand'
        /\ proc' = "down" => ds'.pc = "sleep"
        /\ ds'.pc # "sleep" => ds'.m # 0 /\ ds'.i # 0
    <2>1. PICK p \in Working : p = "mark"
      BY DEF Working
    <2> QED
      BY <1>0, <2>1, PcMoves
  <1>2. ThreadInv'
    BY <1>1 DEF ThreadInv
  <1>3. ds.id \in Starts
    BY <1>0, HandFacts
  <1>4. ReadInv'
    <2>1. Level = 0 => ~ Undisturbed(ds.id)'
      BY <1>0, <1>1, <1>3 DEF Undisturbed
    <2>2. Level = 0 => read[0][ds.id] # << >>
      BY Parts DEF ReadInv
    <2> QED
      BY <1>1, <2>1, <2>2 DEF ReadInv, Undisturbed
  <1>5. CoverInv'
    <2>1. \A id \in Starts : Undisturbed(id)' => Undisturbed(id)
      BY <1>0, DisturbedStays
    <2> QED
      BY <2>1, Parts, CoverKept
  <1>6. FilesInv' /\ FiniteInv'
    BY Parts, FilesSame
  <1>7. DownsampleTypeOK'
    BY <1>1, Parts DEF DownsampleTypeOK
  <1> QED
    BY <1>2, <1>4, <1>5, <1>6, <1>7 DEF DownsampleInv

\* The thread goes on with its chunk and its buckets.
LEMMA BucketMoves ==
  ASSUME DownsampleInv, ds.pc \in {"alloc", "bucket"},
         UNCHANGED << order, chunks, dirs, files, done, now, read, failed, nflush >>, proc' = proc,
         NEW pc \in {"bucket", "open"}, NEW b \in BucketRec, ds' = [ds EXCEPT !.pc = pc, !.b = b],
         pc = "bucket" => LoopInv(ds.id, ds.pts, b),
         pc = "open" => Averaged(ds.id, ds.pts, b.out)
  PROVE  DownsampleInv'
  <1>1. ds \in Thread /\ ds.pc \in Working /\ GoodChunk(ds.id, ds.pts)
    BY Parts DEF Working, ThreadInv
  <1>2. /\ ds' \in Thread /\ ds'.pc = pc /\ ds'.m = ds.m /\ ds'.i = ds.i /\ ds'.id = ds.id
        /\ ds'.pts = ds.pts /\ ds'.b = b
    <2>1. pc \in Working
      BY DEF Working
    <2> QED
      BY <1>1, <2>1 DEF Thread
  <1>3. /\ Level' = Level /\ ChunkInHand'
        /\ proc' = "down" => ds'.pc = "sleep"
        /\ ds'.pc # "sleep" => ds'.m # 0 /\ ds'.i # 0
    <2>1. ds'.pc \in Working
      BY <1>2 DEF Working
    <2> QED
      BY <1>1, <1>2, <2>1, HandKept
  <1>4. ThreadInv'
    BY <1>1, <1>2, <1>3 DEF ThreadInv
  <1>5. ReadInv'
    BY <1>2, <1>3, Parts DEF ReadInv, InHand
  <1>6. DownsampleTypeOK'
    BY <1>2, Parts DEF DownsampleTypeOK
  <1>7. FilesInv' /\ FiniteInv' /\ CoverInv'
    BY Parts, FilesSame, CoverSame
  <1> QED
    BY <1>4, <1>5, <1>6, <1>7 DEF DownsampleInv

LEMMA AllocStep ==
  ASSUME DownsampleInv, allocate
  PROVE  DownsampleInv'
  <1>1. ds.pc = "alloc"
    BY DEF allocate
  <1>2. UNCHANGED << proc, order, chunks, dirs, files, done, now, read, nflush >>
    BY DEF allocate
  <1>3. CASE ds' = [ds EXCEPT !.pc = "bucket", !.b = FirstBucket(ds.pts)] /\ failed' = failed
    <2>1. GoodChunk(ds.id, ds.pts)
      BY <1>1, Parts DEF ThreadInv
    <2>2. PICK b \in BucketRec : b = FirstBucket(ds.pts) /\ LoopInv(ds.id, ds.pts, b)
      BY <2>1, LoopBegins
    <2>3. PICK pc \in {"bucket", "open"} : pc = "bucket" /\ pc # "open"
      OBVIOUS
    <2>4. ds' = [ds EXCEPT !.pc = pc, !.b = b]
      BY <1>3, <2>2, <2>3
    <2>5. UNCHANGED << order, chunks, dirs, files, done, now, read, failed, nflush >> /\ proc' = proc
      BY <1>2, <1>3
    <2> QED
      BY <1>1, <2>2, <2>3, <2>4, <2>5, BucketMoves
  <1>4. CASE NoCoarse
    BY <1>1, <1>2, <1>4, WriteFails
  <1> QED
    BY <1>3, <1>4, Zenon DEF allocate

LEMMA AverageStep ==
  ASSUME DownsampleInv, average
  PROVE  DownsampleInv'
  <1>1. ds.pc = "bucket" /\ ds.pc \in Working
    BY DEF average, Working
  <1>2. /\ UNCHANGED << order, chunks, dirs, files, done, now, read, failed, nflush >>
        /\ proc' = proc
    BY DEF average, counts
  <1>3. ds \in Thread /\ ds.b \in BucketRec /\ ds.pts \in Seq(Point)
    BY Parts, ThreadFields
  <1>4. GoodChunk(ds.id, ds.pts) /\ LoopInv(ds.id, ds.pts, ds.b)
    BY <1>1, Parts DEF ThreadInv
  <1>5. ASSUME NEW pc \in {"bucket", "open"}, NEW b \in BucketRec, ds' = [ds EXCEPT !.pc = pc, !.b = b],
               pc = "bucket" => LoopInv(ds.id, ds.pts, b),
               pc = "open" => Averaged(ds.id, ds.pts, b.out)
        PROVE  DownsampleInv'
    BY <1>1, <1>2, <1>5, BucketMoves
  <1>6. CASE ds.b.k < Len(ds.pts) /\ ds' = [ds EXCEPT !.b = AddPoint(@, ds.pts[@.k + 1])]
    <2>1. PICK b \in BucketRec : b = AddPoint(ds.b, ds.pts[ds.b.k + 1]) /\ LoopInv(ds.id, ds.pts, b)
      BY <1>3, <1>4, <1>6, LoopStep
    <2>2. ds' = [ds EXCEPT !.pc = "bucket", !.b = b]
      <3>1. ds' = [ds EXCEPT !.b = b]
        BY <1>6, <2>1
      <3> QED
        BY <1>1, <1>3, <3>1 DEF Thread
    <2> QED
      BY <1>5, <2>1, <2>2
  <1>7. CASE /\ ds.b.k = Len(ds.pts)
             /\ ds' = [ds EXCEPT !.pc = "open", !.b = [@ EXCEPT !.out = Closed(ds.b)]]
    <2>1. Averaged(ds.id, ds.pts, Closed(ds.b)) /\ Closed(ds.b) \in Seq(Point)
      BY <1>3, <1>4, <1>7, LoopEnds
    <2>2. PICK b : b = [ds.b EXCEPT !.out = Closed(ds.b)]
      OBVIOUS
    <2>3. b \in BucketRec /\ b.out = Closed(ds.b)
      BY <1>3, <2>1, <2>2 DEF BucketRec
    <2>4. ds' = [ds EXCEPT !.pc = "open", !.b = b]
      BY <1>7, <2>2
    <2> QED
      BY <1>5, <2>1, <2>3, <2>4
  <1> QED
    BY <1>6, <1>7, Zenon DEF average

\* The name of the coarse file.
LEMMA CoarseNameFacts ==
  ASSUME DownsampleInv, ds.pc \in {"open", "write"}
  PROVE  /\ ds.pc \in Working /\ CoarseName = Align(ds.id) /\ Align(ds.id) \in Starts
         /\ GoodChunk(ds.id, ds.pts) /\ Averaged(ds.id, ds.pts, ds.b.out)
         /\ Stored(Align(ds.id), ds.b.out) /\ OnePerMinute(ds.b.out) /\ ds.b.out \in Seq(Point)
  <1>1. ds.pc \in Working
    BY DEF Working
  <1>2. GoodChunk(ds.id, ds.pts) /\ Averaged(ds.id, ds.pts, ds.b.out)
    BY Parts DEF ThreadInv
  <1>3. ds.id \in Starts /\ ds.id \in Nat
    BY <1>1, HandFacts, StartsFacts
  <1>4. PICK t : Buckets(ds.id, ds.b.out, t) /\ ds.b.out # << >>
    BY <1>2 DEF Averaged
  <1>5. /\ Stored(Align(ds.id), ds.b.out) /\ OnePerMinute(ds.b.out)
        /\ ds.b.out[1].ts = Align(ds.id)
    BY <1>3, <1>4, AveragedChunk
  <1> QED
    BY <1>1, <1>2, <1>3, <1>5, StartsFacts DEF CoarseName, GoodChunk, Stored

\* The coarse file is truncated or written: no other chunk loses its averages,
\* unless it begins in the same minute.
LEMMA CoarseWritten ==
  ASSUME DownsampleInv, ds.pc \in {"open", "write"}, NEW f \in File,
         GoodFile(Level + 1, Align(ds.id), f),
         files' = [files EXCEPT ![Level + 1][CoarseName] = f],
         done' = done, read' = read, failed' = failed
  PROVE  /\ files' \in [Levels -> [Starts -> File]] /\ FilesInv' /\ FiniteInv' /\ CoverInv'
         /\ files'[Level + 1][Align(ds.id)] = f
  <1>1. /\ ds.pc \in Working /\ CoarseName = Align(ds.id) /\ Align(ds.id) \in Starts
        /\ Level \in Levels /\ Level + 1 \in Levels /\ ds.id \in Starts
        /\ << Level, ds.id >> \notin done
    BY CoarseNameFacts, HandFacts
  <1>2. PICK l \in Levels, s \in Starts : l = Level + 1 /\ s = Align(ds.id)
    BY <1>1
  <1>3. files' = [files EXCEPT ![l][s] = f] /\ GoodFile(l, s, f)
    BY <1>1, <1>2
  <1>4. /\ files' \in [Levels -> [Starts -> File]] /\ FilesInv' /\ FiniteInv'
        /\ files'[l][s] = f
        /\ \A k \in Levels, t \in Starts : k # l \/ t # s => files'[k][t] = files[k][t]
    BY <1>3, Parts, FileReplaced, ZenonT(80)
  <1>5. \A id \in Starts : Undisturbed(id)' => Undisturbed(id)
    BY DisturbedStays
  <1>6. ASSUME NEW id \in Starts, << 0, id >> \in done, Undisturbed(id)'
        PROVE  files'[1][Align(id)] = files[1][Align(id)]
    <2>1. Align(id) \in Starts /\ 1 \in Levels
      BY StartsFacts, LevelsFacts
    <2>2. CASE l # 1 \/ Align(id) # s
      BY <1>4, <2>1, <2>2
    <2>3. CASE l = 1 /\ Align(id) = s
      <3>1. Level = 0
        BY <1>1, <1>2, <2>3, LevelsFacts
      <3>2. ds.id # id
        BY <1>1, <1>6, <3>1
      <3>3. read[0][ds.id] # << >>
        BY <3>1, Parts DEF ReadInv
      <3>4. read[0][ds.id] = << >>
        BY <1>1, <1>2, <1>5, <1>6, <2>3, <3>2 DEF Undisturbed
      <3> QED
        BY <3>3, <3>4
    <2> QED
      BY <2>2, <2>3
  <1>7. CoverInv'
    BY <1>5, <1>6, Parts, CoverKept
  <1> QED
    BY <1>2, <1>4, <1>7

LEMMA OpenStep ==
  ASSUME DownsampleInv, write_coarse_open
  PROVE  DownsampleInv'
  <1>1. ds.pc \in {"open", "write"} /\ ds.pc = "open"
    BY DEF write_coarse_open
  <1>2. UNCHANGED << proc, order, chunks, dirs, done, now, read, nflush >>
    BY DEF write_coarse_open
  <1>3. CASE /\ files' = [files EXCEPT ![Level + 1][CoarseName] = [state |-> "torn", pts |-> << >>]]
             /\ ds' = [ds EXCEPT !.pc = "write"] /\ failed' = failed
    <2>1. PICK f \in File : f = [state |-> "torn", pts |-> << >>] /\ f.state = "torn"
      <3>1. << >> \in Seq(Point)
        OBVIOUS
      <3>2. \A pts \in Seq(Point) : LET f == [state |-> "torn", pts |-> pts] IN
              f \in File /\ f.state = "torn"
        BY DEF File
      <3> QED
        BY <3>1, <3>2, Zenon
    <2>2. GoodFile(Level + 1, Align(ds.id), f)
      BY <2>1 DEF GoodFile
    <2>3. files' \in [Levels -> [Starts -> File]] /\ FilesInv' /\ FiniteInv' /\ CoverInv'
      BY <1>1, <1>2, <1>3, <2>1, <2>2, CoarseWritten
    <2>4. /\ ds' \in Thread /\ ds'.pc = "write" /\ ds'.id = ds.id /\ ds'.pts = ds.pts /\ ds'.b = ds.b
          /\ Level' = Level /\ ChunkInHand'
          /\ proc' = "down" => ds'.pc = "sleep"
          /\ ds'.pc # "sleep" => ds'.m # 0 /\ ds'.i # 0
      <3>1. PICK p \in Working : p = "write"
        BY DEF Working
      <3> QED
        BY <1>1, <1>2, <1>3, <3>1, CoarseNameFacts, PcMoves
    <2>5. ThreadInv'
      BY <1>1, <2>4, CoarseNameFacts DEF ThreadInv
    <2>6. ReadInv'
      BY <1>1, <1>2, <2>4, Parts DEF ReadInv, InHand
    <2>7. DownsampleTypeOK'
      BY <1>2, <2>3, <2>4, Parts DEF DownsampleTypeOK
    <2> QED
      BY <2>3, <2>5, <2>6, <2>7 DEF DownsampleInv
  <1>4. CASE NoCoarse /\ files' = files
    BY <1>1, <1>2, <1>4, WriteFails
  <1> QED
    BY <1>3, <1>4, Zenon DEF write_coarse_open

LEMMA WriteStep ==
  ASSUME DownsampleInv, write_coarse_chunk
  PROVE  DownsampleInv'
  <1>1. ds.pc \in {"open", "write"} /\ ds.pc = "write"
    BY DEF write_coarse_chunk
  <1>2. UNCHANGED << proc, order, chunks, dirs, done, now, read, nflush >>
    BY DEF write_coarse_chunk
  <1>3. CASE /\ files' = [files EXCEPT ![Level + 1][CoarseName] = [state |-> "whole", pts |-> ds.b.out]]
             /\ ds' = [ds EXCEPT !.pc = "mark"] /\ failed' = failed
    <2>1. PICK f \in File :
            f = [state |-> "whole", pts |-> ds.b.out] /\ f.state = "whole" /\ f.pts = ds.b.out
      <3>1. ds.b.out \in Seq(Point)
        BY <1>1, CoarseNameFacts
      <3>2. \A pts \in Seq(Point) : LET f == [state |-> "whole", pts |-> pts] IN
              f \in File /\ f.state = "whole" /\ f.pts = pts
        BY DEF File
      <3> QED
        BY <3>1, <3>2, Zenon
    <2>2. GoodFile(Level + 1, Align(ds.id), f)
      <3>1. Level + 1 # 0
        <4>1. Level \in Nat
          BY <1>1, CoarseNameFacts, HandFacts, LevelsFacts
        <4> HIDE DEF Level
        <4> QED
          BY <4>1
      <3> QED
        BY <1>1, <2>1, <3>1, CoarseNameFacts DEF GoodFile
    <2>3. /\ files' \in [Levels -> [Starts -> File]] /\ FilesInv' /\ FiniteInv' /\ CoverInv'
          /\ files'[Level + 1][Align(ds.id)] = f
      BY <1>1, <1>2, <1>3, <2>1, <2>2, CoarseWritten
    <2>4. /\ ds' \in Thread /\ ds'.pc = "mark" /\ ds'.id = ds.id
          /\ Level' = Level /\ ChunkInHand'
          /\ proc' = "down" => ds'.pc = "sleep"
          /\ ds'.pc # "sleep" => ds'.m # 0 /\ ds'.i # 0
      <3>1. PICK p \in Working : p = "mark"
        BY DEF Working
      <3> QED
        BY <1>1, <1>2, <1>3, <3>1, CoarseNameFacts, PcMoves
    <2>5. ThreadInv'
      BY <2>4 DEF ThreadInv
    <2>6. ReadInv'
      <3>1. Level = 0 => read[0][ds.id] # << >> /\ InHand(read[0][ds.id])
        BY <1>1, Parts DEF ReadInv
      <3>2. /\ Sources(ds.b.out) = Sources(ds.pts)
            /\ Ordered(ds.pts) /\ AllExact(ds.pts) => AllExact(ds.b.out)
        BY <1>1, CoarseNameFacts DEF Averaged
      <3>3. Level = 0 => /\ files'[1][Align(ds.id)].state = "whole"
                         /\ files'[1][Align(ds.id)].pts = ds.b.out
        BY <2>1, <2>3
      <3>4. Level = 0 => /\ Sources(files'[1][Align(ds.id)].pts) = Sources(read[0][ds.id])
                         /\ Fits14(read[0][ds.id]) => AllExact(files'[1][Align(ds.id)].pts)
        BY <3>1, <3>2, <3>3 DEF InHand
      <3>5. Level = 0 => Covered(ds.id)'
        BY <1>2, <2>4, <3>3, <3>4 DEF Covered, Sources, Fits14, AllExact, Exact
      <3> QED
        BY <1>2, <2>4, <3>1, <3>5 DEF ReadInv
    <2>7. DownsampleTypeOK'
      BY <1>2, <2>3, <2>4, Parts DEF DownsampleTypeOK
    <2> QED
      BY <2>3, <2>5, <2>6, <2>7 DEF DownsampleInv
  <1>4. CASE NoCoarse /\ files' = files
    BY <1>1, <1>2, <1>4, WriteFails
  <1> QED
    BY <1>3, <1>4, Zenon DEF write_coarse_chunk

LEMMA MarkStep ==
  ASSUME DownsampleInv, create_marker
  PROVE  DownsampleInv'
  <1>1. ds.pc = "mark" /\ ds.pc \in Working
    BY DEF create_marker, Working
  <1>2. /\ UNCHANGED << proc, order, chunks, dirs, files, now, read, failed, nflush >>
        /\ done' = done \cup {<< Level, ds.id >>} \/ done' = done
        /\ ds' = NextChunk
    BY DEF create_marker
  <1>3. ds' \in Thread /\ ds'.pc = "chunk" /\ ds'.m # 0 /\ ds'.i # 0 /\ proc' # "down"
    BY <1>1, <1>2, HandFacts, NextChunkFacts
  <1>4. ThreadInv' /\ ReadInv'
    BY <1>3, HandsFree
  <1>5. DownsampleTypeOK'
    BY <1>2, <1>3, Parts DEF DownsampleTypeOK
  <1>6. FilesInv' /\ FiniteInv'
    BY <1>2, Parts, FilesSame
  <1>7. CoverInv'
    <2> SUFFICES ASSUME NEW id \in Starts, << 0, id >> \in done', Undisturbed(id)'
                 PROVE  Covered(id)'
      BY DEF CoverInv
    <2>1. Undisturbed(id)
      BY <1>2 DEF Undisturbed
    <2>2. << 0, id >> \in done \/ (Level = 0 /\ id = ds.id)
      BY <1>2
    <2>3. Covered(id)
      BY <1>1, <2>1, <2>2, Parts DEF CoverInv, ReadInv
    <2> QED
      BY <1>2, <2>3 DEF Covered
  <1> QED
    BY <1>4, <1>5, <1>6, <1>7 DEF DownsampleInv

\* Steps of the rest of the server leave the thread its chunk.
LEMMA OthersMove ==
  ASSUME DownsampleInv, UNCHANGED << ds, done, read, failed >>, proc' = "down" => proc = "down",
         ds.pc \in Working => ds.m \in 1 .. Len(order') /\ order'[ds.m] = order[ds.m],
         \A s \in Starts : files'[1][s] = files[1][s]
  PROVE  ThreadInv' /\ ReadInv' /\ CoverInv'
  <1>1. ds.pc \in Working => Level' = Level /\ ds.m \in 1 .. Len(order')
    BY DEF Level
  <1>2. ds.pc \in Working => ChunkInHand'
    BY <1>1, HandFacts DEF ChunkInHand
  <1>3. ThreadInv'
    BY <1>2, Parts DEF ThreadInv
  <1>4. /\ CoverInv'
        /\ \A id \in Starts : Undisturbed(id)' => Undisturbed(id)
        /\ \A id \in Starts : Covered(id) => Covered(id)'
    BY Parts, CoverSame
  <1>5. ReadInv'
    <2> SUFFICES ASSUME ds.pc \in {"alloc", "bucket", "open", "write", "mark"}, Level' = 0
                 PROVE  /\ read[0][ds.id] # << >>
                        /\ ds.pc # "mark" => InHand(read[0][ds.id])
                        /\ ds.pc = "mark" /\ Undisturbed(ds.id)' => Covered(ds.id)'
      BY DEF ReadInv, InHand
    <2>1. ds.pc \in Working
      BY DEF Working
    <2>2. Level = 0 /\ ds.id \in Starts
      BY <1>1, <2>1, HandFacts
    <2>3. PICK id \in Starts : id = ds.id
      BY <2>2
    <2>4. (Undisturbed(id)' => Undisturbed(id)) /\ (Covered(id) => Covered(id)')
      BY <1>4
    <2>5. (Undisturbed(ds.id)' => Undisturbed(ds.id)) /\ (Covered(ds.id) => Covered(ds.id)')
      BY <2>3, <2>4 DEF Undisturbed, Covered
    <2> QED
      BY <2>2, <2>5, Parts DEF ReadInv
  <1> QED
    BY <1>3, <1>4, <1>5

\* The file that a flush writes.
FlushedFile(b, n) ==
    [state |-> "whole",
     pts |-> [k \in DOMAIN b |-> [ts |-> b[k], src |-> {[n |-> n, k |-> k, ts |-> b[k], of |-> b[1]]}]]]

LEMMA FlushedFileFacts ==
  ASSUME NEW b \in Blocks, NEW n \in Nat
  PROVE  FlushedFile(b, n) \in File /\ GoodFile(0, b[1], FlushedFile(b, n))
  <1> DEFINE pts == [k \in DOMAIN b |-> [ts |-> b[k], src |-> {[n |-> n, k |-> k, ts |-> b[k], of |-> b[1]]}]]
  <1>1. PICK len \in Nat : len = Len(b) /\ DOMAIN b = 1 .. len /\ 1 \in 1 .. len
    BY BlockFacts
  <1>2. b[1] \in Nat
    BY <1>1, BlockFacts
  <1>3. ASSUME NEW k \in 1 .. len
        PROVE  /\ pts[k] \in Point /\ pts[k].ts = b[k] /\ pts[k].ts < Horizon
               /\ Sound(b[1], pts[k]) /\ Exact(pts[k])
               /\ pts[k].src = {[n |-> n, k |-> k, ts |-> b[k], of |-> b[1]]}
    <2>1. PICK x : x = [n |-> n, k |-> k, ts |-> b[k], of |-> b[1]]
      OBVIOUS
    <2>2. x \in ClientPoint /\ x.ts = b[k] /\ x.of = b[1]
      <3>1. b[k] \in Nat /\ k \in Nat
        BY <1>1, <1>3, BlockFacts
      <3> QED
        BY <1>2, <2>1, <3>1 DEF ClientPoint
    <2>3. pts[k] = [ts |-> b[k], src |-> {x}]
      BY <1>1, <2>1
    <2>4. b[k] \in Nat /\ b[k] < Horizon
      BY <1>1, <1>3, BlockFacts
    <2> HIDE DEF pts
    <2>5. pts[k].ts = b[k] /\ pts[k].src = {x}
      BY <2>3
    <2>6. pts[k] \in Point
      BY <2>2, <2>3, <2>4 DEF Point
    <2> QED
      BY <2>1, <2>2, <2>4, <2>5, <2>6 DEF Sound, Exact
  <1>4. pts \in [1 .. len -> Point] /\ DOMAIN pts = 1 .. len
    <2>1. \A k \in 1 .. len : pts[k] \in Point
      BY <1>3
    <2>2. pts = [k \in 1 .. len |-> pts[k]]
      BY <1>1, Zenon
    <2> HIDE DEF pts
    <2> QED
      BY <2>1, <2>2
  <1>5. FlushedFile(b, n) = [state |-> "whole", pts |-> pts]
    BY DEF FlushedFile
  <1> HIDE DEF pts
  <1>6. pts \in Seq(Point) /\ Len(pts) = len /\ pts # << >>
    <2>1. pts \in Seq(Point) /\ Len(pts) = len
      BY <1>4
    <2> QED
      BY <1>1, <2>1
  <1>7. \A i, j \in 1 .. len : i <= j => pts[i].ts <= pts[j].ts
    BY <1>1, <1>3, BlockFacts, SMTT(40)
  <1>8. Stored(b[1], pts) /\ AllExact(pts)
    <2>1. /\ pts[1].ts = b[1] /\ AllExact(pts)
          /\ \A i \in 1 .. Len(pts) : Sound(b[1], pts[i]) /\ pts[i].ts < Horizon
      BY <1>1, <1>3, <1>6, Zenon DEF AllExact
    <2>2. ASSUME NEW i \in 1 .. len, NEW j \in 1 .. len, i # j PROVE pts[i].src \cap pts[j].src = {}
      <3>1. PICK x, y : /\ x = [n |-> n, k |-> i, ts |-> b[i], of |-> b[1]]
                        /\ y = [n |-> n, k |-> j, ts |-> b[j], of |-> b[1]]
        OBVIOUS
      <3>2. x.k = i /\ y.k = j
        BY <3>1
      <3>3. pts[i].src = {x} /\ pts[j].src = {y}
        BY <1>3, <3>1
      <3> QED
        BY <2>2, <3>2, <3>3
    <2>3. Disjoint(pts)
      BY <1>6, <2>2, Zenon DEF Disjoint
    <2> QED
      BY <1>2, <1>6, <1>7, <2>1, <2>3 DEF GoodChunk, Stored, Ordered
  <1>9. FlushedFile(b, n) \in File /\ FlushedFile(b, n).pts = pts
    BY <1>5, <1>6 DEF File
  <1> QED
    BY <1>8, <1>9, Zenon DEF GoodFile

LEMMA FlushStep ==
  ASSUME DownsampleInv, NEW b \in Blocks, headflush(b)
  PROVE  DownsampleInv'
  <1>1. /\ UNCHANGED << proc, ds, done, now, read, failed >> /\ nflush' = nflush + 1
        /\ dirs' = dirs \cup {0}
        /\ order' = IF 0 \in Range(order) THEN order ELSE Append(order, 0)
        /\ chunks' = [chunks EXCEPT ![0] = Append(@, [start_ts |-> b[1], end_ts |-> b[Len(b)]])]
        /\ files' = [files EXCEPT ![0][b[1]] = FlushedFile(b, nflush')]
    BY DEF headflush, FlushedFile
  <1>2. nflush' \in Nat
    BY <1>1, Parts
  <1>3. dirs' \subseteq Levels /\ 0 \in Levels /\ 1 \in Levels
    BY <1>1, Parts, LevelsFacts
  <1>4. order \in Seq(Levels)
    BY Parts
  <1>5. /\ order' \in Seq(Levels)
        /\ \A m \in 1 .. Len(order) : m \in 1 .. Len(order') /\ order'[m] = order[m]
    <2>1. CASE order' = order
      BY <1>4, <2>1
    <2>2. CASE order' = Append(order, 0)
      <3>1. /\ order' \in Seq(Levels) /\ Len(order') = Len(order) + 1
            /\ \A m \in 1 .. Len(order) : order'[m] = order[m]
        BY <1>3, <1>4, <2>2, AppendProperties
      <3>2. Len(order) \in Nat
        BY <1>4
      <3> QED
        BY <3>1, <3>2
    <2> QED
      BY <1>1, <2>1, <2>2
  <1>6. PICK c \in Chunk : c = [start_ts |-> b[1], end_ts |-> b[Len(b)]]
    <2>1. b[1] \in Starts /\ b[Len(b)] \in Int
      BY BlockFacts, StartsFacts
    <2> QED
      BY <2>1 DEF Chunk
  <1>7. chunks' \in [Levels -> Seq(Chunk)]
    <2>1. chunks' = [chunks EXCEPT ![0] = Append(chunks[0], c)]
      BY <1>1, <1>6
    <2>2. chunks \in [Levels -> Seq(Chunk)] /\ Append(chunks[0], c) \in Seq(Chunk)
      BY <1>3, Parts, AppendProperties
    <2> QED
      BY <2>1, <2>2
  <1>8. PICK s \in Starts, f \in File : s = b[1] /\ f = FlushedFile(b, nflush') /\ GoodFile(0, s, f)
    BY <1>2, StartsFacts, FlushedFileFacts
  <1>9. files' = [files EXCEPT ![0][s] = f]
    BY <1>1, <1>8
  <1>10. /\ files' \in [Levels -> [Starts -> File]] /\ FilesInv' /\ FiniteInv'
         /\ \A k \in Levels, t \in Starts : k # 0 \/ t # s => files'[k][t] = files[k][t]
    <2>1. PICK l \in Levels : l = 0
      BY <1>3
    <2>2. files' = [files EXCEPT ![l][s] = f] /\ GoodFile(l, s, f)
      BY <1>8, <1>9, <2>1
    <2>3. /\ files' \in [Levels -> [Starts -> File]] /\ FilesInv' /\ FiniteInv'
          /\ \A k \in Levels, t \in Starts : k # l \/ t # s => files'[k][t] = files[k][t]
      BY <2>2, Parts, FileReplaced, ZenonT(80)
    <2> QED
      BY <2>1, <2>3
  <1>11. ThreadInv' /\ ReadInv' /\ CoverInv'
    <2>1. \A t \in Starts : files'[1][t] = files[1][t]
      BY <1>3, <1>10
    <2>2. ds.pc \in Working => ds.m \in 1 .. Len(order') /\ order'[ds.m] = order[ds.m]
      BY <1>5, HandFacts
    <2> QED
      BY <1>1, <2>1, <2>2, OthersMove
  <1>12. DownsampleTypeOK'
    BY <1>1, <1>2, <1>3, <1>5, <1>7, <1>10, Parts DEF DownsampleTypeOK
  <1> QED
    BY <1>10, <1>11, <1>12 DEF DownsampleInv

\* A chunk list without one of its entries.
LEMMA WithoutFacts ==
  ASSUME NEW list \in Seq(Chunk), NEW i \in 1 .. Len(list)
  PROVE  Without(list, i) \in Seq(Chunk)
  <1>1. PICK n \in Nat : n = Len(list) - 1
    BY Len(list) \in Nat, Len(list) - 1 \in Nat
  <1>2. ASSUME NEW k \in 1 .. n PROVE (IF k < i THEN list[k] ELSE list[k + 1]) \in Chunk
    <2>1. k \in 1 .. Len(list) /\ k + 1 \in 1 .. Len(list)
      BY <1>1, <1>2
    <2> QED
      BY <2>1, ElementOfSeq
  <1>3. Without(list, i) = [k \in 1 .. n |-> IF k < i THEN list[k] ELSE list[k + 1]]
    BY <1>1 DEF Without
  <1>4. Without(list, i) \in [1 .. n -> Chunk]
    BY <1>2, <1>3, Zenon
  <1> QED
    BY <1>4

LEMMA ExpireStep ==
  ASSUME DownsampleInv, NEW i \in DOMAIN chunks[0], expire_chunk(i)
  PROVE  DownsampleInv'
  <1>1. /\ UNCHANGED << proc, order, ds, dirs, done, now, read, failed, nflush >>
        /\ files' = [files EXCEPT ![0][chunks[0][i].start_ts] = NoFile]
        /\ chunks' = [chunks EXCEPT ![0] = Without(@, i)]
    BY DEF expire_chunk, counts
  <1>2. 0 \in Levels /\ 1 \in Levels
    BY LevelsFacts
  <1>3. PICK list \in Seq(Chunk) : list = chunks[0]
    BY <1>2, Parts
  <1>4. i \in 1 .. Len(list)
    <2>1. DOMAIN list = 1 .. Len(list)
      BY <1>3
    <2> QED
      BY <1>3, <2>1
  <1>5. PICK c \in Chunk : c = chunks[0][i]
    BY <1>3, <1>4, ElementOfSeq
  <1>6. PICK l \in Levels, s \in Starts : l = 0 /\ s = c.start_ts
    BY <1>2 DEF Chunk
  <1>7. files' = [files EXCEPT ![l][s] = NoFile]
    BY <1>1, <1>5, <1>6
  <1>8. /\ files' \in [Levels -> [Starts -> File]] /\ FilesInv' /\ FiniteInv'
        /\ \A k \in Levels, t \in Starts : k # l \/ t # s => files'[k][t] = files[k][t]
    <2>1. PICK f \in File : f = NoFile /\ GoodFile(l, s, f)
      BY NoFileFacts
    <2>2. files' = [files EXCEPT ![l][s] = f] /\ GoodFile(l, s, f)
      BY <1>7, <2>1
    <2>3. files \in [Levels -> [Starts -> File]] /\ FilesInv /\ FiniteInv
      BY Parts
    <2> QED
      BY <2>2, <2>3, FileReplaced, ZenonT(80)
  <1>9. ThreadInv' /\ ReadInv' /\ CoverInv'
    <2>1. \A t \in Starts : files'[1][t] = files[1][t]
      BY <1>2, <1>6, <1>8
    <2>2. ds.pc \in Working => ds.m \in 1 .. Len(order') /\ order'[ds.m] = order[ds.m]
      BY <1>1, HandFacts
    <2> QED
      BY <1>1, <2>1, <2>2, OthersMove
  <1>10. chunks' \in [Levels -> Seq(Chunk)]
    <2>1. chunks' = [chunks EXCEPT ![0] = Without(list, i)]
      BY <1>1, <1>3
    <2>2. chunks \in [Levels -> Seq(Chunk)] /\ Without(list, i) \in Seq(Chunk)
      BY <1>4, Parts, WithoutFacts
    <2> QED
      BY <2>1, <2>2
  <1>11. DownsampleTypeOK'
    BY <1>1, <1>8, <1>10, Parts DEF DownsampleTypeOK
  <1> QED
    BY <1>8, <1>9, <1>11 DEF DownsampleInv

\* The clock, the begin of a shutdown, and steps that change nothing.
LEMMA QuietStep ==
  ASSUME DownsampleInv, now' \in Nat, proc' = "down" => proc = "down",
         UNCHANGED << order, chunks, ds, dirs, files, done, read, failed, nflush >>
  PROVE  DownsampleInv'
  <1>1. ds.pc \in Working => ds.m \in 1 .. Len(order') /\ order'[ds.m] = order[ds.m]
    BY HandFacts
  <1>2. ThreadInv' /\ ReadInv' /\ CoverInv'
    BY <1>1, OthersMove
  <1>3. FilesInv' /\ FiniteInv'
    BY Parts, FilesSame
  <1>4. DownsampleTypeOK'
    BY Parts DEF DownsampleTypeOK
  <1> QED
    BY <1>2, <1>3, <1>4 DEF DownsampleInv

\* A crash: the chunk in hand is lost, files and markers stay.
LEMMA CrashStep ==
  ASSUME DownsampleInv, Crash
  PROVE  DownsampleInv'
  <1>1. /\ UNCHANGED << dirs, files, done, now, read, failed, nflush >>
        /\ order' = << >> /\ chunks' = [l \in Levels |-> << >>] /\ ds' = Asleep
    BY DEF Crash
  <1>2. order' \in Seq(Levels) /\ chunks' \in [Levels -> Seq(Chunk)]
    <2>1. << >> \in Seq(Chunk) /\ << >> \in Seq(Levels)
      OBVIOUS
    <2> QED
      BY <1>1, <2>1
  <1>3. ds' \in Thread /\ ds'.pc = "sleep"
    BY <1>1, AsleepFacts
  <1>4. ThreadInv' /\ ReadInv'
    BY <1>3, HandsFree
  <1>5. FilesInv' /\ FiniteInv' /\ CoverInv'
    BY <1>1, Parts, FilesSame, CoverSame
  <1>6. DownsampleTypeOK'
    BY <1>1, <1>2, <1>3, Parts DEF DownsampleTypeOK
  <1> QED
    BY <1>4, <1>5, <1>6 DEF DownsampleInv

\* readdir lists a finite directory.
LEMMA ListingFacts ==
  ASSUME NEW S, IsFiniteSet(S), NEW q \in Listings(S)
  PROVE  q \in Seq(S)
  <1>1. Cardinality(S) \in Nat
    BY FS_CardinalityType
  <1>2. q \in [1 .. Cardinality(S) -> S]
    BY DEF Listings, Injection
  <1> QED
    BY <1>1, <1>2

\* The chunk lists that a start makes.
LEMMA LoadedFacts ==
  ASSUME DownsampleInv, NEW l \in Levels, NEW list \in Loaded(l)
  PROVE  list \in Seq(Chunk)
  <1>1. PICK q \in Listings(Whole(l)) : list = [k \in DOMAIN q |-> Meta(l, q[k])]
    BY DEF Loaded
  <1>2. q \in Seq(Whole(l))
    BY Parts, ListingFacts DEF FiniteInv
  <1>3. PICK n \in Nat : n = Len(q) /\ DOMAIN q = 1 .. n
    BY <1>2
  <1>4. ASSUME NEW k \in 1 .. n PROVE Meta(l, q[k]) \in Chunk
    <2>1. PICK s \in Whole(l) : s = q[k]
      BY <1>2, <1>3, <1>4, ElementOfSeq
    <2>2. s \in Starts /\ files[l][s].state = "whole"
      BY DEF Whole
    <2>3. GoodChunk(s, files[l][s].pts)
      BY <2>2, Parts DEF FilesInv, GoodFile, Stored
    <2>4. files[l][s].pts[Len(files[l][s].pts)].ts \in Int
      BY <2>3, ChunkFacts
    <2> QED
      BY <2>1, <2>2, <2>4 DEF Meta, Chunk
  <1>5. list \in [1 .. n -> Chunk]
    BY <1>1, <1>3, <1>4, Zenon
  <1> QED
    BY <1>5

LEMMA LoadStep ==
  ASSUME DownsampleInv, loadRegistry
  PROVE  DownsampleInv'
  <1>1. /\ UNCHANGED << ds, dirs, files, done, now, read, failed, nflush >>
        /\ proc = "down" /\ proc' = "up" /\ order' \in Listings(dirs)
        /\ \E lists \in [Levels -> UNION {Loaded(l) : l \in Levels}] :
             (\A l \in Levels : lists[l] \in Loaded(l)) /\ chunks' = lists
    BY DEF loadRegistry, counts
  <1>2. order' \in Seq(Levels)
    <2>1. dirs \subseteq Levels /\ IsFiniteSet(Levels)
      BY Parts, FS_Interval, DownsampleAssumption DEF Levels
    <2>2. IsFiniteSet(dirs)
      BY <2>1, FS_Subset
    <2>3. order' \in Seq(dirs)
      BY <1>1, <2>2, ListingFacts
    <2> QED
      BY <2>1, <2>3
  <1>3. chunks' \in [Levels -> Seq(Chunk)]
    <2>1. PICK lists \in [Levels -> UNION {Loaded(l) : l \in Levels}] :
            (\A l \in Levels : lists[l] \in Loaded(l)) /\ chunks' = lists
      BY <1>1
    <2>2. \A l \in Levels : lists[l] \in Seq(Chunk)
      BY <2>1, LoadedFacts
    <2> QED
      BY <2>1, <2>2
  <1>4. ds.pc = "sleep"
    BY <1>1, Parts DEF ThreadInv
  <1>5. ThreadInv' /\ ReadInv'
    BY <1>1, <1>4, HandsFree
  <1>6. FilesInv' /\ FiniteInv' /\ CoverInv'
    BY <1>1, Parts, FilesSame, CoverSame
  <1>7. DownsampleTypeOK'
    BY <1>1, <1>2, <1>3, Parts DEF DownsampleTypeOK
  <1> QED
    BY <1>5, <1>6, <1>7 DEF DownsampleInv

LEMMA InvStep ==
  ASSUME DownsampleInv, [Next]_vars
  PROVE  DownsampleInv'
  <1>1. ASSUME NEW t \in Times, Tick(t) PROVE DownsampleInv'
    <2>1. now' \in Nat
      BY <1>1, DownsampleAssumption DEF Tick
    <2> QED
      BY <1>1, <2>1, QuietStep DEF Tick, counts
  <1>2. CASE downsample_stop
    <2>1. now' \in Nat
      BY <1>2, Parts DEF downsample_stop
    <2> QED
      BY <1>2, <2>1, QuietStep DEF downsample_stop, counts
  <1>3. CASE UNCHANGED vars
    <2>1. now' \in Nat
      BY <1>3, Parts DEF vars
    <2> QED
      BY <1>3, <2>1, QuietStep DEF vars, counts
  <1>4. CASE Work
    BY <1>4, MetricStep, ReadStep, AllocStep, AverageStep, OpenStep, WriteStep, MarkStep DEF Work
  <1> QED
    BY <1>1, <1>2, <1>3, <1>4, ThreadStep, FlushStep, ExpireStep, CrashStep, LoadStep
    DEF Next, Waiting
-----------------------------------------------------------------------------
(***************************************************************************)
(* The theorems.                                                           *)
(***************************************************************************)

\* Files, thread, markers and history keep their invariant under every step,
\* with the thread outside the lock, flushes, retention, crashes, failures of malloc
\* and fopen, and files that decode shifted.
THEOREM Invariance == Spec => []DownsampleInv
  BY InitInv, InvStep, PTL DEF Spec

\* The loop of write_coarse_chunk never writes behind the arrays that it allocated
\* for the averages of a chunk, if no timestamp that it gets is later than the last.
THEOREM BucketsFitSafe == Spec => []BucketsFit
  <1>1. DownsampleInv => BucketsFit
    <2> SUFFICES ASSUME DownsampleInv, ds.pc \in {"bucket", "open"},
                        \A k \in DOMAIN ds.pts : ds.pts[k].ts <= ds.pts[Len(ds.pts)].ts
                 PROVE  Len(ds.b.out) <= max_buckets(ds.pts)
      BY DEF BucketsFit
    <2>1. GoodChunk(ds.id, ds.pts)
      BY Parts DEF ThreadInv
    <2>2. PICK s, pts, out : s = ds.id /\ pts = ds.pts /\ out = ds.b.out
      OBVIOUS
    <2>3. GoodChunk(s, pts) /\ \A k \in 1 .. Len(pts) : pts[k].ts <= pts[Len(pts)].ts
      <3>1. DOMAIN ds.pts = 1 .. Len(ds.pts)
        BY Parts, ThreadFields, PointsOf
      <3> QED
        BY <2>1, <2>2, <3>1
    <2>4. PICK t \in Nat : MinuteOf(pts, t) /\ Buckets(s, out, t + Minute)
      <3>1. CASE ds.pc = "open"
        BY <2>2, <3>1, Parts DEF ThreadInv, Averaged
      <3>2. CASE ds.pc = "bucket"
        <4>1. LoopInv(ds.id, ds.pts, ds.b)
          BY <3>2, Parts DEF ThreadInv
        <4>2. MinuteOf(pts, ds.b.start) /\ Buckets(s, out, ds.b.start)
          BY <2>2, <4>1 DEF LoopInv
        <4>3. PICK t \in Nat : t = ds.b.start
          BY <2>3, <4>2, MinuteFacts
        <4>4. s \in Nat /\ t + Minute \in Nat /\ t <= t + Minute
          BY <2>3, <4>3, MinuteNat, ChunkFacts
        <4>5. Buckets(s, out, t + Minute)
          BY <4>2, <4>3, <4>4, BucketsLater
        <4> QED
          BY <4>2, <4>3, <4>5
      <3> QED
        BY <3>1, <3>2
    <2> QED
      BY <2>2, <2>3, <2>4, BucketsFitIn
  <1> QED
    BY <1>1, Invariance, PTL

\* A point of a coarse directory: its file and its place there.
LEMMA CoarsePlace ==
  ASSUME DownsampleInv, NEW l \in Levels \ {0}, NEW p \in CoarsePoints(l)
  PROVE  \E s \in Starts : LET pts == files[l][s].pts IN
           /\ Stored(s, pts) /\ OnePerMinute(pts)
           /\ \E i \in 1 .. Len(pts) : p = Decoded(pts)[i] /\ p.src = pts[i].src
  <1>1. PICK s \in Whole(l) : p \in Range(Decoded(files[l][s].pts))
    BY DEF CoarsePoints
  <1>2. s \in Starts /\ files[l][s].state = "whole"
    BY DEF Whole
  <1>3. PICK pts : pts = files[l][s].pts
    OBVIOUS
  <1>4. Stored(s, pts) /\ OnePerMinute(pts)
    BY <1>2, <1>3, Parts DEF FilesInv, GoodFile
  <1>5. /\ Decoded(pts) \in Seq(Point) /\ Len(Decoded(pts)) = Len(pts)
        /\ \A i \in 1 .. Len(pts) : Decoded(pts)[i].src = pts[i].src
    BY <1>4, DecodedPoint
  <1>6. DOMAIN Decoded(pts) = 1 .. Len(pts)
    BY <1>5, PointsOf
  <1>7. \E i \in 1 .. Len(pts) : p = Decoded(pts)[i]
    BY <1>1, <1>3, <1>6 DEF Range
  <1> QED
    BY <1>2, <1>3, <1>4, <1>5, <1>7

\* A client point behind it.
LEMMA CoarseSource ==
  ASSUME NEW s, NEW pts, Stored(s, pts), OnePerMinute(pts), NEW i \in 1 .. Len(pts),
         NEW x \in pts[i].src
  PROVE  x \in ClientPoint /\ x.ts \in Nat /\ Align(x.of) = s
  <1>0. GoodChunk(s, pts)
    BY DEF Stored
  <1>1. /\ x \in ClientPoint /\ Sound(s, pts[i])
        /\ 1 \in 1 .. Len(pts) /\ pts[1].ts = s
    BY <1>0, ChunkFacts
  <1>2. x.ts \in Nat
    BY <1>1 DEF ClientPoint
  <1>3. Align(s) = s
    BY <1>1 DEF OnePerMinute
  <1> QED
    BY <1>1, <1>2, <1>3 DEF Sound

\* In no directory of averages, of any level, a client point is averaged twice,
\* whatever the thread repeats after a crash and whatever decodes shifted.
THEOREM CountedOnceSafe == Spec => []CountedOnce
  <1>1. DownsampleInv => CountedOnce
    <2> SUFFICES ASSUME DownsampleInv, NEW l \in Levels \ {0},
                        NEW p \in CoarsePoints(l), NEW q \in CoarsePoints(l),
                        NEW x \in p.src, x \in q.src
                 PROVE  p = q
      BY DEF CountedOnce
    <2>1. PICK s \in Starts : LET pts == files[l][s].pts IN
            /\ Stored(s, pts) /\ OnePerMinute(pts)
            /\ \E i \in 1 .. Len(pts) : p = Decoded(pts)[i] /\ p.src = pts[i].src
      BY CoarsePlace
    <2>2. PICK t \in Starts : LET pts == files[l][t].pts IN
            /\ Stored(t, pts) /\ OnePerMinute(pts)
            /\ \E i \in 1 .. Len(pts) : q = Decoded(pts)[i] /\ q.src = pts[i].src
      BY CoarsePlace
    <2>3. PICK ps, i :
            /\ i \in 1 .. Len(ps) /\ ps = files[l][s].pts
            /\ Stored(s, ps) /\ OnePerMinute(ps) /\ p = Decoded(ps)[i] /\ p.src = ps[i].src
      BY <2>1
    <2>4. PICK qs, j :
            /\ j \in 1 .. Len(qs) /\ qs = files[l][t].pts
            /\ Stored(t, qs) /\ OnePerMinute(qs) /\ q = Decoded(qs)[j] /\ q.src = qs[j].src
      BY <2>2
    <2>5. Align(x.of) = s
      BY <2>3, CoarseSource
    <2>6. Align(x.of) = t
      BY <2>4, CoarseSource
    <2>7. ps = qs
      BY <2>3, <2>4, <2>5, <2>6
    <2>8. i = j
      <3>1. Disjoint(ps)
        BY <2>3 DEF Stored, GoodChunk
      <3>2. x \in ps[i].src /\ x \in ps[j].src /\ i \in 1 .. Len(ps) /\ j \in 1 .. Len(ps)
        BY <2>3, <2>4, <2>7
      <3> QED
        BY <3>1, <3>2, Zenon DEF Disjoint
    <2> QED
      BY <2>3, <2>4, <2>7, <2>8
  <1> QED
    BY <1>1, Invariance, PTL

\* For ranges of whole minutes a coarse AGG counts, of the points that the thread
\* read from a raw chunk that is marked done, exactly those in the range, unless
\* another chunk that begins in its minute was downsampled, no coarse file was
\* written, or the first two points of the raw or of the coarse file are 8192 seconds
\* or more apart.
THEOREM CoarseAggExactSafe == Spec => []CoarseAggExact
  <1>1. DownsampleInv => CoarseAggExact
    <2> SUFFICES ASSUME DownsampleInv, NEW id \in Starts, << 0, id >> \in done, Undisturbed(id),
                        Fits14(read[0][id]), Fits14(files[1][Align(id)].pts),
                        NEW from \in {Align(s) : s \in Starts} \cup {Minute * 100},
                        NEW to \in {Align(s) : s \in Starts} \cup {Minute * 100}
                 PROVE  InRange(Sources(read[0][id]), from, to)
                          = CoarseAnswer(from, to) \cap Sources(read[0][id])
      BY DEF CoarseAggExact
    <2>1. from \in Nat /\ Align(from) = from /\ to \in Nat /\ Align(to) = to
      <3>1. \A s \in Starts : Align(s) \in Nat /\ Align(Align(s)) = Align(s)
        BY StartsFacts, AlignFacts, AlignIdempotent
      <3>2. Minute * 100 \in Nat /\ Align(Minute * 100) = Minute * 100
        <4>1. Align(100 * Minute) = 100 * Minute
          BY AlignProduct
        <4>2. 100 * Minute = Minute * 100 /\ Minute * 100 \in Nat
          BY MinuteNat
        <4> QED
          BY <4>1, <4>2
      <3> QED
        BY <3>1, <3>2, ZenonT(40)
    <2>2. 1 \in Levels \ {0} /\ 0 \in Levels
      BY LevelsFacts
    <2>3. PICK s \in Starts : s = Align(id)
      BY StartsFacts
    <2>4. PICK pts, src : pts = files[1][s].pts /\ src = Sources(read[0][id])
      OBVIOUS
    <2>5. files[1][s].state = "whole" /\ Sources(pts) = src /\ AllExact(pts)
      BY <2>3, <2>4, Parts DEF CoverInv, Covered
    <2>6. Stored(s, pts) /\ OnePerMinute(pts)
      BY <2>2, <2>4, <2>5, Parts DEF FilesInv, GoodFile
    <2>7. Decoded(pts) = pts
      BY <2>3, <2>4, <2>6, DecodedChunk
    <2>8. GoodChunk(s, pts) /\ pts \in Seq(Point) /\ DOMAIN pts = 1 .. Len(pts)
      BY <2>6, ChunkFacts, PointsOf DEF Stored
    <2>9. ASSUME NEW i \in 1 .. Len(pts), NEW x \in pts[i].src
          PROVE  /\ x.ts \in Nat /\ pts[i].ts \in Nat /\ Align(x.ts) = pts[i].ts
                 /\ pts[i].ts <= x.ts /\ x.ts < pts[i].ts + Minute
      <3>1. x.ts \in Nat
        BY <2>6, <2>9, CoarseSource
      <3>2. Align(x.ts) = pts[i].ts
        BY <2>5, <2>6, <2>9 DEF AllExact, Exact, OnePerMinute
      <3> QED
        BY <3>1, <3>2, AlignFacts
    <2>10. ASSUME NEW x \in src, from <= x.ts, x.ts < to PROVE x \in CoarseAnswer(from, to)
      <3>1. PICK i \in 1 .. Len(pts) : x \in pts[i].src
        BY <2>5, <2>8, <2>10 DEF Sources, Range
      <3>2. /\ x.ts \in Nat /\ pts[i].ts \in Nat /\ Align(x.ts) = pts[i].ts /\ pts[i].ts <= x.ts
        BY <2>9, <3>1
      <3>3. from <= pts[i].ts
        BY <2>1, <2>10, <3>2, AlignMonotone
      <3>4. pts[i].ts < to
        BY <2>1, <2>10, <3>2
      <3>5. pts[i] \in CoarsePoints(1)
        <4>1. s \in Whole(1)
          BY <2>5 DEF Whole
        <4>2. pts[i] \in Range(pts)
          BY <2>8, <3>1 DEF Range
        <4>3. pts[i] \in Range(Decoded(files[1][s].pts))
          BY <2>4, <2>7, <4>2
        <4> QED
          BY <4>1, <4>3, Zenon DEF CoarsePoints
      <3> QED
        BY <3>1, <3>3, <3>4, <3>5 DEF CoarseAnswer
    <2>11. ASSUME NEW x \in src, x \in CoarseAnswer(from, to)
           PROVE  from <= x.ts /\ x.ts < to
      <3>1. PICK q \in CoarsePoints(1) : from <= q.ts /\ q.ts < to /\ x \in q.src
        BY <2>11 DEF CoarseAnswer
      <3>2. PICK z \in Starts : LET ps == files[1][z].pts IN
              /\ Stored(z, ps) /\ OnePerMinute(ps)
              /\ \E i \in 1 .. Len(ps) : q = Decoded(ps)[i] /\ q.src = ps[i].src
        BY <2>2, CoarsePlace
      <3>3. PICK ps, i : /\ i \in 1 .. Len(ps) /\ ps = files[1][z].pts /\ Stored(z, ps)
                         /\ OnePerMinute(ps) /\ q = Decoded(ps)[i] /\ q.src = ps[i].src
        BY <3>2
      <3>4. Align(x.of) = z
        BY <3>1, <3>3, CoarseSource
      <3>5. PICK j \in 1 .. Len(pts) : x \in pts[j].src
        BY <2>5, <2>8, <2>11 DEF Sources, Range
      <3>6. Align(x.of) = s
        BY <2>6, <3>5, CoarseSource
      <3>7. ps = pts /\ q = pts[i]
        BY <2>4, <2>7, <3>3, <3>4, <3>6
      <3>8. /\ x.ts \in Nat /\ q.ts \in Nat /\ Align(x.ts) = q.ts
            /\ q.ts <= x.ts /\ x.ts < q.ts + Minute
        BY <2>9, <3>1, <3>3, <3>7
      <3>9. q.ts + Minute <= to
        BY <2>1, <3>1, <3>8, AlignApart
      <3> QED
        BY <2>1, <3>1, <3>8, <3>9, MinuteNat
    <2>12. InRange(src, from, to) = CoarseAnswer(from, to) \cap src
      BY <2>10, <2>11, Zenon DEF InRange
    <2> QED
      BY <2>4, <2>12
  <1> QED
    BY <1>1, Invariance, PTL
=============================================================================
