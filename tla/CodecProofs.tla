----------------------------- MODULE CodecProofs -----------------------------
(***************************************************************************)
(* Theorems about TimestampCodec, for every choice of the field widths,    *)
(* every set of 64-bit timestamps and chunks of any length: what a query   *)
(* decodes from the delta-of-delta code of a chunk.                        *)
(***************************************************************************)
EXTENDS TimestampCodec, SequenceTheorems, TLAPS

USE CodecAssumption

-----------------------------------------------------------------------------
(***************************************************************************)
(* Residues.                                                               *)
(***************************************************************************)

\* Quotient and remainder of a division by a positive number.
LEMMA ModFacts ==
  ASSUME NEW w \in Nat \ {0}, NEW x \in Int
  PROVE  x % w \in 0 .. w - 1 /\ x \div w \in Int /\ x = w * (x \div w) + (x % w)
  OBVIOUS

\* The remainder is the only number of its range that differs by a multiple.
LEMMA ModUnique ==
  ASSUME NEW w \in Nat \ {0}, NEW x \in Int, NEW r \in 0 .. w - 1,
         \E q \in Int : x = w * q + r
  PROVE  x % w = r
  <1>0. PICK q \in Int : x = w * q + r
    OBVIOUS
  <1>1. x % w \in 0 .. w - 1 /\ x \div w \in Int /\ x = w * (x \div w) + (x % w)
    BY ModFacts
  <1> DEFINE k == (x \div w) - q
  <1>2. k \in Int /\ w * k = r - (x % w)
    BY <1>0, <1>1
  <1>3. r - (x % w) < w /\ r - (x % w) > -w
    BY <1>1
  <1>4. k = 0
    <2> HIDE DEF k
    <2>1. CASE k >= 1
      <3>1. w * k >= w
        BY <1>2, <2>1
      <3> QED
        BY <1>1, <1>2, <1>3, <3>1
    <2>2. CASE k <= -1
      <3>1. w * k <= -w
        BY <1>2, <2>2
      <3> QED
        BY <1>1, <1>2, <1>3, <3>1
    <2> QED
      BY <1>2, <2>1, <2>2
  <1> QED
    BY <1>1, <1>2, <1>4

\* Numbers that differ by a multiple have the same remainder, and conversely.
LEMMA CongIntro ==
  ASSUME NEW w \in Nat \ {0}, NEW a \in Int, NEW b \in Int,
         \E q \in Int : a = b + w * q
  PROVE  a % w = b % w
  <1>0. PICK q \in Int : a = b + w * q
    OBVIOUS
  <1>1. b % w \in 0 .. w - 1 /\ b \div w \in Int /\ b = w * (b \div w) + (b % w)
    BY ModFacts
  <1>2. (b \div w) + q \in Int /\ a = w * ((b \div w) + q) + (b % w)
    BY <1>0, <1>1
  <1> QED
    BY <1>1, <1>2, ModUnique

LEMMA CongElim ==
  ASSUME NEW w \in Nat \ {0}, NEW a \in Int, NEW b \in Int, a % w = b % w
  PROVE  \E q \in Int : a = b + w * q
  <1>1. a % w \in 0 .. w - 1 /\ a \div w \in Int /\ a = w * (a \div w) + (a % w)
    BY ModFacts
  <1>2. b % w \in 0 .. w - 1 /\ b \div w \in Int /\ b = w * (b \div w) + (b % w)
    BY ModFacts
  <1> DEFINE q == (a \div w) - (b \div w)
  <1>3. q \in Int /\ a = b + w * q
    BY <1>1, <1>2
  <1> QED
    BY <1>3

\* Masking to a field and sign extension give back a number that the field can
\* represent.
LEMMA SignExtend ==
  ASSUME NEW w \in Nat \ {0}, w % 2 = 0, NEW x \in Field(w)
  PROVE  signextend(x % w, w) = x
  <1>0. x \in Int /\ -(w \div 2) <= x /\ x < w \div 2 /\ w = 2 * (w \div 2) /\ w \div 2 \in Nat
    BY DEF Field
  <1>1. CASE x >= 0
    <2>1. x \in 0 .. w - 1 /\ x = w * 0 + x
      BY <1>0, <1>1
    <2>2. x % w = x
      BY <2>1, <1>0, ModUnique
    <2> QED
      BY <1>0, <2>2 DEF signextend
  <1>2. CASE x < 0
    <2>1. x + w \in 0 .. w - 1
      BY <1>0, <1>2
    <2>2. \E q \in Int : x = w * q + (x + w)
      <3>1. x = w * (-1) + (x + w)
        BY <1>0
      <3> QED
        BY <3>1
    <2>3. x % w = x + w
      BY <1>0, <2>1, <2>2, ModUnique
    <2> QED
      BY <1>0, <2>1, <2>3 DEF signextend
  <1> QED
    BY <1>0, <1>1, <1>2

\* The conversions between long and uint64_t keep the residue.
LEMMA WrapFacts ==
  ASSUME NEW x \in Int
  PROVE  /\ Unsigned(x) \in 0 .. W64 - 1 /\ Unsigned(x) % W64 = x % W64
         /\ Wrap(x) \in Field(W64) /\ Wrap(x) % W64 = x % W64
         /\ x \in Field(W64) => Wrap(x) = x
  <1>0. W64 \in Nat \ {0} /\ W64 % 2 = 0
    BY DEF Even
  <1>1. x % W64 \in 0 .. W64 - 1 /\ x \div W64 \in Int /\ x = W64 * (x \div W64) + (x % W64)
    BY <1>0, ModFacts
  <1>2. (x % W64) % W64 = x % W64
    <2>1. x % W64 = W64 * 0 + (x % W64)
      BY <1>0, <1>1
    <2> QED
      BY <1>0, <1>1, <2>1, ModUnique, SMTT(40)
  <1>3. Wrap(x) \in Field(W64) /\ Wrap(x) % W64 = x % W64
    <2> DEFINE y == x % W64
    <2>1. y \in 0 .. W64 - 1 /\ y % W64 = x % W64
      BY <1>1, <1>2
    <2> HIDE DEF y
    <2>2. CASE y >= W64 \div 2
      <3>1. \E q \in Int : y - W64 = y + W64 * q
        <4>1. y - W64 = y + W64 * (-1)
          BY <1>0, <2>1
        <4> QED
          BY <4>1
      <3>2. (y - W64) % W64 = y % W64
        <4>1. y \in Int /\ y - W64 \in Int
          BY <1>0, <2>1
        <4> QED
          BY <1>0, <3>1, <4>1, CongIntro
      <3>3. Wrap(x) = y - W64
        BY <2>2 DEF Wrap, signextend, y
      <3>4. y - W64 \in Field(W64)
        BY <1>0, <2>1, <2>2 DEF Field
      <3> QED
        BY <2>1, <3>2, <3>3, <3>4
    <2>3. CASE ~ (y >= W64 \div 2)
      <3>1. Wrap(x) = y
        BY <2>3 DEF Wrap, signextend, y
      <3>2. y \in Field(W64)
        BY <1>0, <2>1, <2>3 DEF Field
      <3> QED
        BY <2>1, <3>1, <3>2
    <2> QED
      BY <2>2, <2>3
  <1>4. x \in Field(W64) => Wrap(x) = x
    BY <1>0, SignExtend DEF Wrap
  <1> QED
    BY <1>1, <1>2, <1>3, <1>4 DEF Unsigned

-----------------------------------------------------------------------------
(***************************************************************************)
(* The class of a delta of deltas.                                         *)
(***************************************************************************)

\* The decoder finds the width that the encoder chose, and the field of that
\* width represents the delta of deltas; zero is a class of its own.
LEMMA PrefixFacts ==
  ASSUME NEW D \in Field(W32)
  PROVE  /\ D = 0 <=> Prefix(D) = << 0 >>
         /\ D # 0 => signextend(D % Width(Prefix(D)), Width(Prefix(D))) = D
  <1>0. /\ D \in Int /\ -(W32 \div 2) <= D /\ D < W32 \div 2
        /\ \A w \in {W7, W9, W12, W32} : w \in Nat \ {0} /\ w % 2 = 0
    BY DEF Field, Even
  <1>1. CASE D = 0
    BY <1>0, <1>1 DEF Prefix, Fits
  <1>2. ASSUME NEW w \in {W7, W9, W12, W32}, D # 0, Width(Prefix(D)) = w, D \in Field(w),
               Prefix(D) # << 0 >>
        PROVE  /\ D = 0 <=> Prefix(D) = << 0 >>
               /\ D # 0 => signextend(D % Width(Prefix(D)), Width(Prefix(D))) = D
    BY <1>0, <1>2, SignExtend
  <1>3. CASE D # 0 /\ Fits(D, W7)
    <2>1. Prefix(D) = <<1, 0>>
      BY <1>0, <1>3 DEF Prefix, Fits
    <2>2. Width(Prefix(D)) = W7 /\ Prefix(D) # << 0 >>
      BY <2>1 DEF Width
    <2>3. D \in Field(W7)
      BY <1>0, <1>3 DEF Fits, Field
    <2> QED
      BY <1>2, <1>3, <2>2, <2>3
  <1>4. CASE D # 0 /\ ~ Fits(D, W7) /\ Fits(D, W9)
    <2>1. Prefix(D) = <<1, 1, 0>>
      BY <1>4 DEF Prefix
    <2>2. Width(Prefix(D)) = W9 /\ Prefix(D) # << 0 >>
      BY <2>1 DEF Width
    <2>3. D \in Field(W9)
      BY <1>0, <1>4 DEF Fits, Field
    <2> QED
      BY <1>2, <1>4, <2>2, <2>3
  <1>5. CASE D # 0 /\ ~ Fits(D, W7) /\ ~ Fits(D, W9) /\ Fits(D, W12)
    <2>1. Prefix(D) = <<1, 1, 1, 0>>
      BY <1>5 DEF Prefix
    <2>2. Width(Prefix(D)) = W12 /\ Prefix(D) # << 0 >>
      BY <2>1 DEF Width
    <2>3. D \in Field(W12)
      BY <1>0, <1>5 DEF Fits, Field
    <2> QED
      BY <1>2, <1>5, <2>2, <2>3
  <1>6. CASE D # 0 /\ ~ Fits(D, W7) /\ ~ Fits(D, W9) /\ ~ Fits(D, W12)
    <2>1. Prefix(D) = <<1, 1, 1, 1>>
      BY <1>6 DEF Prefix
    <2>2. Width(Prefix(D)) = W32 /\ Prefix(D) # << 0 >>
      BY <2>1 DEF Width
    <2> QED
      BY <1>2, <1>6, <2>2
  <1> QED
    BY <1>1, <1>3, <1>4, <1>5, <1>6

-----------------------------------------------------------------------------
(***************************************************************************)
(* The conversions in the sums that encoder and decoder compute.           *)
(***************************************************************************)

Cong(x, y) == x % W64 = y % W64

LEMMA CongSums ==
  ASSUME NEW a \in Int, NEW b \in Int, NEW c \in Int, NEW d \in Int, Cong(a, b), Cong(c, d)
  PROVE  Cong(a + c, b + d) /\ Cong(a - c, b - d)
  <1>0. W64 \in Nat \ {0} /\ a % W64 = b % W64 /\ c % W64 = d % W64
    BY DEF Cong, Even
  <1>1. PICK p \in Int : a = b + W64 * p
    BY <1>0, CongElim
  <1>2. PICK q \in Int : c = d + W64 * q
    BY <1>0, CongElim, ZenonT(40)
  <1>3. ASSUME NEW x \in Int, NEW y \in Int, NEW r \in Int, x = y + W64 * r
        PROVE  Cong(x, y)
    BY <1>0, <1>3, CongIntro, ZenonT(40) DEF Cong
  <1>4. Cong(a + c, b + d)
    <2>1. p + q \in Int /\ a + c = (b + d) + W64 * (p + q)
      BY <1>0, <1>1, <1>2
    <2> QED
      BY <1>3, <2>1
  <1>5. Cong(a - c, b - d)
    <2>1. p - q \in Int /\ a - c = (b - d) + W64 * (p - q)
      BY <1>0, <1>1, <1>2
    <2> QED
      BY <1>3, <2>1
  <1> QED
    BY <1>4, <1>5

LEMMA CongFacts ==
  /\ \A x \in Int : Unsigned(x) \in Int /\ Cong(Unsigned(x), x)
  /\ \A x \in Int : Wrap(x) \in Int /\ Cong(Wrap(x), x)
  /\ \A x \in Int : Cong(x, x)
  /\ \A x, y \in Int : Cong(x, y) => Wrap(x) = Wrap(y) /\ Unsigned(x) = Unsigned(y)
  <1>1. \A x \in Int : Unsigned(x) \in Int /\ Cong(Unsigned(x), x)
    BY WrapFacts DEF Cong
  <1>2. \A x \in Int : Wrap(x) \in Int /\ Cong(Wrap(x), x)
    BY WrapFacts DEF Cong, Field
  <1>3. \A x \in Int : Cong(x, x)
    BY DEF Cong
  <1>4. \A x, y \in Int : Cong(x, y) => Wrap(x) = Wrap(y) /\ Unsigned(x) = Unsigned(y)
    BY DEF Wrap, Unsigned, Cong
  <1> QED
    BY <1>1, <1>2, <1>3, <1>4

LEMMA WrapSums ==
  ASSUME NEW a \in Int, NEW b \in Int
  PROVE  /\ Wrap(Unsigned(a) - Unsigned(b)) = Wrap(a - b)
         /\ Wrap(Wrap(a) - Wrap(b)) = Wrap(a - b)
         /\ Wrap(Wrap(a) + b) = Wrap(a + b)
         /\ Unsigned(Unsigned(a) + Wrap(b)) = Unsigned(a + b)
         /\ Wrap(Unsigned(a)) = Wrap(a)
  <1>1. Unsigned(a) \in Int /\ Wrap(a) \in Int /\ Unsigned(b) \in Int /\ Wrap(b) \in Int
    BY CongFacts
  <1>2. Cong(Unsigned(a), a) /\ Cong(Wrap(a), a) /\ Cong(Unsigned(b), b) /\ Cong(Wrap(b), b)
    BY CongFacts
  <1>3. Cong(Unsigned(a) - Unsigned(b), a - b)
    BY <1>1, <1>2, CongSums
  <1>4. Cong(Wrap(a) - Wrap(b), a - b)
    BY <1>1, <1>2, CongSums
  <1>5. Cong(Wrap(a) + b, a + b)
    BY <1>1, <1>2, CongSums, CongFacts
  <1>6. Cong(Unsigned(a) + Wrap(b), a + b)
    BY <1>1, <1>2, CongSums
  <1>7. Wrap(Unsigned(a)) = Wrap(a)
    BY <1>1, <1>2, CongFacts
  <1>8. Wrap(Unsigned(a) - Unsigned(b)) = Wrap(a - b)
    BY <1>1, <1>3, CongFacts
  <1>9. Wrap(Wrap(a) - Wrap(b)) = Wrap(a - b)
    BY <1>1, <1>4, CongFacts
  <1>10. Wrap(Wrap(a) + b) = Wrap(a + b)
    BY <1>1, <1>5, CongFacts
  <1>11. Unsigned(Unsigned(a) + Wrap(b)) = Unsigned(a + b)
    BY <1>1, <1>6, CongFacts
  <1> QED
    BY <1>7, <1>8, <1>9, <1>10, <1>11

-----------------------------------------------------------------------------
(***************************************************************************)
(* The inductive invariant.  The decoder is right up to a shift S that is  *)
(* added at every point: 0 in the chunks of RoundTrip, W14 in those of     *)
(* Drift.                                                                  *)
(***************************************************************************)

Prefixes == {<< >>, << 0 >>, <<1, 0>>, <<1, 1, 0>>, <<1, 1, 1, 0>>, <<1, 1, 1, 1>>}
Codes == [prefix : Prefixes, payload : Int]

\* The code of the k-th timestamp of s.
CodeAt(s, k) ==
    IF k = 1 THEN [prefix |-> << >>, payload |-> Unsigned(s[1])]
    ELSE IF k = 2 THEN [prefix |-> << >>, payload |-> Wrap(s[2] - s[1]) % W14]
    ELSE [prefix |-> Prefix(Wrap(DeltaOfDelta(s, k))),
          payload |-> Wrap(DeltaOfDelta(s, k)) % Width(Prefix(Wrap(DeltaOfDelta(s, k))))]

\* What struct timestampencoder holds after the timestamps s.
EncoderState(e, s) ==
    LET n == Len(s) IN
    /\ e.isfirst <=> n = 0
    /\ e.issecond <=> n = 1
    /\ n <= 1 => e.prevdelta = 0
    /\ n >= 1 => e.prevtimestamp = Unsigned(s[n])
    /\ n >= 2 => e.prevdelta = Wrap(s[n] - s[n - 1])

EncoderInv ==
    /\ input \in Seq(Stamps) /\ stream \in Seq(Codes)
    /\ Len(stream) = Len(input)
    /\ EncoderState(encoder, input)
    /\ \A k \in 1 .. Len(input) : stream[k] = CodeAt(input, k)

\* The first k points decode with the shift S.
Regular(S, k) ==
    /\ Len(input) >= 2 => /\ input[2] - input[1] - S \in Field(W14)
                          /\ input[2] - input[1] < W14
    /\ \A j \in 3 .. k : DeltaOfDelta(input, j) \in Field(W32)

\* What the decoder has returned and holds after m points.
DecoderInv(S) ==
    LET m == Len(output) IN
    /\ mode \in {"encode", "decode"} /\ (mode = "encode" => m = 0)
    /\ output \in Seq(Int) /\ m <= Len(input)
    /\ decoder.prevtimestamp \in Int /\ decoder.prevdelta \in Int
    /\ \A k \in 1 .. m : Regular(S, k) => output[k] = Wrap(input[k] - (k - 1) * S)
    /\ decoder.isfirst <=> m = 0
    /\ decoder.issecond <=> m = 1
    /\ m >= 1 /\ Regular(S, m) => decoder.prevtimestamp = Unsigned(input[m] - (m - 1) * S)
    /\ m >= 2 /\ Regular(S, m) => decoder.prevdelta = Wrap(input[m] - input[m - 1] - S)

CodecInv(S) == EncoderInv /\ DecoderInv(S)

\* A code has one of the prefixes of the code.
LEMMA CodeType ==
  ASSUME NEW D \in Int
  PROVE  Prefix(D) \in Prefixes \ {<< >>} /\ D % Width(Prefix(D)) \in Int
  <1>1. /\ D = 0 => Prefix(D) = << 0 >>
        /\ D # 0 => Prefix(D) \in {<<1, 0>>, <<1, 1, 0>>, <<1, 1, 1, 0>>, <<1, 1, 1, 1>>}
    BY DEF Prefix, Fits, Even
  <1>2. Prefix(D) \in Prefixes \ {<< >>}
    <2>1. /\ << 0 >> # << >> /\ <<1, 0>> # << >> /\ <<1, 1, 0>> # << >>
          /\ <<1, 1, 1, 0>> # << >> /\ <<1, 1, 1, 1>> # << >>
      OBVIOUS
    <2> QED
      BY <1>1, <2>1, Zenon DEF Prefixes
  <1>3. Width(Prefix(D)) \in Nat \ {0}
    BY <1>1 DEF Width, Even
  <1> QED
    BY <1>2, <1>3, ModFacts, SMTT(40)

\* The decoder computes with integers, whatever the code.
LEMMA DeltaType ==
  ASSUME NEW S \in {0, W14}, CodecInv(S), NEW m \in 1 .. Len(input) - 1, m = Len(output)
  PROVE  Delta(decoder, stream[m + 1]) \in Int
  <1>1. /\ input \in Seq(Stamps) /\ stream \in Seq(Codes) /\ Len(stream) = Len(input)
        /\ stream[m + 1] = CodeAt(input, m + 1)
        /\ decoder.issecond <=> m = 1
        /\ decoder.prevdelta \in Int
    BY SMTT(40) DEF CodecInv, EncoderInv, DecoderInv
  <1>2. stream[m + 1].payload \in Int /\ stream[m + 1].prefix \in Prefixes
    <2>1. m + 1 \in 1 .. Len(stream)
      BY <1>1
    <2>2. stream[m + 1] \in Codes
      BY <1>1, <2>1, ElementOfSeq
    <2> QED
      BY <2>2 DEF Codes
  <1>3. \A w \in {1, W7, W9, W12, W14, W32} : w \in Nat /\ w \div 2 \in Int
    BY SMTT(40) DEF Even
  <1>4. \A x \in Int, w \in {1, W7, W9, W12, W14, W32} : signextend(x, w) \in Int
    BY <1>3 DEF signextend
  <1>5. CASE m = 1
    BY <1>1, <1>2, <1>4, <1>5 DEF Delta
  <1>6. CASE m >= 2
    <2>1. /\ input[m - 1] \in Int /\ input[m] \in Int /\ input[m + 1] \in Int
      BY <1>1, <1>6, SMTT(40)
    <2>2. DeltaOfDelta(input, m + 1) \in Int
      BY <2>1, SMTT(40) DEF DeltaOfDelta
    <2>3. stream[m + 1].prefix # << >>
      <3>1. Wrap(DeltaOfDelta(input, m + 1)) \in Int
        BY <2>2, WrapFacts DEF Field
      <3>2. stream[m + 1].prefix = Prefix(Wrap(DeltaOfDelta(input, m + 1)))
        BY <1>1, <1>6 DEF CodeAt
      <3> QED
        BY <3>1, <3>2, CodeType
    <2>4. Width(stream[m + 1].prefix) \in {1, W7, W9, W12, W14, W32}
      BY <1>2, <2>3 DEF Prefixes, Width
    <2> DEFINE x == signextend(stream[m + 1].payload, Width(stream[m + 1].prefix))
    <2>5. x \in Int
      BY <1>2, <1>4, <2>4
    <2>6. Wrap(decoder.prevdelta + x) \in Int
      <3> HIDE DEF x
      <3>1. decoder.prevdelta + x \in Int
        BY <1>1, <2>5, SMTT(40)
      <3> QED
        BY <3>1, CongFacts
    <2>7. m # 1
      BY <1>6
    <2>8. ~ decoder.issecond
      BY <1>1, <2>7, Zenon
    <2> QED
      BY <1>1, <2>6, <2>8, Zenon DEF Delta
  <1> QED
    BY <1>5, <1>6

\* The encoder emits CodeAt, and keeps what EncoderState says.
LEMMA EncodeStep ==
  ASSUME EncoderInv, NEW ts \in Stamps
  PROVE  LET s == Append(input, ts) IN
         /\ Code(encoder, ts) = CodeAt(s, Len(s))
         /\ Code(encoder, ts) \in Codes
         /\ EncoderState(Advanced(encoder, Unsigned(ts),
                                  Wrap(Unsigned(ts) - encoder.prevtimestamp)), s)
  <1> DEFINE n == Len(input)
             s == Append(input, ts)
             delta == Wrap(Unsigned(ts) - encoder.prevtimestamp)
             next == Advanced(encoder, Unsigned(ts), delta)
  <1>1. /\ n \in Nat /\ s \in Seq(Stamps) /\ Len(s) = n + 1 /\ s[n + 1] = ts
        /\ \A k \in 1 .. n : s[k] = input[k]
    BY DEF EncoderInv
  <1>2. \A k \in 1 .. n + 1 : s[k] \in Int
    BY <1>1
  <1>3. ts \in Int /\ Unsigned(ts) \in Int
    BY <1>1, <1>2, WrapFacts
  <1>4. /\ encoder.isfirst <=> n = 0
        /\ encoder.issecond <=> n = 1
        /\ n <= 1 => encoder.prevdelta = 0
        /\ n >= 1 => encoder.prevtimestamp = Unsigned(s[n])
        /\ n >= 2 => encoder.prevdelta = Wrap(s[n] - s[n - 1])
    BY <1>1 DEF EncoderInv, EncoderState
  <1>5. n >= 1 => delta = Wrap(s[n + 1] - s[n])
    <2> SUFFICES ASSUME n >= 1 PROVE delta = Wrap(s[n + 1] - s[n])
      OBVIOUS
    <2>1. s[n] \in Int /\ s[n + 1] \in Int
      BY <1>1, <1>2
    <2>2. delta = Wrap(Unsigned(s[n + 1]) - Unsigned(s[n]))
      BY <1>1, <1>4
    <2> HIDE DEF s, delta
    <2> QED
      BY <2>1, <2>2, WrapSums
  <1>6. /\ next.isfirst = FALSE
        /\ next.issecond = encoder.isfirst
        /\ next.prevtimestamp = Unsigned(ts)
        /\ n = 0 => next.prevdelta = encoder.prevdelta
        /\ n >= 1 => next.prevdelta = delta
    BY <1>1, <1>4 DEF Advanced
  <1> HIDE DEF s, delta, next
  <1>7. EncoderState(next, s)
    BY <1>1, <1>4, <1>5, <1>6 DEF EncoderState
  <1>8. Code(encoder, ts) = CodeAt(s, n + 1) /\ Code(encoder, ts) \in Codes
    <2>1. CASE n = 0
      BY <1>1, <1>3, <1>4, <2>1 DEF Code, CodeAt, Codes, Prefixes
    <2>2. CASE n = 1
      <3>1. Wrap(s[2] - s[1]) \in Int
        BY <1>2, <2>2, WrapFacts DEF Field
      <3>2. Wrap(s[2] - s[1]) % W14 \in Int
        BY <3>1, ModFacts DEF Even
      <3>3. Code(encoder, ts) = [prefix |-> << >>, payload |-> delta % W14]
        BY <1>4, <2>2 DEF Code, delta
      <3> QED
        BY <1>1, <1>5, <2>2, <3>2, <3>3 DEF CodeAt, Codes, Prefixes
    <2>3. CASE n >= 2
      <3> DEFINE D == Wrap(DeltaOfDelta(s, n + 1))
      <3>1. D \in Int /\ Wrap(delta - encoder.prevdelta) = D
        <4>1. /\ s[n + 1] - s[n] \in Int /\ s[n] - s[n - 1] \in Int
              /\ DeltaOfDelta(s, n + 1) = (s[n + 1] - s[n]) - (s[n] - s[n - 1])
          BY <1>1, <1>2, <2>3 DEF DeltaOfDelta
        <4>2. DeltaOfDelta(s, n + 1) \in Int
          BY <4>1
        <4>3. D \in Int
          BY <4>2, WrapFacts DEF Field
        <4>4. Wrap(Wrap(s[n + 1] - s[n]) - Wrap(s[n] - s[n - 1]))
                = Wrap((s[n + 1] - s[n]) - (s[n] - s[n - 1]))
          BY <4>1, WrapSums
        <4>5. /\ delta = Wrap(s[n + 1] - s[n])
              /\ encoder.prevdelta = Wrap(s[n] - s[n - 1])
          BY <1>1, <1>4, <1>5, <2>3
        <4> QED
          BY <4>1, <4>3, <4>4, <4>5
      <3>2. Code(encoder, ts) = [prefix |-> Prefix(D), payload |-> D % Width(Prefix(D))]
        <4> HIDE DEF D
        <4> QED
          BY <1>1, <1>4, <2>3, <3>1, SMTT(40) DEF Code, delta
      <3>3. Prefix(D) \in Prefixes /\ D % Width(Prefix(D)) \in Int
        BY <3>1, CodeType
      <3>4. CodeAt(s, n + 1) = [prefix |-> Prefix(D), payload |-> D % Width(Prefix(D))]
        BY <1>1, <2>3 DEF CodeAt
      <3>5. Code(encoder, ts) = CodeAt(s, n + 1)
        BY <3>2, <3>4
      <3>6. Code(encoder, ts) \in Codes
        <4> HIDE DEF D
        <4> QED
          BY <3>2, <3>3 DEF Codes
      <3> QED
        BY <3>5, <3>6
    <2>4. n = 0 \/ n = 1 \/ n >= 2
      BY DEF EncoderInv
    <2> QED
      BY <2>1, <2>2, <2>3, <2>4
  <1> QED
    BY <1>1, <1>7, <1>8 DEF s, delta, next

\* The decoder takes from CodeAt the delta that the invariant promises.
LEMMA DecodeStep ==
  ASSUME NEW S \in {0, W14}, CodecInv(S), Len(output) < Len(input),
         NEW m, m = Len(output), Regular(S, m + 1),
         NEW delta, delta = Delta(decoder, stream[m + 1])
  PROVE  /\ m >= 1 => delta = Wrap(input[m + 1] - input[m] - S)
         /\ m >= 1 => Unsigned(decoder.prevtimestamp + delta) = Unsigned(input[m + 1] - m * S)
         /\ m = 0 => stream[m + 1].payload = Unsigned(input[1])
  <1>0. /\ input \in Seq(Stamps) /\ output \in Seq(Int)
        /\ \A k \in 1 .. Len(input) : stream[k] = CodeAt(input, k)
        /\ decoder.isfirst <=> Len(output) = 0
        /\ decoder.issecond <=> Len(output) = 1
    BY DEF CodecInv, EncoderInv, DecoderInv
  <1>a. /\ m \in Nat /\ m + 1 \in 1 .. Len(input)
        /\ \A k \in 1 .. Len(input) : input[k] \in Int
    BY <1>0
  <1>b. W14 \in Nat \ {0} /\ W14 % 2 = 0 /\ S \in Int
    BY SMTT(40) DEF Even
  <1>1. /\ m \in Nat /\ m + 1 \in 1 .. Len(input)
        /\ \A k \in 1 .. Len(input) : input[k] \in Int
        /\ stream[m + 1] = CodeAt(input, m + 1)
        /\ decoder.isfirst <=> m = 0
        /\ decoder.issecond <=> m = 1
        /\ W14 \in Nat \ {0} /\ W14 % 2 = 0 /\ S \in Int
    BY <1>0, <1>a, <1>b
  <1>2. m >= 1 => decoder.prevtimestamp = Unsigned(input[m] - (m - 1) * S)
    BY <1>1 DEF CodecInv, DecoderInv, Regular
  <1>3. m >= 2 => decoder.prevdelta = Wrap(input[m] - input[m - 1] - S)
    BY <1>1 DEF CodecInv, DecoderInv, Regular
  <1>4. CASE m = 0
    BY <1>1, <1>4 DEF CodeAt
  <1>5. CASE m = 1
    <2> DEFINE d == input[2] - input[1]
    <2>1. d \in Int /\ d - S \in Field(W14) /\ d < W14
      BY <1>1, <1>5 DEF Regular
    <2>2. stream[m + 1].payload = Wrap(d) % W14
      BY <1>1, <1>5 DEF CodeAt
    <2> HIDE DEF d
    <2>3. d \in Field(W64) /\ d - S \in Field(W64) /\ d - S \in Int
      <3>1. /\ W14 \in Int /\ W14 > 0 /\ W64 \in Nat /\ W14 <= W64 \div 2
            /\ S = 0 \/ S = W14
        BY SMTT(40) DEF Even
      <3> DEFINE h == W64 \div 2
                 g == W14 \div 2
      <3>2. /\ h \in Nat /\ g \in Nat /\ g <= W14 /\ W14 <= h
            /\ -g <= d - S /\ d - S < g /\ d - S \in Int
        BY <2>1, <3>1, SMTT(40) DEF Field
      <3>3. d \in Int /\ S \in Int /\ d < W14
        BY <1>b, <2>1
      <3> HIDE DEF h, g
      <3>4. -h <= d /\ d < h /\ -h <= d - S /\ d - S < h
        BY <3>1, <3>2, <3>3, SMTT(40)
      <3>5. d \in -h .. h - 1 /\ d - S \in -h .. h - 1
        BY <3>2, <3>3, <3>4
      <3> QED
        BY <3>2, <3>5 DEF Field, h
    <2>4. Wrap(d) = d /\ Wrap(d - S) = d - S
      BY <2>1, <2>3, WrapFacts
    <2>5. d % W14 = (d - S) % W14
      <3>1. CASE S = 0
        BY <2>1, <3>1
      <3>2. CASE S = W14
        <4> DEFINE e == d - W14
        <4>1. e \in Int /\ d = e + W14 * 1
          BY <1>1, <2>1
        <4>2. \E q \in Int : d = e + W14 * q
          BY <4>1
        <4>3. d % W14 = e % W14
          <5> HIDE DEF e
          <5> QED
            BY <1>1, <2>1, <4>1, <4>2, CongIntro, ZenonT(40)
        <4> QED
          BY <3>2, <4>3
      <3> QED
        BY <3>1, <3>2
    <2>6. signextend((d - S) % W14, W14) = d - S
      BY <1>1, <2>1, SignExtend
    <2>7. delta = d - S
      BY <1>1, <1>5, <2>2, <2>4, <2>5, <2>6 DEF Delta
    <2>8. delta = Wrap(input[m + 1] - input[m] - S)
      BY <1>5, <2>4, <2>7 DEF d
    <2>9. Unsigned(decoder.prevtimestamp + delta) = Unsigned(input[m + 1] - m * S)
      <3>1. decoder.prevtimestamp = Unsigned(input[1])
        BY <1>1, <1>2, <1>5
      <3>2. Unsigned(Unsigned(input[1]) + Wrap(d - S)) = Unsigned(input[1] + (d - S))
        <4>1. input[1] \in Int
          BY <1>1, <1>5
        <4> QED
          BY <2>3, <4>1, WrapSums
      <3>3. input[1] + (d - S) = input[m + 1] - m * S
        BY <1>1, <1>5 DEF d
      <3> QED
        BY <2>4, <2>7, <3>1, <3>2, <3>3
    <2> QED
      BY <1>5, <2>8, <2>9
  <1>6. CASE m >= 2
    <2> DEFINE D == DeltaOfDelta(input, m + 1)
               b == input[m] - input[m - 1] - S
               c == input[m + 1] - input[m] - S
               a == input[m] - (m - 1) * S
    <2>1. D \in Field(W32) /\ D \in Field(W64) /\ D \in Int
      <3>1. m + 1 \in 3 .. m + 1
        BY <1>1, <1>6
      <3>2. D \in Field(W32)
        BY <3>1 DEF Regular
      <3>3. W32 \in Nat /\ W64 \in Nat /\ W32 <= W64
        BY SMTT(40) DEF Even
      <3> HIDE DEF D
      <3> QED
        BY <3>2, <3>3, SMTT(40) DEF Field
    <2>2. Wrap(D) = D
      BY <2>1, WrapFacts
    <2>3. stream[m + 1] = [prefix |-> Prefix(D), payload |-> D % Width(Prefix(D))]
      BY <1>1, <1>6, <2>2 DEF CodeAt
    <2>4. /\ a \in Int /\ b \in Int /\ c \in Int /\ m * S \in Int
          /\ c = b + D
          /\ a + c = input[m + 1] - m * S
      <3>1. input[m - 1] \in Int /\ input[m] \in Int /\ input[m + 1] \in Int
        BY <1>1, <1>6
      <3>2. a \in Int /\ b \in Int /\ c \in Int /\ m * S \in Int
        <4>1. m \in Int /\ m - 1 \in Int /\ S \in Int
          BY <1>1
        <4>2. m * S \in Int /\ (m - 1) * S \in Int
          BY <4>1
        <4>3. b \in Int /\ c \in Int
          <5> DEFINE x == input[m - 1]
                     y == input[m]
                     z == input[m + 1]
          <5>1. x \in Int /\ y \in Int /\ z \in Int
            BY <3>1
          <5> HIDE DEF x, y, z
          <5>2. y - x - S \in Int /\ z - y - S \in Int
            BY <4>1, <5>1
          <5> QED
            BY <5>2 DEF x, y, z
        <4>4. a \in Int
          <5> DEFINE y == (m - 1) * S
          <5>1. y \in Int
            BY <4>2
          <5> HIDE DEF y
          <5>2. input[m] - y \in Int
            BY <3>1, <5>1
          <5> QED
            BY <5>2 DEF y
        <4> QED
          BY <4>2, <4>3, <4>4
      <3>3. D = (input[m + 1] - input[m]) - (input[m] - input[m - 1])
        BY <1>1 DEF DeltaOfDelta
      <3>4. c = b + D
        BY <1>1, <3>1, <3>3, SMTT(40)
      <3>5. (m - 1) * S = m * S - S
        BY <1>1
      <3>6. a + c = input[m + 1] - m * S
        <4> DEFINE x == m * S
        <4>1. (m - 1) * S = x - S /\ x \in Int /\ S \in Int
          BY <1>1, <3>2, <3>5
        <4> HIDE DEF x
        <4>2. a + c = (input[m] - (x - S)) + (input[m + 1] - input[m] - S)
          BY <4>1
        <4>3. a + c = input[m + 1] - x
          BY <3>1, <4>1, <4>2, SMTT(40)
        <4> QED
          BY <4>3 DEF x
      <3> QED
        BY <3>2, <3>4, <3>6
    <2>5. decoder.prevdelta = Wrap(b) /\ decoder.prevtimestamp = Unsigned(a)
      BY <1>1, <1>2, <1>3, <1>6
    <2> HIDE DEF D, a, b, c
    <2>6. delta = Wrap(c)
      <3>1. CASE D = 0
        <4>1. stream[m + 1].prefix = << 0 >>
          BY <2>1, <2>3, <3>1, PrefixFacts
        <4> QED
          BY <1>1, <1>6, <2>4, <2>5, <3>1, <4>1, SMTT(40) DEF Delta
      <3>2. CASE D # 0
        <4>1. stream[m + 1].prefix # << 0 >>
          BY <2>1, <2>3, <3>2, PrefixFacts
        <4>2. signextend(stream[m + 1].payload, Width(stream[m + 1].prefix)) = D
          BY <2>1, <2>3, <3>2, PrefixFacts
        <4>3. delta = Wrap(Wrap(b) + D)
          BY <1>1, <1>6, <2>5, <4>1, <4>2, SMTT(40) DEF Delta
        <4> QED
          BY <2>1, <2>4, <4>3, WrapSums
      <3> QED
        BY <3>1, <3>2
    <2>7. Unsigned(decoder.prevtimestamp + delta) = Unsigned(input[m + 1] - m * S)
      <3>1. Unsigned(Unsigned(a) + Wrap(c)) = Unsigned(a + c)
        BY <2>4, WrapSums
      <3> QED
        BY <2>4, <2>5, <2>6, <3>1
    <2> QED
      BY <1>6, <2>6, <2>7 DEF c
  <1>7. m = 0 \/ m = 1 \/ m >= 2
    BY <1>1
  <1> QED
    BY <1>4, <1>5, <1>6, <1>7

-----------------------------------------------------------------------------
(***************************************************************************)
(* The theorems.                                                           *)
(***************************************************************************)

LEMMA InitCodec ==
  ASSUME NEW S \in {0, W14}, CodecInit
  PROVE  CodecInv(S)
  <1>1. EncoderInv
    BY DEF CodecInit, EncoderInv, EncoderState, tsinit
  <1>2. DecoderInv(S)
    BY DEF CodecInit, DecoderInv, tsinit
  <1> QED
    BY <1>1, <1>2 DEF CodecInv

\* What has been read is not disturbed by a longer block: there is none.
LEMMA WriteCodec ==
  ASSUME NEW S \in {0, W14}, CodecInv(S), NEW ts \in Stamps, tsencoderwrite(ts)
  PROVE  CodecInv(S)'
  <1>1. /\ input \in Seq(Stamps) /\ stream \in Seq(Codes) /\ Len(stream) = Len(input)
        /\ input' = Append(input, ts) /\ stream' = Append(stream, Code(encoder, ts))
    BY DEF CodecInv, EncoderInv, tsencoderwrite
  <1>2. /\ Code(encoder, ts) = CodeAt(input', Len(input'))
        /\ Code(encoder, ts) \in Codes
        /\ EncoderState(encoder', input')
    BY <1>1, EncodeStep DEF CodecInv, tsencoderwrite
  <1>3. /\ input' \in Seq(Stamps) /\ Len(input') = Len(input) + 1
        /\ \A k \in 1 .. Len(input) : input'[k] = input[k]
    BY <1>1
  <1>4. /\ stream' \in Seq(Codes) /\ Len(stream') = Len(input) + 1
        /\ \A k \in 1 .. Len(input) : stream'[k] = stream[k]
        /\ stream'[Len(input) + 1] = Code(encoder, ts)
    BY <1>1, <1>2
  <1>5. \A k \in 1 .. Len(input) : CodeAt(input', k) = CodeAt(input, k)
    <2> SUFFICES ASSUME NEW k \in 1 .. Len(input)
                 PROVE  CodeAt(input', k) = CodeAt(input, k)
      OBVIOUS
    <2>1. CASE k <= 2
      BY <1>1, <1>3, <2>1 DEF CodeAt
    <2>2. CASE k >= 3
      <3>1. DeltaOfDelta(input', k) = DeltaOfDelta(input, k)
        <4>1. {k, k - 1, k - 2} \subseteq 1 .. Len(input)
          BY <1>1, <2>2
        <4>2. input'[k] = input[k] /\ input'[k - 1] = input[k - 1] /\ input'[k - 2] = input[k - 2]
          BY <1>3, <4>1
        <4> QED
          BY <4>2 DEF DeltaOfDelta
      <3> QED
        BY <2>2, <3>1 DEF CodeAt
    <2> QED
      BY <2>1, <2>2
  <1>6. \A k \in 1 .. Len(input') : stream'[k] = CodeAt(input', k)
    <2> SUFFICES ASSUME NEW k \in 1 .. Len(input') PROVE stream'[k] = CodeAt(input', k)
      OBVIOUS
    <2>1. CASE k \in 1 .. Len(input)
      BY <1>4, <1>5, <2>1 DEF CodecInv, EncoderInv
    <2>2. CASE k = Len(input')
      BY <1>2, <1>3, <1>4, <2>2
    <2> QED
      BY <1>1, <1>3, <2>1, <2>2
  <1>7. EncoderInv'
    BY <1>2, <1>3, <1>4, <1>6 DEF EncoderInv
  <1>8. DecoderInv(S)'
    <2>1. mode' = mode /\ mode = "encode" /\ decoder' = decoder /\ output' = output
      BY DEF tsencoderwrite
    <2>2. Len(output) = 0 /\ output \in Seq(Int)
      BY <2>1 DEF CodecInv, DecoderInv
    <2> QED
      BY <1>1, <1>3, <2>1, <2>2 DEF CodecInv, DecoderInv
  <1> QED
    BY <1>7, <1>8 DEF CodecInv

LEMMA ReadCodec ==
  ASSUME NEW S \in {0, W14}, CodecInv(S), tsdecoderread
  PROVE  CodecInv(S)'
  <1> DEFINE m == Len(output)
             code == stream[m + 1]
             delta == Delta(decoder, code)
             ts == IF decoder.isfirst THEN code.payload
                   ELSE Unsigned(decoder.prevtimestamp + delta)
  <1>1. /\ m < Len(input) /\ mode = "decode"
        /\ UNCHANGED <<mode, input, encoder, stream>>
        /\ output' = Append(output, Wrap(ts)) /\ decoder' = Advanced(decoder, ts, delta)
    BY DEF tsdecoderread
  <1>2. /\ input \in Seq(Stamps) /\ output \in Seq(Int)
        /\ decoder.isfirst <=> m = 0
        /\ decoder.issecond <=> m = 1
    BY DEF CodecInv, EncoderInv, DecoderInv
  <1>3. EncoderInv'
    BY <1>1 DEF CodecInv, EncoderInv
  <1>a. /\ ts \in Int
        /\ m >= 1 => delta \in Int
    <2>1. CASE m = 0
      <3>1. stream \in Seq(Codes) /\ Len(stream) = Len(input)
        BY DEF CodecInv, EncoderInv
      <3>2. m + 1 \in 1 .. Len(stream)
        BY <1>1, <1>2, <2>1, <3>1
      <3>3. stream[m + 1] \in Codes
        BY <3>1, <3>2, ElementOfSeq
      <3>4. stream[m + 1].payload \in Int
        BY <3>3 DEF Codes
      <3> QED
        BY <1>2, <2>1, <3>4
    <2>2. CASE m >= 1
      <3>1. delta \in Int
        <4>1. m \in 1 .. Len(input) - 1
          BY <1>1, <1>2, <2>2
        <4> QED
          BY <4>1, DeltaType
      <3>2. decoder.prevtimestamp \in Int
        BY DEF CodecInv, DecoderInv
      <3> HIDE DEF delta
      <3>3. Unsigned(decoder.prevtimestamp + delta) \in Int
        BY <3>1, <3>2, WrapFacts
      <3> QED
        BY <1>2, <2>2, <3>1, <3>3
    <2> QED
      BY <1>2, <2>1, <2>2
  <1>4. Wrap(ts) \in Int
    <2> HIDE DEF ts
    <2> QED
      BY <1>a, WrapFacts DEF Field
  <1>5. /\ output' \in Seq(Int) /\ Len(output') = m + 1 /\ output'[m + 1] = Wrap(ts)
        /\ \A k \in 1 .. m : output'[k] = output[k]
    BY <1>1, <1>2, <1>4
  <1>6. Regular(S, m + 1) =>
          /\ m >= 1 => delta = Wrap(input[m + 1] - input[m] - S)
          /\ ts = Unsigned(input[m + 1] - m * S)
    <2> SUFFICES ASSUME Regular(S, m + 1)
                 PROVE  /\ m >= 1 => delta = Wrap(input[m + 1] - input[m] - S)
                        /\ ts = Unsigned(input[m + 1] - m * S)
      OBVIOUS
    <2>1. /\ m >= 1 => delta = Wrap(input[m + 1] - input[m] - S)
          /\ m >= 1 => Unsigned(decoder.prevtimestamp + delta) = Unsigned(input[m + 1] - m * S)
          /\ m = 0 => code.payload = Unsigned(input[1])
      BY <1>1, DecodeStep
    <2>2. CASE m = 0
      <3>1. input[m + 1] \in Int /\ S \in Int
        BY <1>1, <1>2, <2>2, SMTT(40) DEF Even
      <3>2. input[m + 1] - m * S = input[1]
        BY <2>2, <3>1
      <3> QED
        BY <1>2, <2>1, <2>2, <3>2
    <2>3. CASE m >= 1
      BY <1>2, <2>1, <2>3
    <2> QED
      BY <1>2, <2>2, <2>3
  <1>7. /\ ~ decoder'.isfirst
        /\ decoder'.issecond = decoder.isfirst
        /\ decoder'.prevtimestamp = ts
        /\ m = 0 => decoder'.prevdelta = decoder.prevdelta
        /\ m >= 1 => decoder'.prevdelta = delta
    BY <1>1, <1>2 DEF Advanced
  <1> HIDE DEF ts, delta
  <1>8. ASSUME NEW k, Regular(S, k)'
        PROVE  Regular(S, k)
    BY <1>1, <1>8 DEF Regular
  <1>9. \A k \in 1 .. m + 1 : Regular(S, k) => output'[k] = Wrap(input[k] - (k - 1) * S)
    <2> SUFFICES ASSUME NEW k \in 1 .. m + 1, Regular(S, k)
                 PROVE  output'[k] = Wrap(input[k] - (k - 1) * S)
      OBVIOUS
    <2>1. CASE k \in 1 .. m
      BY <1>5, <2>1 DEF CodecInv, DecoderInv
    <2>2. CASE k = m + 1
      <3>1. ts = Unsigned(input[k] - (k - 1) * S)
        BY <1>2, <1>6, <2>2
      <3>2. input[k] - (k - 1) * S \in Int
        <4>0. k \in 1 .. Len(input)
          BY <1>1, <1>2, <2>2
        <4>1. input[k] \in Int /\ k - 1 \in Int /\ S \in Int
          <5>1. input[k] \in Stamps
            BY <1>2, <4>0, ElementOfSeq
          <5> QED
            BY <5>1, SMTT(40) DEF Even
        <4> DEFINE y == (k - 1) * S
        <4>2. y \in Int
          BY <4>1
        <4> HIDE DEF y
        <4>3. input[k] - y \in Int
          BY <4>1, <4>2
        <4> QED
          BY <4>3 DEF y
      <3>3. Wrap(ts) = Wrap(input[k] - (k - 1) * S)
        BY <3>1, <3>2, WrapSums
      <3> QED
        BY <1>5, <2>2, <3>3
    <2> QED
      BY <1>2, <2>1, <2>2
  <1>10. DecoderInv(S)'
    <2>1. Len(output') <= Len(input') /\ mode' = "decode"
      BY <1>1, <1>2, <1>5
    <2>2. \A k \in 1 .. Len(output') :
            Regular(S, k)' => output'[k] = Wrap(input'[k] - (k - 1) * S)
      BY <1>1, <1>2, <1>5, <1>8, <1>9
    <2>3. /\ decoder'.isfirst <=> Len(output') = 0
          /\ decoder'.issecond <=> Len(output') = 1
          /\ decoder'.prevtimestamp \in Int
      BY <1>2, <1>5, <1>7, <1>a
    <2>4. decoder'.prevdelta \in Int
      BY <1>2, <1>7, <1>a DEF CodecInv, DecoderInv
    <2>5. PICK n \in Nat : n = m
      BY <1>2
    <2>6. Regular(S, n + 1) => /\ decoder'.prevtimestamp = Unsigned(input'[n + 1] - n * S)
                               /\ n >= 1 => decoder'.prevdelta
                                              = Wrap(input'[n + 1] - input'[n] - S)
      BY <1>1, <1>6, <1>7, <2>5
    <2>7. \A q \in {Len(output')} : q = n + 1 /\ q - 1 = n /\ (q >= 2 <=> n >= 1)
      BY <1>5, <2>5
    <2>8. Regular(S, Len(output))' => Regular(S, n + 1)
      BY <1>1, <2>7 DEF Regular
    <2>9. /\ Len(output') >= 1 /\ Regular(S, Len(output))'
               => decoder'.prevtimestamp
                    = Unsigned(input'[Len(output')] - (Len(output') - 1) * S)
          /\ Len(output') >= 2 /\ Regular(S, Len(output))'
               => decoder'.prevdelta
                    = Wrap(input'[Len(output')] - input'[Len(output') - 1] - S)
      BY <2>6, <2>7, <2>8, Zenon
    <2> QED
      BY <1>5, <2>1, <2>2, <2>3, <2>4, <2>9, Zenon DEF DecoderInv
  <1> QED
    BY <1>3, <1>10 DEF CodecInv

LEMMA StepCodec ==
  ASSUME NEW S \in {0, W14}, CodecInv(S), [CodecNext]_codecVars
  PROVE  CodecInv(S)'
  <1>1. CASE OpenChunk
    <2>1. /\ mode' = "decode" /\ mode = "encode"
          /\ UNCHANGED <<input, encoder, stream, decoder, output>>
      BY <1>1 DEF OpenChunk
    <2> QED
      BY <2>1 DEF CodecInv, EncoderInv, DecoderInv, Regular
  <1>2. CASE tsdecoderread
    BY <1>2, ReadCodec
  <1>3. CASE \E ts \in Stamps : tsencoderwrite(ts)
    BY <1>3, WriteCodec
  <1>4. CASE UNCHANGED codecVars
    BY <1>4 DEF codecVars, CodecInv, EncoderInv, DecoderInv, Regular
  <1> QED
    BY <1>1, <1>2, <1>3, <1>4 DEF CodecNext, Decoded

\* Every chunk whose first delta is within 14 signed bits and whose later deltas
\* of deltas are within 32 decodes to the timestamps that flushtochunk encoded,
\* however long it is and whatever the widths: tsencoderwrite and tsdecoderread
\* agree at every class boundary.
THEOREM RoundTripSafe == CodecSpec => []RoundTrip
  <1>1. CodecSpec => []CodecInv(0)
    <2>1. CodecInit => CodecInv(0)
      BY InitCodec
    <2>2. CodecInv(0) /\ [CodecNext]_codecVars => CodecInv(0)'
      BY StepCodec
    <2> QED
      BY <2>1, <2>2, PTL DEF CodecSpec
  <1>2. CodecInv(0) => RoundTrip
    <2> SUFFICES ASSUME CodecInv(0), Encodable(input), NEW k \in DOMAIN output
                 PROVE  output[k] = input[k]
      BY DEF RoundTrip
    <2>1. /\ input \in Seq(Stamps) /\ output \in Seq(Int) /\ Len(output) <= Len(input)
          /\ k \in 1 .. Len(output)
          /\ Regular(0, k) => output[k] = Wrap(input[k] - (k - 1) * 0)
      BY SMTT(40) DEF CodecInv, EncoderInv, DecoderInv
    <2>2. k \in 1 .. Len(input)
      BY <2>1
    <2>3. input[k] \in Stamps
      BY <2>1, <2>2, ElementOfSeq
    <2>4. input[k] \in Int /\ input[k] \in Field(W64)
      BY <2>3 DEF Field, Even
    <2>5. Regular(0, k)
      <3>1. ASSUME Len(input) >= 2
            PROVE  input[2] - input[1] - 0 \in Field(W14) /\ input[2] - input[1] < W14
        <4>1. input[1] \in Int /\ input[2] \in Int
          BY <2>1, <3>1
        <4>2. input[2] - input[1] \in Field(W14)
          BY <3>1 DEF Encodable
        <4> QED
          BY <4>1, <4>2 DEF Field, Even
      <3>2. \A j \in 3 .. k : DeltaOfDelta(input, j) \in Field(W32)
        <4>1. \A j \in 3 .. k : j \in 3 .. Len(input)
          BY <2>1, <2>2
        <4> QED
          BY <4>1 DEF Encodable
      <3> QED
        BY <3>1, <3>2 DEF Regular
    <2>6. input[k] - (k - 1) * 0 = input[k]
      BY <2>2, <2>4
    <2> QED
      BY <2>1, <2>4, <2>5, <2>6, WrapFacts
  <1> QED
    BY <1>1, <1>2, PTL

\* When the first delta of a chunk is too large for 14 signed bits and not for 14
\* unsigned ones, tsdecoderread returns its k-th timestamp (k-1) * W14 too early.
THEOREM DriftSafe == CodecSpec => []Drift
  <1>1. CodecSpec => []CodecInv(W14)
    <2>1. CodecInit => CodecInv(W14)
      BY InitCodec
    <2>2. CodecInv(W14) /\ [CodecNext]_codecVars => CodecInv(W14)'
      BY StepCodec
    <2> QED
      BY <2>1, <2>2, PTL DEF CodecSpec
  <1>2. CodecInv(W14) => Drift
    <2> SUFFICES ASSUME CodecInv(W14), NEW k \in DOMAIN output, Len(input) >= 2,
                        W14 \div 2 <= input[2] - input[1], input[2] - input[1] < W14,
                        \A j \in 3 .. k : DeltaOfDelta(input, j) \in Field(W32)
                 PROVE  output[k] = Wrap(input[k] - (k - 1) * W14)
      BY DEF Drift
    <2>1. /\ input \in Seq(Stamps) /\ k \in 1 .. Len(output)
          /\ Regular(W14, k) => output[k] = Wrap(input[k] - (k - 1) * W14)
      BY SMTT(40) DEF CodecInv, EncoderInv, DecoderInv
    <2>2. input[1] \in Int /\ input[2] \in Int
      BY <2>1
    <2>3. input[2] - input[1] - W14 \in Field(W14)
      <3> DEFINE x == input[2] - input[1]
      <3>1. x \in Int /\ W14 \div 2 <= x /\ x < W14
        BY <2>2
      <3>2. W14 \in Nat /\ W14 \div 2 \in Nat /\ W14 = 2 * (W14 \div 2)
        BY SMTT(40) DEF Even
      <3> HIDE DEF x
      <3>3. x - W14 \in Field(W14)
        BY <3>1, <3>2 DEF Field
      <3> QED
        BY <3>3 DEF x
    <2>4. Regular(W14, k)
      BY <2>3 DEF Regular
    <2> QED
      BY <2>1, <2>4
  <1> QED
    BY <1>1, <1>2, PTL
=============================================================================
