--------------------------- MODULE TimestampCodec ---------------------------
(***************************************************************************)
(* The delta-of-delta code of the timestamps of a chunk (timestamp.c).     *)
(* flushtochunk encodes the timestamps of a head block one by one; a query *)
(* decodes as many as the header counts.                                   *)
(*                                                                         *)
(* A code is the prefix of a class and a payload.  Widths are parameters,  *)
(* given as the number of values of a field (2^7 for 7 bits).  How bits    *)
(* are packed into bytes (bit_io.c), and the value codes that lie between  *)
(* the timestamp codes, are not part of this module.                       *)
(***************************************************************************)
EXTENDS Integers, Sequences

CONSTANTS
    W7, W9, W12, W32,   \* the four classes of a delta of deltas
    W14,                \* the second code of a chunk
    W64,                \* uint64_t
    Stamps,             \* timestamps that a head block may hold
    MaxPoints           \* bound: points of a chunk

Even(w) == w \in Nat /\ w % 2 = 0

ASSUME CodecAssumption ==
    /\ \A w \in {W7, W9, W12, W14, W32, W64} : Even(w)
    /\ 0 < W7 /\ W7 < W9 /\ W9 < W12 /\ W12 < W14 /\ W14 < W32 /\ W32 <= W64 \div 2
    /\ \A ts \in Stamps : ts \in Int /\ -(W64 \div 2) <= ts /\ ts < W64 \div 2
    /\ MaxPoints \in Nat

VARIABLES
    mode,       \* "encode" (flushtochunk) or "decode" (a query)
    input,      \* the timestamps of the head block encoded so far
    encoder,    \* struct timestampencoder
    stream,     \* the codes written
    decoder,    \* struct timestampdecoder
    output      \* the timestamps read

codecVars == <<mode, input, encoder, stream, decoder, output>>

-----------------------------------------------------------------------------
\* The value of a field of w values, read as a two's complement number.
signextend(val, w) == IF val >= w \div 2 THEN val - w ELSE val

\* Conversions between long and uint64_t, and the wrap of 64-bit arithmetic.
Unsigned(x) == x % W64
Wrap(x) == signextend(x % W64, W64)

\* The state both structs start in.
tsinit == [prevtimestamp |-> 0, prevdelta |-> 0, isfirst |-> TRUE, issecond |-> FALSE]

Fits_loose(D, w) == -(w \div 2) <= D /\ D <= w \div 2       \* mutant: off by one
Fits(D, w) == -(w \div 2) <= D /\ D < w \div 2

\* The class that the encoder chooses for a delta of deltas.
Prefix(D) ==
    CASE D = 0 -> <<0>>
      [] D # 0 /\ Fits(D, W7) -> <<1, 0>>
      [] ~ Fits(D, W7) /\ Fits(D, W9) -> <<1, 1, 0>>
      [] ~ Fits(D, W9) /\ Fits(D, W12) -> <<1, 1, 1, 0>>
      [] OTHER -> <<1, 1, 1, 1>>

\* The payload after a prefix: the decoder finds it bit by bit.
Width(prefix) ==
    IF prefix[1] = 0 THEN 1
    ELSE IF prefix[2] = 0 THEN W7
    ELSE IF prefix[3] = 0 THEN W9
    ELSE IF prefix[4] = 0 THEN W12 ELSE W32

\* The code that tsencoderwrite emits for ts.
Code(e, ts) ==
    LET delta == Wrap(Unsigned(ts) - e.prevtimestamp)
        D == Wrap(delta - e.prevdelta)
    IN IF e.isfirst THEN [prefix |-> << >>, payload |-> Unsigned(ts)]
       ELSE IF e.issecond THEN [prefix |-> << >>, payload |-> delta % W14]
       ELSE [prefix |-> Prefix(D), payload |-> D % Width(Prefix(D))]

\* The delta that tsdecoderread takes from a code; a zero bit repeats the last.
Delta_unsigned(d, code) ==      \* mutant: the second delta is not sign-extended
    IF d.issecond THEN code.payload
    ELSE IF code.prefix = <<0>> THEN d.prevdelta
    ELSE Wrap(d.prevdelta + signextend(code.payload, Width(code.prefix)))
Delta(d, code) ==
    IF d.issecond THEN signextend(code.payload, W14)
    ELSE IF code.prefix = <<0>> THEN d.prevdelta
    ELSE Wrap(d.prevdelta + signextend(code.payload, Width(code.prefix)))

\* Either struct after a timestamp (unsigned) and its delta.
Advanced(s, ts, delta) ==
    [prevtimestamp |-> ts, prevdelta |-> IF s.isfirst THEN s.prevdelta ELSE delta,
     isfirst |-> FALSE, issecond |-> s.isfirst]

-----------------------------------------------------------------------------
CodecInit ==
    /\ mode = "encode"
    /\ input = << >> /\ stream = << >> /\ output = << >>
    /\ encoder = tsinit /\ decoder = tsinit

\* One point of the loop in flushtochunk.  PUT_value keeps a block sorted.
tsencoderwrite(ts) ==
    /\ mode = "encode" /\ Len(input) < MaxPoints
    /\ \A k \in DOMAIN input : input[k] <= ts
    /\ input' = Append(input, ts)
    /\ stream' = Append(stream, Code(encoder, ts))
    /\ encoder' = Advanced(encoder, Unsigned(ts), Wrap(Unsigned(ts) - encoder.prevtimestamp))
    /\ UNCHANGED <<mode, decoder, output>>

\* The chunk is written; a query reads it.
OpenChunk ==
    /\ mode = "encode" /\ input # << >>
    /\ mode' = "decode"
    /\ UNCHANGED <<input, encoder, stream, decoder, output>>

\* One point of the loop in decompressChunk and collect_points_from_chunk.
tsdecoderread ==
    /\ mode = "decode" /\ Len(output) < Len(input)
    /\ LET code == stream[Len(output) + 1]
           delta == Delta(decoder, code)
           ts == IF decoder.isfirst THEN code.payload
                 ELSE Unsigned(decoder.prevtimestamp + delta)
       IN /\ output' = Append(output, Wrap(ts))
          /\ decoder' = Advanced(decoder, ts, delta)
    /\ UNCHANGED <<mode, input, encoder, stream>>

\* The query has all points.
Decoded == mode = "decode" /\ Len(output) = Len(input) /\ UNCHANGED codecVars

CodecNext == OpenChunk \/ tsdecoderread \/ Decoded \/ \E ts \in Stamps : tsencoderwrite(ts)

CodecSpec == CodecInit /\ [][CodecNext]_codecVars

-----------------------------------------------------------------------------
(***************************************************************************)
(* Properties.                                                             *)
(***************************************************************************)

\* The numbers that w values represent in two's complement, and the second
\* difference at s[k].
Field(w) == -(w \div 2) .. (w \div 2) - 1
DeltaOfDelta(s, k) == (s[k] - s[k-1]) - (s[k-1] - s[k-2])

\* The chunks that the code represents: the first delta is within 14 signed
\* bits and every later delta of deltas within 32.
Encodable(s) ==
    /\ Len(s) >= 2 => s[2] - s[1] \in Field(W14)
    /\ \A k \in 3 .. Len(s) : DeltaOfDelta(s, k) \in Field(W32)

\* An encodable chunk decodes to the timestamps it was built from: the class
\* bounds of the encoder, its masks and the sign extension of the decoder agree
\* at every boundary, and both sides keep the same previous delta.
RoundTrip == Encodable(input) => \A k \in DOMAIN output : output[k] = input[k]

\* What a first delta beyond 14 signed bits does: the decoder goes on with a
\* delta that is W14 too small, so that the k-th point comes out (k-1) * W14 too
\* early, all points of the chunk after the first included.  (The encoder masks the
\* delta to 14 bits, which design.pdf 7.2 calls unsigned; the decoder sign-extends.)
Drift ==
    \A k \in DOMAIN output :
      /\ Len(input) >= 2 /\ W14 \div 2 <= input[2] - input[1] /\ input[2] - input[1] < W14
      /\ \A j \in 3 .. k : DeltaOfDelta(input, j) \in Field(W32)
      => output[k] = Wrap(input[k] - (k - 1) * W14)

\* design.pdf 7.2: the encoder writes the first delta "as 14-bit unsigned" - a delta
\* of that range comes back.
FirstDeltaUnsigned ==
    Len(output) >= 2 /\ input[2] - input[1] \in 0 .. W14 - 1 => output[2] = input[2]
=============================================================================
