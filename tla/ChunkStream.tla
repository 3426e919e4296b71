----------------------------- MODULE ChunkStream -----------------------------
(***************************************************************************)
(* The payload of a chunk: timestamp codes and value codes take turns in   *)
(* one bit stream (flush.c; decompressChunk and collect_points_from_chunk  *)
(* in registry.c, decompress_all in downsample.c).  The steps are those of *)
(* TimestampCodec, with the codes written to and read from the bytes of a  *)
(* BitIO buffer, and next to each the value code of ValueCodec.            *)
(***************************************************************************)
EXTENDS TimestampCodec, ValueCodec

LOCAL INSTANCE SequencesExt

CONSTANT Points     \* <<ts, bits of the value>> that a head block may hold

ASSUME StreamAssumption == Points \subseteq Stamps \X (0 .. 2^WordBits - 1)

VARIABLES
    values,     \* the values of the block
    bw, valenc, \* struct bitwriter, struct valueencoder
    br, valdec, \* struct bitreader, struct valuedecoder
    codes,      \* the timestamp codes that the decoder finds in the bits
    decoded     \* the values read

streamVars == <<codecVars, values, bw, valenc, br, valdec, codes, decoded>>

\* The number of bits of a field with w values.
Bits(w) == CHOOSE n \in 0 .. 31 : 2^n = w

\* A prefix as a number.
Number(bits) == FoldLeft(LAMBDA n, bit : 2 * n + bit, 0, bits)

\* The width of the payload that follows a prefix in the state s.
PayloadBits(s, prefix) ==
    IF s.isfirst THEN Bits(W64) ELSE IF s.issecond THEN Bits(W14) ELSE Bits(Width(prefix))

\* The fields of a timestamp code.
TimestampFields(e, ts) ==
    LET code == Code(e, ts)
    IN <<<<Number(code.prefix), Len(code.prefix)>>,
         <<code.payload, PayloadBits(e, code.prefix)>>>>

\* Fields written one after the other.
WriteAll(w, fields) == FoldLeft(LAMBDA x, f : bwwrite(x, f[1], f[2]), w, fields)

\* The code that tsdecoderread finds at r: bits of the prefix up to a zero, but
\* no more than four, and the payload.
RECURSIVE ReadPrefix(_, _)
ReadPrefix(r, prefix) ==
    LET bit == brread(bw.bytes, r, 1)
    IN IF Len(prefix) = 4 \/ (prefix # << >> /\ prefix[Len(prefix)] = 0)
       THEN [prefix |-> prefix, br |-> r]
       ELSE ReadPrefix(bit.br, Append(prefix, bit.val))

ReadCode(d, r) ==
    LET p == IF d.isfirst \/ d.issecond THEN [prefix |-> << >>, br |-> r]
             ELSE ReadPrefix(r, << >>)
        payload == brread(bw.bytes, p.br, PayloadBits(d, p.prefix))
    IN [code |-> [prefix |-> p.prefix, payload |-> payload.val], br |-> payload.br]

-----------------------------------------------------------------------------
StreamInit ==
    /\ CodecInit
    /\ values = << >> /\ codes = << >> /\ decoded = << >>
    /\ bw = bwcreate /\ br = brcreate
    /\ valenc = valinit /\ valdec = valinit

\* One iteration of the loop in flushtochunk.
EncodePoint(ts, v) ==
    /\ tsencoderwrite(ts)
    /\ values' = Append(values, v)
    /\ bw' = WriteAll(bw, TimestampFields(encoder, ts) \o ValueFields(valenc, v))
    /\ valenc' = valencoderwrite(valenc, v)
    /\ UNCHANGED <<br, valdec, codes, decoded>>

\* The writer is closed, the chunk is written and a query opens it.
CloseStream ==
    /\ OpenChunk
    /\ bw' = bwclose(bw)
    /\ UNCHANGED <<values, valenc, br, valdec, codes, decoded>>

\* One iteration of the loop over point_count.
DecodePoint ==
    LET c == ReadCode(decoder, br)
        v == valdecoderread(bw.bytes, valdec, c.br)
    IN /\ tsdecoderread
       /\ codes' = Append(codes, c.code)
       /\ decoded' = Append(decoded, v.val)
       /\ valdec' = v.d
       /\ br' = v.br
       /\ UNCHANGED <<values, bw, valenc>>

StreamDone == Decoded /\ UNCHANGED streamVars

StreamNext ==
    \/ \E p \in Points : EncodePoint(p[1], p[2])
    \/ CloseStream \/ DecodePoint \/ StreamDone

StreamSpec == StreamInit /\ [][StreamNext]_streamVars

-----------------------------------------------------------------------------
(***************************************************************************)
(* Properties.                                                             *)
(***************************************************************************)

\* The decoders find in the bits exactly the codes that were written: both
\* sides agree on the length of every field, also behind a timestamp that does
\* not decode to itself, and wherever a field straddles bytes.  Every value
\* comes back with its low bits cleared, and with nothing else changed.
StreamInSync ==
    \A k \in DOMAIN decoded :
      /\ codes[k] = stream[k]
      /\ decoded[k] = values[k] - (values[k] % 2^MaskBits)

\* What the k-th value and the k-th timestamp cost, in bits, and all of them.
ValueCost(k) ==
    IF k = 1 THEN WordBits
    ELSE IF Masked(values[k]) = Masked(values[k - 1]) THEN 1 ELSE WordBits + 2
CodeCost(k) ==
    Len(stream[k].prefix) + (IF k = 1 THEN Bits(W64) ELSE IF k = 2 THEN Bits(W14)
                             ELSE Bits(Width(stream[k].prefix)))
TotalCost == FoldLeft(LAMBDA n, k : n + ValueCost(k) + CodeCost(k), 0,
                      [k \in DOMAIN values |-> k])

\* A value costs two bits more than a word, and a repeated one a single bit:
\* the window that valencoderwrite reuses starts as the whole word and never
\* becomes smaller, so that its branch for a new window is not taken.
SizeExact == mode = "encode" => ByteBits * Len(bw.bytes) + bw.filled = TotalCost

\* The decoders consume the bits that were written, no more and no less, and
\* these end in the last byte: nothing is read past the end of the payload,
\* where brread makes up bits, and no byte is left over.
PayloadExact ==
    mode = "decode" /\ Len(decoded) = Len(values) =>
      /\ ByteBits * br.byteoffset + br.consumed = TotalCost
      /\ Len(bw.bytes) = (TotalCost + ByteBits - 1) \div ByteBits
      /\ Len(bw.bytes) <= bw.capacity

-----------------------------------------------------------------------------
(***************************************************************************)
(* What a test and the documents say and the code does not do.             *)
(***************************************************************************)

\* tests/test_value.c:69: a value that is read is the value that was written.
ValuesExact == \A k \in DOMAIN decoded : decoded[k] = values[k]

\* design.pdf 8.5: "No previous block" leads to the branch for a new block, and
\* README.md:96: "leading/trailing zero elimination" - the first value that differs
\* costs a header and the meaningful bits of the XOR.
FirstChangeSmall ==
    mode = "encode" /\ Len(values) = 2 /\ Masked(values[1]) # Masked(values[2]) =>
      LET w == Window(Masked(values[1]) ^^ Masked(values[2]))
      IN ByteBits * Len(bw.bytes) + bw.filled
           <= CodeCost(1) + ValueCost(1) + CodeCost(2)
                + 2 + LeadBits + LengthBits + (WordBits - w.leading - w.trailing)
=============================================================================
