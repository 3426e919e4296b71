-------------------------------- MODULE BitIO --------------------------------
(***************************************************************************)
(* The bit writer and the bit reader over a growing byte buffer            *)
(* (bit_io.c), as functions of their state.  A field is a number and the   *)
(* number of its low bits that count; it may straddle bytes.               *)
(***************************************************************************)
EXTENDS Integers, Sequences

CONSTANTS
    ByteBits,           \* 8
    BufferCapacity      \* 64, the first size of a buffer

ASSUME BitIOAssumption == ByteBits \in Nat \ {0} /\ BufferCapacity \in Nat \ {0}

Least(a, b) == IF a < b THEN a ELSE b

bwcreate == [bytes |-> << >>, capacity |-> BufferCapacity, current |-> 0, filled |-> 0]

\* The current byte goes to the buffer, which doubles when it is full.
bufferappend(bw) ==
    [bytes |-> Append(bw.bytes, bw.current),
     capacity |-> IF Len(bw.bytes) >= bw.capacity THEN 2 * bw.capacity ELSE bw.capacity,
     current |-> 0, filled |-> 0]

\* The bits of value that the next byte takes: `take' bits above the lowest `shift'.
Slice_unmasked(value, shift, take) == value \div 2^shift    \* mutant: no mask
Slice(value, shift, take) == (value \div 2^shift) % 2^take

\* Write the n low bits of value, the highest first.
RECURSIVE bwwrite(_, _, _)
bwwrite(bw, value, n) ==
    LET free == ByteBits - bw.filled
        take == Least(n, free)
        next == [bw EXCEPT !.current = @ + Slice(value, n - take, take) * 2^(free - take),
                           !.filled = @ + take]
    IN IF n <= 0 THEN bw
       ELSE bwwrite(IF next.filled = ByteBits THEN bufferappend(next) ELSE next,
                    value, n - take)

\* The last byte is padded with zero bits.
bwclose_lost(bw) == bw                          \* mutant: the last bits are not written
bwclose(bw) == IF bw.filled > 0 THEN bufferappend(bw) ELSE bw

brcreate == [byteoffset |-> 0, consumed |-> 0]

\* Read n bits: the number and the reader afterwards.  At the end of the buffer
\* the bits read so far are returned.
RECURSIVE brread_from(_, _, _, _)
brread_from(buffer, br, n, result) ==
    LET available == ByteBits - br.consumed
        take == Least(n, available)
        bits == Slice(buffer[br.byteoffset + 1], available - take, take)
        next == IF br.consumed + take = ByteBits
                THEN [byteoffset |-> br.byteoffset + 1, consumed |-> 0]
                ELSE [br EXCEPT !.consumed = @ + take]
    IN IF n <= 0 \/ br.byteoffset >= Len(buffer) THEN [val |-> result, br |-> br]
       ELSE brread_from(buffer, next, n - take, result * 2^take + bits)

brread(buffer, br, n) == brread_from(buffer, br, n, 0)
=============================================================================
