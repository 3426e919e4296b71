----------------------------- MODULE ValueCodec ------------------------------
(***************************************************************************)
(* The XOR code of the values of a chunk (value.c).  A value is the 64     *)
(* bits of a double, as a number; the widths are parameters.               *)
(***************************************************************************)
EXTENDS BitIO, Bitwise

CONSTANTS
    WordBits,       \* 64
    MaskBits,       \* 4: the low bits that both sides clear
    LeadBits,       \* 5: the field for the number of leading zeros
    LengthBits      \* 6: the field for the number of meaningful bits

ASSUME ValueAssumption ==
    /\ WordBits = 2^LengthBits
    /\ MaskBits \in 0 .. WordBits /\ LeadBits \in Nat

Masked_none(v) == v                             \* mutant: the encoder keeps the low bits
Masked(v) == v - (v % 2^MaskBits)

\* __builtin_clzll and __builtin_ctzll of x > 0.
clzll(x) == CHOOSE n \in 0 .. WordBits - 1 : 2^(WordBits - 1 - n) <= x /\ x < 2^(WordBits - n)
ctzll(x) == CHOOSE n \in 0 .. WordBits - 1 : x % 2^n = 0 /\ x % 2^(n + 1) # 0

\* The state in which both structs start: the window of the previous block is
\* the whole word.
valinit_none ==                                 \* mutant: there is no previous block
    [prev |-> 0, leading |-> WordBits, trailing |-> 0, isfirst |-> TRUE]
valinit == [prev |-> 0, leading |-> 0, trailing |-> 0, isfirst |-> TRUE]

\* The window of an XOR: its leading zeros, as far as the field can say, and
\* its trailing zeros.
Window(x) == [leading |-> Least(clzll(x), 2^LeadBits - 1), trailing |-> ctzll(x)]

\* The previous window has room for the XOR.
Reuses(e, x) == Window(x).leading >= e.leading /\ Window(x).trailing >= e.trailing

\* The fields that valencoderwrite emits, as <<number, bits>>.
ValueFields(e, v) ==
    LET x == Masked(v) ^^ e.prev
        w == Window(x)
        meaningful == WordBits - w.leading - w.trailing
    IN IF e.isfirst THEN <<<<Masked(v), WordBits>>>>
       ELSE IF x = 0 THEN <<<<0, 1>>>>
       ELSE IF Reuses(e, x)
       THEN <<<<2, 2>>, <<x \div 2^e.trailing, WordBits - e.leading - e.trailing>>>>
       ELSE <<<<3, 2>>, <<w.leading, LeadBits>>, <<meaningful % 2^LengthBits, LengthBits>>,
              <<x \div 2^w.trailing, meaningful>>>>

\* The encoder afterwards.
valencoderwrite(e, v) ==
    LET x == Masked(v) ^^ e.prev
        base == [e EXCEPT !.prev = Masked(v), !.isfirst = FALSE]
    IN IF e.isfirst \/ x = 0 \/ Reuses(e, x) THEN base
       ELSE [base EXCEPT !.leading = Window(x).leading, !.trailing = Window(x).trailing]

\* The XOR that the decoder reads after the first value: a zero bit repeats the
\* value; otherwise the bits of the previous window or of a new one.
ReadXor(buffer, d, br) ==
    LET bit0 == brread(buffer, br, 1)
        bit1 == brread(buffer, bit0.br, 1)
        old == brread(buffer, bit1.br, WordBits - d.leading - d.trailing)
        lead == brread(buffer, bit1.br, LeadBits)
        len == brread(buffer, lead.br, LengthBits)
        meaningful == IF len.val = 0 THEN WordBits ELSE len.val
        trail == WordBits - lead.val - meaningful
        new == brread(buffer, len.br, meaningful)
    IN IF bit0.val = 0 THEN [x |-> 0, d |-> d, br |-> bit0.br]
       ELSE IF bit1.val = 0 THEN [x |-> old.val * 2^d.trailing, d |-> d, br |-> old.br]
       ELSE [x |-> new.val * 2^trail, br |-> new.br,
             d |-> [d EXCEPT !.leading = lead.val, !.trailing = trail]]

\* valdecoderread: the value, the decoder and the reader afterwards.
valdecoderread(buffer, d, br) ==
    LET first == brread(buffer, br, WordBits)
        r == ReadXor(buffer, d, br)
        v == IF d.isfirst THEN Masked(first.val) ELSE d.prev ^^ r.x
    IN [val |-> v,
        d |-> [IF d.isfirst THEN d ELSE r.d EXCEPT !.prev = v, !.isfirst = FALSE],
        br |-> IF d.isfirst THEN first.br ELSE r.br]
=============================================================================
