--------------------------------- MODULE Varint --------------------------------
(****************************************************************************)
(* The unsigned LEB128 and ZigZag codecs of core/src/varint.cpp and         *)
(* core/include/rewind/varint.h, on words of any width: a byte carries a    *)
(* digit below Radix (2^7) and a continuation flag worth Radix, u64 is      *)
(* 0 .. Word - 1 and i64 its two's complement.                              *)
(****************************************************************************)
EXTENDS Integers, Sequences

CONSTANTS
    Radix,       \* 0x80
    Word,        \* 2^64
    MaxBytes     \* kVarintMaxBytes

\* What a digit with k digits below it is worth: 1 << shift.
Scale[k \in 0 .. MaxBytes] == IF k = 0 THEN 1 ELSE Radix * Scale[k - 1]

\* ceil(64 / 7) bytes, the last of which is not full.
ASSUME VarintAssumption ==
    /\ Radix \in Nat \ {0, 1} /\ Word \in Nat /\ MaxBytes \in Nat \ {0}
    /\ Word % 2 = 0 /\ Word % Scale[MaxBytes - 1] = 0
    /\ Scale[MaxBytes - 1] < Word /\ Word <= Scale[MaxBytes]

U64 == 0 .. Word - 1
Byte == 0 .. 2 * Radix - 1

\* varint_encode: digits from the least one up, all but the last continued.
VarintEncode[v \in U64] ==
    IF v < Radix THEN <<v>>
    ELSE <<Radix + (v % Radix)>> \o VarintEncode[v \div Radix]

\* A slip: a last byte above the word is truncated silently.
DecodeByteTruncating(d, byte) ==
    IF d.n # 0 THEN d
    ELSE [d EXCEPT !.result = (@ + (byte % Radix) * d.scale) % Word,
                   !.scale = @ * Radix, !.read = @ + 1,
                   !.n = IF byte < Radix THEN d.read + 1 ELSE 0]

\* One round of the loop of varint_decode: d.n is 0 until the function returns,
\* d.over is its early return 0.  The shift drops what leaves the word.
DecodeByte(d, byte) ==
    LET payload == byte % Radix
        result  == (d.result + payload * d.scale) % Word
    IN IF d.over \/ d.n # 0 THEN d
       ELSE IF d.scale = Scale[MaxBytes - 1] /\ payload * d.scale >= Word
       THEN [d EXCEPT !.over = TRUE]
       ELSE [d EXCEPT !.result = result, !.scale = @ * Radix, !.read = @ + 1,
                      !.n = IF byte < Radix THEN d.read + 1 ELSE 0]

\* varint_decode: the number of bytes consumed, 0 for an encoding that is cut
\* short, too long or too large, and the value, 0 where *out is left alone: its
\* callers have zero there.
VarintDecode(in) ==
    LET limit == IF Len(in) < MaxBytes THEN Len(in) ELSE MaxBytes
        round[i \in 0 .. limit] ==
            IF i = 0
            THEN [n |-> 0, over |-> FALSE, result |-> 0, scale |-> 1, read |-> 0]
            ELSE DecodeByte(round[i - 1], in[i])
        d == round[limit]
    IN [n |-> d.n, value |-> IF d.n = 0 THEN 0 ELSE d.result]

\* A slip: -v rather than -(v + 1).
ZigZagEncodeByNegation(v) ==
    IF v < 0 THEN ((2 * (-v)) % Word) + 1 ELSE (2 * v) % Word

ZigZagEncode(v) ==
    IF v < 0 THEN ((2 * (-(v + 1))) % Word) + 1 ELSE (2 * v) % Word

ZigZagDecode(u) == IF u % 2 = 1 THEN (-(u \div 2)) - 1 ELSE u \div 2
================================================================================
