---------------------------------- MODULE Crc32 --------------------------------
(****************************************************************************)
(* core/src/crc32.cpp.  A word or a byte is the set of its bits that are    *)
(* set, so that the exclusive or is the symmetric difference.               *)
(****************************************************************************)
EXTENDS Integers, Sequences, FiniteSetsExt

\* 1 << b, for a bit of a byte.
Weight == <<1, 2, 4, 8, 16, 32, 64, 128>>
BitsOf(n, width) == {b \in 0 .. width - 1 : (n \div Weight[b + 1]) % 2 = 1}

\* A 32-bit word from its hexadecimal digits, the first one the highest.
Hex(digits) == UNION {{4 * (8 - k) + b : b \in BitsOf(digits[k], 4)} : k \in 1 .. 8}

\* kNibbleTable
NibbleTable == <<
    Hex(<<0, 0, 0, 0, 0, 0, 0, 0>>),     Hex(<<1, 13, 11, 7, 1, 0, 6, 4>>),
    Hex(<<3, 11, 6, 14, 2, 0, 12, 8>>),  Hex(<<2, 6, 13, 9, 3, 0, 10, 12>>),
    Hex(<<7, 6, 13, 12, 4, 1, 9, 0>>),   Hex(<<6, 11, 6, 11, 5, 1, 15, 4>>),
    Hex(<<4, 13, 11, 2, 6, 1, 5, 8>>),   Hex(<<5, 0, 0, 5, 7, 1, 3, 12>>),
    Hex(<<14, 13, 11, 8, 8, 3, 2, 0>>),  Hex(<<15, 0, 0, 15, 9, 3, 4, 4>>),
    Hex(<<13, 6, 13, 6, 10, 3, 14, 8>>), Hex(<<12, 11, 6, 1, 11, 3, 8, 12>>),
    Hex(<<9, 11, 6, 4, 12, 2, 11, 0>>),  Hex(<<8, 6, 13, 3, 13, 2, 13, 4>>),
    Hex(<<10, 0, 0, 10, 14, 2, 7, 8>>),  Hex(<<11, 13, 11, 13, 15, 2, 1, 12>>)>>

Ones == 0 .. 31
Shifted(crc, k) == {b - k : b \in {c \in crc : c >= k}}

\* (crc >> 4) ^ kNibbleTable[crc & 0x0F]
LowNibble(crc) ==
    LET Worth(b) == IF b \in crc THEN Weight[b + 1] ELSE 0
    IN Worth(0) + Worth(1) + Worth(2) + Worth(3)
NibbleStep(crc) == SymDiff(Shifted(crc, 4), NibbleTable[LowNibble(crc) + 1])

\* A slip: the second nibble of a byte is forgotten.
Crc32ByteHalf(crc, byte) == NibbleStep(SymDiff(crc, BitsOf(byte, 8)))

Crc32Byte(crc, byte) == NibbleStep(NibbleStep(SymDiff(crc, BitsOf(byte, 8))))

\* crc32_init and crc32_update; crc32, with the final inversion.
Register(bytes) ==
    LET crc[i \in 0 .. Len(bytes)] ==
            IF i = 0 THEN Ones ELSE Crc32Byte(crc[i - 1], bytes[i])
    IN crc[Len(bytes)]
Crc32(bytes) == SymDiff(Register(bytes), Ones)

--------------------------------------------------------------------------------
(* The standard that crc32.h names: CRC-32/ISO-HDLC, a bit at a time with    *)
(* the reflected polynomial 0xEDB88320.                                      *)

Poly == Hex(<<14, 13, 11, 8, 8, 3, 2, 0>>)
BitStep(crc) == SymDiff(Shifted(crc, 1), IF 0 \in crc THEN Poly ELSE {})

FourBits(crc) == BitStep(BitStep(BitStep(BitStep(crc))))

StandardByte(crc, byte) == FourBits(FourBits(SymDiff(crc, BitsOf(byte, 8))))

\* Behind every byte the register is the one the standard has there.
IsStandard(bytes) ==
    \A k \in 1 .. Len(bytes) :
        Register(SubSeq(bytes, 1, k))
            = StandardByte(Register(SubSeq(bytes, 1, k - 1)), bytes[k])
================================================================================
