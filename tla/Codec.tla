-------------------------------- MODULE Codec --------------------------------
(***************************************************************************)
(* The bytes of a compressed transmission of hw1 (comdec.c): its marks and *)
(* the encoding of symbol values, UTF-8 as the code has it.  The code      *)
(* packs the bytes of a value into an int; here they are a sequence.       *)
(***************************************************************************)
EXTENDS Integers, Sequences

SOT == 129
EOT == 130
SOB == 131
EOB == 132
RD  == 133
Marks == {SOT, EOT, SOB, EOB, RD}

\* The values that the encoder gives bytes of their own (those of the next bound,
\* of four bytes, have bit 31 set and count as negative).
MaxValue == 65535
Value == 0 .. MaxValue

-----------------------------------------------------------------------------
(* Encoding *)

\* Mutant: the bytes of the input are written as they are.
EncodeRaw(x) ==
    IF x < 256 THEN <<x>>
    ELSE IF x <= 2047 THEN <<192 + x \div 64, 128 + (x % 64)>>
    ELSE <<224 + x \div 4096, 128 + ((x \div 64) % 64), 128 + (x % 64)>>

\* decimal_to_utf_8 and write_utf_value_to_file.  From 2^16 on the word is a
\* negative int, which the writer takes for one of a single byte.
Encode(x) ==
    IF x < 128 THEN <<x>>
    ELSE IF x <= 2047 THEN <<192 + x \div 64, 128 + (x % 64)>>
    ELSE IF x <= MaxValue THEN
            <<224 + x \div 4096, 128 + ((x \div 64) % 64), 128 + (x % 64)>>
    ELSE <<128 + (x % 64)>>

-----------------------------------------------------------------------------
(* Decoding *)

\* utf_8_bytes_checker of a byte: the bytes of the value that it begins, 0 for none.
Lead(b) ==
    IF b < 128 THEN 1
    ELSE IF 192 <= b /\ b < 224 THEN 2
    ELSE IF 224 <= b /\ b < 240 THEN 3
    ELSE IF 240 <= b /\ b < 248 THEN 4
    ELSE 0

\* The bytes that are read for a value whose first one is b.
Width(b) == IF Lead(b) = 0 THEN 1 ELSE Lead(b)

\* utf_8_to_decimal: the word, and not the first byte alone, tells how many bytes
\* are combined.
TwoBytes(a, b) == (a % 32) * 64 + (b % 64)
ThreeBytes(a, b, c) == (a % 16) * 4096 + (b % 64) * 64 + (c % 64)

\* With four bytes the bits of the first land on two of the second (>> 8, not >> 6).
Either(p, q) == IF p = 1 \/ q = 1 THEN 1 ELSE 0
FourBytes(a, b, c, e) ==
    LET bit(n, i) == (n \div i) % 2
    IN bit(a, 4) * 262144
       + Either(bit(a, 2), bit(b, 32)) * 131072
       + Either(bit(a, 1), bit(b, 16)) * 65536
       + (b % 16) * 4096 + (c % 64) * 64 + (e % 64)

\* What four bytes of ones stand for: the end of the file (-1) in place of a byte
\* that should follow makes such a word.
BeyondEnd == 524287

\* check_next_char; is_byte_msb_10 is always true, so the bytes that follow the first
\* are not looked at.
Decode(bytes) ==
    LET a == bytes[1]
        n == Lead(a)
    IN IF n = 0 THEN -1
       ELSE IF n > Len(bytes) THEN BeyondEnd
       ELSE IF n = 1 THEN a
       ELSE IF n = 2 THEN
            IF a * 256 + bytes[2] < 49792 THEN a * 256 + bytes[2]
            ELSE TwoBytes(a, bytes[2])
       ELSE IF n = 3 THEN
            IF a * 65536 + bytes[2] * 256 + bytes[3] < 14721152
            THEN TwoBytes(bytes[2], bytes[3])
            ELSE ThreeBytes(a, bytes[2], bytes[3])
       ELSE IF a = 240 /\ bytes[2] * 65536 + bytes[3] * 256 + bytes[4] < 8421504
            THEN ThreeBytes(bytes[2], bytes[3], bytes[4])
            ELSE FourBytes(a, bytes[2], bytes[3], bytes[4])
=============================================================================
