------------------------------ MODULE Encoding ------------------------------
(***************************************************************************)
(* src/hdr_encoding.c: numbers as ZigZag LEB128 bytes, and bytes as base64 *)
(* characters.  A byte has one bit more than the groups that a number is   *)
(* cut into, and the last byte of the longest numbers uses that bit for    *)
(* the number too: with groups of 7 bits, nine bytes hold all 64.          *)
(***************************************************************************)
EXTENDS HistogramLayout, SequencesExt

CONSTANTS
    GroupBits,      \* 7 in the code.
    MaxBytes,       \* 9 in the code.
    Alphabet,       \* base64_table: the characters of the digits, in order.
    Pad             \* "="

ByteBits == GroupBits + 1

\* Three bytes make four digits.
DigitBits == (3 * ByteBits) \div 4

ASSUME EncodingAssumption ==
    /\ GroupBits \in Nat /\ MaxBytes \in Nat \ {0}
    /\ WordBits = GroupBits * MaxBytes + 1
    /\ ByteBits % 4 = 0 /\ 3 * DigitBits <= WordBits
    /\ DOMAIN Alphabet = 1 .. Pow2[DigitBits] /\ IsInjective(Alphabet)
    /\ Pad \notin ToSet(Alphabet)

Byte == 0 .. Pow2[ByteBits] - 1

EINVAL == 22

-----------------------------------------------------------------------------
(***************************************************************************)
(* ZigZag LEB128.                                                          *)
(***************************************************************************)

\* The sign in the lowest bit, as an unsigned word.
ZigZag(signed_value) == IF signed_value < 0 THEN -2 * signed_value - 1 ELSE 2 * signed_value

UnZigZag(value) == IF value % 2 = 0 THEN value \div 2 ELSE -((value + 1) \div 2)

\* Groups of value, from the lowest one on, with the highest bit set if another follows;
\* the last one has all that is left.
Leb(value, at_most) ==
    LET last == Min({at_most} \union {k \in 1 .. at_most : value < Pow2[GroupBits * k]})
        Shifted(k) == value \div Pow2[GroupBits * (k - 1)]
    IN  [k \in 1 .. last |-> IF k = last THEN Shifted(k)
                             ELSE (Shifted(k) % Pow2[GroupBits]) + Pow2[GroupBits]]

ZigZagEncode_AllGroups(signed_value) ==     \* A mutant: the last byte is cut to a group.
    LET bytes == Leb(ZigZag(signed_value), MaxBytes)
    IN  IF Len(bytes) < MaxBytes THEN bytes
        ELSE [bytes EXCEPT ![MaxBytes] = @ % Pow2[GroupBits]]

\* zig_zag_encode_i64: the bytes that it writes.
ZigZagEncode(signed_value) == Leb(ZigZag(signed_value), MaxBytes)

\* The bytes that belong to the number at the beginning of buffer: up to one without
\* the highest bit, or MaxBytes of them.
BytesRead(buffer) ==
    Min({MaxBytes} \union {k \in DOMAIN buffer : k < MaxBytes /\ buffer[k] < Pow2[GroupBits]})

\* zig_zag_decode_i64: the number; BytesRead is what is returned.
ZigZagDecode(buffer) ==
    LET last == BytesRead(buffer)
        Group(k) == IF k < MaxBytes THEN buffer[k] % Pow2[GroupBits] ELSE buffer[k]
    IN  UnZigZag(SumFunction([k \in 1 .. last |-> Group(k) * Pow2[GroupBits * (k - 1)]]))

-----------------------------------------------------------------------------
(***************************************************************************)
(* Base64.                                                                 *)
(***************************************************************************)
GetBase64(bits, shift) == Alphabet[((bits \div Pow2[shift]) % Pow2[DigitBits]) + 1]

\* A character that is no digit counts as the digit EINVAL, which the callers do not
\* look at.
FromBase64(char) ==
    LET digit == {i \in DOMAIN Alphabet : Alphabet[i] = char}
    IN  IF char = Pad THEN 0
        ELSE IF digit = {} THEN EINVAL % Pow2[DigitBits]
        ELSE (CHOOSE i \in digit : TRUE) - 1

EncodedLen(decoded_size) == ((decoded_size + 2) \div 3) * 4

DecodedLen(encoded_size) == (encoded_size \div 4) * 3

\* hdr_base64_encode_block, and with one or two bytes left hdr_base64_encode_block_pad, of
\* &input[i].
EncodeBlock(input, i) ==
    LET At(k) == IF i + k <= Len(input) THEN input[i + k] ELSE 0
        bits == At(1) * Pow2[2 * ByteBits] + At(2) * Pow2[ByteBits] + At(3)
    IN  [k \in 1 .. 4 |->
            IF i + k <= Len(input) + 1 THEN GetBase64(bits, (4 - k) * DigitBits) ELSE Pad]

Base64Encode_OnlyWhole(input) ==    \* A mutant: the bytes that are left over are lost.
    [k \in 1 .. (Len(input) \div 3) * 4 |->
        EncodeBlock(input, 3 * ((k - 1) \div 4))[((k - 1) % 4) + 1]]

\* hdr_base64_encode, into an array of EncodedLen characters.
Base64Encode(input) ==
    [k \in 1 .. EncodedLen(Len(input)) |->
        EncodeBlock(input, 3 * ((k - 1) \div 4))[((k - 1) % 4) + 1]]

\* hdr_base64_decode_block of &input[i].
DecodeBlock(input, i) ==
    LET Digit(k) == FromBase64(input[i + k])
        bits == Digit(1) * Pow2[3 * DigitBits] + Digit(2) * Pow2[2 * DigitBits]
                  + Digit(3) * Pow2[DigitBits] + Digit(4)
    IN  <<bits \div Pow2[2 * ByteBits], (bits \div Pow2[ByteBits]) % Pow2[ByteBits],
          bits % Pow2[ByteBits]>>

\* hdr_base64_decode refuses input of another length; what it decodes it into is
\* DecodedLen bytes long.
DecodesBase64(input) == Len(input) >= 4 /\ Len(input) % 4 = 0

Base64Decode(input) ==
    [k \in 1 .. DecodedLen(Len(input)) |->
        DecodeBlock(input, 4 * ((k - 1) \div 3))[((k - 1) % 3) + 1]]
=============================================================================
