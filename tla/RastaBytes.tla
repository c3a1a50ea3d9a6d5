------------------------------ MODULE RastaBytes -------------------------------
(***************************************************************************)
(* Numbers and sequences of bytes (rastautil.c, rastamodule.c), least      *)
(* significant byte first. A byte and a 32-bit number are sets of bit      *)
(* positions (Crc).                                                        *)
(***************************************************************************)
EXTENDS Crc

Byte(n)  == {i \in 0..7 : (n \div 2 ^ i) % 2 = 1}
Value(b) == MapThenSumSet(LAMBDA i : 2 ^ i, b)

ShortToBytes(n) == <<Byte(n), Byte(n \div 256)>>
BytesToShort(b) == Value(b[1]) + 256 * Value(b[2])

MaxShort == 65535
Shorts   == 0..MaxShort

\* Whatever the bytes are, they are read as a number, and a number as itself.
ASSUME BytesAreNumbers == \A b \in Bytes : Value(b) \in 0..255
ASSUME ShortsAreRead   == \A n \in Shorts : BytesToShort(ShortToBytes(n)) = n

LongToBytes(v)  == [k \in 1..4 |-> Low(RightShift(v, 8 * (k - 1)), 8)]
BytesToLong(b)  == UNION {LeftShift(b[k], 8 * (k - 1)) : k \in 1..4}

Bits(n) == {i \in 0..30 : (n \div 2 ^ i) % 2 = 1}

\* length bytes from the i-th on; what lies beyond the end reads as zeros.
Slice(bytes, i, length) ==
    [k \in 1..length |-> IF i + k - 1 \in DOMAIN bytes THEN bytes[i + k - 1] ELSE {}]

Zeros(n) == [k \in 1..n |-> {}]
================================================================================
