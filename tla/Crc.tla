---------------------------------- MODULE Crc ----------------------------------
(***************************************************************************)
(* The checksum of the redundancy layer (rasta/c/rastacrc.c). A number is  *)
(* the set of the positions of its 1-bits: xor is the symmetric            *)
(* difference and no width is too large for TLC.                           *)
(***************************************************************************)
EXTENDS Integers, Sequences, FiniteSetsExt

Bytes == SUBSET (0..7)

LeftShift(a, n)  == {i + n : i \in a} \cap (0..63)      \* unsigned long
RightShift(a, n) == {i - n : i \in {j \in a : j >= n}}
Low(a, n)        == {i \in a : i < n}

\* Op over an interval of indices, from left to right. (Halving the interval
\* keeps TLC's recursion shallow.)
Fold(Op(_, _), crc, indices) ==
    LET fold[c \in SUBSET (0..63), i \in Nat, j \in Nat] ==
            LET m == (i + j) \div 2
            IN  CASE i > j -> c
                  [] i = j -> Op(c, i)
                  [] i < j -> fold[fold[c, i, m], m + 1, j]
    IN  fold[crc, 1, Cardinality(indices)]

\* The lower n bits, in reverse order.
Reflect(a, n) == {n - 1 - i : i \in Low(a, n)}

Options(width, polynom, initial, initial_optimized, reflected, final_xor) ==
    [width |-> width, polynom |-> polynom, initial |-> initial,
     initial_optimized |-> initial_optimized, refin |-> reflected,
     refout |-> reflected, final_xor |-> final_xor]

crc_init_opt_a == Options(0, {}, {}, {}, FALSE, {})     \* no checksum
crc_init_opt_b ==                                       \* 0xEE5B42FD
    Options(32, {31, 30, 29, 27, 26, 25, 22, 20, 19, 17, 16, 14, 9, 7, 6, 5, 4,
                 3, 2, 0}, {}, {}, FALSE, {})
crc_init_opt_c ==                                       \* 0x1EDC6F41, 0x2A26F826
    Options(32, {28, 27, 26, 25, 23, 22, 20, 19, 18, 14, 13, 11, 10, 9, 8, 6, 0},
            {29, 27, 25, 21, 18, 17, 15, 14, 13, 12, 11, 5, 2, 1},
            0..31, TRUE, 0..31)
crc_init_opt_d == Options(16, {12, 5, 0}, {}, {}, TRUE, {})      \* 0x1021
crc_init_opt_e == Options(16, {15, 2, 0}, {}, {}, TRUE, {})      \* 0x8005

CrcTypes == {"TYPE_A", "TYPE_B", "TYPE_C", "TYPE_D", "TYPE_E"}

CrcOptions ==
    [t \in CrcTypes |->
        CASE t = "TYPE_A" -> crc_init_opt_a [] t = "TYPE_B" -> crc_init_opt_b
          [] t = "TYPE_C" -> crc_init_opt_c [] t = "TYPE_D" -> crc_init_opt_d
          [] t = "TYPE_E" -> crc_init_opt_e]

\* One bit of the division: shift, and subtract the polynomial if a 1 falls out.
DivideBit(o, crc) ==
    LET shifted == LeftShift(crc, 1)
    IN  IF o.width - 1 \in crc THEN SymDiff(shifted, o.polynom) ELSE shifted

\* crc_generate_table: what eight steps of the division leave of each byte.
TableEntry(o, byte) ==
    LET start == LeftShift(IF o.refin THEN Reflect(byte, 8) ELSE byte, o.width - 8)
        crc   == Fold(LAMBDA c, step : DivideBit(o, c), start, 1..8)
    IN  IF o.refin THEN Reflect(crc, o.width) ELSE Low(crc, o.width)

Tables ==
    [t \in CrcTypes |->
        [byte \in Bytes |-> IF t = "TYPE_A" THEN {} ELSE TableEntry(CrcOptions[t], byte)]]

\* What makes the checksums detect errors: the table tells any two bytes apart in
\* the eight bits that the shift has emptied, and in all but the last eight.
ASSUME TablesTellApart ==
    \A t \in CrcTypes \ {"TYPE_A"} :
        LET o == CrcOptions[t]
            Differ(bits) ==
                Cardinality({Tables[t][b] \cap bits : b \in Bytes}) = Cardinality(Bytes)
        IN  /\ \A b \in Bytes : Tables[t][b] \subseteq 0..(o.width - 1)
            /\ Differ(IF o.refin THEN (o.width - 8)..(o.width - 1) ELSE 0..7)
            /\ Differ(8..(o.width - 1))

\* crc_calculate: what a byte of the data does to the register, and what all of
\* them do. With TYPE_A no byte of the result is used.
Registers == SUBSET (0..63)

Index(o, crc, byte) ==
    SymDiff(IF o.refin THEN Low(crc, 8) ELSE Low(RightShift(crc, o.width - 8), 8), byte)
NextCrc(t, byte) ==
    LET o == CrcOptions[t]
    IN  [crc \in Registers |->
            SymDiff(IF o.refin THEN RightShift(crc, 8) ELSE LeftShift(crc, 8),
                    Tables[t][Index(o, crc, byte)])]

(* Mutation of FirstCrc: the initial value of the division bit by bit. *)
FirstCrc_Plain(o) == IF o.refin THEN Reflect(o.initial, o.width) ELSE o.initial

FirstCrc(o) ==
    IF o.refin THEN Reflect(o.initial_optimized, o.width) ELSE o.initial_optimized

Calculate(t, data) ==
    LET o == CrcOptions[t]
        crc[k \in 0..Len(data)] ==
            IF k = 0 THEN FirstCrc(o) ELSE NextCrc(t, data[k])[crc[k - 1]]
        result == crc[Len(data)]
        out == IF o.refin # o.refout THEN Reflect(result, o.width) ELSE result
    IN  Low(SymDiff(out, o.final_xor), o.width)

-----------------------------------------------------------------------------
(* The definition of a cyclic redundancy check: the remainder of the        *)
(* message, followed by width zeros, on division by the polynomial, bit by  *)
(* bit and from the plain initial value, which the code keeps but does not  *)
(* use.                                                                     *)
Remainder(t, data) ==
    LET o == CrcOptions[t]
        \* The n-th bit on the line.
        Bit(n) == LET i == (n - 1) % 8
                  IN  n <= 8 * Len(data)
                      /\ (IF o.refin THEN i ELSE 7 - i) \in data[(n - 1) \div 8 + 1]
        Take(crc, n) ==
            LET next == LeftShift(crc, 1) \cup (IF Bit(n) THEN {0} ELSE {})
            IN  IF o.width \in next THEN SymDiff(next \ {o.width}, o.polynom) ELSE next
        crc == Fold(Take, o.initial, 1..(8 * Len(data) + o.width))
    IN  SymDiff(IF o.refout THEN Reflect(crc, o.width) ELSE crc, o.final_xor)
================================================================================
