---------------------------- MODULE RastaPduProofs -----------------------------
(***************************************************************************)
(* Proofs about RastaPdu: what is read is what was written, byte by byte,  *)
(* for messages of any number and length; the checksums see every damage   *)
(* within two neighbouring bytes; and so two processes with the same       *)
(* settings understand each other, and nothing else.                       *)
(*                                                                         *)
(* tlapm cannot instantiate an induction theorem whose parameter is an     *)
(* operator. Induction is done here with sets: a set of numbers that has   *)
(* 0, and with each number the next, has all of them, since the least one  *)
(* missing would have one before it (LeastOf, InductionUpTo). A recursive  *)
(* function exists because each of its beginnings does.                    *)
(***************************************************************************)
EXTENDS RastaPdu, WellFoundedInduction, FiniteSetTheorems, TLAPS

-------------------------------------------------------------------------------
(* Induction: a set of numbers has a least element.                         *)

LEMMA LeastOf ==
  ASSUME NEW T \in SUBSET Nat, T # {}
  PROVE  \E x \in T : \A y \in T : x <= y
<1> DEFINE R == OpToRel(<, Nat)
<1>1. IsWellFoundedOn(R, Nat)
  BY NatLessThanWellFounded
<1>2. PICK x \in T : \A y \in T : ~(<<y, x>> \in R)
  <2> HIDE DEF R
  <2>1. QED
    BY <1>1, WFMin
<1>3. \A a, b \in Nat : a < b => <<a, b>> \in R
  BY DEF OpToRel
<1>4. QED
  <2> HIDE DEF R
  <2>1. \A y \in T : ~(y < x)
    BY <1>2, <1>3
  <2>2. QED
    BY <2>1

-------------------------------------------------------------------------------
(* Sequences and slices, whatever their elements are.                       *)

\* s is a sequence, whatever its elements are.
IsSequence(s) == \E S : s \in Seq(S)

LEMMA SequenceOf ==
  ASSUME NEW n \in Nat, NEW s, DOMAIN s = 1..n, s = [i \in 1..n |-> s[i]]
  PROVE  IsSequence(s) /\ Len(s) = n
<1>1. s \in [1..n -> {s[i] : i \in 1..n}]
  OBVIOUS
<1>2. s \in Seq({s[i] : i \in 1..n}) /\ Len(s) = n
  BY <1>1
<1>3. QED
  BY <1>2 DEF IsSequence

LEMMA SequenceFacts ==
  ASSUME NEW s, IsSequence(s)
  PROVE  /\ Len(s) \in Nat /\ DOMAIN s = 1..Len(s)
         /\ s = [i \in 1..Len(s) |-> s[i]]
<1>1. PICK S : s \in Seq(S)
  BY DEF IsSequence
<1>2. QED
  BY <1>1

LEMMA SequencesEqual ==
  ASSUME NEW s, NEW t, IsSequence(s), IsSequence(t), Len(s) = Len(t),
         \A i \in 1..Len(s) : s[i] = t[i]
  PROVE  s = t
<1>1. /\ s = [i \in 1..Len(s) |-> s[i]]
      /\ t = [i \in 1..Len(s) |-> t[i]]
  BY SequenceFacts
<1>2. [i \in 1..Len(s) |-> s[i]] = [i \in 1..Len(s) |-> t[i]]
  OBVIOUS
<1>3. QED
  BY <1>1, <1>2

LEMMA ConcatIs ==
  ASSUME NEW a, NEW b, IsSequence(a), IsSequence(b)
  PROVE  /\ IsSequence(a \o b) /\ Len(a \o b) = Len(a) + Len(b)
         /\ \A i \in 1..Len(a) : (a \o b)[i] = a[i]
         /\ \A i \in 1..Len(b) : (a \o b)[Len(a) + i] = b[i]
<1>1. PICK S, T : a \in Seq(S) /\ b \in Seq(T)
  BY DEF IsSequence
<1>2. a \in Seq(S \cup T) /\ b \in Seq(S \cup T)
  BY <1>1
<1>3. a \o b \in Seq(S \cup T)
  BY <1>2
<1>4. QED
  BY <1>2, <1>3 DEF IsSequence

LEMMA SliceIs ==
  ASSUME NEW a, NEW i, NEW n \in Nat
  PROVE  /\ IsSequence(Slice(a, i, n)) /\ Len(Slice(a, i, n)) = n
         /\ \A k \in 1..n : Slice(a, i, n)[k] = IF i + k - 1 \in DOMAIN a THEN a[i + k - 1] ELSE {}
<1> DEFINE s == Slice(a, i, n)
<1>1. DOMAIN s = 1..n /\ s = [k \in 1..n |-> s[k]]
      /\ \A k \in 1..n : s[k] = IF i + k - 1 \in DOMAIN a THEN a[i + k - 1] ELSE {}
  BY DEF Slice
<1>2. QED
  <2> HIDE DEF s
  <2>1. IsSequence(s) /\ Len(s) = n
    BY <1>1, SequenceOf
  <2>2. QED
    BY <2>1, <1>1 DEF s

LEMMA SliceInside ==
  ASSUME NEW a, NEW b, IsSequence(a), IsSequence(b), NEW i \in Nat \ {0}, NEW n \in Nat,
         i + n <= Len(a) + 1
  PROVE  Slice(a \o b, i, n) = Slice(a, i, n)
<1>1. /\ Len(a) \in Nat /\ DOMAIN a = 1..Len(a) /\ Len(b) \in Nat
      /\ DOMAIN (a \o b) = 1..(Len(a) + Len(b))
      /\ \A k \in 1..Len(a) : (a \o b)[k] = a[k]
  BY ConcatIs, SequenceFacts
<1>2. \A k \in 1..n : /\ i + k - 1 \in DOMAIN a /\ i + k - 1 \in DOMAIN (a \o b)
                      /\ (a \o b)[i + k - 1] = a[i + k - 1]
  BY <1>1
<1>3. QED
  BY <1>2 DEF Slice

LEMMA SliceAfter ==
  ASSUME NEW a, NEW b, IsSequence(a), IsSequence(b), NEW i \in Nat \ {0}, NEW n \in Nat
  PROVE  Slice(a \o b, Len(a) + i, n) = Slice(b, i, n)
<1>1. /\ Len(a) \in Nat /\ DOMAIN b = 1..Len(b) /\ Len(b) \in Nat
      /\ DOMAIN (a \o b) = 1..(Len(a) + Len(b))
      /\ \A k \in 1..Len(b) : (a \o b)[Len(a) + k] = b[k]
  BY ConcatIs, SequenceFacts
<1>2. \A k \in 1..n : Len(a) + i + k - 1 = Len(a) + (i + k - 1) /\ i + k - 1 \in Nat \ {0}
  BY <1>1
<1>3. \A k \in 1..n : /\ i + k - 1 \in DOMAIN b <=> Len(a) + i + k - 1 \in DOMAIN (a \o b)
                      /\ i + k - 1 \in DOMAIN b => (a \o b)[Len(a) + i + k - 1] = b[i + k - 1]
  BY <1>1, <1>2
<1>4. QED
  BY <1>3 DEF Slice

LEMMA SliceAll ==
  ASSUME NEW a, IsSequence(a)
  PROVE  Slice(a, 1, Len(a)) = a
<1>1. Len(a) \in Nat /\ DOMAIN a = 1..Len(a) /\ a = [i \in 1..Len(a) |-> a[i]]
  BY SequenceFacts
<1>2. \A k \in 1..Len(a) : 1 + k - 1 = k
  BY <1>1
<1>3. QED
  BY <1>1, <1>2 DEF Slice

LEMMA ShortBytes ==
  ASSUME NEW n
  PROVE  IsSequence(ShortToBytes(n)) /\ Len(ShortToBytes(n)) = 2
<1>1. ShortToBytes(n) \in Seq({Byte(n), Byte(n \div 256)})
  BY DEF ShortToBytes
<1>2. QED
  BY <1>1 DEF IsSequence, ShortToBytes

LEMMA LongBytes ==
  ASSUME NEW v
  PROVE  IsSequence(LongToBytes(v)) /\ Len(LongToBytes(v)) = 4
<1> DEFINE s == LongToBytes(v)
<1>1. DOMAIN s = 1..4 /\ s = [k \in 1..4 |-> s[k]]
  BY DEF LongToBytes
<1>2. QED
  <2> HIDE DEF s
  <2>1. QED BY <1>1, SequenceOf DEF s

LEMMA LongIsRead ==
  ASSUME NEW v \in SUBSET (0..31)
  PROVE  BytesToLong(LongToBytes(v)) = v
<1> DEFINE b == LongToBytes(v)
<1>1. \A k \in 1..4 : b[k] = {i \in {j - 8 * (k - 1) : j \in {l \in v : l >= 8 * (k - 1)}} : i < 8}
  BY DEF LongToBytes, Low, RightShift
<1>2. \A k \in 1..4 : \A i \in Int : i \in b[k] <=> i \in 0..7 /\ i + 8 * (k - 1) \in v
  BY <1>1
<1>3. BytesToLong(b) = UNION {LeftShift(b[k], 8 * (k - 1)) : k \in 1..4}
  BY DEF BytesToLong
<1>4. \A k \in 1..4 : LeftShift(b[k], 8 * (k - 1)) = {i + 8 * (k - 1) : i \in b[k]} \cap (0..63)
  BY DEF LeftShift
<1>5. \A k \in 1..4 : b[k] \subseteq 0..7
  BY <1>1
<1> HIDE DEF b
<1>6. \A k \in 1..4 : \A x \in LeftShift(b[k], 8 * (k - 1)) : x \in v
  BY <1>2, <1>4, <1>5
<1>7. ASSUME NEW x \in v
      PROVE  \E k \in 1..4 : x \in LeftShift(b[k], 8 * (k - 1))
  <2>1. PICK k \in 1..4 : 8 * (k - 1) <= x /\ x <= 8 * (k - 1) + 7
    <3>1. CASE x \in 0..7 BY <3>1
    <3>2. CASE x \in 8..15 BY <3>2
    <3>3. CASE x \in 16..23 BY <3>3
    <3>4. CASE x \in 24..31 BY <3>4
    <3>5. QED BY <3>1, <3>2, <3>3, <3>4
  <2>2. x - 8 * (k - 1) \in b[k]
    BY <1>2, <2>1
  <2>3. x \in 0..63 /\ x = (x - 8 * (k - 1)) + 8 * (k - 1)
    BY <2>1
  <2>4. QED BY <1>4, <2>2, <2>3
<1>8. QED
  BY <1>3, <1>6, <1>7 DEF b

LEMMA InductionUpTo ==
  ASSUME NEW n \in Nat, NEW T, 0 \in T, \A i \in 0..(n - 1) : i \in T => i + 1 \in T
  PROVE  \A i \in 0..n : i \in T
<1> DEFINE Left == {i \in 0..n : i \notin T}
<1>1. CASE Left = {}
  BY <1>1
<1>2. ASSUME Left # {}
      PROVE  FALSE
  <2>1. Left \in SUBSET Nat
    OBVIOUS
  <2>2. PICK x \in Left : \A y \in Left : x <= y
    <3> HIDE DEF Left
    <3>1. QED
      BY <1>2, <2>1, LeastOf
  <2>3. x \in 0..n /\ x # 0
    OBVIOUS
  <2>4. x - 1 \in 0..(n - 1) /\ x - 1 \notin Left /\ x - 1 + 1 = x
    <3>1. x - 1 \in 0..(n - 1) /\ ~(x <= x - 1) /\ x - 1 + 1 = x
      BY <2>3
    <3>2. QED
      <4> HIDE DEF Left
      <4>1. QED BY <2>2, <3>1
  <2>5. x - 1 \in 0..n /\ x - 1 \in T
    BY <2>4
  <2>6. QED
    BY <2>4, <2>5
<1>3. QED
  BY <1>1, <1>2

-------------------------------------------------------------------------------
(* Messages one after the other: FlattenSeq, and extractMessageData.        *)

\* The prefixes of the result of FlattenSeq.
IsFlatten(f, s) ==
    f = [i \in 1..Len(s) |-> IF i = 1 THEN s[i] ELSE f[i - 1] \o s[i]]

LEMMA FlattenExists ==
  ASSUME NEW s, IsSequence(s)
  PROVE  \E f : IsFlatten(f, s)
<1> DEFINE n == Len(s)
           Upto(f, m) == f = [i \in 1..m |-> IF i = 1 THEN s[i] ELSE f[i - 1] \o s[i]]
           T == {m \in 0..n : \E f : Upto(f, m)}
<1>1. n \in Nat
  BY SequenceFacts
<1>2. 0 \in T
  <2>1. Upto([i \in 1..0 |-> 0], 0)
    OBVIOUS
  <2>2. QED
    <3> HIDE DEF Upto
    <3>1. QED BY <1>1, <2>1
<1>3. ASSUME NEW m \in 0..(n - 1), m \in T
      PROVE  m + 1 \in T
  <2>1. PICK f : Upto(f, m)
    BY <1>3
  <2> DEFINE final == IF m + 1 = 1 THEN s[m + 1] ELSE f[m] \o s[m + 1]
             g == [i \in 1..(m + 1) |-> IF i <= m THEN f[i] ELSE final]
  <2>2. \A i \in 1..m : f[i] = IF i = 1 THEN s[i] ELSE f[i - 1] \o s[i]
    BY <2>1
  <2>3. \A i \in 1..(m + 1) : g[i] = IF i <= m THEN f[i] ELSE final
    OBVIOUS
  <2> HIDE DEF g, final
  <2>4. \A i \in 1..(m + 1) : i # 1 => g[i - 1] = f[i - 1]
    BY <1>1, <2>3
  <2>5. \A i \in 1..(m + 1) : g[i] = IF i = 1 THEN s[i] ELSE g[i - 1] \o s[i]
    <3> SUFFICES ASSUME NEW i \in 1..(m + 1)
                 PROVE  g[i] = IF i = 1 THEN s[i] ELSE g[i - 1] \o s[i]
      OBVIOUS
    <3>1. CASE i <= m
      <4>1. i \in 1..m /\ g[i] = f[i]
        BY <1>1, <2>3, <3>1
      <4>2. QED
        BY <2>2, <2>4, <4>1
    <3>2. CASE ~(i <= m)
      <4>1. i = m + 1 /\ g[i] = final /\ i - 1 = m
        BY <1>1, <2>3, <3>2
      <4>2. QED
        BY <2>4, <4>1 DEF final
    <3>3. QED
      BY <3>1, <3>2
  <2>6. g = [i \in 1..(m + 1) |-> g[i]]
    BY DEF g
  <2>7. Upto(g, m + 1)
    BY <2>5, <2>6
  <2>8. m + 1 \in 0..n
    BY <1>1
  <2>9. QED
    <3> HIDE DEF Upto
    <3>1. QED BY <2>7, <2>8
<1>4. n \in T
  <2> HIDE DEF T, n
  <2>1. \A i \in 0..n : i \in T
    BY <1>1, <1>2, <1>3, InductionUpTo
  <2>2. QED
    BY <1>1, <2>1
<1>5. QED
  BY <1>4 DEF IsFlatten

LEMMA FlattenIs ==
  ASSUME NEW s, IsSequence(s), Len(s) # 0
  PROVE  \E f : IsFlatten(f, s) /\ FlattenSeq(s) = f[Len(s)]
<1> DEFINE flatten[i \in 1..Len(s)] == IF i = 1 THEN s[i] ELSE flatten[i - 1] \o s[i]
<1>1. IsFlatten(flatten, s)
  <2>1. \E f : f = [i \in 1..Len(s) |-> IF i = 1 THEN s[i] ELSE f[i - 1] \o s[i]]
    BY FlattenExists DEF IsFlatten
  <2>2. flatten = CHOOSE f : f = [i \in 1..Len(s) |-> IF i = 1 THEN s[i] ELSE f[i - 1] \o s[i]]
    BY DEF flatten
  <2>3. QED
    <3> HIDE DEF flatten
    <3>1. QED
      BY ONLY <2>1, <2>2, Zenon DEF IsFlatten
<1>2. FlattenSeq(s) = flatten[Len(s)]
  BY DEF FlattenSeq
<1>3. QED
  <2> HIDE DEF flatten
  <2>1. QED
  BY <1>1, <1>2

LEMMA SeqIsSequence ==
  ASSUME NEW S, NEW s \in Seq(S)
  PROVE  IsSequence(s)
BY DEF IsSequence

LEMMA ConcatSeq ==
  ASSUME NEW S, NEW a \in Seq(S), NEW b \in Seq(S)
  PROVE  /\ a \o b \in Seq(S) /\ Len(a \o b) = Len(a) + Len(b)
         /\ Len(a) \in Nat /\ Len(b) \in Nat
         /\ \A k \in 1..Len(a) : (a \o b)[k] = a[k]
OBVIOUS

Begins(a, b) == Len(a) <= Len(b) /\ \A k \in 1..Len(a) : b[k] = a[k]

LEMMA PrefixOfConcat ==
  ASSUME NEW S, NEW a \in Seq(S), NEW b \in Seq(S), NEW c \in Seq(S), Begins(c, a)
  PROVE  Begins(c, a \o b)
<1>1. Len(c) \in Nat /\ Len(a) \in Nat /\ Len(b) \in Nat /\ Len(c) <= Len(a)
      /\ \A k \in 1..Len(c) : a[k] = c[k]
  BY DEF Begins
<1>2. \A k \in 1..Len(c) : k \in 1..Len(a)
  BY <1>1
<1>3. Len(a \o b) = Len(a) + Len(b) /\ \A k \in 1..Len(a) : (a \o b)[k] = a[k]
  BY ConcatSeq
<1>4. QED
  BY <1>1, <1>2, <1>3 DEF Begins

PrefixIs(S, f, j) ==
    f[j] \in Seq(S) /\ \A i \in 1..j : f[i] \in Seq(S) /\ Begins(f[i], f[j])

\* Each prefix of the result is followed by the next sequence.
LEMMA FlattenPrefixes ==
  ASSUME NEW S, NEW s \in Seq(Seq(S)), NEW f, IsFlatten(f, s)
  PROVE  \A j \in 1..Len(s) :
            PrefixIs(S, f, j) /\ f[j] = IF j = 1 THEN s[j] ELSE f[j - 1] \o s[j]
<1> DEFINE n == Len(s)
           T == {j \in 0..n : \A i \in 1..j : PrefixIs(S, f, i)}
<1>1. n \in Nat /\ \A j \in 1..n : s[j] \in Seq(S)
  OBVIOUS
<1>2. \A j \in 1..n : f[j] = IF j = 1 THEN s[j] ELSE f[j - 1] \o s[j]
  BY DEF IsFlatten
<1> HIDE DEF n
<1>3. 0 \in T
  BY <1>1
<1>4. ASSUME NEW j \in 0..(n - 1), j \in T
      PROVE  j + 1 \in T
  <2>1. j + 1 \in 0..n /\ j + 1 \in 1..n /\ j + 1 - 1 = j
    BY <1>1
  <2>2. \A i \in 1..j : PrefixIs(S, f, i)
    BY <1>4
  <2> HIDE DEF T
  <2>3. PrefixIs(S, f, j + 1)
    <3>1. CASE j = 0
      <4>1. f[1] \in Seq(S)
        BY <1>1, <1>2, <2>1, <3>1
      <4>2. Begins(f[1], f[1])
        BY <4>1 DEF Begins
      <4>3. \A i \in 1..1 : i = 1
        OBVIOUS
      <4>4. PrefixIs(S, f, 1)
        BY <4>1, <4>2, <4>3 DEF PrefixIs
      <4>5. QED
        BY <3>1, <4>4
    <3>2. CASE j # 0
      <4>1. j \in 1..j /\ j + 1 # 1
        BY <3>2
      <4>2. f[j] \in Seq(S) /\ \A i \in 1..j : f[i] \in Seq(S) /\ Begins(f[i], f[j])
        BY <2>2, <4>1 DEF PrefixIs
      <4>3. f[j + 1] = f[j] \o s[j + 1] /\ s[j + 1] \in Seq(S)
        <5>1. f[j + 1] = IF j + 1 = 1 THEN s[j + 1] ELSE f[j + 1 - 1] \o s[j + 1]
          BY <1>2, <2>1
        <5>2. QED
          BY <1>1, <2>1, <4>1, <5>1
      <4>4. f[j + 1] \in Seq(S)
        BY <4>2, <4>3, ConcatSeq
      <4>5. \A i \in 1..j : Begins(f[i], f[j + 1])
        BY <4>2, <4>3, PrefixOfConcat
      <4>6. Begins(f[j + 1], f[j + 1])
        BY <4>4 DEF Begins
      <4>7. \A i \in 1..(j + 1) : i \in 1..j \/ i = j + 1
        OBVIOUS
      <4>8. QED
        BY <4>2, <4>4, <4>5, <4>6, <4>7 DEF PrefixIs
    <3>3. QED
      BY <3>1, <3>2
  <2>4. \A i \in 1..(j + 1) : i \in 1..j \/ i = j + 1
    OBVIOUS
  <2>5. QED
    BY <2>1, <2>2, <2>3, <2>4 DEF T
<1>5. n \in 0..n
  BY <1>1
<1>6. n \in T
  <2> HIDE DEF T
  <2>1. \A i \in 0..n : i \in T
    BY <1>1, <1>3, <1>4, InductionUpTo
  <2>2. QED
    BY <1>5, <2>1
<1>7. QED
  BY <1>2, <1>6 DEF n

\* A message with its length before it.
Chunk(m) == ShortToBytes(Len(m)) \o m
Chunks(messages) == [j \in 1..Len(messages) |-> Chunk(messages[j])]

LEMMA ChunkIs ==
  ASSUME NEW m \in Seq(Bytes)
  PROVE  /\ Chunk(m) \in Seq(Bytes) /\ Len(Chunk(m)) = 2 + Len(m)
         /\ Slice(Chunk(m), 1, 2) = ShortToBytes(Len(m))
         /\ Slice(Chunk(m), 3, Len(m)) = m
<1> DEFINE b == ShortToBytes(Len(m))
<1>1. b \in Seq(Bytes) /\ Len(b) = 2
  BY DEF ShortToBytes, Byte, Bytes
<1> HIDE DEF b
<1>2. IsSequence(b) /\ IsSequence(m)
  BY <1>1, SeqIsSequence
<1>3. Len(m) \in Nat /\ Len(b) + 1 = 3 /\ 1 + 2 <= Len(b) + 1 /\ 1 \in Nat \ {0} /\ 2 \in Nat
  BY <1>1
<1>4. Slice(b \o m, 1, 2) = Slice(b, 1, 2)
  BY <1>2, <1>3, SliceInside
<1>5. Slice(b \o m, Len(b) + 1, Len(m)) = Slice(m, 1, Len(m))
  BY <1>2, <1>3, SliceAfter
<1>6. Slice(b, 1, 2) = b /\ Slice(m, 1, Len(m)) = m
  BY <1>1, <1>2, SliceAll
<1>7. b \o m \in Seq(Bytes) /\ Len(b \o m) = 2 + Len(m)
  <2>1. b \o m \in Seq(Bytes) /\ Len(b \o m) = Len(b) + Len(m)
    BY <1>1, ConcatSeq
  <2>2. QED
    BY <1>1, <2>1
<1>8. QED
  BY <1>3, <1>4, <1>5, <1>6, <1>7 DEF Chunk, b

\* Two sequences that agree up to the end of a slice.
LEMMA SliceAgrees ==
  ASSUME NEW a, NEW b, IsSequence(a), IsSequence(b), Len(b) <= Len(a),
         \A k \in 1..Len(b) : a[k] = b[k],
         NEW i \in Nat \ {0}, NEW n \in Nat, i + n <= Len(b) + 1
  PROVE  Slice(a, i, n) = Slice(b, i, n)
<1>1. Len(a) \in Nat /\ DOMAIN a = 1..Len(a) /\ Len(b) \in Nat /\ DOMAIN b = 1..Len(b)
  BY SequenceFacts
<1>2. \A k \in 1..n : /\ i + k - 1 \in DOMAIN a /\ i + k - 1 \in DOMAIN b
                      /\ a[i + k - 1] = b[i + k - 1]
  BY <1>1
<1>3. QED
  BY <1>2 DEF Slice

\* The j-th message, with its length before it, goes from at[j - 1] to at[j].
IsLayout(at, data, messages) ==
    /\ at \in [0..Len(messages) -> Nat] /\ at[0] = 0 /\ at[Len(messages)] = Len(data)
    /\ \A j \in 1..Len(messages) :
         /\ at[j] = at[j - 1] + 2 + Len(messages[j])
         /\ at[j] <= Len(data)
         /\ Slice(data, at[j - 1] + 1, 2) = ShortToBytes(Len(messages[j]))
         /\ Slice(data, at[j - 1] + 3, Len(messages[j])) = messages[j]

LEMMA ChunksAre ==
  ASSUME NEW messages \in Seq(Seq(Bytes))
  PROVE  /\ FlattenSeq(Chunks(messages)) \in Seq(Bytes)
         /\ \E at : IsLayout(at, FlattenSeq(Chunks(messages)), messages)
<1> DEFINE s == Chunks(messages)
           data == FlattenSeq(s)
           n == Len(messages)
<1>1. n \in Nat /\ \A j \in 1..n : messages[j] \in Seq(Bytes)
  OBVIOUS
<1>2. s \in Seq(Seq(Bytes)) /\ Len(s) = n /\ \A j \in 1..n : s[j] = Chunk(messages[j])
  BY <1>1, ChunkIs DEF Chunks
<1>3. CASE n = 0
  <2>1. data = s /\ data = <<>>
    <3> HIDE DEF s
    <3>1. QED BY <1>2, <1>3 DEF FlattenSeq
  <2>2. data \in Seq(Bytes) /\ Len(data) = 0
    BY <2>1
  <2> DEFINE at == [j \in 0..n |-> 0]
  <2>3. /\ at \in [0..n -> Nat] /\ at[0] = 0 /\ at[n] = 0
    BY <1>3
  <2>4. \A j \in 1..n : FALSE
    BY <1>3
  <2>5. QED
    <3> HIDE DEF data, at
    <3>1. QED BY <2>2, <2>3, <2>4 DEF data, IsLayout
<1>4. CASE n # 0
  <2>1. IsSequence(s) /\ Len(s) # 0
    <3> HIDE DEF s
    <3>1. QED BY <1>2, <1>4, SeqIsSequence
  <2>2. PICK f : IsFlatten(f, s) /\ data = f[n]
    <3> HIDE DEF s, data, n
    <3>1. QED BY <1>2, <2>1, FlattenIs DEF data
  <2> HIDE DEF s, data, n
  <2>3. \A j \in 1..n : PrefixIs(Bytes, f, j) /\ f[j] = IF j = 1 THEN s[j] ELSE f[j - 1] \o s[j]
    BY <1>2, <2>2, FlattenPrefixes
  <2>4. ASSUME NEW j \in 1..n
        PROVE  /\ f[j] \in Seq(Bytes) /\ Len(f[j]) \in Nat /\ IsSequence(f[j])
    <3>1. f[j] \in Seq(Bytes)
      BY <2>3 DEF PrefixIs
    <3>2. QED
      BY <3>1, SeqIsSequence
  <2>5. n \in 1..n
    BY <1>1, <1>4
  <2>6. data \in Seq(Bytes) /\ IsSequence(data) /\ PrefixIs(Bytes, f, n)
    BY <2>2, <2>3, <2>4, <2>5
  <2>7. \A j \in 1..n : Len(f[j]) <= Len(data) /\ \A k \in 1..Len(f[j]) : data[k] = f[j][k]
    BY <2>2, <2>6 DEF PrefixIs, Begins
  <2> DEFINE at == [j \in 0..n |-> IF j = 0 THEN 0 ELSE Len(f[j])]
  <2>8. at[0] = 0 /\ \A j \in 1..n : at[j] = Len(f[j])
    BY <1>1
  <2>9. at \in [0..n -> Nat] /\ at[n] = Len(data)
    BY <1>1, <2>2, <2>4, <2>5, <2>8
  <2> HIDE DEF at
  <2>10. ASSUME NEW j \in 1..n
         PROVE  /\ at[j] = at[j - 1] + 2 + Len(messages[j])
                /\ at[j] <= Len(data)
                /\ Slice(data, at[j - 1] + 1, 2) = ShortToBytes(Len(messages[j]))
                /\ Slice(data, at[j - 1] + 3, Len(messages[j])) = messages[j]
    <3> DEFINE m == messages[j]
               c == Chunk(m)
               b == at[j - 1]
    <3>1. m \in Seq(Bytes) /\ c = s[j] /\ Len(m) \in Nat
      BY <1>1, <1>2
    <3>2. /\ IsSequence(c) /\ Len(c) = 2 + Len(m)
          /\ Slice(c, 1, 2) = ShortToBytes(Len(m))
          /\ Slice(c, 3, Len(m)) = m
      <4> HIDE DEF m
      <4>1. QED BY <3>1, ChunkIs, SeqIsSequence
    <3>3. at[j] = Len(f[j]) /\ Len(f[j]) \in Nat /\ IsSequence(f[j])
          /\ Len(f[j]) <= Len(data) /\ \A k \in 1..Len(f[j]) : data[k] = f[j][k]
      BY <2>4, <2>7, <2>8
    <3>4. b \in Nat
      <4>1. j - 1 \in 0..n
        BY <1>1
      <4>2. QED BY <2>9, <4>1
    <3>5. (f[j] = c /\ b = 0) \/ \E p : IsSequence(p) /\ b = Len(p) /\ f[j] = p \o c
      <4>1. CASE j = 1
        <5>1. f[j] = s[j]
          BY <2>3, <4>1
        <5>2. b = 0
          BY <2>8, <4>1
        <5>3. QED BY <3>1, <5>1, <5>2
      <4>2. CASE j # 1
        <5>1. j - 1 \in 1..n
          BY <1>1, <4>2
        <5>2. b = Len(f[j - 1]) /\ IsSequence(f[j - 1])
          BY <2>4, <2>8, <5>1
        <5>3. f[j] = f[j - 1] \o s[j]
          BY <2>3, <4>2
        <5>4. QED BY <3>1, <5>2, <5>3
      <4>3. QED BY <4>1, <4>2
    <3> DEFINE g == f[j]
    <3> HIDE DEF m, c, b
    \* In the prefix the chunk is the end.
    <3>6. /\ Len(g) = b + Len(c)
          /\ \A i \in Nat \ {0} : \A k \in Nat : Slice(g, b + i, k) = Slice(c, i, k)
      <4>1. CASE f[j] = c /\ b = 0
        <5>1. Len(c) \in Nat
          BY <3>1, <3>2
        <5>2. \A i \in Nat : b + i = i
          BY <4>1
        <5>3. QED
          BY <4>1, <5>1, <5>2
      <4>2. ASSUME NEW p, IsSequence(p), b = Len(p), f[j] = p \o c
            PROVE  /\ Len(g) = b + Len(c)
                   /\ \A i \in Nat \ {0} : \A k \in Nat : Slice(g, b + i, k) = Slice(c, i, k)
        <5>1. Len(p \o c) = Len(p) + Len(c)
          BY <3>2, <4>2, ConcatIs
        <5>2. \A i \in Nat \ {0} : \A k \in Nat : Slice(p \o c, Len(p) + i, k) = Slice(c, i, k)
          BY <3>2, <4>2, SliceAfter
        <5>3. QED
          BY <4>2, <5>1, <5>2
      <4>3. QED
        BY <3>5, <4>1, <4>2
    <3> HIDE DEF g
    <3>7. Len(g) \in Nat /\ IsSequence(g) /\ Len(g) = b + 2 + Len(m) /\ Len(g) <= Len(data)
          /\ \A k \in 1..Len(g) : data[k] = g[k]
      <4>1. Len(g) = b + (2 + Len(m))
        BY <3>2, <3>6
      <4>2. Len(g) = b + 2 + Len(m)
        BY <3>1, <3>4, <4>1
      <4>3. QED
        BY <3>3, <4>2 DEF g
    <3>8. ASSUME NEW i \in Nat \ {0}, NEW k \in Nat, i + k <= Len(c) + 1
          PROVE  Slice(data, b + i, k) = Slice(c, i, k)
      <4>1. b + i \in Nat \ {0} /\ b + i + k <= Len(g) + 1
        BY <3>1, <3>2, <3>4, <3>7, <3>8
      <4>2. Slice(data, b + i, k) = Slice(g, b + i, k)
        BY <2>6, <3>7, <4>1, SliceAgrees
      <4>3. QED
        BY <3>6, <4>2
    <3>9. Slice(data, b + 1, 2) = ShortToBytes(Len(m))
      <4>1. 1 \in Nat \ {0} /\ 2 \in Nat /\ 1 + 2 <= Len(c) + 1
        BY <3>1, <3>2
      <4>2. QED
        BY <3>2, <3>8, <4>1
    <3>10. Slice(data, b + 3, Len(m)) = m
      <4>1. 3 \in Nat \ {0} /\ 3 + Len(m) <= Len(c) + 1
        BY <3>1, <3>2
      <4>2. QED
        BY <3>1, <3>2, <3>8, <4>1
    <3>11. at[j] = b + 2 + Len(m) /\ at[j] <= Len(data)
      BY <3>3, <3>7 DEF g
    <3>12. QED
      BY <3>9, <3>10, <3>11 DEF m, b
  <2>11. QED
    <3>1. IsLayout(at, data, messages)
      BY <2>8, <2>9, <2>10 DEF n, IsLayout
    <3>2. QED
      BY <2>6, <3>1 DEF data, s
<1>5. QED
  BY <1>3, <1>4

NextMessages(g, data, i) ==
    LET length == BytesToShort(Slice(data, i, 2))
    IN  IF i > Len(data) THEN <<>>
        ELSE <<Slice(data, i + 2, length)>>
                \o g[Min({i + 2 + length, Len(data) + 1})]

\* What extractMessageData reads from each place on.
IsReading(g, data) == g = [i \in 1..(Len(data) + 1) |-> NextMessages(g, data, i)]

LEMMA ShortIsNumber ==
  ASSUME NEW data \in Seq(Bytes), NEW i \in Nat \ {0}
  PROVE  BytesToShort(Slice(data, i, 2)) \in Nat
<1> DEFINE s == Slice(data, i, 2)
<1>1. s[1] \in Bytes /\ s[2] \in Bytes
  <2>1. \A k \in 1..2 : s[k] = IF i + k - 1 \in DOMAIN data THEN data[i + k - 1] ELSE {}
    BY DEF Slice
  <2>2. {} \in Bytes /\ \A k \in DOMAIN data : data[k] \in Bytes
    BY DEF Bytes
  <2> HIDE DEF s
  <2>3. QED
    BY <2>1, <2>2
<1> HIDE DEF s
<1> DEFINE v == Value(s[1])
           w == Value(s[2])
<1>2. v \in 0..255 /\ w \in 0..255
  BY <1>1, BytesAreNumbers
<1> HIDE DEF v, w
<1>3. v + 256 * w \in Nat
  BY <1>2
<1>4. BytesToShort(s) = v + 256 * w
  BY DEF BytesToShort, v, w
<1>5. QED
  BY <1>3, <1>4 DEF s

LEMMA MinOfTwo ==
  ASSUME NEW a \in Nat, NEW b \in Nat
  PROVE  Min({a, b}) = IF a <= b THEN a ELSE b
<1>1. CASE a <= b
  <2>1. a \in {a, b} /\ \A y \in {a, b} : a =< y
    BY <1>1
  <2>2. \A x \in {a, b} : (\A y \in {a, b} : x =< y) => x = a
    BY <1>1
  <2>3. QED
    BY <1>1, <2>1, <2>2 DEF Min
<1>2. CASE ~(a <= b)
  <2>1. b \in {a, b} /\ \A y \in {a, b} : b =< y
    BY <1>2
  <2>2. \A x \in {a, b} : (\A y \in {a, b} : x =< y) => x = b
    BY <1>2
  <2>3. QED
    BY <1>2, <2>1, <2>2 DEF Min
<1>3. QED
  BY <1>1, <1>2

LEMMA ReadingExists ==
  ASSUME NEW data \in Seq(Bytes)
  PROVE  \E g : IsReading(g, data)
<1> DEFINE n == Len(data)
           From(g, m) == g = [i \in (n + 1 - m)..(n + 1) |-> NextMessages(g, data, i)]
           T == {m \in 0..n : \E g : From(g, m)}
           Goes(i) == Min({i + 2 + BytesToShort(Slice(data, i, 2)), n + 1})
<1>1. n \in Nat
  OBVIOUS
<1>2. \A i \in 1..n : Goes(i) \in (i + 1)..(n + 1)
  <2>1. \A i \in 1..n : BytesToShort(Slice(data, i, 2)) \in Nat
    BY ShortIsNumber
  <2>2. \A i \in 1..n, l \in Nat : Min({i + 2 + l, n + 1}) \in (i + 1)..(n + 1)
    <3> SUFFICES ASSUME NEW i \in 1..n, NEW l \in Nat
                 PROVE  Min({i + 2 + l, n + 1}) \in (i + 1)..(n + 1)
      OBVIOUS
    <3> DEFINE a == i + 2 + l
               b == n + 1
    <3>1. a \in Nat /\ b \in Nat /\ a > i /\ b > i
      BY <1>1
    <3> HIDE DEF a
    <3>2. Min({a, b}) = IF a <= b THEN a ELSE b
      BY <3>1, MinOfTwo
    <3>3. QED
      BY <1>1, <3>1, <3>2 DEF a
  <2>3. QED
    BY <2>1, <2>2
<1>3. \A g, h : \A i \in 1..n : g[Goes(i)] = h[Goes(i)] => NextMessages(g, data, i) = NextMessages(h, data, i)
  BY DEF NextMessages
<1>4. \A g, h : \A i : ~(i \in 1..n) /\ i = n + 1 => NextMessages(g, data, i) = NextMessages(h, data, i)
  <2>1. n + 1 > n
    BY <1>1
  <2>2. QED
    BY <2>1 DEF NextMessages
<1> HIDE DEF n, Goes
<1>5. 0 \in T
  <2> DEFINE g == [i \in (n + 1 - 0)..(n + 1) |-> NextMessages(<<>>, data, i)]
  <2>1. \A i \in (n + 1 - 0)..(n + 1) : i = n + 1 /\ ~(i \in 1..n)
    BY <1>1
  <2>2. \A i \in (n + 1 - 0)..(n + 1) : NextMessages(<<>>, data, i) = NextMessages(g, data, i)
    <3> HIDE DEF g
    <3>1. QED BY <1>4, <2>1
  <2>3. From(g, 0)
    BY <2>2
  <2>4. QED
    <3> HIDE DEF From, g
    <3>1. QED BY <1>1, <2>3
<1>6. ASSUME NEW m \in 0..(n - 1), m \in T
      PROVE  m + 1 \in T
  <2>1. PICK g : From(g, m)
    BY <1>6
  <2> DEFINE lo == n + 1 - m
             j == n + 1 - (m + 1)
             h == [i \in j..(n + 1) |-> IF i >= lo THEN g[i] ELSE NextMessages(g, data, i)]
  <2>2. /\ lo \in 1..(n + 1) /\ j \in 1..n /\ lo = j + 1 /\ m + 1 \in 0..n
        /\ \A i \in j..(n + 1) : i = j \/ i \in lo..(n + 1)
        /\ \A i \in lo..(n + 1) : i \in j..(n + 1) /\ i >= lo
        /\ ~(j >= lo)
    BY <1>1
  <2>3. \A i \in lo..(n + 1) : g[i] = NextMessages(g, data, i)
    BY <2>1
  <2> HIDE DEF lo, j
  <2>4. \A i \in lo..(n + 1) : h[i] = g[i]
    BY <2>2
  <2>5. h[j] = NextMessages(g, data, j)
    <3>1. j \in j..(n + 1) /\ ~(j >= lo)
      BY <1>1, <2>2
    <3>2. QED
      BY <3>1
  <2>6. h = [i \in j..(n + 1) |-> h[i]]
    OBVIOUS
  <2> HIDE DEF h
  <2>7. \A i \in j..(n + 1) : NextMessages(g, data, i) = NextMessages(h, data, i)
    <3> SUFFICES ASSUME NEW i \in j..(n + 1)
                 PROVE  NextMessages(g, data, i) = NextMessages(h, data, i)
      OBVIOUS
    <3>1. CASE i \in 1..n
      <4>1. Goes(i) \in (i + 1)..(n + 1)
        BY <1>2, <3>1
      <4>2. Goes(i) \in lo..(n + 1)
        BY <1>1, <2>2, <4>1
      <4>3. g[Goes(i)] = h[Goes(i)]
        BY <2>4, <4>2
      <4>4. QED
        BY <1>3, <3>1, <4>3
    <3>2. CASE ~(i \in 1..n)
      <4>1. i = n + 1
        BY <1>1, <2>2, <3>2
      <4>2. QED
        BY <1>4, <3>2, <4>1
    <3>3. QED
      BY <3>1, <3>2
  <2>8. \A i \in j..(n + 1) : h[i] = NextMessages(h, data, i)
    <3> SUFFICES ASSUME NEW i \in j..(n + 1)
                 PROVE  h[i] = NextMessages(g, data, i)
      BY <2>7
    <3>1. QED
      BY <2>2, <2>3, <2>4, <2>5
  <2>9. h = [i \in j..(n + 1) |-> NextMessages(h, data, i)]
    BY <2>6, <2>8
  <2>10. From(h, m + 1)
    BY <2>9 DEF j
  <2>11. QED
    <3> HIDE DEF From
    <3>1. QED BY <2>2, <2>10
<1>7. n \in T
  <2> HIDE DEF T
  <2>1. \A i \in 0..n : i \in T
    BY <1>1, <1>5, <1>6, InductionUpTo
  <2>2. n \in 0..n
    BY <1>1
  <2>3. QED
    BY <2>1, <2>2
<1>8. PICK g : From(g, n)
  BY <1>7
<1>9. n + 1 - n = 1
  BY <1>1
<1>10. QED
  BY <1>8, <1>9 DEF IsReading, n

LEMMA MessagesInIs ==
  ASSUME NEW data \in Seq(Bytes)
  PROVE  \E g : IsReading(g, data) /\ MessagesIn(data) = g[1]
<1> DEFINE from[i \in 1..(Len(data) + 1)] ==
            LET length == BytesToShort(Slice(data, i, 2))
            IN  IF i > Len(data) THEN <<>>
                ELSE <<Slice(data, i + 2, length)>>
                        \o from[Min({i + 2 + length, Len(data) + 1})]
<1>1. IsReading(from, data)
  <2>1. \E g : g = [i \in 1..(Len(data) + 1) |->
            LET length == BytesToShort(Slice(data, i, 2))
            IN  IF i > Len(data) THEN <<>>
                ELSE <<Slice(data, i + 2, length)>>
                        \o g[Min({i + 2 + length, Len(data) + 1})]]
    BY ReadingExists DEF IsReading, NextMessages
  <2>2. from = CHOOSE g : g = [i \in 1..(Len(data) + 1) |->
            LET length == BytesToShort(Slice(data, i, 2))
            IN  IF i > Len(data) THEN <<>>
                ELSE <<Slice(data, i + 2, length)>>
                        \o g[Min({i + 2 + length, Len(data) + 1})]]
    BY DEF from
  <2>3. QED
    <3> HIDE DEF from
    <3>1. QED
      BY ONLY <2>1, <2>2, Zenon DEF IsReading, NextMessages
<1>2. MessagesIn(data) = from[1]
  BY DEF MessagesIn
<1>3. QED
  <2> HIDE DEF from
  <2>1. QED
    BY <1>1, <1>2

LEMMA MessagesAreRead ==
  ASSUME NEW messages \in Seq(Seq(Bytes)),
         \A j \in 1..Len(messages) : Len(messages[j]) \in Shorts
  PROVE  MessagesIn(FlattenSeq(Chunks(messages))) = messages
<1> DEFINE n == Len(messages)
           data == FlattenSeq(Chunks(messages))
<1>1. n \in Nat /\ \A j \in 1..n : Len(messages[j]) \in Nat
  OBVIOUS
<1> HIDE DEF data
<1>2. data \in Seq(Bytes) /\ \E at : IsLayout(at, data, messages)
  BY ChunksAre DEF data
<1>3. PICK at : IsLayout(at, data, messages)
  BY <1>2
<1>4. PICK g : IsReading(g, data) /\ MessagesIn(data) = g[1]
  BY <1>2, MessagesInIs
<1>5. Len(data) \in Nat
  BY <1>2
<1>6. \A i \in 1..(Len(data) + 1) : g[i] = NextMessages(g, data, i)
  BY <1>4 DEF IsReading
<1> DEFINE T == {k \in 0..n : g[at[n - k] + 1] = SubSeq(messages, n - k + 1, n)}
<1>7. 0 \in T
  <2>1. n - 0 = n /\ at[n] + 1 = Len(data) + 1 /\ Len(data) + 1 \in 1..(Len(data) + 1)
        /\ Len(data) + 1 > Len(data)
    BY <1>1, <1>3, <1>5 DEF IsLayout
  <2>2. g[Len(data) + 1] = <<>>
    BY <1>6, <2>1 DEF NextMessages
  <2>3. SubSeq(messages, n + 1, n) = <<>>
    BY <1>1
  <2>4. g[at[n - 0] + 1] = SubSeq(messages, n - 0 + 1, n)
    BY <2>1, <2>2, <2>3
  <2>5. QED
    BY <1>1, <2>4
<1>8. ASSUME NEW k \in 0..(n - 1), k \in T
      PROVE  k + 1 \in T
  <2> DEFINE j == n - k
             b == at[j - 1]
             m == messages[j]
             l == Len(m)
  <2>1. j \in 1..n /\ n - (k + 1) = j - 1 /\ j - 1 \in 0..n /\ k + 1 \in 0..n /\ j - 1 + 1 = j
    BY <1>1
  <2>2. g[at[j] + 1] = SubSeq(messages, j + 1, n)
    BY <1>8
  <2> HIDE DEF j, T
  <2>3. /\ at[j] = b + 2 + l /\ at[j] <= Len(data) /\ b \in Nat /\ l \in Shorts
        /\ Slice(data, b + 1, 2) = ShortToBytes(l)
        /\ Slice(data, b + 3, l) = m
    <3>1. l \in Shorts /\ b \in Nat
      BY <1>3, <2>1 DEF IsLayout
    <3>2. QED
      BY <1>3, <2>1, <3>1 DEF IsLayout
  <2> HIDE DEF b, m, l
  <2>4. BytesToShort(Slice(data, b + 1, 2)) = l
    BY <2>3, ShortsAreRead
  <2>5. b + 1 \in 1..(Len(data) + 1) /\ ~(b + 1 > Len(data)) /\ b + 1 + 2 = b + 3
        /\ b + 3 + l = at[j] + 1 /\ at[j] + 1 \in Nat /\ Len(data) + 1 \in Nat
        /\ at[j] + 1 <= Len(data) + 1
    <3>1. l \in Nat
      BY <1>1, <2>1 DEF l, m
    <3> DEFINE e == at[j]
               d == Len(data)
    <3>2. d \in Nat /\ e = b + 2 + l /\ e <= d /\ b \in Nat
      BY <1>5, <2>3
    <3> HIDE DEF e, d
    <3>3. b + 1 \in 1..(d + 1) /\ ~(b + 1 > d) /\ b + 1 + 2 = b + 3
          /\ b + 3 + l = e + 1 /\ e + 1 \in Nat /\ d + 1 \in Nat /\ e + 1 <= d + 1
      BY <3>1, <3>2
    <3>4. QED
      BY <3>3 DEF e, d
  <2>6. Min({at[j] + 1, Len(data) + 1}) = at[j] + 1
    BY <2>5, MinOfTwo
  <2>7. g[b + 1] = NextMessages(g, data, b + 1)
    BY <1>6, <2>5
  <2>8. NextMessages(g, data, b + 1) =
            <<Slice(data, b + 3, l)>> \o g[Min({b + 3 + l, Len(data) + 1})]
    BY <2>4, <2>5 DEF NextMessages
  <2>9. g[b + 1] = <<m>> \o SubSeq(messages, j + 1, n)
    BY <2>2, <2>3, <2>5, <2>6, <2>7, <2>8
  <2>10. <<m>> \o SubSeq(messages, j + 1, n) = SubSeq(messages, j, n)
    BY <1>1, <2>1 DEF m
  <2>11. QED
    BY <2>1, <2>9, <2>10 DEF T, b
<1>9. n \in T
  <2> HIDE DEF T
  <2>1. \A i \in 0..n : i \in T
    BY <1>1, <1>7, <1>8, InductionUpTo
  <2>2. n \in 0..n
    BY <1>1
  <2>3. QED
    BY <2>1, <2>2
<1>10. g[at[n - n] + 1] = SubSeq(messages, n - n + 1, n) /\ n - n = 0
  BY <1>1, <1>9
<1>11. g[1] = SubSeq(messages, 1, n)
  <2>1. at[0] + 1 = 1
    BY <1>3 DEF IsLayout
  <2>2. g[at[0] + 1] = SubSeq(messages, 0 + 1, n) /\ 0 + 1 = 1
    BY <1>10
  <2>3. QED
    BY <2>1, <2>2
<1>12. QED
  BY <1>1, <1>4, <1>11 DEF data

\* c is a, of length k, followed by b, of length l.
Extends(c, a, k, b, l) ==
    /\ IsSequence(c) /\ Len(c) = k + l
    /\ Slice(c, k + 1, l) = b
    /\ \A i \in Nat \ {0} : \A n \in Nat : i + n <= k + 1 => Slice(c, i, n) = Slice(a, i, n)

LEMMA FieldAfter ==
  ASSUME NEW a, NEW b, IsSequence(a), IsSequence(b)
  PROVE  Extends(a \o b, a, Len(a), b, Len(b))
<1>1. IsSequence(a \o b) /\ Len(a \o b) = Len(a) + Len(b)
  BY ConcatIs
<1>2. Len(b) \in Nat /\ 1 \in Nat \ {0}
  BY SequenceFacts
<1>3. Slice(a \o b, Len(a) + 1, Len(b)) = Slice(b, 1, Len(b))
  BY <1>2, SliceAfter
<1>4. \A i \in Nat \ {0} : \A n \in Nat :
                i + n <= Len(a) + 1 => Slice(a \o b, i, n) = Slice(a, i, n)
  BY SliceInside
<1>5. QED
  BY <1>1, <1>3, <1>4, SliceAll DEF Extends

\* With the lengths as numbers.
LEMMA FieldsAre ==
  ASSUME NEW a, NEW b, IsSequence(a), IsSequence(b), NEW k, NEW l, Len(a) = k, Len(b) = l
  PROVE  Extends(a \o b, a, k, b, l)
BY FieldAfter

LEMMA ShortOfFirst ==
  ASSUME NEW a, IsSequence(a), Len(a) >= 2
  PROVE  BytesToShort(a) = BytesToShort(Slice(a, 1, 2))
<1>1. DOMAIN a = 1..Len(a) /\ Len(a) \in Nat
  BY SequenceFacts
<1>2. Slice(a, 1, 2)[1] = a[1] /\ Slice(a, 1, 2)[2] = a[2]
  <2>1. \A k \in 1..2 : Slice(a, 1, 2)[k] = IF 1 + k - 1 \in DOMAIN a THEN a[1 + k - 1] ELSE {}
    BY DEF Slice
  <2>2. 1 \in 1..2 /\ 2 \in 1..2 /\ 1 + 1 - 1 = 1 /\ 1 + 2 - 1 = 2 /\ 1 \in DOMAIN a /\ 2 \in DOMAIN a
    BY <1>1
  <2>3. QED
    BY <2>1, <2>2
<1>3. QED
  BY <1>2 DEF BytesToShort

LEMMA ZerosAre ==
  ASSUME NEW n \in Nat
  PROVE  IsSequence(Zeros(n)) /\ Len(Zeros(n)) = n
<1> DEFINE s == Zeros(n)
<1>1. DOMAIN s = 1..n /\ s = [k \in 1..n |-> s[k]]
  BY DEF Zeros
<1>2. QED
  <2> HIDE DEF s
  <2>1. QED BY <1>1, SequenceOf DEF s

-------------------------------------------------------------------------------
(* The header of a PDU.                                                     *)

PduHeader(length, p) ==
    ShortToBytes(length) \o ShortToBytes(TypeCode[p.type])
        \o LongToBytes(p.receiver) \o LongToBytes(p.sender)
        \o LongToBytes(p.sn) \o LongToBytes(p.cs)
        \o LongToBytes(p.ts) \o LongToBytes(p.cts)

LEMMA HeaderIs ==
  ASSUME NEW length, NEW p
  PROVE  LET h == PduHeader(length, p)
         IN  /\ IsSequence(h) /\ Len(h) = HeaderLength
             /\ Slice(h, 1, 2) = ShortToBytes(length)
             /\ Slice(h, 3, 2) = ShortToBytes(TypeCode[p.type])
             /\ Slice(h, 5, 4) = LongToBytes(p.receiver)
             /\ Slice(h, 9, 4) = LongToBytes(p.sender)
             /\ Slice(h, 13, 4) = LongToBytes(p.sn)
             /\ Slice(h, 17, 4) = LongToBytes(p.cs)
             /\ Slice(h, 21, 4) = LongToBytes(p.ts)
             /\ Slice(h, 25, 4) = LongToBytes(p.cts)
<1> DEFINE s1 == ShortToBytes(length)
           s2 == ShortToBytes(TypeCode[p.type])
           l1 == LongToBytes(p.receiver)
           l2 == LongToBytes(p.sender)
           l3 == LongToBytes(p.sn)
           l4 == LongToBytes(p.cs)
           l5 == LongToBytes(p.ts)
           l6 == LongToBytes(p.cts)
           a2 == s1 \o s2
           a3 == a2 \o l1
           a4 == a3 \o l2
           a5 == a4 \o l3
           a6 == a5 \o l4
           a7 == a6 \o l5
           a8 == a7 \o l6
<1>1. /\ IsSequence(s1) /\ Len(s1) = 2 /\ IsSequence(s2) /\ Len(s2) = 2
      /\ IsSequence(l1) /\ Len(l1) = 4 /\ IsSequence(l2) /\ Len(l2) = 4
      /\ IsSequence(l3) /\ Len(l3) = 4 /\ IsSequence(l4) /\ Len(l4) = 4
      /\ IsSequence(l5) /\ Len(l5) = 4 /\ IsSequence(l6) /\ Len(l6) = 4
  BY ShortBytes, LongBytes
<1>2. PduHeader(length, p) = a8
  BY DEF PduHeader
<1> HIDE DEF s1, s2, l1, l2, l3, l4, l5, l6
<1>3. Slice(s1, 1, 2) = s1
  BY <1>1, SliceAll
<1>4. /\ IsSequence(a2) /\ Len(a2) = 4 /\ Slice(a2, 3, 2) = s2
      /\ \A i \in Nat \ {0} : \A n \in Nat : i + n <= 3 => Slice(a2, i, n) = Slice(s1, i, n)
  <2>1. Extends(a2, s1, 2, s2, 2)
    BY <1>1, FieldsAre
  <2>2. QED
    BY <2>1 DEF Extends
<1> HIDE DEF a2
<1>5. /\ IsSequence(a3) /\ Len(a3) = 8 /\ Slice(a3, 5, 4) = l1
      /\ \A i \in Nat \ {0} : \A n \in Nat : i + n <= 5 => Slice(a3, i, n) = Slice(a2, i, n)
  <2>1. Extends(a3, a2, 4, l1, 4)
    BY <1>1, <1>4, FieldsAre
  <2>2. QED
    BY <2>1 DEF Extends
<1> HIDE DEF a3
<1>6. /\ IsSequence(a4) /\ Len(a4) = 12 /\ Slice(a4, 9, 4) = l2
      /\ \A i \in Nat \ {0} : \A n \in Nat : i + n <= 9 => Slice(a4, i, n) = Slice(a3, i, n)
  <2>1. Extends(a4, a3, 8, l2, 4)
    BY <1>1, <1>5, FieldsAre
  <2>2. QED
    BY <2>1 DEF Extends
<1> HIDE DEF a4
<1>7. /\ IsSequence(a5) /\ Len(a5) = 16 /\ Slice(a5, 13, 4) = l3
      /\ \A i \in Nat \ {0} : \A n \in Nat : i + n <= 13 => Slice(a5, i, n) = Slice(a4, i, n)
  <2>1. Extends(a5, a4, 12, l3, 4)
    BY <1>1, <1>6, FieldsAre
  <2>2. QED
    BY <2>1 DEF Extends
<1> HIDE DEF a5
<1>8. /\ IsSequence(a6) /\ Len(a6) = 20 /\ Slice(a6, 17, 4) = l4
      /\ \A i \in Nat \ {0} : \A n \in Nat : i + n <= 17 => Slice(a6, i, n) = Slice(a5, i, n)
  <2>1. Extends(a6, a5, 16, l4, 4)
    BY <1>1, <1>7, FieldsAre
  <2>2. QED
    BY <2>1 DEF Extends
<1> HIDE DEF a6
<1>9. /\ IsSequence(a7) /\ Len(a7) = 24 /\ Slice(a7, 21, 4) = l5
      /\ \A i \in Nat \ {0} : \A n \in Nat : i + n <= 21 => Slice(a7, i, n) = Slice(a6, i, n)
  <2>1. Extends(a7, a6, 20, l5, 4)
    BY <1>1, <1>8, FieldsAre
  <2>2. QED
    BY <2>1 DEF Extends
<1> HIDE DEF a7
<1>10. /\ IsSequence(a8) /\ Len(a8) = 28 /\ Slice(a8, 25, 4) = l6
      /\ \A i \in Nat \ {0} : \A n \in Nat : i + n <= 25 => Slice(a8, i, n) = Slice(a7, i, n)
  <2>1. Extends(a8, a7, 24, l6, 4)
    BY <1>1, <1>9, FieldsAre
  <2>2. QED
    BY <2>1 DEF Extends
<1> HIDE DEF a8
<1>11. Slice(a8, 21, 4) = l5
  BY <1>9, <1>10
<1>12. Slice(a8, 17, 4) = l4
  BY <1>8, <1>9, <1>10
<1>13. Slice(a8, 13, 4) = l3
  BY <1>7, <1>8, <1>9, <1>10
<1>14. Slice(a8, 9, 4) = l2
  BY <1>6, <1>7, <1>8, <1>9, <1>10
<1>15. Slice(a8, 5, 4) = l1
  BY <1>5, <1>6, <1>7, <1>8, <1>9, <1>10
<1>16. Slice(a8, 3, 2) = s2
  BY <1>4, <1>5, <1>6, <1>7, <1>8, <1>9, <1>10
<1>17. Slice(a8, 1, 2) = s1
  BY <1>3, <1>4, <1>5, <1>6, <1>7, <1>8, <1>9, <1>10
<1>18. QED
  BY <1>2, <1>10, <1>11, <1>12, <1>13, <1>14, <1>15, <1>16, <1>17
     DEF HeaderLength, s1, s2, l1, l2, l3, l4, l5, l6

-------------------------------------------------------------------------------
(* The data of a PDU: reading is the inverse of writing.                    *)

\* Contents as they are written: the messages are bytes.
ContentsOfType(type) ==
    CASE type \in Handshake -> [version : [1..4 -> Bytes], send_max : Shorts]
      [] type = "DISCREQ"   -> [details : Shorts, reason : Shorts]
      [] type \in Carrying  ->
            [messages : {m \in Seq(Seq(Bytes)) : \A j \in 1..Len(m) : Len(m[j]) \in Shorts}]
      [] OTHER              -> [none : {0}]

LEMMA HandshakeRead ==
  ASSUME NEW type \in Handshake, NEW c \in [version : [1..4 -> Bytes], send_max : Shorts]
  PROVE  IsSequence(DataOf(type, c)) /\ ContentsOf(type, DataOf(type, c)) = c
<1> DEFINE v == c.version
           s == ShortToBytes(c.send_max)
           z == Zeros(8)
           data == (v \o s) \o z
<1>0. type # "DISCREQ" /\ type \notin Carrying
  BY DEF Carrying, Handshake
<1>1. DataOf(type, c) = data
  BY <1>0 DEF DataOf
<1>2. IsSequence(v) /\ Len(v) = 4
  <2>1. DOMAIN v = 1..4 /\ v = [k \in 1..4 |-> v[k]]
    OBVIOUS
  <2>2. QED
    <3> HIDE DEF v
    <3>1. QED BY <2>1, SequenceOf
<1>3. IsSequence(s) /\ Len(s) = 2 /\ IsSequence(z) /\ Len(z) = 8
  BY ShortBytes, ZerosAre
<1>4. BytesToShort(s) = c.send_max
  BY ShortsAreRead
<1> HIDE DEF s, z
<1>5. /\ IsSequence(v \o s) /\ Len(v \o s) = 6 /\ Slice(v \o s, 5, 2) = s
      /\ Slice(v \o s, 1, 4) = Slice(v, 1, 4)
  <2>1. Extends(v \o s, v, 4, s, 2)
    BY <1>2, <1>3, FieldsAre
  <2>2. QED
    BY <2>1 DEF Extends
<1>6. /\ IsSequence(data) /\ Len(data) = 14
      /\ Slice(data, 5, 2) = Slice(v \o s, 5, 2)
      /\ Slice(data, 1, 4) = Slice(v \o s, 1, 4)
  <2> DEFINE w == v \o s
  <2>1. IsSequence(w) /\ Len(w) = 6
    BY <1>5
  <2> HIDE DEF w
  <2>2. Extends(w \o z, w, 6, z, 8)
    BY <1>3, <2>1, FieldsAre
  <2>3. IsSequence(w \o z) /\ Len(w \o z) = 14 /\ Slice(w \o z, 5, 2) = Slice(w, 5, 2)
        /\ Slice(w \o z, 1, 4) = Slice(w, 1, 4)
    BY <2>2 DEF Extends
  <2>4. QED
    BY <2>3 DEF w
<1> HIDE DEF data
<1>7. Slice(data, 1, 14) = data
  BY <1>6, SliceAll
<1>8. Slice(v, 1, 4) = v
  BY <1>2, SliceAll
<1>9. ContentsOf(type, data) = [version |-> Slice(data, 1, 4), send_max |-> BytesToShort(Slice(data, 5, 2))]
  BY <1>0, <1>6, <1>7 DEF ContentsOf
<1>10. c = [version |-> v, send_max |-> c.send_max]
  OBVIOUS
<1>11. QED
  BY <1>1, <1>4, <1>5, <1>6, <1>8, <1>9, <1>10

LEMMA DisconnectionRead ==
  ASSUME NEW c \in [details : Shorts, reason : Shorts]
  PROVE  /\ IsSequence(DataOf("DISCREQ", c))
         /\ ContentsOf("DISCREQ", DataOf("DISCREQ", c)) = c
<1> DEFINE s == ShortToBytes(c.details)
           t == ShortToBytes(c.reason)
           data == s \o t
<1>0. "DISCREQ" \notin Handshake /\ "DISCREQ" \notin Carrying
  BY DEF Carrying, Handshake
<1>1. DataOf("DISCREQ", c) = data
  BY <1>0 DEF DataOf
<1>2. IsSequence(s) /\ Len(s) = 2 /\ IsSequence(t) /\ Len(t) = 2
  BY ShortBytes
<1>3. BytesToShort(s) = c.details /\ BytesToShort(t) = c.reason
  BY ShortsAreRead
<1> HIDE DEF s, t
<1>4. /\ IsSequence(data) /\ Len(data) = 4 /\ Slice(data, 3, 2) = t
      /\ Slice(data, 1, 2) = Slice(s, 1, 2)
  <2>1. Extends(data, s, 2, t, 2)
    BY <1>2, FieldsAre
  <2>2. QED
    BY <2>1 DEF Extends
<1> HIDE DEF data
<1>5. Slice(data, 1, 4) = data /\ Slice(s, 1, 2) = s
  BY <1>2, <1>4, SliceAll
<1>6. ContentsOf("DISCREQ", data) =
        [details |-> BytesToShort(Slice(data, 1, 2)), reason |-> BytesToShort(Slice(data, 3, 2))]
  BY <1>0, <1>4, <1>5 DEF ContentsOf
<1>7. c = [details |-> c.details, reason |-> c.reason]
  OBVIOUS
<1>8. QED
  BY <1>1, <1>3, <1>4, <1>5, <1>6, <1>7

LEMMA MessagesRead ==
  ASSUME NEW type \in Carrying, NEW c \in ContentsOfType(type)
  PROVE  IsSequence(DataOf(type, c)) /\ ContentsOf(type, DataOf(type, c)) = c
<1>1. type \notin Handshake /\ type # "DISCREQ"
  BY DEF Carrying, Handshake
<1> DEFINE m == c.messages
<1>2. c = [messages |-> m] /\ m \in Seq(Seq(Bytes)) /\ \A j \in 1..Len(m) : Len(m[j]) \in Shorts
  BY <1>1 DEF ContentsOfType
<1>3. DataOf(type, c) = FlattenSeq(Chunks(m))
  BY <1>1 DEF DataOf, Chunks, Chunk
<1>4. ContentsOf(type, DataOf(type, c)) = [messages |-> MessagesIn(DataOf(type, c))]
  BY <1>1 DEF ContentsOf
<1> HIDE DEF m
<1>5. MessagesIn(FlattenSeq(Chunks(m))) = m /\ IsSequence(FlattenSeq(Chunks(m)))
  BY <1>2, MessagesAreRead, ChunksAre, SeqIsSequence
<1>6. QED
  BY <1>2, <1>3, <1>4, <1>5

LEMMA ContentsAreRead ==
  ASSUME NEW type, NEW c \in ContentsOfType(type)
  PROVE  IsSequence(DataOf(type, c)) /\ ContentsOf(type, DataOf(type, c)) = c
<1>0. /\ type \in Handshake => type # "DISCREQ" /\ type \notin Carrying
      /\ type = "DISCREQ" => type \notin Carrying
  BY DEF Carrying, Handshake
<1>1. CASE type \in Handshake
  <2>1. c \in [version : [1..4 -> Bytes], send_max : Shorts]
    BY <1>0, <1>1 DEF ContentsOfType
  <2>2. QED
    BY <1>1, <2>1, HandshakeRead
<1>2. CASE type = "DISCREQ"
  <2>1. c \in [details : Shorts, reason : Shorts]
    BY <1>0, <1>2 DEF ContentsOfType
  <2>2. QED
    BY <1>2, <2>1, DisconnectionRead
<1>3. CASE type \in Carrying
  BY <1>3, MessagesRead
<1>4. CASE type \notin Handshake \cup {"DISCREQ"} \cup Carrying
  <2>1. DataOf(type, c) = <<>>
    BY <1>4 DEF DataOf
  <2>2. ContentsOf(type, <<>>) = [none |-> 0]
    BY <1>4 DEF ContentsOf
  <2>3. c = [none |-> 0]
    BY <1>4 DEF ContentsOfType
  <2>4. <<>> \in Seq(Bytes)
    OBVIOUS
  <2>5. QED
    BY <2>1, <2>2, <2>3, <2>4, SeqIsSequence
<1>5. QED
  BY <1>1, <1>2, <1>3, <1>4

-------------------------------------------------------------------------------
(* Telegrams: reading is the inverse of writing.                            *)

LEMMA PaddedIs ==
  ASSUME NEW name
  PROVE  Padded(name) \in [1..NameLength -> {Padded(name)[k] : k \in 1..NameLength}]
         /\ IsSequence(Padded(name)) /\ Len(Padded(name)) = NameLength
<1> DEFINE s == Padded(name)
<1>1. DOMAIN s = 1..NameLength /\ s = [k \in 1..NameLength |-> s[k]]
  BY DEF Padded
<1>2. NameLength \in Nat
  BY SizesAssumption
<1>3. QED
  <2> HIDE DEF s
  <2>1. IsSequence(s) /\ Len(s) = NameLength
    BY <1>1, <1>2, SequenceOf
  <2>2. s \in [1..NameLength -> {s[k] : k \in 1..NameLength}]
    BY <1>1
  <2>3. QED BY <2>1, <2>2 DEF s

\* The fields of a telegram in its bytes.
LEMMA TelegramFields ==
  ASSUME NEW sender, NEW receiver, NEW t, IsSequence(t.payload)
  PROVE  LET bytes == EncodeTelegram(sender, receiver, t)
         IN  /\ IsSequence(bytes) /\ Len(bytes) = FieldsLength + Len(t.payload)
             /\ FieldsLength \in Nat
             /\ bytes[1] = SCI_PROTOCOL_LS
             /\ Slice(bytes, 2, 2) = ShortToBytes(MessageType[t.type])
             /\ Slice(bytes, 4, NameLength) = Padded(sender)
             /\ Slice(bytes, 4 + NameLength, NameLength) = Padded(receiver)
             /\ Slice(bytes, FieldsLength + 1, Len(t.payload)) = t.payload
<1> DEFINE p == <<SCI_PROTOCOL_LS>>
           c == ShortToBytes(MessageType[t.type])
           s == Padded(sender)
           r == Padded(receiver)
           x == t.payload
           N == NameLength
           a == p \o c
           b == a \o s
           d == b \o r
           e == d \o x
<1>1. EncodeTelegram(sender, receiver, t) = e
  BY DEF EncodeTelegram
<1>2. IsSequence(p) /\ Len(p) = 1 /\ p[1] = SCI_PROTOCOL_LS
  <2>1. p \in Seq({SCI_PROTOCOL_LS}) /\ Len(p) = 1 /\ p[1] = SCI_PROTOCOL_LS
    OBVIOUS
  <2>2. QED BY <2>1, SeqIsSequence
<1>3. /\ IsSequence(c) /\ Len(c) = 2 /\ IsSequence(s) /\ Len(s) = N
      /\ IsSequence(r) /\ Len(r) = N /\ N \in Nat
      /\ IsSequence(x) /\ Len(x) \in Nat
  BY ShortBytes, PaddedIs, SizesAssumption, SequenceFacts
<1> HIDE DEF p, c, s, r, x, N
<1>4. /\ IsSequence(a) /\ Len(a) = 3 /\ Slice(a, 2, 2) = c /\ Slice(a, 1, 1) = Slice(p, 1, 1)
  <2>1. Extends(a, p, 1, c, 2)
    BY <1>2, <1>3, FieldsAre
  <2>2. QED
    BY <2>1 DEF Extends
<1> HIDE DEF a
<1>5. /\ IsSequence(b) /\ Len(b) = 3 + N /\ Slice(b, 4, N) = s
      /\ \A i \in Nat \ {0} : \A n \in Nat : i + n <= 4 => Slice(b, i, n) = Slice(a, i, n)
  <2>1. Extends(b, a, 3, s, N)
    BY <1>3, <1>4, FieldsAre
  <2>2. QED
    BY <2>1 DEF Extends
<1> HIDE DEF b
<1>6. /\ IsSequence(d) /\ Len(d) = 3 + N + N /\ Slice(d, 3 + N + 1, N) = r
      /\ \A i \in Nat \ {0} : \A n \in Nat : i + n <= 3 + N + 1 => Slice(d, i, n) = Slice(b, i, n)
  <2>1. Extends(d, b, 3 + N, r, N)
    BY <1>3, <1>5, FieldsAre
  <2>2. QED
    BY <2>1 DEF Extends
<1> HIDE DEF d
<1>7. /\ IsSequence(e) /\ Len(e) = 3 + N + N + Len(x) /\ Slice(e, 3 + N + N + 1, Len(x)) = x
      /\ \A i \in Nat \ {0} : \A n \in Nat : i + n <= 3 + N + N + 1 => Slice(e, i, n) = Slice(d, i, n)
  <2>1. Extends(e, d, 3 + N + N, x, Len(x))
    BY <1>3, <1>6, FieldsAre
  <2>2. QED
    BY <2>1 DEF Extends
<1> HIDE DEF e
<1>8. /\ 3 + N + 1 = 4 + N /\ FieldsLength = 3 + N + N /\ FieldsLength \in Nat
      /\ 4 + N \in Nat \ {0} /\ 4 + N + N <= 3 + N + N + 1
      /\ 4 + N <= 3 + N + 1 /\ 4 + N <= 3 + N + N + 1
  BY <1>3 DEF FieldsLength, N
<1>9. Slice(e, 4 + N, N) = r
  <2>1. Slice(e, 4 + N, N) = Slice(d, 4 + N, N)
    BY <1>3, <1>7, <1>8
  <2>2. QED BY <1>6, <1>8, <2>1
<1>10. Slice(e, 4, N) = s
  <2>1. 4 \in Nat \ {0} /\ 4 + N <= 3 + N + N + 1 /\ 4 + N <= 3 + N + 1
    BY <1>8
  <2>2. Slice(e, 4, N) = Slice(d, 4, N)
    BY <1>3, <1>7, <2>1
  <2>3. Slice(d, 4, N) = Slice(b, 4, N)
    BY <1>3, <1>6, <2>1
  <2>4. QED BY <1>5, <2>2, <2>3
<1>11. Slice(e, 2, 2) = c /\ Slice(e, 1, 1) = Slice(p, 1, 1)
  <2>1. /\ 2 \in Nat \ {0} /\ 2 \in Nat /\ 1 \in Nat \ {0} /\ 1 \in Nat
        /\ 2 + 2 <= 4 /\ 1 + 1 <= 4
        /\ 2 + 2 <= 3 + N + 1 /\ 1 + 1 <= 3 + N + 1
        /\ 2 + 2 <= 3 + N + N + 1 /\ 1 + 1 <= 3 + N + N + 1
    BY <1>3
  <2>2. Slice(e, 2, 2) = Slice(d, 2, 2) /\ Slice(e, 1, 1) = Slice(d, 1, 1)
    BY <1>7, <2>1
  <2>3. Slice(d, 2, 2) = Slice(b, 2, 2) /\ Slice(d, 1, 1) = Slice(b, 1, 1)
    BY <1>6, <2>1
  <2>4. Slice(b, 2, 2) = Slice(a, 2, 2) /\ Slice(b, 1, 1) = Slice(a, 1, 1)
    BY <1>5, <2>1
  <2>5. QED BY <1>4, <2>2, <2>3, <2>4
<1>12. e[1] = SCI_PROTOCOL_LS
  <2>1. DOMAIN e = 1..Len(e) /\ Len(e) >= 1 /\ DOMAIN p = 1..1
    BY <1>2, <1>3, <1>7, SequenceFacts
  <2>2. Slice(e, 1, 1)[1] = e[1] /\ Slice(p, 1, 1)[1] = p[1]
    <3>1. 1 \in DOMAIN e /\ 1 \in DOMAIN p
      BY <1>3, <1>7, <2>1
    <3>2. \A q : 1 \in DOMAIN q => Slice(q, 1, 1)[1] = q[1]
      BY DEF Slice
    <3>3. QED BY <3>1, <3>2
  <2>3. QED
    BY <1>2, <1>11, <2>2
<1>13. QED
  BY <1>1, <1>7, <1>8, <1>9, <1>10, <1>11, <1>12 DEF c, s, r, x, N

LEMMA SmallIsShort ==
    \A k \in Nat : k <= 10000 => k \in Shorts
<1>1. MaxShort \in Nat /\ 10000 <= MaxShort
  BY DEF MaxShort
<1>2. QED
  BY <1>1 DEF Shorts

LEMMA MessageTypesDiffer ==
    /\ \A x, y \in DOMAIN MessageType : MessageType[x] = MessageType[y] => x = y
    /\ \A x \in DOMAIN MessageType : MessageType[x] \in Shorts
<1>1. \A x, y \in DOMAIN MessageType : MessageType[x] = MessageType[y] => x = y
  BY DEF MessageType
<1>2. \A x \in DOMAIN MessageType : MessageType[x] \in Shorts
  BY SmallIsShort DEF MessageType
<1>3. QED
  BY <1>1, <1>2

LEMMA TelegramIsRead ==
  ASSUME NEW sender, NEW receiver, NEW types, types \subseteq DOMAIN MessageType,
         NEW t \in Telegrams(types)
  PROVE  ReadTelegram(sender, receiver, types, EncodeTelegram(sender, receiver, t)) = t
<1> DEFINE bytes == EncodeTelegram(sender, receiver, t)
           x == t.payload
<1>1. /\ t = [type |-> t.type, payload |-> x] /\ t.type \in types
      /\ x \in Seq(Bytes) /\ Len(x) <= MaxPayload /\ Parses(t)
  BY DEF Telegrams
<1>2. IsSequence(x) /\ Len(x) \in Nat
  BY <1>1, SeqIsSequence
<1>3. /\ IsSequence(bytes) /\ Len(bytes) = FieldsLength + Len(x)
      /\ FieldsLength \in Nat
      /\ bytes[1] = SCI_PROTOCOL_LS
      /\ Slice(bytes, 2, 2) = ShortToBytes(MessageType[t.type])
      /\ Slice(bytes, 4, NameLength) = Padded(sender)
      /\ Slice(bytes, 4 + NameLength, NameLength) = Padded(receiver)
      /\ Slice(bytes, FieldsLength + 1, Len(x)) = x
  BY <1>2, TelegramFields
<1> HIDE DEF bytes, x
<1>4. Decodable(bytes)
  <2>1. Len(bytes) \in FieldsLength..(FieldsLength + MaxPayload)
    BY <1>1, <1>2, <1>3, SizesAssumption
  <2>2. QED BY <1>3, <2>1 DEF Decodable
<1>5. ExpectedHeader(sender, receiver, bytes)
  BY <1>3 DEF ExpectedHeader
<1>6. Decoded(bytes) = t
  <2> DEFINE code == BytesToShort(Slice(bytes, 2, 2))
             found == {y \in DOMAIN MessageType : MessageType[y] = code}
  <2>1. code = MessageType[t.type] /\ t.type \in DOMAIN MessageType
    BY <1>1, <1>3, MessageTypesDiffer, ShortsAreRead
  <2>2. found = {t.type}
    BY <2>1, MessageTypesDiffer
  <2>3. (IF found = {} THEN "UNKNOWN" ELSE CHOOSE y \in found : TRUE) = t.type
    <3> HIDE DEF found
    <3>1. QED BY <2>2
  <2>4. Len(bytes) - FieldsLength = Len(x)
    BY <1>2, <1>3
  <2>5. Decoded(bytes) = [type |-> t.type, payload |-> Slice(bytes, FieldsLength + 1, Len(x))]
    BY <2>3, <2>4 DEF Decoded
  <2>6. QED
    BY <1>1, <1>3, <2>5
<1>7. QED
  BY <1>1, <1>4, <1>5, <1>6 DEF ReadTelegram, bytes

LEMMA SubSeqIs ==
  ASSUME NEW s, IsSequence(s), NEW m \in Nat \ {0}, NEW n \in Nat, m <= n + 1, n <= Len(s)
  PROVE  /\ IsSequence(SubSeq(s, m, n)) /\ Len(SubSeq(s, m, n)) = n - m + 1
         /\ \A i \in 1..(n - m + 1) : SubSeq(s, m, n)[i] = s[i + m - 1]
<1>1. PICK S : s \in Seq(S)
  BY DEF IsSequence
<1>2. SubSeq(s, m, n) \in Seq(S) /\ Len(SubSeq(s, m, n)) = n - m + 1
      /\ \A i \in 1..(n - m + 1) : SubSeq(s, m, n)[i] = s[i + m - 1]
  BY <1>1
<1>3. QED
  BY <1>2, SeqIsSequence

LEMMA SubSeqOfConcat ==
  ASSUME NEW a, NEW b, IsSequence(a), IsSequence(b)
  PROVE  /\ SubSeq(a \o b, 1, Len(a)) = a
         /\ SubSeq(a \o b, Len(a) + 1, Len(a) + Len(b)) = b
<1>1. /\ IsSequence(a \o b) /\ Len(a \o b) = Len(a) + Len(b)
      /\ \A i \in 1..Len(a) : (a \o b)[i] = a[i]
      /\ \A i \in 1..Len(b) : (a \o b)[Len(a) + i] = b[i]
      /\ Len(a) \in Nat /\ Len(b) \in Nat
  BY ConcatIs, SequenceFacts
<1> DEFINE c == a \o b
           k == Len(a)
           l == Len(b)
           x == SubSeq(c, 1, k)
           y == SubSeq(c, k + 1, k + l)
<1> HIDE DEF c, k, l
<1>2. IsSequence(x) /\ Len(x) = k - 1 + 1 /\ \A i \in 1..(k - 1 + 1) : x[i] = c[i + 1 - 1]
  <2>1. IsSequence(c) /\ 1 \in Nat \ {0} /\ k \in Nat /\ 1 <= k + 1 /\ k <= Len(c)
    BY <1>1 DEF c, k, l
  <2>2. IsSequence(SubSeq(c, 1, k)) /\ Len(SubSeq(c, 1, k)) = k - 1 + 1
        /\ \A i \in 1..(k - 1 + 1) : SubSeq(c, 1, k)[i] = c[i + 1 - 1]
    BY <2>1, SubSeqIs
  <2>3. QED BY <2>2
<1>3. IsSequence(y) /\ Len(y) = (k + l) - (k + 1) + 1
      /\ \A i \in 1..((k + l) - (k + 1) + 1) : y[i] = c[i + (k + 1) - 1]
  <2>1. IsSequence(c) /\ k + 1 \in Nat \ {0} /\ k + l \in Nat /\ k + 1 <= k + l + 1 /\ k + l <= Len(c)
    BY <1>1 DEF c, k, l
  <2>2. IsSequence(SubSeq(c, k + 1, k + l)) /\ Len(SubSeq(c, k + 1, k + l)) = (k + l) - (k + 1) + 1
        /\ \A i \in 1..((k + l) - (k + 1) + 1) : SubSeq(c, k + 1, k + l)[i] = c[i + (k + 1) - 1]
    <3> DEFINE f == k + 1
               t == k + l
    <3>1. f \in Nat \ {0} /\ t \in Nat /\ f <= t + 1 /\ t <= Len(c)
      BY <2>1
    <3> HIDE DEF f, t
    <3>2. IsSequence(SubSeq(c, f, t)) /\ Len(SubSeq(c, f, t)) = t - f + 1
          /\ \A i \in 1..(t - f + 1) : SubSeq(c, f, t)[i] = c[i + f - 1]
      BY <2>1, <3>1, SubSeqIs
    <3>3. QED BY <3>2 DEF f, t
  <2>3. QED BY <2>2
<1>4. x = a
  <2>1. k - 1 + 1 = k /\ \A i \in 1..k : i + 1 - 1 = i
    BY <1>1 DEF k
  <2>2. Len(x) = Len(a) /\ \A i \in 1..Len(x) : x[i] = a[i]
    BY <1>1, <1>2, <2>1 DEF c, k
  <2> HIDE DEF x
  <2>3. QED BY <1>2, <2>2, SequencesEqual
<1>5. y = b
  <2>1. (k + l) - (k + 1) + 1 = l /\ \A i \in 1..l : i + (k + 1) - 1 = k + i
    BY <1>1 DEF k, l
  <2>2. Len(y) = Len(b) /\ \A i \in 1..Len(y) : y[i] = b[i]
    BY <1>1, <1>3, <2>1 DEF c, k, l
  <2> HIDE DEF y
  <2>3. QED BY <1>3, <2>2, SequencesEqual
<1>6. QED
  BY <1>4, <1>5 DEF c, k, l

-------------------------------------------------------------------------------
(* The PDU, its safety code and its checksum.                               *)

\* The hash functions give as many bytes as they are asked for.
HashHasLength ==
    \A bytes, key : \A length \in {0, 8, 16} :
        Hash(bytes, key, length) \in Seq(Bytes) /\ Len(Hash(bytes, key, length)) = length

\* The settings that a datagram's length depends on.
ConfigOK(n) == handle[n].hash_length \in 0..2 /\ handle[n].crc_type \in CrcTypes

LEMMA AddedLengths ==
  ASSUME NEW n, ConfigOK(n)
  PROVE  /\ CodeLength(n) \in {0, 8, 16} /\ CrcLength(n) \in {0, 2, 4}
         /\ CodeLength(n) \in Nat /\ CrcLength(n) \in Nat
<1>1. CodeLength(n) \in {0, 8, 16}
  BY DEF ConfigOK, CodeLength
<1>2. \A t \in CrcTypes : CrcOptions[t].width \in {0, 16, 32}
  BY DEF CrcTypes, CrcOptions, crc_init_opt_a, crc_init_opt_b, crc_init_opt_c,
         crc_init_opt_d, crc_init_opt_e, Options
<1>3. CrcOptions[handle[n].crc_type].width \in {0, 16, 32}
  BY <1>2 DEF ConfigOK
<1>4. \A w \in {0, 16, 32} : w \div 8 \in {0, 2, 4}
  OBVIOUS
<1>5. CrcLength(n) \in {0, 2, 4}
  BY <1>3, <1>4 DEF CrcLength
<1>6. QED
  BY <1>1, <1>5

LEMMA CodeIs ==
  ASSUME HashHasLength, NEW n, ConfigOK(n), NEW bytes
  PROVE  IsSequence(SafetyCode(n, bytes)) /\ Len(SafetyCode(n, bytes)) = CodeLength(n)
BY AddedLengths, SeqIsSequence DEF HashHasLength, SafetyCode

LEMMA ChecksumIs ==
  ASSUME NEW n, ConfigOK(n), NEW bytes
  PROVE  IsSequence(Checksum(n, bytes)) /\ Len(Checksum(n, bytes)) = CrcLength(n)
BY AddedLengths, SliceIs DEF Checksum

\* A datagram is its PDU between the redundancy layer's header and checksum.
RedundancyHeader(n, number, pdu) ==
    ShortToBytes(8 + Len(pdu) + CrcLength(n)) \o Zeros(2) \o LongToBytes(Bits(number))

LEMMA DatagramIs ==
  ASSUME NEW n, ConfigOK(n), NEW number, NEW pdu, IsSequence(pdu)
  PROVE  LET h == RedundancyHeader(n, number, pdu)
             b == h \o pdu
             d == RedundancyPacketToBytes(n, number, pdu)
         IN  /\ IsSequence(h) /\ Len(h) = 8
             /\ IsSequence(b) /\ Len(b) = 8 + Len(pdu)
             /\ d = b \o Checksum(n, b)
             /\ IsSequence(d) /\ Len(d) = 8 + Len(pdu) + CrcLength(n)
<1> DEFINE s == ShortToBytes(8 + Len(pdu) + CrcLength(n))
           z == Zeros(2)
           l == LongToBytes(Bits(number))
           h == RedundancyHeader(n, number, pdu)
           b == h \o pdu
<1>1. IsSequence(s) /\ Len(s) = 2 /\ IsSequence(z) /\ Len(z) = 2 /\ IsSequence(l) /\ Len(l) = 4
  BY ShortBytes, ZerosAre, LongBytes
<1>2. h = (s \o z) \o l
  BY DEF RedundancyHeader
<1>3. RedundancyPacketToBytes(n, number, pdu) = b \o Checksum(n, b)
  BY DEF RedundancyPacketToBytes, RedundancyHeader
<1> HIDE DEF s, z, l
<1>4. IsSequence(s \o z) /\ Len(s \o z) = 4
  <2>1. Len(s \o z) = Len(s) + Len(z) /\ IsSequence(s \o z)
    BY <1>1, ConcatIs
  <2>2. QED BY <1>1, <2>1
<1>5. IsSequence(h) /\ Len(h) = 8
  <2> DEFINE w == s \o z
  <2>1. IsSequence(w) /\ Len(w) = 4
    BY <1>4
  <2> HIDE DEF w
  <2>2. IsSequence(w \o l) /\ Len(w \o l) = Len(w) + Len(l)
    BY <1>1, <2>1, ConcatIs
  <2>3. QED BY <1>1, <1>2, <2>1, <2>2 DEF w
<1> HIDE DEF h
<1>6. IsSequence(b) /\ Len(b) = 8 + Len(pdu)
  <2>1. IsSequence(b) /\ Len(b) = Len(h) + Len(pdu)
    BY <1>5, ConcatIs
  <2>2. QED BY <1>5, <2>1
<1>7. IsSequence(Checksum(n, b)) /\ Len(Checksum(n, b)) = CrcLength(n)
  BY ChecksumIs
<1>8. IsSequence(b \o Checksum(n, b)) /\ Len(b \o Checksum(n, b)) = Len(b) + CrcLength(n)
  BY <1>6, <1>7, ConcatIs
<1>9. Len(b \o Checksum(n, b)) = 8 + Len(pdu) + CrcLength(n)
  BY <1>6, <1>8
<1>10. QED
  BY <1>3, <1>5, <1>6, <1>8, <1>9 DEF h

\* One with the same checksum finds the PDU in it, and the checksum right.
LEMMA DatagramIsRead ==
  ASSUME NEW n, ConfigOK(n), NEW m, handle[m].crc_type = handle[n].crc_type,
         NEW number, NEW pdu, IsSequence(pdu)
  PROVE  LET d == RedundancyPacketToBytes(n, number, pdu)
         IN  InnerBytes(m, d) = pdu /\ ChecksumCorrect(m, d)
<1> DEFINE h == RedundancyHeader(n, number, pdu)
           b == h \o pdu
           d == RedundancyPacketToBytes(n, number, pdu)
           c == Checksum(n, b)
           k == CrcLength(n)
<1>1. /\ IsSequence(h) /\ Len(h) = 8
      /\ IsSequence(b) /\ Len(b) = 8 + Len(pdu)
      /\ d = b \o c
      /\ IsSequence(d) /\ Len(d) = 8 + Len(pdu) + k
  BY DatagramIs
<1>2. CrcLength(m) = k /\ \A x : Checksum(m, x) = Checksum(n, x)
  BY DEF CrcLength, Checksum
<1>3. k \in Nat /\ Len(pdu) \in Nat
  BY AddedLengths, SequenceFacts
<1>4. IsSequence(c) /\ Len(c) = k
  BY ChecksumIs
<1> HIDE DEF h, c, k, d
<1>5. Len(d) - CrcLength(m) = Len(b) /\ Len(b) = Len(h) + Len(pdu)
  BY <1>1, <1>2, <1>3
<1>6. SubSeq(d, 1, Len(b)) = b
  <2> HIDE DEF b
  <2>1. QED BY <1>1, <1>4, SubSeqOfConcat
<1>7. InnerBytes(m, d) = pdu
  <2>1. InnerBytes(m, d) = SubSeq(d, 9, Len(b))
    BY <1>5 DEF InnerBytes
  <2>2. SubSeq(d, 9, Len(b)) = SubSeq(b, 9, Len(b))
    <3> DEFINE x == SubSeq(d, 9, Len(b))
               y == SubSeq(b, 9, Len(b))
               e == Len(b)
    <3>1. e \in Nat /\ 9 \in Nat \ {0} /\ 9 <= e + 1 /\ e <= Len(d) /\ e <= Len(b)
      BY <1>1, <1>3
    <3> HIDE DEF b, e
    <3>2. /\ IsSequence(SubSeq(d, 9, e)) /\ Len(SubSeq(d, 9, e)) = e - 9 + 1
          /\ \A i \in 1..(e - 9 + 1) : SubSeq(d, 9, e)[i] = d[i + 9 - 1]
      BY <1>1, <3>1, SubSeqIs
    <3>3. /\ IsSequence(SubSeq(b, 9, e)) /\ Len(SubSeq(b, 9, e)) = e - 9 + 1
          /\ \A i \in 1..(e - 9 + 1) : SubSeq(b, 9, e)[i] = b[i + 9 - 1]
      BY <1>1, <3>1, SubSeqIs
    <3>4. \A i \in 1..Len(b) : d[i] = b[i]
      BY <1>1, <1>4, ConcatIs
    <3>5. \A i \in 1..(e - 9 + 1) : i + 9 - 1 \in 1..Len(b)
      BY <3>1 DEF e
    <3>6. \A i \in 1..(e - 9 + 1) : SubSeq(d, 9, e)[i] = SubSeq(b, 9, e)[i]
      BY <3>2, <3>3, <3>4, <3>5
    <3>7. SubSeq(d, 9, e) = SubSeq(b, 9, e)
      BY <3>2, <3>3, <3>6, SequencesEqual
    <3>8. QED BY <3>7 DEF e
  <2>3. SubSeq(b, Len(h) + 1, Len(h) + Len(pdu)) = pdu
    BY <1>1, SubSeqOfConcat
  <2>4. Len(h) + 1 = 9
    BY <1>1
  <2>5. QED
    BY <1>5, <2>1, <2>2, <2>3, <2>4
<1>8. ChecksumCorrect(m, d)
  <2>1. Slice(d, Len(b) + 1, k) = c
    <3>1. Extends(d, b, Len(b), c, k)
      BY <1>1, <1>4, FieldsAre
    <3>2. QED
      BY <3>1 DEF Extends
  <2>2. ChecksumCorrect(m, d) = (Slice(d, Len(b) + 1, k) = Checksum(m, SubSeq(d, 1, Len(b))))
    BY <1>2, <1>5 DEF ChecksumCorrect
  <2>3. Checksum(m, SubSeq(d, 1, Len(b))) = c
    BY <1>2, <1>6 DEF c
  <2>4. QED
    BY <2>1, <2>2, <2>3
<1>9. QED
  BY <1>7, <1>8 DEF d

LEMMA ModuleBytesAre ==
  ASSUME HashHasLength, NEW n, ConfigOK(n), NEW p, IsSequence(DataOf(p.type, p.contents))
  PROVE  LET data == DataOf(p.type, p.contents)
             h == PduHeader(HeaderLength + CodeLength(n) + Len(data), p)
             b == ModuleToBytes(n, p)
         IN  /\ b = (h \o data) \o SafetyCode(n, h \o data)
             /\ IsSequence(h \o data) /\ Len(h \o data) = HeaderLength + Len(data)
             /\ IsSequence(b) /\ Len(b) = HeaderLength + Len(data) + CodeLength(n)
<1> DEFINE data == DataOf(p.type, p.contents)
           h == PduHeader(HeaderLength + CodeLength(n) + Len(data), p)
           b == ModuleToBytes(n, p)
           c == SafetyCode(n, h \o data)
<1>1. b = (h \o data) \o c
  BY DEF ModuleToBytes, PduHeader
<1>2. IsSequence(h) /\ Len(h) = HeaderLength
  BY HeaderIs
<1>3. IsSequence(c) /\ Len(c) = CodeLength(n)
  BY CodeIs
<1> HIDE DEF h, data, c, b
<1>4. IsSequence(h \o data) /\ Len(h \o data) = HeaderLength + Len(data)
  BY <1>2, ConcatIs DEF data
<1>5. IsSequence(b) /\ Len(b) = HeaderLength + Len(data) + CodeLength(n)
  BY <1>1, <1>3, <1>4, ConcatIs
<1>6. QED
  BY <1>1, <1>4, <1>5 DEF h, data, c, b

LEMMA TypeCodesDiffer ==
    /\ \A t \in DOMAIN TypeCode : TypeOf(TypeCode[t]) = t
    /\ \A t \in DOMAIN TypeCode : TypeCode[t] \in Shorts
<1>1. \A t, u \in DOMAIN TypeCode : TypeCode[t] = TypeCode[u] => t = u
  BY DEF TypeCode
<1>2. \A t \in DOMAIN TypeCode : TypeCode[t] \in Shorts
  BY SmallIsShort DEF TypeCode
<1>3. ASSUME NEW t \in DOMAIN TypeCode
      PROVE  TypeOf(TypeCode[t]) = t
  <2> DEFINE found == {u \in DOMAIN TypeCode : TypeCode[u] = TypeCode[t]}
  <2>1. found = {t}
    BY <1>1
  <2>2. TypeOf(TypeCode[t]) = IF found = {} THEN "unknown" ELSE CHOOSE u \in found : TRUE
    BY DEF TypeOf
  <2> HIDE DEF found
  <2>3. QED
    BY <2>1, <2>2
<1>4. QED
  BY <1>2, <1>3

\* A packet with contents of its type.
WellFormed(p) ==
    /\ p.type \in DOMAIN TypeCode /\ p.contents \in ContentsOfType(p.type)
    /\ p = [type |-> p.type, receiver |-> p.receiver, sender |-> p.sender, sn |-> p.sn,
            cs |-> p.cs, ts |-> p.ts, cts |-> p.cts, contents |-> p.contents]
    /\ p.receiver \in SUBSET (0..31) /\ p.sender \in SUBSET (0..31)
    /\ p.sn \in SUBSET (0..31) /\ p.cs \in SUBSET (0..31)
    /\ p.ts \in SUBSET (0..31) /\ p.cts \in SUBSET (0..31)

\* A PDU, read with the same code length and key, is the packet it was made of:
\* bytesToRastaPacket is the inverse of rastaModuleToBytes, for all eight types
\* and any number of messages.
THEOREM PduIsRead ==
  ASSUME HashHasLength, NEW n, ConfigOK(n), NEW m,
         handle[m].hash_length = handle[n].hash_length, handle[m].key = handle[n].key,
         NEW p, WellFormed(p),
         HeaderLength + CodeLength(n) + Len(DataOf(p.type, p.contents)) \in Shorts
  PROVE  LET b == ModuleToBytes(n, p)
         IN  /\ ~TooShort(m, b) /\ DataLength(m, b) = Len(DataOf(p.type, p.contents))
             /\ CodeCorrect(m, b) /\ PacketOf(m, b) = p
<1> DEFINE data == DataOf(p.type, p.contents)
           total == HeaderLength + CodeLength(n) + Len(data)
           h == PduHeader(total, p)
           s == h \o data
           c == SafetyCode(n, s)
           b == ModuleToBytes(n, p)
           H == HeaderLength
           k == CodeLength(n)
           L == Len(data)
<1>1. /\ IsSequence(data) /\ ContentsOf(p.type, data) = p.contents
      /\ L \in Nat
  BY ContentsAreRead, SequenceFacts DEF WellFormed
<1>2. /\ b = s \o c /\ IsSequence(s) /\ Len(s) = H + L
      /\ IsSequence(b) /\ Len(b) = H + L + k
  BY <1>1, ModuleBytesAre
<1>3. IsSequence(c) /\ Len(c) = k /\ k \in Nat
  BY CodeIs, AddedLengths
<1>4. CodeLength(m) = k /\ \A x : SafetyCode(m, x) = SafetyCode(n, x)
  BY DEF CodeLength, SafetyCode
<1>5. /\ IsSequence(h) /\ Len(h) = H
      /\ Slice(h, 1, 2) = ShortToBytes(total)
      /\ Slice(h, 3, 2) = ShortToBytes(TypeCode[p.type])
      /\ Slice(h, 5, 4) = LongToBytes(p.receiver)
      /\ Slice(h, 9, 4) = LongToBytes(p.sender)
      /\ Slice(h, 13, 4) = LongToBytes(p.sn)
      /\ Slice(h, 17, 4) = LongToBytes(p.cs)
      /\ Slice(h, 21, 4) = LongToBytes(p.ts)
      /\ Slice(h, 25, 4) = LongToBytes(p.cts)
  BY HeaderIs
<1>6. H = 28
  BY DEF HeaderLength
<1>7. /\ BytesToShort(ShortToBytes(total)) = total
      /\ BytesToShort(ShortToBytes(TypeCode[p.type])) = TypeCode[p.type]
      /\ total = H + k + L
  BY ShortsAreRead, TypeCodesDiffer DEF WellFormed
<1>8. ~TooShort(m, b)
  BY <1>1, <1>2, <1>3, <1>4, <1>6 DEF TooShort
<1> HIDE DEF c, h, data, total, b, H, k, L
\* What is in the header, is in the PDU.
<1>9. ASSUME NEW i \in Nat \ {0}, NEW l \in Nat, i + l <= 29
      PROVE  Slice(b, i, l) = Slice(h, i, l)
  <2>1. Slice(s, i, l) = Slice(h, i, l)
    <3>1. i + l <= Len(h) + 1
      BY <1>5, <1>6, <1>9
    <3>2. QED BY <1>1, <1>5, <3>1, SliceInside
  <2>2. Slice(b, i, l) = Slice(s, i, l)
    <3>1. i + l <= Len(s) + 1
      BY <1>1, <1>2, <1>6, <1>9
    <3> HIDE DEF s
    <3>2. QED BY <1>2, <1>3, <3>1, SliceInside
  <2>3. QED BY <2>1, <2>2
<1>10. DataLength(m, b) = L
  <2>1. Slice(b, 1, 2) = ShortToBytes(total)
    BY <1>5, <1>9
  <2>2. BytesToShort(b) = total
    <3>1. Len(b) >= 2
      BY <1>1, <1>2, <1>3, <1>6
    <3>2. QED BY <1>2, <1>7, <2>1, <3>1, ShortOfFirst
  <2>3. DataLength(m, b) = total - H - k
    BY <1>4, <2>2 DEF DataLength, H
  <2>4. QED
    BY <1>1, <1>3, <1>6, <1>7, <2>3
<1>11. Slice(b, 1, H + L) = s
  <2> HIDE DEF s
  <2>1. Slice(b, 1, Len(s)) = Slice(s, 1, Len(s))
    <3>1. 1 \in Nat \ {0} /\ Len(s) \in Nat /\ 1 + Len(s) <= Len(s) + 1
      BY <1>2, SequenceFacts
    <3>2. QED BY <1>2, <1>3, <3>1, SliceInside
  <2>2. QED BY <1>2, <2>1, SliceAll
<1>12. CodeCorrect(m, b)
  <2>1. Slice(b, H + L + 1, k) = c
    <3> HIDE DEF s
    <3>1. Extends(b, s, H + L, c, k)
      BY <1>2, <1>3, FieldsAre
    <3>2. QED BY <3>1 DEF Extends
  <2>2. CodeCorrect(m, b) = (Slice(b, H + L + 1, k) = SafetyCode(m, Slice(b, 1, H + L)))
    BY <1>4, <1>10 DEF CodeCorrect, H
  <2>3. QED
    BY <1>4, <1>11, <2>1, <2>2 DEF c
<1>13. Slice(b, H + 1, L) = data
  <2>1. Slice(s, H + 1, L) = data
    <3>1. Extends(s, h, H, data, L)
      BY <1>1, <1>5, FieldsAre DEF L
    <3>2. QED BY <3>1 DEF Extends
  <2>2. Slice(b, H + 1, L) = Slice(s, H + 1, L)
    <3>1. H + 1 \in Nat \ {0} /\ H + 1 + L <= Len(s) + 1
      BY <1>1, <1>2, <1>6
    <3> HIDE DEF s
    <3>2. QED BY <1>1, <1>2, <1>3, <3>1, SliceInside
  <2>3. QED BY <2>1, <2>2
<1>14. /\ Slice(b, 3, 2) = Slice(h, 3, 2) /\ Slice(b, 5, 4) = Slice(h, 5, 4)
       /\ Slice(b, 9, 4) = Slice(h, 9, 4) /\ Slice(b, 13, 4) = Slice(h, 13, 4)
       /\ Slice(b, 17, 4) = Slice(h, 17, 4) /\ Slice(b, 21, 4) = Slice(h, 21, 4)
       /\ Slice(b, 25, 4) = Slice(h, 25, 4)
  BY <1>9
<1>15. PacketOf(m, b) = p
  <2>1. TypeOf(BytesToShort(Slice(b, 3, 2))) = p.type
    <3>1. p.type \in DOMAIN TypeCode
      BY DEF WellFormed
    <3>2. TypeOf(TypeCode[p.type]) = p.type
      BY <3>1, TypeCodesDiffer
    <3>3. QED BY <1>5, <1>7, <1>14, <3>2
  <2>2. /\ BytesToLong(Slice(b, 5, 4)) = p.receiver
        /\ BytesToLong(Slice(b, 9, 4)) = p.sender
        /\ BytesToLong(Slice(b, 13, 4)) = p.sn
        /\ BytesToLong(Slice(b, 17, 4)) = p.cs
        /\ BytesToLong(Slice(b, 21, 4)) = p.ts
        /\ BytesToLong(Slice(b, 25, 4)) = p.cts
    <3>1. /\ p.receiver \in SUBSET (0..31) /\ p.sender \in SUBSET (0..31)
          /\ p.sn \in SUBSET (0..31) /\ p.cs \in SUBSET (0..31)
          /\ p.ts \in SUBSET (0..31) /\ p.cts \in SUBSET (0..31)
      BY DEF WellFormed
    <3>2. QED BY <1>5, <1>14, <3>1, LongIsRead
  <2>3. ContentsOf(p.type, Slice(b, HeaderLength + 1, DataLength(m, b))) = p.contents
    BY <1>1, <1>10, <1>13 DEF H
  <2>4. QED
    BY <2>1, <2>2, <2>3 DEF PacketOf, WellFormed
<1>16. QED
  BY <1>8, <1>10, <1>12, <1>15 DEF b, L, data

-------------------------------------------------------------------------------
(* A packet as it is sent and taken.                                        *)

LEMMA PeerFacts ==
  ASSUME NEW n \in Nodes
  PROVE  Peer(n) \in Nodes /\ Peer(n) # n /\ Peer(Peer(n)) = n
BY NodesAssumption DEF Nodes, Peer

LEMMA ByteIs ==
    \A k : Byte(k) \in Bytes
BY DEF Byte, Bytes

LEMMA TakenAreTypes ==
  ASSUME NEW n
  PROVE  Taken(n) \subseteq DOMAIN MessageType
BY DEF Taken, MessageType

LEMMA NamesAreBytes ==
  ASSUME NEW n
  PROVE  Padded(SciName(n)) \in Seq(Bytes)
<1>1. SciName(n) \in Seq(Bytes) /\ PaddingChar \in Bytes
  BY ByteIs DEF SciName, PaddingChar
<1> DEFINE s == SciName(n)
<1> HIDE DEF s
<1>2. NameLength \in Nat
  BY SizesAssumption
<1>3. \A k \in 1..NameLength : (IF k <= Len(s) THEN s[k] ELSE PaddingChar) \in Bytes
  <2>1. s \in Seq(Bytes)
    BY <1>1 DEF s
  <2>2. \A k \in 1..NameLength : k <= Len(s) => k \in 1..Len(s)
    BY <1>2, <2>1
  <2>3. \A k \in 1..Len(s) : s[k] \in Bytes
    BY <2>1
  <2>4. QED BY <1>1, <2>2, <2>3
<1>4. Padded(s) \in [1..NameLength -> Bytes]
  BY <1>3 DEF Padded
<1>5. QED
  BY <1>2, <1>4 DEF s

LEMMA EncodedTelegram ==
  ASSUME NEW n, NEW m, NEW types, NEW t \in Telegrams(types)
  PROVE  LET e == EncodeTelegram(SciName(n), SciName(m), t)
         IN  e \in Seq(Bytes) /\ Len(e) \in Shorts
<1> DEFINE p == <<SCI_PROTOCOL_LS>>
           c == ShortToBytes(MessageType[t.type])
           s == Padded(SciName(n))
           r == Padded(SciName(m))
           x == t.payload
           e == EncodeTelegram(SciName(n), SciName(m), t)
<1>1. x \in Seq(Bytes) /\ Len(x) <= MaxPayload
  BY DEF Telegrams
<1>2. p \in Seq(Bytes) /\ c \in Seq(Bytes)
  BY ByteIs DEF SCI_PROTOCOL_LS, ShortToBytes
<1>3. s \in Seq(Bytes) /\ r \in Seq(Bytes)
  BY NamesAreBytes
<1>4. e = p \o c \o s \o r \o x
  BY DEF EncodeTelegram
<1>5. Len(e) = FieldsLength + Len(x)
  BY <1>1, TelegramFields, SeqIsSequence
<1> HIDE DEF p, c, s, r, x, e
<1>6. e \in Seq(Bytes)
  BY <1>1, <1>2, <1>3, <1>4
<1>7. Len(x) \in Nat
  BY <1>1
<1>8. Len(e) \in 0..(3 + 2 * NameLength + MaxPayload)
  BY <1>1, <1>5, <1>7, SizesAssumption DEF FieldsLength
<1>9. MaxShort \in Nat
  BY DEF MaxShort
<1>10. Len(e) \in Shorts
  BY <1>8, <1>9, SizesAssumption DEF Shorts
<1>11. QED
  BY <1>6, <1>10 DEF e

\* A packet with its messages taken as bytes, and read as telegrams again.
LEMMA PacketWithBytes ==
  ASSUME NEW n \in Nodes, NEW p, p.type \in Carrying,
         p = [type |-> p.type, receiver |-> p.receiver, sender |-> p.sender, sn |-> p.sn,
              cs |-> p.cs, ts |-> p.ts, cts |-> p.cts, contents |-> p.contents],
         p.contents \in [messages : Seq(Telegrams(Taken(Peer(n))))]
  PROVE  LET b == WithBytes(n, p)
         IN  /\ b = [type |-> p.type, receiver |-> p.receiver, sender |-> p.sender, sn |-> p.sn,
                     cs |-> p.cs, ts |-> p.ts, cts |-> p.cts, contents |-> b.contents]
             /\ b.contents \in ContentsOfType(p.type)
             /\ WithTelegrams(Peer(n), b) = p
<1> DEFINE m == p.contents.messages
           T == Telegrams(Taken(Peer(n)))
           E(t) == EncodeTelegram(SciName(n), SciName(Peer(n)), t)
           R(y) == ReadTelegram(SciName(n), SciName(Peer(n)), Taken(Peer(n)), y)
           e == [i \in DOMAIN m |-> E(m[i])]
           b == WithBytes(n, p)
<1>1. m \in Seq(T) /\ p.contents = [messages |-> m]
  OBVIOUS
<1>2. b = [p EXCEPT !.contents.messages = [i \in DOMAIN @ |-> E(@[i])]]
  BY DEF WithBytes, EachMessage
<1>3. b = [type |-> p.type, receiver |-> p.receiver, sender |-> p.sender, sn |-> p.sn,
           cs |-> p.cs, ts |-> p.ts, cts |-> p.cts, contents |-> [messages |-> e]]
  BY <1>1, <1>2
<1>4. \A i \in DOMAIN m : /\ E(m[i]) \in Seq(Bytes) /\ Len(E(m[i])) \in Shorts
                          /\ R(E(m[i])) = m[i]
  <2>1. SUFFICES ASSUME NEW t \in T
                 PROVE  /\ E(t) \in Seq(Bytes) /\ Len(E(t)) \in Shorts /\ R(E(t)) = t
    <3> HIDE DEF E, R, T, m
    <3>1. QED BY <1>1, <2>1
  <2>2. QED
    BY EncodedTelegram, TelegramIsRead, TakenAreTypes
<1>5. DOMAIN m = 1..Len(m) /\ Len(m) \in Nat /\ m = [i \in 1..Len(m) |-> m[i]]
  BY <1>1, SeqIsSequence, SequenceFacts
<1> HIDE DEF E, m, T, R
<1>6. e \in Seq(Seq(Bytes)) /\ Len(e) = Len(m) /\ \A i \in 1..Len(e) : e[i] = E(m[i])
  <2>1. e \in [1..Len(m) -> Seq(Bytes)]
    BY <1>4, <1>5
  <2>2. DOMAIN e = 1..Len(m) /\ \A i \in 1..Len(m) : e[i] = E(m[i])
    BY <1>5
  <2> HIDE DEF e
  <2>3. QED BY <1>5, <2>1, <2>2
<1>7. [messages |-> e] \in ContentsOfType(p.type)
  <2>1. p.type \notin Handshake /\ p.type # "DISCREQ"
    BY DEF Carrying, Handshake
  <2>2. \A i \in 1..Len(e) : Len(e[i]) \in Shorts
    BY <1>4, <1>5, <1>6
  <2> HIDE DEF e
  <2>3. QED BY <1>6, <2>1, <2>2 DEF ContentsOfType
<1>8. WithTelegrams(Peer(n), b) = p
  <2>1. WithTelegrams(Peer(n), b) = [b EXCEPT !.contents.messages = [i \in DOMAIN @ |-> R(@[i])]]
    BY <1>3, PeerFacts DEF WithTelegrams, EachMessage, R
  <2>2. [i \in DOMAIN e |-> R(e[i])] = m
    <3>1. DOMAIN e = 1..Len(m) /\ \A i \in 1..Len(m) : R(e[i]) = m[i]
      BY <1>4, <1>5, <1>6
    <3> HIDE DEF e
    <3>2. QED BY <1>5, <3>1
  <2> HIDE DEF e
  <2>3. [b EXCEPT !.contents.messages = [i \in DOMAIN @ |-> R(@[i])]]
          = [type |-> p.type, receiver |-> p.receiver, sender |-> p.sender, sn |-> p.sn,
             cs |-> p.cs, ts |-> p.ts, cts |-> p.cts, contents |-> [messages |-> m]]
    BY <1>3, <2>2
  <2>4. QED BY <1>1, <2>1, <2>3
<1>9. QED
  BY <1>3, <1>7, <1>8

LEMMA BitsAre ==
    \A k : Bits(k) \in SUBSET (0..31)
BY DEF Bits

LEMMA ShorterIsShort ==
  ASSUME NEW i \in Nat, NEW j \in Shorts, i <= j
  PROVE  i \in Shorts
<1>1. MaxShort \in Nat
  BY DEF MaxShort
<1>2. QED
  BY <1>1 DEF Shorts

\* What a process sends is well-formed, and its peer would read it as it is.
LEMMA SentPacket ==
  ASSUME NEW n \in Nodes, ConfigOK(n), NEW x, Sendable(n, x)
  PROVE  LET p == Addressed(n, x)
             b == WithBytes(n, p)
         IN  /\ WellFormed(b) /\ WithTelegrams(Peer(n), b) = p
             /\ b.type = p.type /\ b.sender = p.sender /\ b.receiver = p.receiver
             /\ HeaderLength + CodeLength(n) + Len(DataOf(b.type, b.contents)) \in Shorts
<1> DEFINE p == Addressed(n, x)
           b == WithBytes(n, p)
           y == WithBytes(n, x)
<1>1. x \in [type : DOMAIN TypeCode, sn : SUBSET (0..31), cs : SUBSET (0..31),
             ts : SUBSET (0..31), cts : SUBSET (0..31), contents : {x.contents}]
  BY DEF Sendable
<1>2. x = [type |-> x.type, sn |-> x.sn, cs |-> x.cs, ts |-> x.ts, cts |-> x.cts,
           contents |-> x.contents]
  BY <1>1
<1>3. /\ p.type = x.type /\ p.contents = x.contents /\ p.type \in DOMAIN TypeCode
      /\ p = [type |-> p.type, receiver |-> p.receiver, sender |-> p.sender, sn |-> p.sn,
              cs |-> p.cs, ts |-> p.ts, cts |-> p.cts, contents |-> p.contents]
      /\ p.receiver \in SUBSET (0..31) /\ p.sender \in SUBSET (0..31)
      /\ p.sn \in SUBSET (0..31) /\ p.cs \in SUBSET (0..31)
      /\ p.ts \in SUBSET (0..31) /\ p.cts \in SUBSET (0..31)
  BY <1>1, BitsAre DEF Addressed, Id
<1>4. x.contents \in
          CASE x.type \in Handshake -> [version : [1..4 -> Bytes], send_max : Shorts]
            [] x.type = "DISCREQ"   -> [details : Shorts, reason : Shorts]
            [] x.type \in Carrying  -> [messages : Seq(Telegrams(Taken(Peer(n))))]
            [] OTHER                -> [none : {0}]
  BY DEF Sendable
<1>5. HeaderLength + 16 + Len(DataOf(x.type, y.contents)) \in Shorts
  BY DEF Sendable
<1>6. /\ x.type \in Handshake => x.type # "DISCREQ" /\ x.type \notin Carrying
      /\ x.type = "DISCREQ" => x.type \notin Carrying
  BY DEF Carrying, Handshake
<1> HIDE DEF p
<1>7. /\ b = [type |-> p.type, receiver |-> p.receiver, sender |-> p.sender, sn |-> p.sn,
              cs |-> p.cs, ts |-> p.ts, cts |-> p.cts, contents |-> b.contents]
      /\ b.contents \in ContentsOfType(p.type)
      /\ WithTelegrams(Peer(n), b) = p
      /\ b.contents = y.contents
  <2>1. CASE x.type \in Carrying
    <3>1. x.contents \in [messages : Seq(Telegrams(Taken(Peer(n))))]
      BY <1>4, <1>6, <2>1
    <3>2. /\ b = [type |-> p.type, receiver |-> p.receiver, sender |-> p.sender, sn |-> p.sn,
                  cs |-> p.cs, ts |-> p.ts, cts |-> p.cts, contents |-> b.contents]
          /\ b.contents \in ContentsOfType(p.type)
          /\ WithTelegrams(Peer(n), b) = p
      BY <1>3, <2>1, <3>1, PacketWithBytes
    <3>3. b.contents = y.contents
      <4> DEFINE E(t) == EncodeTelegram(SciName(n), SciName(Peer(n)), t)
                 C == [messages |-> [i \in DOMAIN x.contents.messages |-> E(x.contents.messages[i])]]
      <4>1. x.contents = [messages |-> x.contents.messages]
        BY <3>1
      <4>2. b = [p EXCEPT !.contents.messages = [i \in DOMAIN @ |-> E(@[i])]]
        BY <1>3, <2>1 DEF WithBytes, EachMessage
      <4>3. y = [x EXCEPT !.contents.messages = [i \in DOMAIN @ |-> E(@[i])]]
        BY <2>1 DEF WithBytes, EachMessage
      <4> HIDE DEF E
      <4>4. b.contents = C
        BY <1>3, <4>1, <4>2
      <4>5. y.contents = C
        BY <1>2, <4>1, <4>3
      <4>6. QED BY <4>4, <4>5
    <3>4. QED BY <3>2, <3>3
  <2>2. CASE x.type \notin Carrying
    <3>1. b = p /\ y = x /\ WithTelegrams(Peer(n), p) = p
      BY <1>3, <2>2 DEF WithBytes, WithTelegrams, EachMessage
    <3>2. p.contents \in ContentsOfType(p.type)
      <4>1. CASE x.type \in Handshake
        <5>1. x.contents \in [version : [1..4 -> Bytes], send_max : Shorts]
          BY <1>4, <1>6, <4>1
        <5>2. ContentsOfType(x.type) = [version : [1..4 -> Bytes], send_max : Shorts]
          BY <1>6, <4>1 DEF ContentsOfType
        <5>3. QED BY <1>3, <5>1, <5>2
      <4>2. CASE x.type = "DISCREQ"
        BY <1>3, <1>4, <1>6, <4>2 DEF ContentsOfType
      <4>3. CASE x.type \notin Handshake \cup {"DISCREQ"}
        BY <1>3, <1>4, <2>2, <4>3 DEF ContentsOfType
      <4>4. QED BY <4>1, <4>2, <4>3
    <3>3. QED BY <1>3, <3>1, <3>2
  <2>3. QED BY <2>1, <2>2
<1>8. b.type = p.type /\ b.sender = p.sender /\ b.receiver = p.receiver
      /\ b.sn = p.sn /\ b.cs = p.cs /\ b.ts = p.ts /\ b.cts = p.cts
  BY <1>7
<1>9. WellFormed(b)
  BY <1>3, <1>7, <1>8 DEF WellFormed
<1>10. HeaderLength + CodeLength(n) + Len(DataOf(b.type, b.contents)) \in Shorts
  <2> DEFINE L == Len(DataOf(b.type, b.contents))
  <2>1. L \in Nat
    BY <1>9, ContentsAreRead, SequenceFacts DEF WellFormed
  <2>2. HeaderLength + 16 + L \in Shorts
    BY <1>3, <1>5, <1>7, <1>8
  <2> HIDE DEF L
  <2>3. CodeLength(n) \in Nat /\ CodeLength(n) <= 16
    BY AddedLengths
  <2>4. HeaderLength + CodeLength(n) + L \in Nat
        /\ HeaderLength + CodeLength(n) + L <= HeaderLength + 16 + L
    BY <2>1, <2>3 DEF HeaderLength
  <2>5. HeaderLength + CodeLength(n) + L \in Shorts
    BY <2>2, <2>4, ShorterIsShort
  <2>6. QED BY <2>5 DEF L
<1>11. QED
  BY <1>7, <1>8, <1>9, <1>10 DEF p

\* The datagram that n makes of a packet.
DatagramOf(n, number, p) ==
    RedundancyPacketToBytes(n, number, ModuleToBytes(n, WithBytes(n, p)))

\* A datagram that arrives as it was sent is accepted by a peer with the same
\* settings, and its packet is the one that was sent, telegrams included.
THEOREM DatagramUnderstood ==
  ASSUME HashHasLength, NEW n \in Nodes, ConfigOK(n), Matching(n, Peer(n)),
         NEW x, Sendable(n, x), NEW number
  PROVE  LET m == Peer(n)
             p == Addressed(n, x)
             d == DatagramOf(n, number, p)
             pdu == InnerBytes(m, d)
         IN  /\ ~TooShort(m, pdu) /\ DataLength(m, pdu) \in Nat /\ Accepts(m, d)
             /\ WithTelegrams(m, PacketOf(m, pdu)) = p
<1> DEFINE m == Peer(n)
           p == Addressed(n, x)
           b == WithBytes(n, p)
           e == ModuleToBytes(n, b)
           d == DatagramOf(n, number, p)
<1>1. /\ WellFormed(b) /\ WithTelegrams(m, b) = p
      /\ b.type = p.type /\ b.sender = p.sender /\ b.receiver = p.receiver
      /\ HeaderLength + CodeLength(n) + Len(DataOf(b.type, b.contents)) \in Shorts
  BY SentPacket
<1>2. /\ handle[m].hash_length = handle[n].hash_length /\ handle[m].key = handle[n].key
      /\ handle[m].crc_type = handle[n].crc_type
  BY DEF Matching
<1>3. IsSequence(DataOf(b.type, b.contents)) /\ Len(DataOf(b.type, b.contents)) \in Nat
  BY <1>1, ContentsAreRead, SequenceFacts DEF WellFormed
<1>4. IsSequence(e)
  BY <1>3, ModuleBytesAre
<1>5. /\ ~TooShort(m, e) /\ DataLength(m, e) = Len(DataOf(b.type, b.contents))
      /\ CodeCorrect(m, e) /\ PacketOf(m, e) = b
  BY <1>1, <1>2, PduIsRead
<1>6. InnerBytes(m, d) = e /\ ChecksumCorrect(m, d)
  BY <1>2, <1>4, DatagramIsRead DEF DatagramOf
<1>7. p.sender = Id(Peer(m)) /\ p.receiver = Id(m)
  BY PeerFacts DEF Addressed
<1> HIDE DEF b, d, e, p, m
<1>8. Accepts(m, d)
  BY <1>1, <1>5, <1>6, <1>7 DEF Accepts
<1>9. QED
  BY <1>1, <1>3, <1>5, <1>6, <1>8 DEF b, d, e, p, m

-------------------------------------------------------------------------------
(* The checksum: what the assumption about the tables says.                 *)

LEMMA OptionsAre ==
  ASSUME NEW t \in CrcTypes \ {"TYPE_A"}
  PROVE  LET o == CrcOptions[t]
         IN  /\ o.width \in {16, 32} /\ o.refin \in BOOLEAN /\ o.refout = o.refin
             /\ ~o.refin => o.width = 32
             /\ FirstCrc(o) \in SUBSET (0..(o.width - 1))
<1>1. \A n, i \in Int : i \in 0..(n - 1) => n - 1 - i \in 0..(n - 1)
  OBVIOUS
<1>2. CASE t = "TYPE_B"
  BY <1>2 DEF CrcTypes, CrcOptions, crc_init_opt_b, Options, FirstCrc
<1>3. CASE t = "TYPE_C"
  <2>1. CrcOptions[t] = crc_init_opt_c
    BY <1>3 DEF CrcTypes, CrcOptions
  <2>2. FirstCrc(crc_init_opt_c) \in SUBSET (0..31)
    BY DEF crc_init_opt_c, Options, FirstCrc, Reflect, Low
  <2>3. QED BY <2>1, <2>2 DEF crc_init_opt_c, Options
<1>4. CASE t = "TYPE_D"
  BY <1>4 DEF CrcTypes, CrcOptions, crc_init_opt_d, Options, FirstCrc, Reflect, Low
<1>5. CASE t = "TYPE_E"
  BY <1>5 DEF CrcTypes, CrcOptions, crc_init_opt_e, Options, FirstCrc, Reflect, Low
<1>6. QED
  BY <1>2, <1>3, <1>4, <1>5 DEF CrcTypes

LEMMA BytesAreFinite ==
    IsFiniteSet(Bytes)
<1>1. \A n \in Int : IsFiniteSet(0..n)
  BY FS_Interval
<1>2. IsFiniteSet(0..7)
  <2> DEFINE n == 7
  <2>1. n \in Int
    OBVIOUS
  <2>2. IsFiniteSet(0..n)
    <3> HIDE DEF n
    <3>1. QED BY <1>1, <2>1
  <2>3. QED BY <2>2
<1>3. QED
  BY <1>2, FS_SUBSET DEF Bytes

LEMMA DifferMeans ==
  ASSUME NEW f, f = [b \in Bytes |-> f[b]],
         Cardinality({f[b] : b \in Bytes}) = Cardinality(Bytes),
         NEW a \in Bytes, NEW c \in Bytes, f[a] = f[c]
  PROVE  a = c
<1> DEFINE T == {f[b] : b \in Bytes}
<1>1. f \in Surjection(Bytes, T)
  BY DEF Surjection
<1>2. f \in Injection(Bytes, T)
  BY <1>1, BytesAreFinite, FS_SurjSameCardinalityImpliesInj
<1>3. QED
  BY <1>2 DEF Injection, IsInjective

LEMMA TablesDiffer ==
  ASSUME NEW t \in CrcTypes \ {"TYPE_A"}, NEW a \in Bytes, NEW c \in Bytes
  PROVE  LET o == CrcOptions[t]
             Same(bits) == \A i \in bits : i \in Tables[t][a] <=> i \in Tables[t][c]
         IN  /\ \A b \in Bytes : Tables[t][b] \subseteq 0..(o.width - 1)
             /\ Same(IF o.refin THEN (o.width - 8)..(o.width - 1) ELSE 0..7) => a = c
             /\ Same(8..(o.width - 1)) => a = c
<1> DEFINE o == CrcOptions[t]
           T(b) == Tables[t][b]
           Same(bits) == \A i \in bits : i \in Tables[t][a] <=> i \in Tables[t][c]
           Differ(bits) == Cardinality({T(b) \cap bits : b \in Bytes}) = Cardinality(Bytes)
           x == IF o.refin THEN (o.width - 8)..(o.width - 1) ELSE 0..7
           y == 8..(o.width - 1)
<1>1. (\A b \in Bytes : T(b) \subseteq 0..(o.width - 1)) /\ Differ(x) /\ Differ(y)
  BY TablesTellApart
<1> HIDE DEF x, y
<1>2. ASSUME NEW bits, Differ(bits), Same(bits)
      PROVE  a = c
  <2> DEFINE f == [b \in Bytes |-> T(b) \cap bits]
  <2>1. f[a] = f[c] /\ f = [b \in Bytes |-> f[b]]
    BY <1>2
  <2>2. {f[b] : b \in Bytes} = {T(b) \cap bits : b \in Bytes}
    OBVIOUS
  <2>3. Cardinality({f[b] : b \in Bytes}) = Cardinality(Bytes)
    BY <1>2, <2>2
  <2> HIDE DEF f
  <2>4. QED BY <2>1, <2>3, DifferMeans
<1>3. QED
  BY <1>1, <1>2 DEF x, y

-------------------------------------------------------------------------------
(* The register: what a byte does to it, forwards and back.                 *)

\* A register that crc_calculate may have, and two that it takes for the same.
Register(t, r) ==
    r \in Registers /\ (CrcOptions[t].refin => r \in SUBSET (0..(CrcOptions[t].width - 1)))
SameRegister(t, r, q) == \A i \in 0..(CrcOptions[t].width - 1) : i \in r <=> i \in q

LEMMA SymDiffIs ==
    \A a, b, i : i \in SymDiff(a, b) <=> ~(i \in a <=> i \in b)
BY DEF SymDiff

LEMMA IndexIs ==
  ASSUME NEW t \in CrcTypes \ {"TYPE_A"}, NEW r, Register(t, r), NEW b \in Bytes
  PROVE  LET o == CrcOptions[t]
             x == Index(o, r, b)
         IN  /\ x \in Bytes
             /\ \A i \in 0..7 : i \in x <=>
                    ~((IF o.refin THEN i \in r ELSE i + o.width - 8 \in r) <=> i \in b)
<1> DEFINE o == CrcOptions[t]
           w == o.width
           x == Index(o, r, b)
<1>1. w \in {16, 32} /\ o.refin \in BOOLEAN
  BY OptionsAre
<1>2. r \in SUBSET (0..63) /\ b \in SUBSET (0..7)
  BY DEF Register, Registers, Bytes
<1> HIDE DEF w
<1>3. CASE o.refin
  <2>1. x = SymDiff(Low(r, 8), b)
    BY <1>3 DEF Index
  <2> DEFINE y == Low(r, 8)
  <2>1a. \A i \in 0..7 : i \in y <=> i \in r
    BY <1>2 DEF Low
  <2>1b. \A i \in y : i \in 0..7
    BY <1>2 DEF Low
  <2> HIDE DEF y
  <2>2. \A i : i \in x <=> ~(i \in y <=> i \in b)
    BY <2>1, SymDiffIs DEF y
  <2>3. \A i \in x : i \in 0..7
    BY <1>2, <2>1b, <2>2
  <2> HIDE DEF x
  <2>4. x \in Bytes /\ \A i \in 0..7 : i \in x <=> ~(i \in r <=> i \in b)
    BY <2>1a, <2>2, <2>3 DEF Bytes
  <2>5. QED BY <1>3, <2>4 DEF x, o
<1>4. CASE ~o.refin
  <2> DEFINE y == Low(RightShift(r, w - 8), 8)
  <2>1. x = SymDiff(y, b)
    BY <1>4 DEF Index, w
  <2>2. \A i \in y : i \in 0..7
    BY <1>1, <1>2 DEF Low, RightShift
  <2>3. \A i \in 0..7 : i \in y <=> i + w - 8 \in r
    <3>1. ASSUME NEW i \in 0..7
          PROVE  i \in y <=> i + w - 8 \in r
      <4>1. i \in y <=> \E j \in r : j >= w - 8 /\ i = j - (w - 8)
        BY <3>1 DEF Low, RightShift
      <4>2. \A j \in r : j >= w - 8 /\ i = j - (w - 8) => j = i + w - 8
        BY <1>1, <1>2, <3>1
      <4>3. i + w - 8 \in r => i + w - 8 >= w - 8 /\ i = (i + w - 8) - (w - 8)
        BY <1>1, <3>1
      <4>4. QED BY <4>1, <4>2, <4>3
    <3>2. QED BY <3>1
  <2> HIDE DEF y
  <2>4. \A i : i \in x <=> ~(i \in y <=> i \in b)
    BY <2>1, SymDiffIs
  <2>5. \A i \in x : i \in 0..7
    BY <1>2, <2>2, <2>4
  <2> HIDE DEF x
  <2>6. x \in Bytes /\ \A i \in 0..7 : i \in x <=> ~(i + w - 8 \in r <=> i \in b)
    BY <2>3, <2>4, <2>5 DEF Bytes
  <2>7. QED BY <1>4, <2>6 DEF x, o, w
<1>5. QED
  BY <1>1, <1>3, <1>4

LEMMA NextIs ==
  ASSUME NEW t \in CrcTypes \ {"TYPE_A"}, NEW r, Register(t, r), NEW b \in Bytes
  PROVE  LET o == CrcOptions[t]
             x == Index(o, r, b)
             n == NextCrc(t, b)[r]
         IN  /\ Register(t, n)
             /\ \A i \in 0..(o.width - 1) : i \in n <=>
                    ~((IF o.refin THEN i + 8 \in r ELSE i - 8 \in r) <=> i \in Tables[t][x])
<1> DEFINE o == CrcOptions[t]
           w == o.width
           x == Index(o, r, b)
           T == Tables[t][x]
           n == NextCrc(t, b)[r]
<1>1. w \in {16, 32} /\ o.refin \in BOOLEAN
  BY OptionsAre
<1>2. r \in SUBSET (0..63) /\ (o.refin => r \in SUBSET (0..(w - 1)))
  BY DEF Register, Registers
<1>3. T \in SUBSET (0..(w - 1))
  <2>1. x \in Bytes
    BY IndexIs
  <2> HIDE DEF x
  <2>2. QED BY <2>1, TablesDiffer
<1>4. n = SymDiff(IF o.refin THEN RightShift(r, 8) ELSE LeftShift(r, 8), T)
  BY <1>2 DEF NextCrc, Registers
<1> HIDE DEF T, n, w, x
<1>5. CASE o.refin
  <2>1. \A i \in RightShift(r, 8) : i \in 0..(w - 1)
    BY <1>1, <1>2, <1>5 DEF RightShift
  <2>2. \A i \in 0..(w - 1) : i \in RightShift(r, 8) <=> i + 8 \in r
    BY <1>1, <1>2 DEF RightShift
  <2> DEFINE y == RightShift(r, 8)
  <2>3. n = SymDiff(y, T)
    BY <1>4, <1>5
  <2> HIDE DEF y
  <2>3a. \A i : i \in n <=> ~(i \in y <=> i \in T)
    BY <2>3, SymDiffIs
  <2>4. n \in SUBSET (0..(w - 1)) /\ \A i : i \in n <=> ~(i \in y <=> i \in T)
    BY <1>1, <1>3, <2>1, <2>3a DEF y
  <2>5. \A i \in 0..(w - 1) : i \in n <=> ~(i + 8 \in r <=> i \in T)
    BY <2>2, <2>4 DEF y
  <2>6. Register(t, n)
    BY <1>1, <2>4 DEF Register, Registers, w
  <2>7. QED BY <1>5, <2>5, <2>6 DEF n, T, w, x
<1>6. CASE ~o.refin
  <2>1. \A i \in LeftShift(r, 8) : i \in 0..63
    BY DEF LeftShift
  <2>2. \A i \in 0..(w - 1) : i \in LeftShift(r, 8) <=> i - 8 \in r
    BY <1>1, <1>2 DEF LeftShift
  <2> DEFINE y == LeftShift(r, 8)
  <2>3. n = SymDiff(y, T)
    BY <1>4, <1>6
  <2> HIDE DEF y
  <2>3a. \A i : i \in n <=> ~(i \in y <=> i \in T)
    BY <2>3, SymDiffIs
  <2>3b. \A i \in T : i \in 0..63
    <3>1. \A i \in 0..(w - 1) : i \in 0..63
      BY <1>1
    <3>2. QED BY <1>3, <3>1
  <2>4. n \in SUBSET (0..63) /\ \A i : i \in n <=> ~(i \in y <=> i \in T)
    BY <2>1, <2>3a, <2>3b DEF y
  <2>5. \A i \in 0..(w - 1) : i \in n <=> ~(i - 8 \in r <=> i \in T)
    BY <2>2, <2>4 DEF y
  <2>6. Register(t, n)
    BY <1>6, <2>4 DEF Register, Registers
  <2>7. QED BY <1>6, <2>5, <2>6 DEF n, T, w, x
<1>7. QED
  BY <1>1, <1>5, <1>6

\* Two registers have the same bits here; the places whose bits stay.
SameBits(r, q, bits) == \A i \in bits : i \in r <=> i \in q
Kept(o) == IF o.refin THEN 8..(o.width - 1) ELSE 0..(o.width - 9)

LEMMA OutOfRegister ==
  ASSUME NEW t \in CrcTypes \ {"TYPE_A"}, NEW r, Register(t, r),
         NEW i \in Int, i < 0 \/ (CrcOptions[t].refin /\ i >= CrcOptions[t].width)
  PROVE  i \notin r
<1> DEFINE w == CrcOptions[t].width
<1>1. w \in {16, 32} /\ r \in SUBSET (0..63)
      /\ (CrcOptions[t].refin => r \in SUBSET (0..(w - 1)))
  BY OptionsAre DEF Register, Registers
<1>2. i < 0 \/ (CrcOptions[t].refin /\ i >= w)
  OBVIOUS
<1> HIDE DEF w
<1>3. QED
  BY <1>1, <1>2

LEMMA SameIndex ==
  ASSUME NEW t \in CrcTypes \ {"TYPE_A"}, NEW r, Register(t, r), NEW q, Register(t, q),
         NEW a \in Bytes, NEW c \in Bytes,
         Index(CrcOptions[t], r, a) = Index(CrcOptions[t], q, c),
         SameBits(r, q, Kept(CrcOptions[t]))
  PROVE  a = c <=> SameRegister(t, r, q)
<1> DEFINE o == CrcOptions[t]
           w == o.width
           x == Index(o, r, a)
           y == Index(o, q, c)
<1>1. w \in {16, 32} /\ o.refin \in BOOLEAN
  BY OptionsAre
<1>2. /\ \A i \in 0..7 : i \in x <=> ~((IF o.refin THEN i \in r ELSE i + w - 8 \in r) <=> i \in a)
      /\ \A i \in 0..7 : i \in y <=> ~((IF o.refin THEN i \in q ELSE i + w - 8 \in q) <=> i \in c)
  BY IndexIs
<1>3. x = y
  OBVIOUS
<1>4. a \in SUBSET (0..7) /\ c \in SUBSET (0..7)
  BY DEF Bytes
<1> HIDE DEF x, y, w
<1>5. CASE o.refin
  <2>1. a = c <=> \A i \in 0..7 : i \in r <=> i \in q
    BY <1>2, <1>3, <1>4, <1>5
  <2>2. \A i \in 8..(w - 1) : i \in r <=> i \in q
    BY <1>5 DEF SameBits, Kept, w
  <2>3. \A i \in 0..(w - 1) : i \in 0..7 \/ i \in 8..(w - 1)
    BY <1>1
  <2>4. \A i \in 0..7 : i \in 0..(w - 1)
    BY <1>1
  <2>5. QED BY <2>1, <2>2, <2>3, <2>4 DEF SameRegister, w
<1>6. CASE ~o.refin
  <2>1. a = c <=> \A i \in 0..7 : i + w - 8 \in r <=> i + w - 8 \in q
    BY <1>2, <1>3, <1>4, <1>6
  <2>2. \A i \in 0..(w - 9) : i \in r <=> i \in q
    BY <1>6 DEF SameBits, Kept, w
  <2>3. \A i \in 0..(w - 1) : i \in 0..(w - 9) \/ (i - w + 8 \in 0..7 /\ (i - w + 8) + w - 8 = i)
    BY <1>1
  <2>4. \A i \in 0..7 : i + w - 8 \in 0..(w - 1)
    BY <1>1
  <2>5. QED BY <2>1, <2>2, <2>3, <2>4 DEF SameRegister, w
<1>7. QED
  BY <1>1, <1>5, <1>6

\* The places that a shift fills.
Emptied(o) == IF o.refin THEN (o.width - 8)..(o.width - 1) ELSE 0..7

\* The bits after a step that no bit of the old register is in, and all of them.
LEMMA NextBits ==
  ASSUME NEW t \in CrcTypes \ {"TYPE_A"}, NEW r, Register(t, r), NEW b \in Bytes
  PROVE  LET o == CrcOptions[t]
             n == NextCrc(t, b)[r]
             T == Tables[t][Index(o, r, b)]
             F(i) == IF o.refin THEN i + 8 ELSE i - 8
         IN  /\ \A i \in Emptied(o) : i \in n <=> i \in T
             /\ \A i \in 0..(o.width - 1) : i \in n <=> ~(F(i) \in r <=> i \in T)
<1> DEFINE o == CrcOptions[t]
           w == o.width
           n == NextCrc(t, b)[r]
           T == Tables[t][Index(o, r, b)]
           F(i) == IF o.refin THEN i + 8 ELSE i - 8
<1>1. w \in {16, 32} /\ o.refin \in BOOLEAN
  BY OptionsAre
<1>2. \A i \in 0..(w - 1) : i \in n <=> ~((IF o.refin THEN i + 8 \in r ELSE i - 8 \in r) <=> i \in T)
  BY NextIs
<1> HIDE DEF w, n, T
<1>3. \A i \in 0..(w - 1) : i \in n <=> ~(F(i) \in r <=> i \in T)
  BY <1>1, <1>2
<1>4. \A i \in Emptied(o) : i \in 0..(w - 1) /\ F(i) \in Int
                            /\ (F(i) < 0 \/ (o.refin /\ F(i) >= w))
  BY <1>1 DEF Emptied, w
<1>5. \A i \in Emptied(o) : F(i) \notin r
  BY <1>4, OutOfRegister DEF w
<1>6. QED
  BY <1>3, <1>4, <1>5 DEF w, n, T

LEMMA NextSame ==
  ASSUME NEW t \in CrcTypes \ {"TYPE_A"}, NEW r, Register(t, r), NEW q, Register(t, q),
         SameRegister(t, r, q), NEW b \in Bytes
  PROVE  SameRegister(t, NextCrc(t, b)[r], NextCrc(t, b)[q])
<1> DEFINE o == CrcOptions[t]
           w == o.width
           x == Index(o, r, b)
           y == Index(o, q, b)
           F(i) == IF o.refin THEN i + 8 ELSE i - 8
           n == NextCrc(t, b)[r]
           m == NextCrc(t, b)[q]
<1>1. w \in {16, 32} /\ o.refin \in BOOLEAN
  BY OptionsAre
<1>2. /\ x \in SUBSET (0..7) /\ y \in SUBSET (0..7)
      /\ \A i \in 0..7 : i \in x <=> ~((IF o.refin THEN i \in r ELSE i + w - 8 \in r) <=> i \in b)
      /\ \A i \in 0..7 : i \in y <=> ~((IF o.refin THEN i \in q ELSE i + w - 8 \in q) <=> i \in b)
  BY IndexIs DEF Bytes
<1>3. /\ \A i \in 0..(w - 1) : i \in n <=> ~(F(i) \in r <=> i \in Tables[t][x])
      /\ \A i \in 0..(w - 1) : i \in m <=> ~(F(i) \in q <=> i \in Tables[t][y])
  BY NextBits
<1>4. \A i \in 0..(w - 1) : i \in r <=> i \in q
  BY DEF SameRegister
<1> HIDE DEF x, y, n, m, w
<1>5. x = y
  <2>1. \A i \in 0..7 : i \in 0..(w - 1) /\ i + w - 8 \in 0..(w - 1)
    BY <1>1
  <2>2. \A i \in 0..7 : i \in x <=> i \in y
    BY <1>1, <1>2, <1>4, <2>1
  <2>3. QED BY <1>2, <2>2
<1>6. \A i \in 0..(w - 1) : F(i) \in r <=> F(i) \in q
  <2>1. ASSUME NEW i \in 0..(w - 1)
        PROVE  F(i) \in r <=> F(i) \in q
    <3>1. CASE F(i) \in 0..(w - 1)
      BY <1>4, <3>1
    <3>2. CASE F(i) \notin 0..(w - 1)
      <4>1. F(i) \in Int /\ (F(i) < 0 \/ (o.refin /\ F(i) >= w))
        BY <1>1, <2>1, <3>2
      <4> HIDE DEF F
      <4>2. QED BY <4>1, OutOfRegister DEF w
    <3>3. QED BY <3>1, <3>2
  <2>2. QED BY <2>1
<1>7. \A i \in 0..(w - 1) : i \in n <=> i \in m
  BY <1>3, <1>5, <1>6
<1>8. QED
  BY <1>7 DEF SameRegister, n, m, w

LEMMA NextBack ==
  ASSUME NEW t \in CrcTypes \ {"TYPE_A"}, NEW r, Register(t, r), NEW q, Register(t, q),
         NEW a \in Bytes, NEW c \in Bytes,
         SameRegister(t, NextCrc(t, a)[r], NextCrc(t, c)[q])
  PROVE  /\ SameBits(r, q, Kept(CrcOptions[t]))
         /\ a = c <=> SameRegister(t, r, q)
<1> DEFINE o == CrcOptions[t]
           w == o.width
           x == Index(o, r, a)
           y == Index(o, q, c)
           F(i) == IF o.refin THEN i + 8 ELSE i - 8
           n == NextCrc(t, a)[r]
           m == NextCrc(t, c)[q]
<1>1. w \in {16, 32} /\ o.refin \in BOOLEAN
  BY OptionsAre
<1>2. x \in Bytes /\ y \in Bytes
  BY IndexIs
<1>3. /\ \A i \in Emptied(o) : i \in n <=> i \in Tables[t][x]
      /\ \A i \in Emptied(o) : i \in m <=> i \in Tables[t][y]
      /\ \A i \in 0..(w - 1) : i \in n <=> ~(F(i) \in r <=> i \in Tables[t][x])
      /\ \A i \in 0..(w - 1) : i \in m <=> ~(F(i) \in q <=> i \in Tables[t][y])
  BY NextBits
<1>4. \A i \in 0..(w - 1) : i \in n <=> i \in m
  BY DEF SameRegister
<1> HIDE DEF x, y, n, m, w
<1>5. x = y
  <2>1. \A i \in Emptied(o) : i \in 0..(w - 1)
    BY <1>1 DEF Emptied, w
  <2>2. \A i \in Emptied(o) : i \in Tables[t][x] <=> i \in Tables[t][y]
    BY <1>3, <1>4, <2>1
  <2>3. QED BY <1>2, <2>2, TablesDiffer DEF Emptied
<1>6. SameBits(r, q, Kept(o))
  <2>1. \A i \in 0..(w - 1) : F(i) \in r <=> F(i) \in q
    BY <1>3, <1>4, <1>5
  <2>2. ASSUME NEW i \in Kept(o)
        PROVE  i \in r <=> i \in q
    <3>1. CASE o.refin
      <4>1. i - 8 \in 0..(w - 1) /\ F(i - 8) = i
        BY <1>1, <2>2, <3>1 DEF Kept, w
      <4> HIDE DEF F
      <4>2. QED BY <2>1, <4>1
    <3>2. CASE ~o.refin
      <4>1. i + 8 \in 0..(w - 1) /\ F(i + 8) = i
        BY <1>1, <2>2, <3>2 DEF Kept, w
      <4> HIDE DEF F
      <4>2. QED BY <2>1, <4>1
    <3>3. QED BY <1>1, <3>1, <3>2
  <2>3. QED BY <2>2 DEF SameBits
<1>7. QED
  BY <1>5, <1>6, SameIndex DEF x, y

LEMMA NextDiffers ==
  ASSUME NEW t \in CrcTypes \ {"TYPE_A"}, NEW r, Register(t, r), NEW q, Register(t, q),
         SameRegister(t, r, q), NEW a \in Bytes, NEW c \in Bytes, a # c
  PROVE  LET n == NextCrc(t, a)[r]
             m == NextCrc(t, c)[q]
         IN  /\ ~SameBits(n, m, 8..(CrcOptions[t].width - 1))
             /\ ~SameBits(n, m, Kept(CrcOptions[t]))
<1> DEFINE o == CrcOptions[t]
           w == o.width
           x == Index(o, r, a)
           y == Index(o, q, c)
           F(i) == IF o.refin THEN i + 8 ELSE i - 8
           n == NextCrc(t, a)[r]
           m == NextCrc(t, c)[q]
<1>1. w \in {16, 32} /\ o.refin \in BOOLEAN /\ (~o.refin => w = 32)
  BY OptionsAre
<1>2. x \in Bytes /\ y \in Bytes
  BY IndexIs
<1>3. /\ \A i \in Emptied(o) : i \in n <=> i \in Tables[t][x]
      /\ \A i \in Emptied(o) : i \in m <=> i \in Tables[t][y]
      /\ \A i \in 0..(w - 1) : i \in n <=> ~(F(i) \in r <=> i \in Tables[t][x])
      /\ \A i \in 0..(w - 1) : i \in m <=> ~(F(i) \in q <=> i \in Tables[t][y])
  BY NextBits
<1>4. \A i \in 0..(w - 1) : i \in r <=> i \in q
  BY DEF SameRegister
<1>5. x # y
  <2>1. \A i \in Kept(o) : i \in 0..(w - 1)
    BY <1>1 DEF Kept, w
  <2>2. SameBits(r, q, Kept(o))
    BY <1>4, <2>1 DEF SameBits
  <2>3. QED BY <2>2, SameIndex
<1> HIDE DEF x, y, n, m, w
<1>6. \A i \in 0..(w - 1) : F(i) \in r <=> F(i) \in q
  <2>1. ASSUME NEW i \in 0..(w - 1)
        PROVE  F(i) \in r <=> F(i) \in q
    <3>1. CASE F(i) \in 0..(w - 1)
      BY <1>4, <3>1
    <3>2. CASE F(i) \notin 0..(w - 1)
      <4>1. F(i) \in Int /\ (F(i) < 0 \/ (o.refin /\ F(i) >= w))
        BY <1>1, <2>1, <3>2
      <4> HIDE DEF F
      <4>2. QED BY <4>1, OutOfRegister DEF w
    <3>3. QED BY <3>1, <3>2
  <2>2. QED BY <2>1
<1>7. ~SameBits(n, m, 8..(w - 1))
  <2>1. SUFFICES ASSUME SameBits(n, m, 8..(w - 1)) PROVE FALSE
    OBVIOUS
  <2>2. \A i \in 8..(w - 1) : i \in 0..(w - 1)
    BY <1>1
  <2>3. \A i \in 8..(w - 1) : i \in Tables[t][x] <=> i \in Tables[t][y]
    BY <1>3, <1>6, <2>1, <2>2 DEF SameBits
  <2>4. x = y
    BY <1>2, <2>3, TablesDiffer DEF w
  <2>5. QED BY <1>5, <2>4
<1>8. ~SameBits(n, m, Kept(o))
  <2>1. CASE o.refin
    BY <1>7, <2>1 DEF Kept, w
  <2>2. CASE ~o.refin
    <3>1. SUFFICES ASSUME SameBits(n, m, Kept(o)) PROVE FALSE
      OBVIOUS
    <3>2. \A i \in Emptied(o) : i \in Kept(o)
      BY <1>1, <2>2 DEF Emptied, Kept, w
    <3>3. \A i \in Emptied(o) : i \in Tables[t][x] <=> i \in Tables[t][y]
      BY <1>3, <3>1, <3>2 DEF SameBits
    <3>4. x = y
      BY <1>2, <3>3, TablesDiffer DEF Emptied
    <3>5. QED BY <1>5, <3>4
  <2>3. QED BY <2>1, <2>2
<1>9. QED
  BY <1>7, <1>8 DEF n, m, w

-------------------------------------------------------------------------------
(* The registers after each byte.                                           *)

IsCrc(f, t, data) ==
    f = [k \in 0..Len(data) |->
            IF k = 0 THEN FirstCrc(CrcOptions[t]) ELSE NextCrc(t, data[k])[f[k - 1]]]

LEMMA CrcExists ==
  ASSUME NEW t, NEW data, IsSequence(data)
  PROVE  \E f : IsCrc(f, t, data)
<1> DEFINE n == Len(data)
           o == CrcOptions[t]
           Upto(f, m) == f = [k \in 0..m |-> IF k = 0 THEN FirstCrc(o)
                                             ELSE NextCrc(t, data[k])[f[k - 1]]]
           T == {m \in 0..n : \E f : Upto(f, m)}
<1>1. n \in Nat
  BY SequenceFacts
<1>2. 0 \in T
  <2> DEFINE f == [k \in 0..0 |-> FirstCrc(o)]
  <2>1. Upto(f, 0)
    OBVIOUS
  <2>2. QED
    <3> HIDE DEF Upto, f
    <3>1. QED BY <1>1, <2>1
<1>3. ASSUME NEW m \in 0..(n - 1), m \in T
      PROVE  m + 1 \in T
  <2>1. PICK f : Upto(f, m)
    BY <1>3
  <2> DEFINE final == NextCrc(t, data[m + 1])[f[m]]
             g == [k \in 0..(m + 1) |-> IF k <= m THEN f[k] ELSE final]
  <2>2. \A k \in 0..m : f[k] = IF k = 0 THEN FirstCrc(o) ELSE NextCrc(t, data[k])[f[k - 1]]
    BY <2>1
  <2>3. \A k \in 0..(m + 1) : g[k] = IF k <= m THEN f[k] ELSE final
    OBVIOUS
  <2> HIDE DEF g, final
  <2>4. \A k \in 0..(m + 1) : k # 0 => g[k - 1] = f[k - 1]
    BY <1>1, <2>3
  <2>5. \A k \in 0..(m + 1) :
            g[k] = IF k = 0 THEN FirstCrc(o) ELSE NextCrc(t, data[k])[g[k - 1]]
    <3> SUFFICES ASSUME NEW k \in 0..(m + 1)
                 PROVE  g[k] = IF k = 0 THEN FirstCrc(o) ELSE NextCrc(t, data[k])[g[k - 1]]
      OBVIOUS
    <3>1. CASE k <= m
      <4>1. k \in 0..m /\ g[k] = f[k]
        BY <1>1, <2>3, <3>1
      <4>2. QED
        BY <2>2, <2>4, <4>1
    <3>2. CASE ~(k <= m)
      <4>1. k = m + 1 /\ g[k] = final /\ k - 1 = m /\ k # 0
        BY <1>1, <2>3, <3>2
      <4>2. QED
        BY <2>4, <4>1 DEF final
    <3>3. QED
      BY <3>1, <3>2
  <2>6. g = [k \in 0..(m + 1) |-> g[k]]
    BY DEF g
  <2>7. Upto(g, m + 1)
    BY <2>5, <2>6
  <2>8. m + 1 \in 0..n
    BY <1>1
  <2>9. QED
    <3> HIDE DEF Upto
    <3>1. QED BY <2>7, <2>8
<1>4. n \in T
  <2> HIDE DEF T, n
  <2>1. \A i \in 0..n : i \in T
    BY <1>1, <1>2, <1>3, InductionUpTo
  <2>2. QED
    BY <1>1, <2>1
<1>5. QED
  BY <1>4 DEF IsCrc

LEMMA CalculateIs ==
  ASSUME NEW t \in CrcTypes \ {"TYPE_A"}, NEW data, IsSequence(data)
  PROVE  \E f : /\ IsCrc(f, t, data)
                /\ Calculate(t, data) =
                       Low(SymDiff(f[Len(data)], CrcOptions[t].final_xor), CrcOptions[t].width)
<1> DEFINE o == CrcOptions[t]
           crc[k \in 0..Len(data)] ==
               IF k = 0 THEN FirstCrc(o) ELSE NextCrc(t, data[k])[crc[k - 1]]
<1>1. IsCrc(crc, t, data)
  <2>1. \E f : f = [k \in 0..Len(data) |-> IF k = 0 THEN FirstCrc(o)
                                           ELSE NextCrc(t, data[k])[f[k - 1]]]
    <3>1. \E f : IsCrc(f, t, data)
      BY CrcExists
    <3>2. QED
      BY ONLY <3>1, Zenon DEF IsCrc
  <2>2. crc = CHOOSE f : f = [k \in 0..Len(data) |-> IF k = 0 THEN FirstCrc(o)
                                                     ELSE NextCrc(t, data[k])[f[k - 1]]]
    BY DEF crc
  <2>3. QED
    <3> HIDE DEF crc
    <3>1. QED
      BY ONLY <2>1, <2>2, Zenon DEF IsCrc
<1>2. o.refout = o.refin
  BY OptionsAre
<1>3. Calculate(t, data) = Low(SymDiff(IF o.refin # o.refout THEN Reflect(crc[Len(data)], o.width)
                                       ELSE crc[Len(data)], o.final_xor), o.width)
  BY DEF Calculate
<1> HIDE DEF crc
<1>4. Calculate(t, data) = Low(SymDiff(crc[Len(data)], o.final_xor), o.width)
  BY <1>2, <1>3
<1>5. QED
  BY <1>1, <1>4

LEMMA CrcSteps ==
  ASSUME NEW t \in CrcTypes \ {"TYPE_A"}, NEW data \in Seq(Bytes), NEW f, IsCrc(f, t, data)
  PROVE  /\ f[0] = FirstCrc(CrcOptions[t])
         /\ \A k \in 1..Len(data) : f[k] = NextCrc(t, data[k])[f[k - 1]]
         /\ \A k \in 0..Len(data) : Register(t, f[k])
<1> DEFINE n == Len(data)
           o == CrcOptions[t]
           T == {k \in 0..n : Register(t, f[k])}
<1>1. n \in Nat /\ \A k \in 1..n : data[k] \in Bytes
  OBVIOUS
<1>2. \A k \in 0..n : f[k] = IF k = 0 THEN FirstCrc(o) ELSE NextCrc(t, data[k])[f[k - 1]]
  <2> HIDE DEF o, n
  <2>1. f = [k \in 0..n |-> IF k = 0 THEN FirstCrc(o) ELSE NextCrc(t, data[k])[f[k - 1]]]
    BY DEF IsCrc, o, n
  <2>2. QED
    BY <1>1, <2>1, Zenon
<1>3. Register(t, FirstCrc(o))
  <2> DEFINE w == o.width
             r == FirstCrc(o)
  <2>1. w \in {16, 32} /\ r \in SUBSET (0..(w - 1))
    BY OptionsAre
  <2> HIDE DEF w, r
  <2>2. \A i \in 0..(w - 1) : i \in 0..63
    BY <2>1
  <2>3. r \in SUBSET (0..63)
    BY <2>1, <2>2
  <2>4. Register(t, r)
    BY <2>1, <2>3 DEF Register, Registers, w
  <2>5. QED BY <2>4 DEF r
<1>4. f[0] = FirstCrc(o)
  BY <1>1, <1>2
<1>5. \A k \in 1..n : f[k] = NextCrc(t, data[k])[f[k - 1]]
  BY <1>1, <1>2
<1>6. 0 \in T
  BY <1>1, <1>3, <1>4
<1>7. ASSUME NEW k \in 0..(n - 1), k \in T
      PROVE  k + 1 \in T
  <2>1. k + 1 \in 1..n /\ k + 1 \in 0..n /\ k + 1 - 1 = k /\ data[k + 1] \in Bytes
    BY <1>1
  <2>2. f[k + 1] = NextCrc(t, data[k + 1])[f[k]] /\ Register(t, f[k])
    BY <1>5, <1>7, <2>1
  <2>3. Register(t, f[k + 1])
    BY <2>1, <2>2, NextIs
  <2>4. QED BY <2>1, <2>3
<1>8. \A k \in 0..n : k \in T
  <2> HIDE DEF T, n
  <2>1. QED BY <1>1, <1>6, <1>7, InductionUpTo
<1>9. QED
  BY <1>4, <1>5, <1>8

\* After equal bytes the registers are the same.
LEMMA SameForward ==
  ASSUME NEW t \in CrcTypes \ {"TYPE_A"}, NEW x \in Seq(Bytes), NEW y \in Seq(Bytes),
         Len(x) = Len(y), NEW f, IsCrc(f, t, x), NEW g, IsCrc(g, t, y),
         NEW p \in 0..Len(x), \A k \in 1..p : x[k] = y[k]
  PROVE  SameRegister(t, f[p], g[p])
<1> DEFINE T == {k \in 0..p : SameRegister(t, f[k], g[k])}
           n == Len(x)
<1>1. /\ n \in Nat /\ \A k \in 1..n : x[k] \in Bytes
      /\ \A k \in 0..n : Register(t, f[k]) /\ Register(t, g[k])
      /\ \A k \in 1..n : f[k] = NextCrc(t, x[k])[f[k - 1]]
      /\ \A k \in 1..n : g[k] = NextCrc(t, y[k])[g[k - 1]]
      /\ f[0] = g[0]
  BY CrcSteps
<1>2. p \in Nat /\ p <= n
  BY <1>1
<1> HIDE DEF n
<1>3. 0 \in T
  BY <1>1, <1>2 DEF SameRegister
<1>4. ASSUME NEW k \in 0..(p - 1), k \in T
      PROVE  k + 1 \in T
  <2>1. /\ k + 1 \in 1..p /\ k + 1 \in 1..n /\ k + 1 - 1 = k /\ k \in 0..n
        /\ k + 1 \in 0..p
    BY <1>1, <1>2
  <2>2. f[k + 1] = NextCrc(t, x[k + 1])[f[k]] /\ g[k + 1] = NextCrc(t, x[k + 1])[g[k]]
    BY <1>1, <2>1
  <2>3. /\ Register(t, f[k]) /\ Register(t, g[k]) /\ SameRegister(t, f[k], g[k])
        /\ x[k + 1] \in Bytes
    BY <1>1, <1>4, <2>1
  <2>4. SameRegister(t, f[k + 1], g[k + 1])
    BY <2>2, <2>3, NextSame
  <2>5. QED BY <2>1, <2>4
<1>5. \A k \in 0..p : k \in T
  <2> HIDE DEF T
  <2>1. QED BY <1>2, <1>3, <1>4, InductionUpTo
<1>6. p \in T
  BY <1>2, <1>5
<1>7. QED
  BY <1>6

\* Before equal bytes the registers were the same, if they are at the end.
LEMMA SameBackward ==
  ASSUME NEW t \in CrcTypes \ {"TYPE_A"}, NEW x \in Seq(Bytes), NEW y \in Seq(Bytes),
         Len(x) = Len(y), NEW f, IsCrc(f, t, x), NEW g, IsCrc(g, t, y),
         NEW p \in 0..Len(x), \A k \in (p + 1)..Len(x) : x[k] = y[k],
         SameRegister(t, f[Len(x)], g[Len(x)])
  PROVE  SameRegister(t, f[p], g[p])
<1> DEFINE n == Len(x)
           T == {j \in 0..(n - p) : SameRegister(t, f[n - j], g[n - j])}
<1>1. /\ n \in Nat /\ \A k \in 1..n : x[k] \in Bytes
      /\ \A k \in 0..n : Register(t, f[k]) /\ Register(t, g[k])
      /\ \A k \in 1..n : f[k] = NextCrc(t, x[k])[f[k - 1]]
      /\ \A k \in 1..n : g[k] = NextCrc(t, y[k])[g[k - 1]]
  BY CrcSteps
<1>2. p \in Nat /\ p <= n /\ n - p \in Nat /\ n - 0 = n /\ n - (n - p) = p
  BY <1>1
<1>2a. \A k \in (p + 1)..n : x[k] = y[k]
  OBVIOUS
<1>3. 0 \in T
  <2>1. 0 \in 0..(n - p)
    BY <1>2
  <2>2. QED BY <1>2, <2>1
<1> HIDE DEF n
<1>4. ASSUME NEW j \in 0..(n - p - 1), j \in T
      PROVE  j + 1 \in T
  <2> DEFINE k == n - j
  <2>1. /\ k \in 1..n /\ k \in (p + 1)..n /\ k - 1 \in 0..n /\ k - 1 = n - (j + 1)
        /\ j + 1 \in 0..(n - p)
    BY <1>1, <1>2
  <2>2. SameRegister(t, f[k], g[k])
    BY <1>4
  <2> HIDE DEF k
  <2>3. f[k] = NextCrc(t, x[k])[f[k - 1]] /\ g[k] = NextCrc(t, x[k])[g[k - 1]]
    BY <1>1, <1>2a, <2>1
  <2>4. Register(t, f[k - 1]) /\ Register(t, g[k - 1]) /\ x[k] \in Bytes
    BY <1>1, <2>1
  <2>5. SameRegister(t, f[k - 1], g[k - 1])
    BY <2>2, <2>3, <2>4, NextBack
  <2>6. QED BY <2>1, <2>5
<1>5. \A j \in 0..(n - p) : j \in T
  <2> HIDE DEF T
  <2> DEFINE m == n - p
  <2>1. m \in Nat /\ \A j \in 0..(m - 1) : j \in T => j + 1 \in T
    BY <1>2, <1>4
  <2> HIDE DEF m
  <2>2. \A j \in 0..m : j \in T
    BY <1>3, <2>1, InductionUpTo
  <2>3. QED BY <2>2 DEF m
<1>6. n - p \in T
  BY <1>2, <1>5
<1>7. QED
  BY <1>2, <1>6

\* Data that differ in a byte, and perhaps in the next, have other registers.
LEMMA OtherRegister ==
  ASSUME NEW t \in CrcTypes \ {"TYPE_A"}, NEW x \in Seq(Bytes), NEW y \in Seq(Bytes),
         Len(x) = Len(y), NEW f, IsCrc(f, t, x), NEW g, IsCrc(g, t, y),
         NEW p \in 1..Len(x), x[p] # y[p],
         \A k \in 1..Len(x) : k < p \/ k > p + 1 => x[k] = y[k]
  PROVE  /\ ~SameRegister(t, f[Len(x)], g[Len(x)])
         /\ p = Len(x) => ~SameBits(f[p], g[p], 8..(CrcOptions[t].width - 1))
<1> DEFINE n == Len(x)
<1>1. /\ n \in Nat /\ \A k \in 1..n : x[k] \in Bytes /\ y[k] \in Bytes
      /\ \A k \in 0..n : Register(t, f[k]) /\ Register(t, g[k])
      /\ \A k \in 1..n : f[k] = NextCrc(t, x[k])[f[k - 1]]
      /\ \A k \in 1..n : g[k] = NextCrc(t, y[k])[g[k - 1]]
  <2>1. /\ \A k \in 0..n : Register(t, f[k])
        /\ \A k \in 1..n : f[k] = NextCrc(t, x[k])[f[k - 1]]
    BY CrcSteps
  <2>2. /\ \A k \in 0..n : Register(t, g[k])
        /\ \A k \in 1..n : g[k] = NextCrc(t, y[k])[g[k - 1]]
    BY CrcSteps
  <2>3. n \in Nat /\ \A k \in 1..n : x[k] \in Bytes /\ y[k] \in Bytes
    OBVIOUS
  <2>4. QED BY <2>1, <2>2, <2>3
<1>2. p \in 1..n /\ p - 1 \in 0..n /\ p \in Nat /\ n = Len(x)
  BY <1>1
<1> HIDE DEF n
<1>3. SameRegister(t, f[p - 1], g[p - 1])
  <2> DEFINE k == p - 1
  <2>1. k \in 0..Len(x) /\ \A i \in 1..k : x[i] = y[i]
    <3>1. \A i \in 1..k : i \in 1..n /\ i < p
      BY <1>1, <1>2
    <3>2. QED BY <1>2, <3>1
  <2> HIDE DEF k
  <2>2. SameRegister(t, f[k], g[k])
    BY <2>1, SameForward
  <2>3. QED BY <2>2 DEF k
<1>4. f[p] = NextCrc(t, x[p])[f[p - 1]] /\ g[p] = NextCrc(t, y[p])[g[p - 1]]
      /\ Register(t, f[p - 1]) /\ Register(t, g[p - 1]) /\ x[p] \in Bytes /\ y[p] \in Bytes
  BY <1>1, <1>2
<1>5. /\ ~SameBits(f[p], g[p], 8..(CrcOptions[t].width - 1))
      /\ ~SameBits(f[p], g[p], Kept(CrcOptions[t]))
  BY <1>3, <1>4, NextDiffers
<1>6. CASE p = n
  <2>1. CrcOptions[t].width \in {16, 32}
    BY OptionsAre
  <2>2. \A i \in 8..(CrcOptions[t].width - 1) : i \in 0..(CrcOptions[t].width - 1)
    BY <2>1
  <2>3. ~SameRegister(t, f[p], g[p])
    BY <1>5, <2>2 DEF SameBits, SameRegister
  <2>4. QED BY <1>2, <1>5, <1>6, <2>3
<1>7. CASE p # n
  <2>1. SUFFICES ASSUME SameRegister(t, f[n], g[n]) PROVE FALSE
    BY <1>2, <1>7
  <2> DEFINE q == p + 1
  <2>2. q \in 0..n /\ q \in 1..n /\ q - 1 = p
    BY <1>1, <1>2, <1>7
  <2>3. \A k \in (q + 1)..n : x[k] = y[k]
    <3>1. \A k \in (q + 1)..n : k \in 1..n /\ k > p + 1
      BY <1>1, <1>2
    <3>2. QED BY <1>2, <3>1
  <2> HIDE DEF q
  <2>4. SameRegister(t, f[q], g[q])
    BY <1>2, <2>1, <2>2, <2>3, SameBackward
  <2>5. /\ f[q] = NextCrc(t, x[q])[f[p]] /\ g[q] = NextCrc(t, y[q])[g[p]]
        /\ x[q] \in Bytes /\ y[q] \in Bytes /\ Register(t, f[p]) /\ Register(t, g[p])
    <3>1. p \in 0..n
      BY <1>1, <1>2
    <3>2. QED BY <1>1, <2>2, <3>1
  <2>6. SameBits(f[p], g[p], Kept(CrcOptions[t]))
    BY <2>4, <2>5, NextBack
  <2>7. QED BY <1>5, <2>6
<1>8. QED
  BY <1>6, <1>7

-------------------------------------------------------------------------------
(* Damage: where it hits, and what it does to the checksum.                 *)

LEMMA BitOfByte ==
  ASSUME NEW w \in {16, 32}
  PROVE  /\ w \div 8 \in {2, 4} /\ w = 8 * (w \div 8)
         /\ \A i \in 0..(w - 1) : \E j \in 1..(w \div 8) : \E b \in 0..7 :
                i = b + 8 * (j - 1) /\ (i >= 8 <=> j >= 2)
<1>1. ASSUME NEW i \in 0..31
      PROVE  \E j \in 1..4 : \E b \in 0..7 :
                i = b + 8 * (j - 1) /\ (i >= 8 <=> j >= 2) /\ (i <= 15 => j <= 2)
  <2>1. CASE i \in 0..7
    <3>1. 1 \in 1..4 /\ i = i + 8 * (1 - 1) /\ (i >= 8 <=> 1 >= 2) /\ (i <= 15 => 1 <= 2)
      BY <2>1
    <3>2. QED BY <2>1, <3>1
  <2>2. CASE i \in 8..15
    <3>1. /\ i - 8 \in 0..7 /\ 2 \in 1..4 /\ i = i - 8 + 8 * (2 - 1)
          /\ (i >= 8 <=> 2 >= 2) /\ (i <= 15 => 2 <= 2)
      BY <2>2
    <3>2. QED BY <3>1
  <2>3. CASE i \in 16..23
    <3>1. /\ i - 16 \in 0..7 /\ 3 \in 1..4 /\ i = i - 16 + 8 * (3 - 1)
          /\ (i >= 8 <=> 3 >= 2) /\ (i <= 15 => 3 <= 2)
      BY <2>3
    <3>2. QED BY <3>1
  <2>4. CASE i \in 24..31
    <3>1. /\ i - 24 \in 0..7 /\ 4 \in 1..4 /\ i = i - 24 + 8 * (4 - 1)
          /\ (i >= 8 <=> 4 >= 2) /\ (i <= 15 => 4 <= 2)
      BY <2>4
    <3>2. QED BY <3>1
  <2>5. QED BY <1>1, <2>1, <2>2, <2>3, <2>4
<1>2. 16 \div 8 = 2 /\ 32 \div 8 = 4
  OBVIOUS
<1>3. CASE w = 16
  <2>1. ASSUME NEW i \in 0..15
        PROVE  \E j \in 1..2 : \E b \in 0..7 : i = b + 8 * (j - 1) /\ (i >= 8 <=> j >= 2)
    <3>1. PICK j \in 1..4, b \in 0..7 :
                i = b + 8 * (j - 1) /\ (i >= 8 <=> j >= 2) /\ (i <= 15 => j <= 2)
      BY <1>1, <2>1
    <3>2. j \in 1..2
      BY <2>1, <3>1
    <3>3. QED BY <3>1, <3>2
  <2>2. QED BY <1>2, <1>3, <2>1
<1>4. CASE w = 32
  BY <1>1, <1>2, <1>4
<1>5. QED
  BY <1>3, <1>4

LEMMA LongByte ==
  ASSUME NEW v \in SUBSET Nat
  PROVE  \A j \in 1..4 : /\ LongToBytes(v)[j] \in Bytes
                         /\ \A b \in 0..7 : b \in LongToBytes(v)[j] <=> b + 8 * (j - 1) \in v
<1>1. \A j \in 1..4 :
        LongToBytes(v)[j] = {i \in {l - 8 * (j - 1) : l \in {m \in v : m >= 8 * (j - 1)}} : i < 8}
  BY DEF LongToBytes, Low, RightShift
<1>2. \A j \in 1..4 : \A i \in LongToBytes(v)[j] : i \in 0..7
  BY <1>1
<1>3. \A j \in 1..4 : \A b \in 0..7 : b \in LongToBytes(v)[j] <=> b + 8 * (j - 1) \in v
  BY <1>1
<1>4. QED
  BY <1>2, <1>3 DEF Bytes

\* The bits of a checksum: two checksums agree where the registers do.
LEMMA ChecksumBits ==
  ASSUME NEW t \in CrcTypes \ {"TYPE_A"}, NEW f, NEW g, NEW c, NEW d,
         c = Low(SymDiff(f, CrcOptions[t].final_xor), CrcOptions[t].width),
         d = Low(SymDiff(g, CrcOptions[t].final_xor), CrcOptions[t].width)
  PROVE  \A i \in 0..(CrcOptions[t].width - 1) : (i \in c <=> i \in d) <=> (i \in f <=> i \in g)
<1> DEFINE w == CrcOptions[t].width
           x == CrcOptions[t].final_xor
<1>1. w \in {16, 32}
  BY OptionsAre
<1>2. c = Low(SymDiff(f, x), w) /\ d = Low(SymDiff(g, x), w)
  OBVIOUS
<1> HIDE DEF w, x
<1>3. \A i \in 0..(w - 1) : i < w
  BY <1>1
<1>4. \A i \in 0..(w - 1) : i \in c <=> ~(i \in f <=> i \in x)
  BY <1>2, <1>3, SymDiffIs DEF Low
<1>5. \A i \in 0..(w - 1) : i \in d <=> ~(i \in g <=> i \in x)
  BY <1>2, <1>3, SymDiffIs DEF Low
<1>6. QED
  BY <1>4, <1>5 DEF w

\* Where a damage hits.
LEMMA DamageIs ==
  ASSUME NEW damage \in Damages
  PROVE  \E p \in Nat \ {0} :
            /\ \E b \in 0..7 : <<p, b>> \in damage
            /\ \A hit \in damage : \E k \in {p, p + 1} : \E b \in 0..7 : hit = <<k, b>>
<1> DEFINE T == {hit[1] : hit \in damage}
<1>1. /\ damage # {} /\ damage \subseteq T \X (0..7)
      /\ \A x, y \in damage : x[1] \in Nat \ {0} /\ y[1] <= x[1] + 1
  BY DamagesAssumption
<1>2. T \in SUBSET Nat /\ T # {}
  BY <1>1
<1>3. PICK p \in T : \A y \in T : p <= y
  <2> HIDE DEF T
  <2>1. QED BY <1>2, LeastOf
<1>4. PICK x \in damage : x[1] = p
  OBVIOUS
<1>5. p \in Nat \ {0}
  BY <1>1, <1>4
<1>6. \A hit \in damage : hit[1] \in Nat /\ hit[1] >= p /\ hit[1] <= p + 1
  BY <1>1, <1>3, <1>4
<1>7. \A hit \in damage : \E k \in T : \E b \in 0..7 : hit = <<k, b>>
  <2>1. damage \subseteq T \X (0..7)
    BY <1>1
  <2> HIDE DEF T
  <2>2. QED BY <2>1
<1>8. \A hit \in damage : \E b \in 0..7 : hit = <<hit[1], b>>
  BY <1>7
<1>9. \A hit \in damage : \E k \in {p, p + 1} : \E b \in 0..7 : hit = <<k, b>>
  <2>1. ASSUME NEW hit \in damage
        PROVE  \E k \in {p, p + 1} : \E b \in 0..7 : hit = <<k, b>>
    <3>1. PICK b \in 0..7 : hit = <<hit[1], b>>
      BY <1>8
    <3>2. hit[1] \in {p, p + 1}
      BY <1>5, <1>6
    <3>3. QED BY <3>1, <3>2
  <2>2. QED BY <2>1
<1>10. \E b \in 0..7 : <<p, b>> \in damage
  BY <1>4, <1>8
<1>11. QED
  BY <1>5, <1>9, <1>10

LEMMA DamagedByte ==
  ASSUME NEW bytes \in Seq(Bytes), NEW damage \in Damages
  PROVE  /\ Damaged(bytes, damage) \in Seq(Bytes) /\ Len(Damaged(bytes, damage)) = Len(bytes)
         /\ \A k \in 1..Len(bytes) : \A b \in 0..7 :
                b \in Damaged(bytes, damage)[k] <=> ~(b \in bytes[k] <=> <<k, b>> \in damage)
<1> DEFINE D == Damaged(bytes, damage)
           n == Len(bytes)
           H(k) == {hit[2] : hit \in {h \in damage : h[1] = k}}
<1>1. n \in Nat /\ DOMAIN bytes = 1..n /\ \A k \in 1..n : bytes[k] \in SUBSET (0..7)
  BY DEF Bytes
<1>2. DOMAIN D = 1..n /\ D = [k \in 1..n |-> D[k]] /\ \A k \in 1..n : D[k] = SymDiff(bytes[k], H(k))
  BY <1>1 DEF Damaged
<1>0. \A hit \in damage : hit = <<hit[1], hit[2]>> /\ hit[2] \in 0..7
  <2>1. PICK p \in Nat \ {0} :
            \A hit \in damage : \E k \in {p, p + 1} : \E b \in 0..7 : hit = <<k, b>>
    BY DamageIs
  <2>2. ASSUME NEW hit \in damage
        PROVE  hit = <<hit[1], hit[2]>> /\ hit[2] \in 0..7
    <3>1. PICK k \in {p, p + 1}, b \in 0..7 : hit = <<k, b>>
      BY <2>1
    <3>2. QED BY <3>1
  <2>3. QED BY <2>2
<1>3. ASSUME NEW k \in 1..n, NEW b
      PROVE  b \in H(k) <=> <<k, b>> \in damage
  <2>1. \A hit \in damage : hit = <<hit[1], hit[2]>>
    BY <1>0
  <2>2. b \in H(k) <=> \E hit \in damage : hit[1] = k /\ hit[2] = b
    OBVIOUS
  <2> HIDE DEF H
  <2>3. QED BY <2>1, <2>2
<1>4. \A hit \in damage : hit[2] \in 0..7
  BY <1>0
<1>5. \A k \in 1..n : H(k) \in SUBSET (0..7)
  BY <1>4
<1> HIDE DEF D, H, n
<1>6. ASSUME NEW k \in 1..n, NEW b
      PROVE  b \in D[k] <=> ~(b \in bytes[k] <=> <<k, b>> \in damage)
  <2>1. b \in H(k) <=> <<k, b>> \in damage
    BY <1>3
  <2>2. D[k] = SymDiff(bytes[k], H(k))
    BY <1>2
  <2>3. b \in SymDiff(bytes[k], H(k)) <=> ~(b \in bytes[k] <=> b \in H(k))
    BY SymDiffIs
  <2>4. QED BY <2>1, <2>2, <2>3
<1>7. \A k \in 1..n : D[k] \in Bytes
  BY <1>1, <1>2, <1>5, SymDiffIs DEF Bytes
<1>8. D \in Seq(Bytes) /\ Len(D) = n
  <2>1. D \in [1..n -> Bytes]
    BY <1>2, <1>7
  <2>2. QED BY <1>1, <2>1
<1>9. QED
  BY <1>6, <1>8 DEF D, n

\* The bytes of a checksum.
LEMMA ChecksumBytes ==
  ASSUME NEW n, ConfigOK(n), CrcLength(n) > 0, NEW s \in Seq(Bytes)
  PROVE  LET t == handle[n].crc_type
             v == Calculate(t, s)
             c == Checksum(n, s)
         IN  /\ t \in CrcTypes \ {"TYPE_A"} /\ CrcLength(n) \in 1..4
             /\ CrcLength(n) = CrcOptions[t].width \div 8
             /\ c \in Seq(Bytes) /\ Len(c) = CrcLength(n)
             /\ \A j \in 1..CrcLength(n) : \A b \in 0..7 : b \in c[j] <=> b + 8 * (j - 1) \in v
<1> DEFINE t == handle[n].crc_type
           v == Calculate(t, s)
           l == LongToBytes(v)
           c == Checksum(n, s)
           k == CrcLength(n)
<1>1. k \in {2, 4}
  BY AddedLengths
<1>2. t \in CrcTypes /\ k = CrcOptions[t].width \div 8
  BY DEF ConfigOK, CrcLength
<1>3. t # "TYPE_A"
  <2>1. CrcOptions["TYPE_A"].width = 0
    BY DEF CrcOptions, CrcTypes, crc_init_opt_a, Options
  <2>2. 0 \div 8 = 0
    OBVIOUS
  <2>3. QED BY <1>1, <1>2, <2>1, <2>2
<1>4. v \in SUBSET Nat
  <2>1. PICK f : /\ IsCrc(f, t, s)
                 /\ v = Low(SymDiff(f[Len(s)], CrcOptions[t].final_xor), CrcOptions[t].width)
    BY <1>2, <1>3, CalculateIs, SeqIsSequence
  <2>2. Len(s) \in 0..Len(s)
    OBVIOUS
  <2>3. f[Len(s)] \in SUBSET (0..63)
    BY <1>2, <1>3, <2>1, <2>2, CrcSteps DEF Register, Registers
  <2>4. CrcOptions[t].final_xor \in SUBSET Nat
    BY <1>2, <1>3 DEF CrcTypes, CrcOptions, crc_init_opt_b, crc_init_opt_c,
                      crc_init_opt_d, crc_init_opt_e, Options
  <2>5. \A i \in v : i \in f[Len(s)] \/ i \in CrcOptions[t].final_xor
    BY <2>1, SymDiffIs DEF Low
  <2>6. \A i \in v : i \in Nat
    <3> DEFINE r == f[Len(s)]
               x == CrcOptions[t].final_xor
    <3>1. x \in SUBSET Nat /\ \A i \in v : i \in r \/ i \in x
      BY <2>4, <2>5
    <3>2. r \in SUBSET (0..63)
      BY <2>3
    <3> HIDE DEF r, x, v
    <3>3. \A i \in r : i \in 0..63
      BY <3>2
    <3>4. \A i \in 0..63 : i \in Nat
      OBVIOUS
    <3>5. QED BY <3>1, <3>3, <3>4
  <2> HIDE DEF v
  <2>7. QED BY <2>6
<1>5. IsSequence(l) /\ Len(l) = 4 /\ DOMAIN l = 1..4
  BY LongBytes, SequenceFacts
<1>6. /\ IsSequence(c) /\ Len(c) = k
      /\ \A j \in 1..k : c[j] = IF 1 + j - 1 \in DOMAIN l THEN l[1 + j - 1] ELSE {}
  <2>1. c = Slice(l, 1, k)
    BY DEF Checksum
  <2> HIDE DEF c, l, k
  <2>2. QED BY <1>1, <2>1, SliceIs
<1>7. \A j \in 1..4 : l[j] \in Bytes /\ \A b \in 0..7 : b \in l[j] <=> b + 8 * (j - 1) \in v
  BY <1>4, LongByte
<1> HIDE DEF l, c, k, v, t
<1>8. \A j \in 1..k : j \in 1..4 /\ c[j] = l[j]
  BY <1>1, <1>5, <1>6
<1>9. c \in Seq(Bytes)
  <2>1. c = [j \in 1..k |-> c[j]]
    BY <1>6, SequenceFacts
  <2>2. c \in [1..k -> Bytes]
    BY <1>7, <1>8, <2>1
  <2>3. QED BY <1>1, <2>2
<1>10. \A j \in 1..k : \A b \in 0..7 : b \in c[j] <=> b + 8 * (j - 1) \in v
  BY <1>7, <1>8
<1>11. k \in 1..4
  BY <1>1
<1>12. QED
  BY <1>2, <1>3, <1>6, <1>9, <1>10, <1>11 DEF l, c, k, v, t

LEMMA PrefixOf ==
  ASSUME NEW S, NEW s \in Seq(S), NEW n \in Nat, n <= Len(s)
  PROVE  /\ SubSeq(s, 1, n) \in Seq(S) /\ Len(SubSeq(s, 1, n)) = n
         /\ \A k \in 1..n : SubSeq(s, 1, n)[k] = s[k]
<1> DEFINE x == SubSeq(s, 1, n)
<1>1. /\ IsSequence(x) /\ Len(x) = n - 1 + 1
      /\ \A i \in 1..(n - 1 + 1) : x[i] = s[i + 1 - 1]
  BY SeqIsSequence, SubSeqIs
<1>2. Len(x) = n /\ \A k \in 1..n : x[k] = s[k] /\ s[k] \in S
  <2>1. n - 1 + 1 = n /\ \A i \in 1..n : i + 1 - 1 = i /\ i \in 1..Len(s)
    OBVIOUS
  <2> HIDE DEF x
  <2>2. QED BY <1>1, <2>1
<1>3. x = [k \in 1..n |-> x[k]]
  BY <1>1, <1>2, SequenceFacts
<1> HIDE DEF x
<1>4. x \in [1..n -> S]
  BY <1>2, <1>3
<1>5. QED
  BY <1>2, <1>4 DEF x

\* Where the receiver of a damaged datagram finds the checksum right.
LEMMA FoundCorrect ==
  ASSUME NEW n, ConfigOK(n), CrcLength(n) > 0,
         NEW s \in Seq(Bytes), NEW damage \in Damages,
         ChecksumCorrect(n, Damaged(s \o Checksum(n, s), damage))
  PROVE  LET t == handle[n].crc_type
             N == Len(s)
         IN  \E x \in Seq(Bytes) :
               /\ Len(x) = N
               /\ \A k \in 1..N : \A b \in 0..7 :
                    b \in x[k] <=> ~(b \in s[k] <=> <<k, b>> \in damage)
               /\ \A j \in 1..CrcLength(n) : \A b \in 0..7 :
                    <<N + j, b>> \in damage <=>
                        ~(b + 8 * (j - 1) \in Calculate(t, x) <=>
                          b + 8 * (j - 1) \in Calculate(t, s))
<1> DEFINE t == handle[n].crc_type
           N == Len(s)
           K == CrcLength(n)
           c == Checksum(n, s)
           d == s \o c
           D == Damaged(d, damage)
           x == SubSeq(D, 1, N)
           y == Checksum(n, x)
<1>1. /\ K \in 1..4 /\ c \in Seq(Bytes) /\ Len(c) = K
      /\ \A j \in 1..K : \A b \in 0..7 : b \in c[j] <=> b + 8 * (j - 1) \in Calculate(t, s)
  BY ChecksumBytes
<1>2. N \in Nat
  OBVIOUS
<1>3. /\ d \in Seq(Bytes) /\ Len(d) = N + K
      /\ \A k \in 1..N : d[k] = s[k]
      /\ \A j \in 1..K : d[N + j] = c[j]
  <2> HIDE DEF c, K
  <2>1. /\ d \in Seq(Bytes) /\ Len(d) = Len(s) + Len(c)
        /\ \A k \in 1..Len(s) : d[k] = s[k]
    BY <1>1, ConcatSeq
  <2>2. IsSequence(s) /\ IsSequence(c)
    BY <1>1, SeqIsSequence
  <2>3. \A j \in 1..Len(c) : d[Len(s) + j] = c[j]
    BY <2>2, ConcatIs
  <2>4. QED BY <1>1, <2>1, <2>3
<1>4. /\ D \in Seq(Bytes) /\ Len(D) = N + K
      /\ \A k \in 1..(N + K) : \A b \in 0..7 :
            b \in D[k] <=> ~(b \in d[k] <=> <<k, b>> \in damage)
  <2> HIDE DEF d, K
  <2>1. QED BY <1>3, DamagedByte
<1> HIDE DEF D, d, c, K, t
<1> HIDE DEF N
<1>5. /\ x \in Seq(Bytes) /\ Len(x) = N /\ \A k \in 1..N : x[k] = D[k]
  <2>1. N <= Len(D)
    BY <1>1, <1>2, <1>4
  <2>2. QED BY <1>2, <1>4, <2>1, PrefixOf
<1> HIDE DEF x
<1>6. /\ Len(y) = K
      /\ \A j \in 1..K : \A b \in 0..7 : b \in y[j] <=> b + 8 * (j - 1) \in Calculate(t, x)
  BY <1>5, ChecksumBytes DEF K, t
<1> HIDE DEF y
<1>7. Slice(D, N + 1, K) = y
  <2>1. Len(D) - K = N
    BY <1>1, <1>2, <1>4
  <2>2. ChecksumCorrect(n, D)
    BY DEF D, d, c
  <2>3. QED BY <2>1, <2>2 DEF ChecksumCorrect, K, y, x
<1>8. \A j \in 1..K : Slice(D, N + 1, K)[j] = D[N + j]
  <2>1. DOMAIN D = 1..(N + K)
    BY <1>4
  <2>2. \A j \in 1..K : N + 1 + j - 1 = N + j /\ N + j \in 1..(N + K)
    BY <1>1, <1>2
  <2>3. QED BY <2>1, <2>2 DEF Slice
<1>9. ASSUME NEW j \in 1..K, NEW b \in 0..7
      PROVE  <<N + j, b>> \in damage <=>
                ~(b + 8 * (j - 1) \in Calculate(t, x) <=> b + 8 * (j - 1) \in Calculate(t, s))
  <2>1. N + j \in 1..(N + K)
    BY <1>1, <1>2
  <2>2. b \in D[N + j] <=> ~(b \in d[N + j] <=> <<N + j, b>> \in damage)
    BY <1>4, <2>1
  <2>3. b \in D[N + j] <=> b + 8 * (j - 1) \in Calculate(t, x)
    BY <1>6, <1>7, <1>8
  <2>4. b \in d[N + j] <=> b + 8 * (j - 1) \in Calculate(t, s)
    BY <1>1, <1>3
  <2>5. QED BY <2>2, <2>3, <2>4
<1>10. ASSUME NEW k \in 1..N, NEW b \in 0..7
       PROVE  b \in x[k] <=> ~(b \in s[k] <=> <<k, b>> \in damage)
  <2>1. k \in 1..(N + K)
    BY <1>1, <1>2
  <2>2. b \in D[k] <=> ~(b \in d[k] <=> <<k, b>> \in damage)
    BY <1>4, <2>1
  <2>3. x[k] = D[k] /\ d[k] = s[k]
    BY <1>3, <1>5
  <2>4. QED BY <2>2, <2>3
<1>11. QED
  BY <1>5, <1>9, <1>10 DEF K, t, N

\* With any of the four checksums (rastacrc.c), damage in one byte of a datagram,
\* or in two neighbouring ones, in the checksum too, is seen by
\* bytesToRastaRedundancyPacket, however long the datagram is.
THEOREM DamageIsSeen ==
  ASSUME NEW n, ConfigOK(n), CrcLength(n) > 0,
         NEW s \in Seq(Bytes), NEW damage \in Damages,
         \A hit \in damage : hit[1] <= Len(s \o Checksum(n, s))
  PROVE  ~ChecksumCorrect(n, Damaged(s \o Checksum(n, s), damage))
<1> DEFINE t == handle[n].crc_type
           N == Len(s)
           K == CrcLength(n)
           w == CrcOptions[t].width
           BitAt(j, b) == b + 8 * (j - 1)
<1>1. SUFFICES ASSUME ChecksumCorrect(n, Damaged(s \o Checksum(n, s), damage))
               PROVE  FALSE
  OBVIOUS
<1>2. /\ t \in CrcTypes \ {"TYPE_A"} /\ K \in 1..4 /\ K = w \div 8
      /\ Len(s \o Checksum(n, s)) = N + K /\ N \in Nat
  <2>1. /\ t \in CrcTypes \ {"TYPE_A"} /\ K \in 1..4 /\ K = w \div 8
        /\ Checksum(n, s) \in Seq(Bytes) /\ Len(Checksum(n, s)) = K
    BY ChecksumBytes
  <2>2. Len(s \o Checksum(n, s)) = N + K
    <3> DEFINE c == Checksum(n, s)
    <3>1. c \in Seq(Bytes) /\ Len(c) = K
      BY <2>1
    <3> HIDE DEF c, K
    <3>2. Len(s \o c) = Len(s) + Len(c)
      BY <3>1
    <3>3. QED BY <3>1, <3>2 DEF c
  <2>3. QED BY <2>1, <2>2
<1>3. w \in {16, 32}
  BY <1>2, OptionsAre
<1>4. /\ K \in {2, 4} /\ w = 8 * K
      /\ \A i \in 0..(w - 1) : \E j \in 1..K : \E b \in 0..7 :
             i = BitAt(j, b) /\ (i >= 8 <=> j >= 2)
  <2>1. K \in {2, 4}
    <3>1. 16 \div 8 = 2 /\ 32 \div 8 = 4
      OBVIOUS
    <3> HIDE DEF K, w
    <3>2. QED BY <1>2, <1>3, <3>1
  <2> HIDE DEF w, K
  <2>2. K = w \div 8
    BY <1>2
  <2>3. QED BY <1>3, <2>1, <2>2, BitOfByte
<1>5. PICK x \in Seq(Bytes) :
        /\ Len(x) = N
        /\ \A k \in 1..N : \A b \in 0..7 :
             b \in x[k] <=> ~(b \in s[k] <=> <<k, b>> \in damage)
        /\ \A j \in 1..K : \A b \in 0..7 :
             <<N + j, b>> \in damage <=>
                 ~(BitAt(j, b) \in Calculate(t, x) <=> BitAt(j, b) \in Calculate(t, s))
  BY <1>1, FoundCorrect
<1>6. PICK f : /\ IsCrc(f, t, x)
               /\ Calculate(t, x) = Low(SymDiff(f[N], CrcOptions[t].final_xor), w)
  BY <1>2, <1>5, CalculateIs, SeqIsSequence
<1>7. PICK g : /\ IsCrc(g, t, s)
               /\ Calculate(t, s) = Low(SymDiff(g[N], CrcOptions[t].final_xor), w)
  BY <1>2, CalculateIs, SeqIsSequence
<1> DEFINE c == Calculate(t, x)
           d == Calculate(t, s)
<1>8. \A i \in 0..(w - 1) : (i \in c <=> i \in d) <=> (i \in f[N] <=> i \in g[N])
  BY <1>2, <1>6, <1>7, ChecksumBits
<1>9. PICK p \in Nat \ {0} :
        /\ \E b \in 0..7 : <<p, b>> \in damage
        /\ \A hit \in damage : \E k \in {p, p + 1} : \E b \in 0..7 : hit = <<k, b>>
  BY DamageIs
<1>10. p <= N + K
  BY <1>2, <1>9
<1>11. \A k : \A b : <<k, b>> \in damage => k = p \/ k = p + 1
  BY <1>9
<1> HIDE DEF c, d, K, w, BitAt, N, t
\* Bytes without a hit are as they were.
<1>12. ASSUME NEW k \in 1..N, k < p \/ k > p + 1
       PROVE  x[k] = s[k]
  <2>1. x[k] \in SUBSET (0..7) /\ s[k] \in SUBSET (0..7)
    BY <1>5 DEF Bytes, N
  <2>2. \A b : <<k, b>> \notin damage
    BY <1>9, <1>11, <1>12
  <2>3. \A b \in 0..7 : b \in x[k] <=> b \in s[k]
    BY <1>5, <2>2
  <2>4. QED BY <2>1, <2>3
\* Without a hit from the first or the second byte of the checksum on, the
\* registers agree there.
<1>13. ASSUME p + 1 <= N
       PROVE  SameRegister(t, f[N], g[N])
  <2>1. ASSUME NEW i \in 0..(w - 1)
        PROVE  i \in f[N] <=> i \in g[N]
    <3>1. PICK j \in 1..K, b \in 0..7 : i = BitAt(j, b)
      BY <1>4
    <3>2. N + j # p /\ N + j # p + 1
      BY <1>2, <1>9, <1>13
    <3>3. <<N + j, b>> \notin damage
      BY <1>11, <3>2
    <3>4. i \in c <=> i \in d
      BY <1>5, <3>1, <3>3 DEF c, d
    <3>5. QED BY <1>8, <3>4
  <2>2. QED BY <2>1 DEF SameRegister, w
<1>14. ASSUME p = N
       PROVE  SameBits(f[N], g[N], 8..(w - 1))
  <2>1. ASSUME NEW i \in 8..(w - 1)
        PROVE  i \in f[N] <=> i \in g[N]
    <3>0. i \in 0..(w - 1) /\ i >= 8
      BY <1>3
    <3>1. PICK j \in 1..K, b \in 0..7 : i = BitAt(j, b) /\ (i >= 8 <=> j >= 2)
      BY <1>4, <3>0
    <3>2. N + j # p /\ N + j # p + 1
      BY <1>2, <1>9, <1>14, <3>0, <3>1
    <3>3. <<N + j, b>> \notin damage
      BY <1>11, <3>2
    <3>4. i \in c <=> i \in d
      BY <1>5, <3>1, <3>3 DEF c, d
    <3>5. QED BY <1>8, <3>0, <3>4
  <2>2. QED BY <2>1 DEF SameBits
<1>15. CASE p <= N
  <2>1. p \in 1..N
    BY <1>2, <1>9, <1>15
  <2>2. x[p] # s[p]
    BY <1>5, <1>9, <2>1
  <2>3. \A k \in 1..Len(x) : k < p \/ k > p + 1 => x[k] = s[k]
    BY <1>5, <1>12
  <2>4. /\ ~SameRegister(t, f[Len(x)], g[Len(x)])
        /\ p = Len(x) => ~SameBits(f[p], g[p], 8..(CrcOptions[t].width - 1))
    <3>1. Len(x) = Len(s) /\ p \in 1..Len(x)
      BY <1>5, <2>1 DEF N
    <3>2. QED BY <1>2, <1>5, <1>6, <1>7, <2>2, <2>3, <3>1, OtherRegister
  <2>5. p = N \/ p + 1 <= N
    BY <1>2, <1>9, <1>15
  <2>6. QED BY <1>5, <1>13, <1>14, <2>4, <2>5 DEF w
<1>16. CASE p > N
  <2>1. \A k \in 1..N : x[k] = s[k]
    BY <1>2, <1>9, <1>12, <1>16
  <2>2. x = s
    BY <1>5, <2>1, SequencesEqual, SeqIsSequence DEF N
  <2>3. PICK b \in 0..7 : <<p, b>> \in damage
    BY <1>9
  <2>4. p - N \in 1..K /\ N + (p - N) = p
    BY <1>2, <1>9, <1>10, <1>16
  <2>5. ~(BitAt(p - N, b) \in c <=> BitAt(p - N, b) \in d)
    BY <1>5, <2>3, <2>4 DEF c, d
  <2>6. QED BY <2>2, <2>5 DEF c, d
<1>17. QED
  BY <1>2, <1>9, <1>15, <1>16

-------------------------------------------------------------------------------
(* Everything in a datagram is a byte.                                      *)

LEMMA FunctionIsSeq ==
  ASSUME NEW S, NEW n \in Nat, NEW s \in [1..n -> S]
  PROVE  s \in Seq(S)
OBVIOUS

LEMMA FieldBytes ==
    /\ \A k : ShortToBytes(k) \in Seq(Bytes)
    /\ \A k \in Nat : Zeros(k) \in Seq(Bytes)
    /\ \A v \in SUBSET Nat : LongToBytes(v) \in Seq(Bytes)
<1>1. \A k : ShortToBytes(k) \in Seq(Bytes)
  BY ByteIs DEF ShortToBytes
<1>2. ASSUME NEW k \in Nat
      PROVE  Zeros(k) \in Seq(Bytes)
  <2>1. Zeros(k) \in [1..k -> Bytes]
    BY DEF Zeros, Bytes
  <2>2. QED BY <2>1
<1>3. ASSUME NEW v \in SUBSET Nat
      PROVE  LongToBytes(v) \in Seq(Bytes)
  <2> DEFINE l == LongToBytes(v)
  <2>1. l = [k \in 1..4 |-> l[k]]
    BY DEF LongToBytes
  <2>2. \A k \in 1..4 : l[k] \in Bytes
    BY LongByte
  <2> HIDE DEF l
  <2>3. l \in [1..4 -> Bytes]
    BY <2>1, <2>2
  <2>4. 4 \in Nat
    OBVIOUS
  <2>5. QED BY <2>3, <2>4, FunctionIsSeq DEF l
<1>4. QED
  BY <1>1, <1>2, <1>3

LEMMA DataBytes ==
  ASSUME NEW type, NEW c \in ContentsOfType(type)
  PROVE  DataOf(type, c) \in Seq(Bytes)
<1>0. /\ type \in Handshake => type # "DISCREQ" /\ type \notin Carrying
      /\ type = "DISCREQ" => type \notin Carrying
  BY DEF Carrying, Handshake
<1>1. CASE type \in Handshake
  <2> DEFINE s == ShortToBytes(c.send_max)
             z == Zeros(8)
             v == c.version
  <2>1. c \in [version : [1..4 -> Bytes], send_max : Shorts]
    BY <1>0, <1>1 DEF ContentsOfType
  <2>2. v \in Seq(Bytes)
    <3>1. v \in [1..4 -> Bytes] /\ 4 \in Nat
      BY <2>1
    <3> HIDE DEF v
    <3>2. QED BY <3>1, FunctionIsSeq
  <2>3. s \in Seq(Bytes) /\ z \in Seq(Bytes)
    BY FieldBytes
  <2>4. DataOf(type, c) = v \o s \o z
    BY <1>0, <1>1 DEF DataOf
  <2> HIDE DEF s, z, v
  <2>5. QED BY <2>2, <2>3, <2>4
<1>2. CASE type = "DISCREQ"
  <2> DEFINE s == ShortToBytes(c.details)
             r == ShortToBytes(c.reason)
  <2>1. DataOf(type, c) = s \o r
    BY <1>0, <1>2 DEF DataOf
  <2>2. s \in Seq(Bytes) /\ r \in Seq(Bytes)
    BY FieldBytes
  <2> HIDE DEF s, r
  <2>3. QED BY <2>1, <2>2
<1>3. CASE type \in Carrying
  <2>1. c.messages \in Seq(Seq(Bytes))
    BY <1>0, <1>3 DEF ContentsOfType
  <2>2. DataOf(type, c) = FlattenSeq(Chunks(c.messages))
    BY <1>0, <1>3 DEF DataOf, Chunks, Chunk
  <2>3. QED BY <2>1, <2>2, ChunksAre
<1>4. CASE type \notin Handshake \cup {"DISCREQ"} \cup Carrying
  <2>1. DataOf(type, c) = <<>>
    BY <1>4 DEF DataOf
  <2>2. QED BY <2>1
<1>5. QED
  BY <1>1, <1>2, <1>3, <1>4

LEMMA HeaderBytes ==
  ASSUME NEW length, NEW p, WellFormed(p)
  PROVE  PduHeader(length, p) \in Seq(Bytes)
<1> DEFINE s1 == ShortToBytes(length)
           s2 == ShortToBytes(TypeCode[p.type])
           l1 == LongToBytes(p.receiver)
           l2 == LongToBytes(p.sender)
           l3 == LongToBytes(p.sn)
           l4 == LongToBytes(p.cs)
           l5 == LongToBytes(p.ts)
           l6 == LongToBytes(p.cts)
<1>1. s1 \in Seq(Bytes) /\ s2 \in Seq(Bytes)
  BY FieldBytes
<1>2. \A v \in SUBSET (0..31) : v \in SUBSET Nat
  OBVIOUS
<1>3. /\ l1 \in Seq(Bytes) /\ l2 \in Seq(Bytes) /\ l3 \in Seq(Bytes)
      /\ l4 \in Seq(Bytes) /\ l5 \in Seq(Bytes) /\ l6 \in Seq(Bytes)
  BY <1>2, FieldBytes DEF WellFormed
<1>4. PduHeader(length, p) = s1 \o s2 \o l1 \o l2 \o l3 \o l4 \o l5 \o l6
  BY DEF PduHeader
<1> HIDE DEF s1, s2, l1, l2, l3, l4, l5, l6
<1>5. \A a, b \in Seq(Bytes) : a \o b \in Seq(Bytes)
  OBVIOUS
<1>6. QED
  BY <1>1, <1>3, <1>4, <1>5

LEMMA PduBytes ==
  ASSUME HashHasLength, NEW n, ConfigOK(n), NEW p, WellFormed(p)
  PROVE  ModuleToBytes(n, p) \in Seq(Bytes)
<1> DEFINE data == DataOf(p.type, p.contents)
           h == PduHeader(HeaderLength + CodeLength(n) + Len(data), p)
           c == SafetyCode(n, h \o data)
<1>1. data \in Seq(Bytes) /\ h \in Seq(Bytes)
  BY DataBytes, HeaderBytes DEF WellFormed
<1>2. c \in Seq(Bytes)
  BY AddedLengths DEF HashHasLength, SafetyCode
<1>3. ModuleToBytes(n, p) = (h \o data) \o c
  BY <1>1, ModuleBytesAre, SeqIsSequence
<1> HIDE DEF h, data, c
<1>4. QED
  BY <1>1, <1>2, <1>3

\* A datagram is the bytes that the checksum is made of, and the checksum.
LEMMA DatagramBytes ==
  ASSUME HashHasLength, NEW n, ConfigOK(n), NEW number, NEW p, WellFormed(WithBytes(n, p))
  PROVE  \E s \in Seq(Bytes) : DatagramOf(n, number, p) = s \o Checksum(n, s)
<1> DEFINE pdu == ModuleToBytes(n, WithBytes(n, p))
           h == RedundancyHeader(n, number, pdu)
<1>1. pdu \in Seq(Bytes)
  BY PduBytes
<1>2. h \in Seq(Bytes)
  <2> DEFINE k == 8 + Len(pdu) + CrcLength(n)
  <2>1. h = ShortToBytes(k) \o Zeros(2) \o LongToBytes(Bits(number))
    BY DEF RedundancyHeader
  <2>2. Bits(number) \in SUBSET Nat
    BY BitsAre
  <2>3. /\ ShortToBytes(k) \in Seq(Bytes) /\ Zeros(2) \in Seq(Bytes)
        /\ LongToBytes(Bits(number)) \in Seq(Bytes)
    BY <2>2, FieldBytes
  <2>4. \A a, b \in Seq(Bytes) : a \o b \in Seq(Bytes)
    OBVIOUS
  <2> HIDE DEF h, k
  <2>5. QED BY <2>1, <2>3, <2>4
<1>3. DatagramOf(n, number, p) = (h \o pdu) \o Checksum(n, h \o pdu)
  BY <1>1, DatagramIs, SeqIsSequence DEF DatagramOf
<1> HIDE DEF h, pdu
<1>4. h \o pdu \in Seq(Bytes)
  BY <1>1, <1>2
<1>5. QED
  BY <1>3, <1>4

-------------------------------------------------------------------------------
(* The runs: the settings stay, a datagram is long enough for its sender,   *)
(* and what it was made of is known.                                        *)

Configured(h) ==
    /\ h = [dictionary |-> h.dictionary, sending |-> h.sending, other |-> h.other,
            hash_length |-> h.hash_length, algorithm |-> h.algorithm, key |-> h.key,
            crc_type |-> h.crc_type, connections |-> h.connections,
            versions |-> h.versions, running |-> h.running]
    /\ h.hash_length \in 0..2 /\ h.crc_type \in CrcTypes

HandlesOK ==
    /\ handle = [n \in Nodes |-> handle[n]] /\ \A n \in Nodes : Configured(handle[n])
    /\ failed \in [Nodes -> BOOLEAN]

\* The length of a datagram, at least.
LongEnough(n, bytes) ==
    /\ IsSequence(bytes)
    /\ Len(bytes) >= 8 + HeaderLength + CodeLength(n) + CrcLength(n)

\* What the network may have made of a datagram.
Arrives(bytes, intact, original) ==
    IF intact THEN bytes = original
    ELSE \E damage \in Damages :
            /\ \A hit \in damage : hit[1] <= Len(original)
            /\ bytes = Damaged(original, damage)

WireOK ==
    wire # None =>
        /\ wire = [from |-> wire.from, packet |-> wire.packet, intact |-> wire.intact,
                   bytes |-> wire.bytes]
        /\ wire.from \in Nodes /\ wire.intact \in BOOLEAN
        /\ LongEnough(wire.from, wire.bytes)
        /\ Matching(wire.from, Peer(wire.from)) =>
             \E x \in Packets(wire.from) : \E number :
                /\ wire.packet = Addressed(wire.from, x)
                /\ Arrives(wire.bytes, wire.intact, DatagramOf(wire.from, number, wire.packet))

\* The inductive invariant: also what the datagram on its way is made of.
PduInv == HandlesOK /\ WireOK /\ SpoiltOnlyByMismatch

LEMMA ConfigurationIs ==
  ASSUME NEW lines
  PROVE  Configured(Configuration(lines))
<1>1. \A d : ChecksumLength(d) \in 0..2
  BY DEF ChecksumLength
<1>2. \A d : CrcType(d) \in CrcTypes
  <2>1. SUFFICES ASSUME NEW d PROVE CrcType(d) \in CrcTypes
    OBVIOUS
  <2> DEFINE named == {t \in {"TYPE_A", "TYPE_B", "TYPE_C", "TYPE_D", "TYPE_E"} :
                          Get(d, "RASTA_CRC_TYPE") = StringValue(<<Word(t)>>)}
  <2>2. CrcType(d) = IF named = {} THEN "TYPE_A" ELSE CHOOSE t \in named : TRUE
    BY DEF CrcType
  <2>3. \A t \in named : t \in CrcTypes
    BY DEF CrcTypes
  <2> HIDE DEF named
  <2>4. "TYPE_A" \in CrcTypes
    BY DEF CrcTypes
  <2>5. QED
    BY <2>2, <2>3, <2>4
<1> DEFINE d == Dictionary(lines)
           s == [x \in DOMAIN SendingNumbers |-> NumberOf(d, SendingNumbers[x])]
           o == [x \in DOMAIN OtherNumbers |-> NumberOf(d, OtherNumbers[x])]
<1>3. Configuration(lines) =
        [dictionary |-> d, sending |-> s, other |-> o,
         hash_length |-> ChecksumLength(d), algorithm |-> Algorithm(d),
         key |-> HashKey(d), crc_type |-> CrcType(d),
         connections |-> Connections(d), versions |-> AcceptedVersions(d),
         running |-> HasLogger(d)]
  BY DEF Configuration
<1> HIDE DEF d, s, o
<1>4. QED
  BY <1>1, <1>2, <1>3 DEF Configured

LEMMA Stopped ==
  ASSUME NEW h, Configured(h), NEW g, g = [h EXCEPT !.running = FALSE]
  PROVE  g = [dictionary |-> h.dictionary, sending |-> h.sending, other |-> h.other,
              hash_length |-> h.hash_length, algorithm |-> h.algorithm, key |-> h.key,
              crc_type |-> h.crc_type, connections |-> h.connections,
              versions |-> h.versions, running |-> FALSE]
BY DEF Configured

LEMMA ConfiguredOK ==
  ASSUME HandlesOK, NEW n \in Nodes
  PROVE  ConfigOK(n)
BY DEF HandlesOK, Configured, ConfigOK

\* No step changes the settings.
SettingsKept ==
    \A n \in Nodes :
        /\ handle'[n].hash_length = handle[n].hash_length /\ handle'[n].key = handle[n].key
        /\ handle'[n].algorithm = handle[n].algorithm
        /\ handle'[n].crc_type = handle[n].crc_type /\ handle'[n].other = handle[n].other

LEMMA StepKeepsSettings ==
  ASSUME HandlesOK, [Next]_vars
  PROVE  HandlesOK' /\ SettingsKept
<1>1. CASE handle' = handle /\ failed' \in [Nodes -> BOOLEAN]
  BY <1>1 DEF HandlesOK, SettingsKept, Configured
<1>2. CASE /\ failed' = failed
           /\ \E n \in Nodes : handle' = [handle EXCEPT ![n].running = FALSE]
  <2>1. PICK n \in Nodes : handle' = [handle EXCEPT ![n].running = FALSE]
    BY <1>2
  <2>2. handle' = [k \in Nodes |-> IF k = n THEN [handle[n] EXCEPT !.running = FALSE]
                                   ELSE handle[k]]
    BY <2>1 DEF HandlesOK
  <2> DEFINE h == handle[n]
             g == [h EXCEPT !.running = FALSE]
  <2>3. Configured(h)
    BY DEF HandlesOK
  <2>4. /\ g = [dictionary |-> h.dictionary, sending |-> h.sending, other |-> h.other,
                hash_length |-> h.hash_length, algorithm |-> h.algorithm, key |-> h.key,
                crc_type |-> h.crc_type, connections |-> h.connections,
                versions |-> h.versions, running |-> FALSE]
    BY <2>3, Stopped
  <2>5. /\ Configured(g)
        /\ g.hash_length = h.hash_length /\ g.key = h.key /\ g.algorithm = h.algorithm
        /\ g.crc_type = h.crc_type /\ g.other = h.other
    <3> HIDE DEF h, g
    <3>1. QED BY <2>3, <2>4 DEF Configured
  <2>6. handle'[n] = g /\ \A k \in Nodes : k # n => handle'[k] = handle[k]
    BY <2>2
  <2> HIDE DEF g
  <2>7. SettingsKept
    BY <2>5, <2>6 DEF SettingsKept
  <2>8. \A k \in Nodes : Configured(handle'[k])
    BY <2>5, <2>6 DEF HandlesOK
  <2>9. handle' = [k \in Nodes |-> handle'[k]]
    BY <2>2
  <2>10. QED BY <1>2, <2>7, <2>8, <2>9 DEF HandlesOK
<1>3. CASE UNCHANGED vars
  BY <1>1, <1>3 DEF vars, HandlesOK
<1>4. ASSUME NEW n \in Nodes, Send(n)
      PROVE  handle' = handle /\ failed' \in [Nodes -> BOOLEAN]
  BY <1>4 DEF Send, HandlesOK
<1>5. CASE Damage
  BY <1>1, <1>5 DEF Damage, HandlesOK
<1>6. ASSUME NEW n \in Nodes, Receive(n)
      PROVE  \/ handle' = handle /\ failed' \in [Nodes -> BOOLEAN]
             \/ failed' = failed /\ handle' = [handle EXCEPT ![n].running = FALSE]
  <2>1. CASE ReceiveShort(n)
    BY <2>1 DEF ReceiveShort, HandlesOK
  <2>2. CASE ReceiveOverrun(n)
    BY <2>2 DEF ReceiveOverrun
  <2>3. CASE ReceivePacket(n)
    BY <2>3 DEF ReceivePacket, HandlesOK
  <2>4. QED BY <1>6, <2>1, <2>2, <2>3 DEF Receive
<1>7. QED
  BY <1>1, <1>2, <1>3, <1>4, <1>5, <1>6 DEF Next

LEMMA KeptMeans ==
  ASSUME SettingsKept
  PROVE  /\ \A n \in Nodes : CodeLength(n)' = CodeLength(n) /\ CrcLength(n)' = CrcLength(n)
         /\ \A n \in Nodes : Id(n)' = Id(n)
         /\ \A n, m \in Nodes : Matching(n, m)' = Matching(n, m)
         /\ \A n \in Nodes : \A number, p :
                DatagramOf(n, number, p)' = DatagramOf(n, number, p)
         /\ \A n \in Nodes : \A x : Addressed(n, x)' = Addressed(n, x)
         /\ \A n \in Nodes : \A b : LongEnough(n, b)' = LongEnough(n, b)
<1>1. \A n \in Nodes : CodeLength(n)' = CodeLength(n) /\ CrcLength(n)' = CrcLength(n)
  BY DEF SettingsKept, CodeLength, CrcLength
<1>2. \A n \in Nodes : Id(n)' = Id(n)
  BY DEF SettingsKept, Id
<1>3. \A n, m \in Nodes : Matching(n, m)' = Matching(n, m)
  BY DEF SettingsKept, Matching
<1>4. ASSUME NEW n \in Nodes, NEW number, NEW p
      PROVE  DatagramOf(n, number, p)' = DatagramOf(n, number, p)
  <2>1. /\ handle'[n].hash_length = handle[n].hash_length /\ handle'[n].key = handle[n].key
        /\ handle'[n].crc_type = handle[n].crc_type
    BY DEF SettingsKept
  <2>2. QED
    BY <2>1 DEF DatagramOf, RedundancyPacketToBytes, ModuleToBytes, SafetyCode, CodeLength,
                Checksum, CrcLength
<1>5. \A n \in Nodes : \A x : Addressed(n, x)' = Addressed(n, x)
  BY <1>2, PeerFacts DEF Addressed
<1>6. \A n \in Nodes : \A b : LongEnough(n, b)' = LongEnough(n, b)
  BY <1>1 DEF LongEnough
<1>7. QED
  BY <1>1, <1>2, <1>3, <1>4, <1>5, <1>6

LEMMA DamagedLength ==
  ASSUME NEW bytes, IsSequence(bytes), NEW damage
  PROVE  IsSequence(Damaged(bytes, damage)) /\ Len(Damaged(bytes, damage)) = Len(bytes)
<1> DEFINE s == Damaged(bytes, damage)
           n == Len(bytes)
<1>1. DOMAIN bytes = 1..n /\ n \in Nat
  BY SequenceFacts
<1> HIDE DEF n
<1>2. DOMAIN s = 1..n /\ s = [k \in 1..n |-> s[k]]
  BY <1>1 DEF Damaged
<1> HIDE DEF s
<1>3. IsSequence(s) /\ Len(s) = n
  BY <1>1, <1>2, SequenceOf
<1>4. QED
  BY <1>3 DEF s, n

LEMMA EncodedIsLong ==
  ASSUME HashHasLength, NEW n \in Nodes, ConfigOK(n), NEW x \in Packets(n),
         NEW pdu \in Encoded(n, WithBytes(n, Addressed(n, x)))
  PROVE  /\ IsSequence(pdu) /\ Len(pdu) >= HeaderLength + CodeLength(n)
         /\ ~failed[n] => pdu = ModuleToBytes(n, WithBytes(n, Addressed(n, x)))
<1> DEFINE b == WithBytes(n, Addressed(n, x))
           e == ModuleToBytes(n, b)
           L == Len(DataOf(b.type, b.contents))
<1>1. WellFormed(b)
  BY PacketsAssumption, SentPacket
<1>2. IsSequence(DataOf(b.type, b.contents)) /\ L \in Nat
  BY <1>1, ContentsAreRead, SequenceFacts DEF WellFormed
<1>3. IsSequence(e) /\ Len(e) = HeaderLength + L + CodeLength(n)
  BY <1>2, ModuleBytesAre
<1>4. Len(e) \in Nat /\ Len(e) >= HeaderLength + CodeLength(n)
  BY <1>2, <1>3, AddedLengths DEF HeaderLength
<1>5. pdu \in (IF failed[n] THEN {Slice(old, 1, Len(e)) : old \in {<<>>, heap[n]}} ELSE {e})
  BY DEF Encoded
<1> HIDE DEF e, b, L
<1>6. CASE failed[n]
  <2>1. PICK old : pdu = Slice(old, 1, Len(e))
    BY <1>5, <1>6
  <2>2. IsSequence(pdu) /\ Len(pdu) = Len(e)
    BY <1>4, <2>1, SliceIs
  <2>3. QED BY <1>4, <1>6, <2>2
<1>7. CASE ~failed[n]
  BY <1>3, <1>4, <1>5, <1>7 DEF e, b
<1>8. QED
  BY <1>6, <1>7

LEMMA SentIsLong ==
  ASSUME NEW n, ConfigOK(n), NEW number, NEW pdu,
         IsSequence(pdu), Len(pdu) >= HeaderLength + CodeLength(n)
  PROVE  LongEnough(n, RedundancyPacketToBytes(n, number, pdu))
<1> DEFINE d == RedundancyPacketToBytes(n, number, pdu)
<1>1. IsSequence(d) /\ Len(d) = 8 + Len(pdu) + CrcLength(n)
  BY DatagramIs
<1> HIDE DEF d
<1>2. Len(pdu) \in Nat /\ CrcLength(n) \in Nat /\ CodeLength(n) \in Nat
  BY SequenceFacts, AddedLengths
<1>3. LongEnough(n, d)
  BY <1>1, <1>2 DEF LongEnough, HeaderLength
<1>4. QED
  BY <1>3 DEF d

\* What a process finds too short adds less to a PDU than it does itself.
LEMMA TooShortMeans ==
  ASSUME NEW n, ConfigOK(n), NEW m, ConfigOK(m), NEW bytes, LongEnough(n, bytes),
         TooShort(m, InnerBytes(m, bytes))
  PROVE  CodeLength(m) + CrcLength(m) > CodeLength(n) + CrcLength(n)
<1> DEFINE e == Len(bytes) - CrcLength(m)
           pdu == InnerBytes(m, bytes)
<1>1. /\ CrcLength(m) \in {0, 2, 4} /\ CodeLength(m) \in Nat
      /\ CrcLength(n) \in Nat /\ CodeLength(n) \in Nat
  BY AddedLengths
<1>2. /\ IsSequence(bytes) /\ Len(bytes) \in Nat
      /\ Len(bytes) >= 36 + CodeLength(n) + CrcLength(n)
  BY SequenceFacts DEF LongEnough, HeaderLength
<1>3. e \in Nat /\ 9 \in Nat \ {0} /\ 9 <= e + 1 /\ e <= Len(bytes)
  BY <1>1, <1>2
<1> HIDE DEF e
<1>4. Len(SubSeq(bytes, 9, e)) = e - 9 + 1
  BY <1>2, <1>3, SubSeqIs
<1>5. pdu = SubSeq(bytes, 9, e)
  BY DEF InnerBytes, e
<1>6. Len(pdu) < 28 + CodeLength(m)
  BY DEF TooShort, HeaderLength
<1> HIDE DEF pdu
<1>7. Len(pdu) = Len(bytes) - CrcLength(m) - 8
  BY <1>1, <1>2, <1>4, <1>5 DEF e
<1>8. QED
  BY <1>1, <1>2, <1>6, <1>7

LEMMA PduInvInit ==
  ASSUME Init
  PROVE  PduInv
<1>1. HandlesOK
  <2>1. handle = [n \in Nodes |-> Configuration(Written(file[n]))]
    BY DEF Init
  <2>2. \A n \in Nodes : Configured(handle[n])
    BY <2>1, ConfigurationIs
  <2>3. handle = [n \in Nodes |-> handle[n]]
    BY <2>1
  <2>4. failed \in [Nodes -> BOOLEAN]
    BY DEF Init
  <2>5. QED BY <2>2, <2>3, <2>4 DEF HandlesOK
<1>2. WireOK
  BY DEF Init, WireOK
<1>3. SpoiltOnlyByMismatch
  BY DEF Init, SpoiltOnlyByMismatch
<1>4. QED
  BY <1>1, <1>2, <1>3 DEF PduInv

LEMMA WireNext ==
  ASSUME SettingsKept, NEW n \in Nodes, NEW p, NEW i \in BOOLEAN, NEW d, LongEnough(n, d),
         wire' = [from |-> n, packet |-> p, intact |-> i, bytes |-> d],
         Matching(n, Peer(n)) =>
             \E x \in Packets(n) : \E number :
                p = Addressed(n, x) /\ Arrives(d, i, DatagramOf(n, number, p))
  PROVE  WireOK'
<1>1. /\ wire'.from = n /\ wire'.packet = p /\ wire'.intact = i /\ wire'.bytes = d
      /\ wire' = [from |-> wire'.from, packet |-> wire'.packet, intact |-> wire'.intact,
                  bytes |-> wire'.bytes]
  OBVIOUS
<1>2. LongEnough(n, d)'
  BY KeptMeans
<1>3. ASSUME Matching(n, Peer(n))'
      PROVE  \E x \in Packets(n) : \E number :
                /\ p = Addressed(n, x)'
                /\ Arrives(d, i, DatagramOf(n, number, p)')
  <2>1. Matching(n, Peer(n))
    BY <1>3, KeptMeans, PeerFacts
  <2>2. PICK x \in Packets(n) : \E number :
                p = Addressed(n, x) /\ Arrives(d, i, DatagramOf(n, number, p))
    BY <2>1
  <2>5. PICK number : p = Addressed(n, x) /\ Arrives(d, i, DatagramOf(n, number, p))
    BY <2>2
  <2>3. Addressed(n, x)' = Addressed(n, x)
        /\ DatagramOf(n, number, p)' = DatagramOf(n, number, p)
    BY KeptMeans
  <2>4. QED BY <2>3, <2>5
<1>4. WireOK' = (wire' # None =>
        /\ wire' = [from |-> wire'.from, packet |-> wire'.packet, intact |-> wire'.intact,
                    bytes |-> wire'.bytes]
        /\ wire'.from \in Nodes /\ wire'.intact \in BOOLEAN
        /\ LongEnough(wire.from, wire.bytes)'
        /\ Matching(wire.from, Peer(wire.from))' =>
             \E x \in Packets(wire'.from) : \E number :
                /\ wire'.packet = Addressed(wire.from, x)'
                /\ Arrives(wire'.bytes, wire'.intact, DatagramOf(wire.from, number, wire.packet)'))
  BY DEF WireOK
<1>5. QED
  BY <1>1, <1>2, <1>3, <1>4

LEMMA WireSend ==
  ASSUME HashHasLength, PduInv, NEW n \in Nodes, Send(n), SettingsKept
  PROVE  WireOK'
<1>1. PICK x \in Packets(n) : \E pdu \in Encoded(n, WithBytes(n, Addressed(n, x))) :
        wire' = [from |-> n, packet |-> Addressed(n, x), intact |-> TRUE,
                 bytes |-> RedundancyPacketToBytes(n, Len(sent[n]), pdu)]
  BY DEF Send
<1>2. PICK pdu \in Encoded(n, WithBytes(n, Addressed(n, x))) :
        wire' = [from |-> n, packet |-> Addressed(n, x), intact |-> TRUE,
                 bytes |-> RedundancyPacketToBytes(n, Len(sent[n]), pdu)]
  BY <1>1
<1>3. ConfigOK(n)
  BY ConfiguredOK DEF PduInv
<1>4. /\ IsSequence(pdu) /\ Len(pdu) >= HeaderLength + CodeLength(n)
      /\ ~failed[n] => pdu = ModuleToBytes(n, WithBytes(n, Addressed(n, x)))
  BY <1>3, EncodedIsLong
<1> DEFINE p == Addressed(n, x)
           number == Len(sent[n])
           d == RedundancyPacketToBytes(n, number, pdu)
<1>5. LongEnough(n, d)
  BY <1>3, <1>4, SentIsLong
<1>6. /\ wire' = [from |-> n, packet |-> p, intact |-> TRUE, bytes |-> d]
      /\ ~failed[n] => d = DatagramOf(n, number, p)
  BY <1>2, <1>4 DEF DatagramOf
<1>7. Matching(n, Peer(n)) => ~failed[n]
  <2>1. SUFFICES ASSUME Matching(n, Peer(n)), failed[n] PROVE FALSE
    OBVIOUS
  <2>2. CodeLength(n) = CodeLength(Peer(n)) /\ CrcLength(n) = CrcLength(Peer(n))
    BY <2>1 DEF Matching, CodeLength, CrcLength
  <2>3. CodeLength(n) \in Nat /\ CrcLength(n) \in Nat
    BY <1>3, AddedLengths
  <2>4. CodeLength(n) + CrcLength(n) > CodeLength(Peer(n)) + CrcLength(Peer(n))
    BY <2>1 DEF PduInv, SpoiltOnlyByMismatch
  <2>5. QED BY <2>2, <2>3, <2>4
<1> HIDE DEF d, p, number
<1>8. \E k : p = Addressed(n, x) /\ (Matching(n, Peer(n)) => Arrives(d, TRUE, DatagramOf(n, k, p)))
  BY <1>6, <1>7 DEF Arrives, p
<1>9. QED
  BY <1>5, <1>6, <1>8, WireNext

LEMMA WireDamaged ==
  ASSUME NEW n, NEW p, NEW i, NEW b, NEW damage,
         NEW w, w = [from |-> n, packet |-> p, intact |-> i, bytes |-> b],
         NEW v, v = [w EXCEPT !.intact = FALSE, !.bytes = Damaged(@, damage)]
  PROVE  v = [from |-> n, packet |-> p, intact |-> FALSE, bytes |-> Damaged(b, damage)]
<1>1. w.from = n /\ w.packet = p /\ w.bytes = b
  OBVIOUS
<1>2. v.from = n /\ v.packet = p /\ v.intact = FALSE /\ v.bytes = Damaged(b, damage)
  OBVIOUS
<1>3. DOMAIN v = {"from", "packet", "intact", "bytes"}
  OBVIOUS
<1>4. v = [from |-> v.from, packet |-> v.packet, intact |-> v.intact, bytes |-> v.bytes]
  OBVIOUS
<1>5. QED
  BY <1>2, <1>4

LEMMA WireDamage ==
  ASSUME PduInv, Damage, SettingsKept
  PROVE  WireOK'
<1> DEFINE n == wire.from
           p == wire.packet
           b == wire.bytes
<1>1. wire # None /\ wire.intact
  BY DEF Damage
<1>2. /\ wire = [from |-> n, packet |-> p, intact |-> wire.intact, bytes |-> b]
      /\ n \in Nodes /\ LongEnough(n, b)
      /\ Matching(n, Peer(n)) =>
             \E x \in Packets(n) : \E number :
                p = Addressed(n, x) /\ Arrives(b, wire.intact, DatagramOf(n, number, p))
  BY <1>1 DEF PduInv, WireOK
<1>3. PICK damage \in Damages :
        /\ \A hit \in damage : hit[1] <= Len(b)
        /\ wire' = [wire EXCEPT !.intact = FALSE, !.bytes = Damaged(@, damage)]
  BY DEF Damage
<1> DEFINE d == Damaged(b, damage)
<1>4. wire' = [from |-> n, packet |-> p, intact |-> FALSE, bytes |-> d]
  BY <1>2, <1>3, WireDamaged
<1>5. LongEnough(n, d)
  BY <1>2, DamagedLength DEF LongEnough
<1>6. Matching(n, Peer(n)) =>
             \E x \in Packets(n) : \E number :
                p = Addressed(n, x) /\ Arrives(d, FALSE, DatagramOf(n, number, p))
  BY <1>1, <1>2, <1>3 DEF Arrives
<1> HIDE DEF d, n, p, b
<1>7. QED
  BY <1>2, <1>4, <1>5, <1>6, WireNext

LEMMA SpoiltReceive ==
  ASSUME PduInv, NEW m \in Nodes, Receive(m), SettingsKept
  PROVE  SpoiltOnlyByMismatch'
<1>1. /\ wire # None /\ wire.from = Peer(m)
      /\ ReceiveShort(m) \/ ReceiveOverrun(m) \/ ReceivePacket(m)
  BY DEF Receive
<1>2. \A n \in Nodes : CodeLength(n)' = CodeLength(n) /\ CrcLength(n)' = CrcLength(n)
  BY KeptMeans
<1>3. CASE failed' = failed
  BY <1>2, <1>3, PeerFacts DEF PduInv, SpoiltOnlyByMismatch
<1>4. CASE ReceiveShort(m)
  <2>1. failed' = [failed EXCEPT ![m] = TRUE] /\ TooShort(m, InnerBytes(m, wire.bytes))
    BY <1>4 DEF ReceiveShort
  <2>2. LongEnough(Peer(m), wire.bytes)
    BY <1>1 DEF PduInv, WireOK
  <2>3. ConfigOK(m) /\ ConfigOK(Peer(m))
    BY ConfiguredOK, PeerFacts DEF PduInv
  <2>4. CodeLength(m) + CrcLength(m) > CodeLength(Peer(m)) + CrcLength(Peer(m))
    BY <2>1, <2>2, <2>3, TooShortMeans
  <2>5. \A n \in Nodes : n # m => failed'[n] = failed[n]
    BY <2>1 DEF PduInv, HandlesOK
  <2>6. QED
    BY <1>2, <2>4, <2>5, PeerFacts DEF PduInv, SpoiltOnlyByMismatch
<1>5. ReceiveOverrun(m) \/ ReceivePacket(m) => failed' = failed
  BY DEF ReceiveOverrun, ReceivePacket
<1>6. QED
  BY <1>1, <1>3, <1>4, <1>5

LEMMA PduInvNext ==
  ASSUME HashHasLength, PduInv, [Next]_vars
  PROVE  PduInv'
<1>1. HandlesOK' /\ SettingsKept
  BY StepKeepsSettings DEF PduInv
<1>2. ASSUME failed' = failed
      PROVE  SpoiltOnlyByMismatch'
  BY <1>1, <1>2, KeptMeans, PeerFacts DEF PduInv, SpoiltOnlyByMismatch
<1>3. CASE UNCHANGED vars
  <2>1. WireOK'
    <3>1. CASE wire = None
      BY <1>3, <3>1 DEF vars, WireOK
    <3>2. CASE wire # None
      <4> DEFINE n == wire.from
                 p == wire.packet
                 b == wire.bytes
                 i == wire.intact
      <4>1. /\ wire' = [from |-> n, packet |-> p, intact |-> i, bytes |-> b]
            /\ n \in Nodes /\ LongEnough(n, b) /\ i \in BOOLEAN
            /\ Matching(n, Peer(n)) =>
                   \E x \in Packets(n) : \E number :
                      p = Addressed(n, x) /\ Arrives(b, i, DatagramOf(n, number, p))
        BY <1>3, <3>2 DEF vars, PduInv, WireOK
      <4> HIDE DEF n, p, b, i
      <4>2. QED BY <1>1, <4>1, WireNext
    <3>3. QED BY <3>1, <3>2
  <2>2. QED BY <1>1, <1>2, <1>3, <2>1 DEF vars, PduInv
<1>4. ASSUME NEW n \in Nodes, Send(n)
      PROVE  PduInv'
  BY <1>1, <1>2, <1>4, WireSend DEF Send, PduInv
<1>5. ASSUME NEW n \in Nodes, Receive(n)
      PROVE  PduInv'
  <2>1. WireOK'
    BY <1>5 DEF Receive, WireOK
  <2>2. QED BY <1>1, <1>5, <2>1, SpoiltReceive DEF PduInv
<1>6. CASE Damage
  BY <1>1, <1>2, <1>6, WireDamage DEF Damage, PduInv
<1>7. QED
  BY <1>3, <1>4, <1>5, <1>6 DEF Next

\* In every state the settings are ones that config.c gives, a datagram is long
\* enough for the settings of its sender, and between equal settings it is the
\* one made of its packet, damaged at most once.
THEOREM PduInvAlways ==
  ASSUME HashHasLength
  PROVE  Spec => []PduInv
<1>1. Init => PduInv
  BY PduInvInit
<1>2. PduInv /\ [Next]_vars => PduInv'
  BY PduInvNext
<1>3. QED
  BY <1>1, <1>2, PTL DEF Spec

\* The error that rastamodule.c never clears again is set only in a process that
\* adds more to a PDU than its peer does.
THEOREM SpoiltByMismatchOnly ==
  ASSUME HashHasLength
  PROVE  Spec => []SpoiltOnlyByMismatch
<1>1. PduInv => SpoiltOnlyByMismatch
  BY DEF PduInv
<1>2. QED
  BY <1>1, PduInvAlways, PTL

-------------------------------------------------------------------------------
(* What is taken, under the same settings.                                  *)

\* What the peer gets of a datagram, under the same settings.
LEMMA Understood ==
  ASSUME HashHasLength, PduInv, NEW m \in Nodes, Receive(m), Matching(Peer(m), m)
  PROVE  \E got : /\ Outcome(m, got)
                  /\ wire.intact => got = wire.packet
                  /\ CrcLength(Peer(m)) > 0 => got \in {None, wire.packet}
<1> DEFINE n == Peer(m)
           d == wire.bytes
           pdu == InnerBytes(m, d)
           p == wire.packet
<1>1. /\ wire # None /\ wire.from = n
      /\ ReceiveShort(m) \/ ReceiveOverrun(m) \/ ReceivePacket(m)
  BY DEF Receive
<1>2. n \in Nodes /\ Peer(n) = m
  BY PeerFacts
<1>3. LongEnough(n, d) /\ wire.intact \in BOOLEAN
  BY <1>1 DEF PduInv, WireOK
<1>0. PICK x \in Packets(n) : \E number :
        p = Addressed(n, x) /\ Arrives(d, wire.intact, DatagramOf(n, number, p))
  BY <1>1, <1>2 DEF PduInv, WireOK
<1>4. PICK number : p = Addressed(n, x) /\ Arrives(d, wire.intact, DatagramOf(n, number, p))
  BY <1>0
<1>5. ConfigOK(n) /\ ConfigOK(m) /\ Sendable(n, x)
  BY <1>2, ConfiguredOK, PacketsAssumption DEF PduInv
<1>6. /\ handle[m].hash_length = handle[n].hash_length
      /\ handle[m].crc_type = handle[n].crc_type
  BY DEF Matching
<1>7. ReceiveOverrun(m) => DataLength(m, pdu) < 0 /\ Outcome(m, None)
  BY DEF ReceiveOverrun
<1>8. ReceivePacket(m) =>
        Outcome(m, IF Accepts(m, d) THEN WithTelegrams(m, PacketOf(m, pdu)) ELSE None)
  BY DEF ReceivePacket
<1>9. ReceiveShort(m) => TooShort(m, pdu)
  BY DEF ReceiveShort
<1>10. CASE wire.intact
  <2>1. d = DatagramOf(n, number, p)
    BY <1>4, <1>10 DEF Arrives
  <2>2. /\ ~TooShort(m, pdu) /\ DataLength(m, pdu) \in Nat /\ Accepts(m, d)
        /\ WithTelegrams(m, PacketOf(m, pdu)) = p
    <3> DEFINE q == Addressed(n, x)
               e == DatagramOf(n, number, q)
    <3>1. /\ ~TooShort(Peer(n), InnerBytes(Peer(n), e))
          /\ DataLength(Peer(n), InnerBytes(Peer(n), e)) \in Nat /\ Accepts(Peer(n), e)
          /\ WithTelegrams(Peer(n), PacketOf(Peer(n), InnerBytes(Peer(n), e))) = q
      BY <1>2, <1>5, DatagramUnderstood
    <3>2. e = d /\ q = p /\ Peer(n) = m
      BY <1>2, <1>4, <2>1
    <3> HIDE DEF e, q, d, p, n
    <3>3. QED BY <3>1, <3>2
  <2>3. ~(DataLength(m, pdu) < 0)
    BY <2>2
  <2>4. Outcome(m, p)
    BY <1>1, <1>7, <1>8, <1>9, <2>2, <2>3
  <2>5. QED BY <2>4
<1>11. CASE ~wire.intact
  <2>1. PICK damage \in Damages :
          /\ \A hit \in damage : hit[1] <= Len(DatagramOf(n, number, p))
          /\ d = Damaged(DatagramOf(n, number, p), damage)
    BY <1>4, <1>11 DEF Arrives
  <2>2. ~TooShort(m, pdu)
    <3>1. /\ CodeLength(m) = CodeLength(n) /\ CrcLength(m) = CrcLength(n)
          /\ CodeLength(n) \in Nat /\ CrcLength(n) \in Nat
      BY <1>5, <1>6, AddedLengths DEF CodeLength, CrcLength
    <3>2. SUFFICES ASSUME TooShort(m, pdu) PROVE FALSE
      OBVIOUS
    <3>3. CodeLength(m) + CrcLength(m) > CodeLength(n) + CrcLength(n)
      BY <1>3, <1>5, <3>2, TooShortMeans
    <3>4. QED BY <3>1, <3>3
  <2>3. CrcLength(n) > 0 => ~Accepts(m, d)
    <3>1. SUFFICES ASSUME CrcLength(n) > 0 PROVE ~Accepts(m, d)
      OBVIOUS
    <3>2. WellFormed(WithBytes(n, p))
      BY <1>2, <1>4, <1>5, SentPacket
    <3>3. PICK s \in Seq(Bytes) : DatagramOf(n, number, p) = s \o Checksum(n, s)
      BY <1>5, <3>2, DatagramBytes
    <3>4. ~ChecksumCorrect(n, d)
      BY <1>5, <2>1, <3>1, <3>3, DamageIsSeen
    <3>5. ~ChecksumCorrect(m, d)
      BY <1>6, <3>4 DEF ChecksumCorrect, Checksum, CrcLength
    <3>6. QED BY <3>5 DEF Accepts
  <2>4. CASE Outcome(m, None)
    BY <1>11, <2>4
  <2>5. CASE ReceivePacket(m)
    <3> DEFINE got == IF Accepts(m, d) THEN WithTelegrams(m, PacketOf(m, pdu)) ELSE None
    <3>1. Outcome(m, got)
      BY <1>8, <2>5
    <3>2. CrcLength(n) > 0 => got = None
      BY <2>3
    <3> HIDE DEF got
    <3>3. QED BY <1>11, <3>1, <3>2
  <2>6. QED BY <1>1, <1>7, <1>9, <2>2, <2>4, <2>5
<1>12. QED
  BY <1>3, <1>10, <1>11

\* The property, and who has sent the last datagram.
UnderstandInv ==
    /\ last # None => last.from \in Nodes
    /\ MatchingUnderstand

LEMMA UnderstandStep ==
  ASSUME HashHasLength, PduInv, UnderstandInv, [Next]_vars
  PROVE  UnderstandInv'
<1>1. SettingsKept
  BY StepKeepsSettings DEF PduInv
<1>2. /\ \A n \in Nodes : CrcLength(n)' = CrcLength(n)
      /\ \A n, m \in Nodes : Matching(n, m)' = Matching(n, m)
  BY <1>1, KeptMeans
<1>3. CASE last' = last
  <2>1. CASE last = None
    BY <1>3, <2>1 DEF UnderstandInv, MatchingUnderstand
  <2>2. CASE last # None
    <3> DEFINE n == last.from
    <3>1. n \in Nodes /\ Peer(n) \in Nodes
      BY <2>2, PeerFacts DEF UnderstandInv
    <3>2. Matching(n, Peer(n))' = Matching(n, Peer(n)) /\ CrcLength(n)' = CrcLength(n)
      BY <1>2, <1>3, <3>1
    <3>3. QED
      BY <1>3, <3>2 DEF UnderstandInv, MatchingUnderstand
  <2>3. QED BY <2>1, <2>2
<1>4. ASSUME NEW m \in Nodes, Receive(m)
      PROVE  UnderstandInv'
  <2> DEFINE n == Peer(m)
  <2>1. n \in Nodes /\ Peer(n) = m /\ wire.from = n
    BY <1>4, PeerFacts DEF Receive
  <2>2. PICK got : Outcome(m, got) /\ (Matching(n, m) =>
            /\ wire.intact => got = wire.packet
            /\ CrcLength(n) > 0 => got \in {None, wire.packet})
    <3>1. CASE Matching(n, m)
      BY <1>4, <3>1, Understood
    <3>2. CASE ~Matching(n, m)
      <4>1. \E got : Outcome(m, got)
        BY <1>4 DEF Receive, ReceiveShort, ReceiveOverrun, ReceivePacket
      <4>2. QED BY <3>2, <4>1
    <3>3. QED BY <3>1, <3>2
  <2>3. /\ last'.from = n /\ last'.meant = wire.packet /\ last'.intact = wire.intact
        /\ last'.got = got
    BY <2>1, <2>2 DEF Outcome
  <2>4. Matching(n, m)' = Matching(n, m) /\ CrcLength(n)' = CrcLength(n)
    BY <1>2, <2>1
  <2>5. MatchingUnderstand'
    BY <2>1, <2>2, <2>3, <2>4 DEF MatchingUnderstand
  <2>6. QED BY <2>1, <2>3, <2>5 DEF UnderstandInv
<1>5. ASSUME NEW n \in Nodes, Send(n)
      PROVE  last' = last
  BY <1>5 DEF Send
<1>6. Damage => last' = last
  BY DEF Damage
<1>7. UNCHANGED vars => last' = last
  BY DEF vars
<1>8. QED
  BY <1>3, <1>4, <1>5, <1>6, <1>7 DEF Next

\* Two processes with the same settings take what arrives undamaged as it was
\* meant, and with a checksum nothing else.
THEOREM AlwaysUnderstood ==
  ASSUME HashHasLength
  PROVE  Spec => []MatchingUnderstand
<1>1. Init => UnderstandInv
  BY DEF Init, UnderstandInv, MatchingUnderstand
<1>2. PduInv /\ PduInv' /\ UnderstandInv /\ [Next]_vars => UnderstandInv'
  BY UnderstandStep
<1>3. UnderstandInv => MatchingUnderstand
  BY DEF UnderstandInv
<1>4. QED
  BY <1>1, <1>2, <1>3, PduInvAlways, PTL DEF Spec
================================================================================
