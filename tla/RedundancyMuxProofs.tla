-------------------------- MODULE RedundancyMuxProofs --------------------------
(***************************************************************************)
(* Proofs about RedundancyMux for every set of peers and every number of   *)
(* channels, messages and packets.                                         *)
(***************************************************************************)
EXTENDS RedundancyMux, SequenceTheorems, FiniteSetTheorems, WellFoundedInduction,
        TLAPS

USE MuxAssumption

-------------------------------------------------------------------------------
(* The array is a sequence whose length only AddEntry, RemoveCopies and     *)
(* Close change.                                                            *)

ArrayInv == \E S : connected_channels \in Seq(S)

LEMMA FunctionIsSeq ==
  ASSUME NEW f, NEW n \in Nat, f = [i \in 1 .. n |-> f[i]]
  PROVE  (\E S : f \in Seq(S)) /\ Len(f) = n
<1> DEFINE S == {f[i] : i \in 1 .. n}
<1>1. f \in [1 .. n -> S]
  OBVIOUS
<1>2. f \in Seq(S)
  BY <1>1, SeqDef
<1>3. DOMAIN f = 1 .. n
  BY <1>1
<1> HIDE DEF S
<1>4. Len(f) \in Nat /\ DOMAIN f = 1 .. Len(f)
  BY <1>2, LenProperties
<1>5. Len(f) = n
  BY <1>3, <1>4
<1>6. QED
  BY <1>2, <1>5

LEMMA AppendLonger ==
  ASSUME ArrayInv, NEW e
  PROVE  /\ \E S : Append(connected_channels, e) \in Seq(S)
         /\ Len(Append(connected_channels, e)) = channel_count + 1
         /\ channel_count \in Nat
<1>1. PICK S : connected_channels \in Seq(S)
  BY DEF ArrayInv
<1>2. connected_channels \in Seq(S \union {e})
  BY <1>1
<1>3. QED
  BY <1>2 DEF channel_count

LEMMA ExceptAsLong ==
  ASSUME ArrayInv, NEW i, NEW e
  PROVE  /\ \E S : [connected_channels EXCEPT ![i] = e] \in Seq(S)
         /\ Len([connected_channels EXCEPT ![i] = e]) = channel_count
<1> DEFINE f == [connected_channels EXCEPT ![i] = e]
<1>1. PICK S : connected_channels \in Seq(S)
  BY DEF ArrayInv
<1>2. channel_count \in Nat /\ connected_channels \in [1 .. channel_count -> S]
  BY <1>1 DEF channel_count
<1>3. f = [j \in 1 .. channel_count |-> f[j]]
  BY <1>2
<1> HIDE DEF f
<1>4. (\E T : f \in Seq(T)) /\ Len(f) = channel_count
  BY <1>2, <1>3, FunctionIsSeq
<1>5. QED
  BY <1>4 DEF f

LEMMA FittedLength ==
  ASSUME NEW entries, NEW n \in Nat
  PROVE  (\E S : Fitted(entries, n) \in Seq(S)) /\ Len(Fitted(entries, n)) = n
<1>1. Fitted(entries, n) = [i \in 1 .. n |-> Fitted(entries, n)[i]]
  BY DEF Fitted
<1>2. QED
  BY <1>1, FunctionIsSeq

-------------------------------------------------------------------------------
(* The reader's index is never beyond the array when it takes the lock to   *)
(* count, unless the array has been made shorter since the index was 1; and *)
(* once it has left the lock behind the array does not grow any more.       *)

ReaderShape ==
    /\ reader = [at |-> reader.at, index |-> reader.index, id |-> reader.id,
                 channel |-> reader.channel, stale |-> reader.stale, removed |-> reader.removed]
    /\ reader.index \in Nat \ {0}

IndexInv ==
    /\ leaked => reader.removed /\ is_open # "no"
    /\ leaked /\ is_open = "yes" =>
           reader.at \in {"look", "count"} /\ reader.index > channel_count + 1
    /\ ~reader.removed /\ reader.at = "count" => reader.index <= channel_count
    /\ ~reader.removed /\ reader.at = "look" => reader.index <= channel_count + 1

LockInv == ArrayInv /\ ReaderShape /\ IndexInv

LEMMA CountIsNat == ArrayInv => channel_count \in Nat
BY DEF ArrayInv, channel_count

(* A step that moves the array, or leaves both alone.                       *)
LEMMA MovedKeeps ==
  ASSUME LockInv, NEW removed \in BOOLEAN, reader' = reader \/ reader' = ReaderMoved(removed)
  PROVE  /\ ReaderShape' /\ reader'.index = reader.index /\ reader'.at = reader.at
         /\ reader.removed => reader'.removed
         /\ reader' = ReaderMoved(TRUE) => reader'.removed
<1>1. CASE reader' = reader
  <2>1. ReaderMoved(TRUE).removed
    BY DEF LockInv, ReaderShape, ReaderMoved
  <2>2. QED
    BY <1>1, <2>1 DEF LockInv, ReaderShape
<1>2. CASE reader' = ReaderMoved(removed)
  <2>1. ReaderMoved(TRUE).removed
    BY DEF LockInv, ReaderShape, ReaderMoved
  <2>2. QED
    BY <1>2, <2>1 DEF LockInv, ReaderShape, ReaderMoved
<1>3. QED
  BY <1>1, <1>2

LEMMA AddKeeps ==
  ASSUME LockInv, NEW id, NEW o, AddEntry(id, o), ~leaked, leaked' = leaked
  PROVE  LockInv'
<1>1. ArrayInv' /\ channel_count' = channel_count + 1 /\ channel_count \in Nat
  BY AppendLonger DEF AddEntry, LockInv, ArrayInv, channel_count
<1>2. reader' = reader \/ reader' = ReaderMoved(FALSE)
  BY DEF AddEntry
<1>3. /\ ReaderShape' /\ reader'.index = reader.index /\ reader'.at = reader.at
      /\ reader.removed => reader'.removed
  BY <1>2, MovedKeeps
<1>4. IndexInv'
  BY <1>1, <1>3 DEF LockInv, IndexInv, ReaderShape
<1>5. QED
  BY <1>1, <1>3, <1>4 DEF LockInv

LEMMA SrLayerKeeps ==
  ASSUME LockInv, NEW id \in Ids, SrLayer(id)
  PROVE  LockInv'
<1>1. CASE AddChannel(id)
  BY <1>1, AddKeeps DEF AddChannel
<1>2. CASE UNCHANGED <<reader, leaked, is_open>> /\ ArrayInv' /\ channel_count' = channel_count
  BY <1>2 DEF LockInv, ReaderShape, IndexInv
<1>3. CASE SetConfigId(id)
  <2>1. UNCHANGED <<reader, leaked, is_open>>
    BY <1>3 DEF SetConfigId
  <2>2. CASE connected_channels' = connected_channels
    BY <1>2, <2>1, <2>2 DEF LockInv, ArrayInv, channel_count
  <2>3. CASE channel_count = 0 /\ connected_channels' = <<>>
    <3>1. ArrayInv' /\ channel_count' = 0
      BY <2>3, EmptySeq DEF ArrayInv, channel_count
    <3>2. QED
      BY <1>2, <2>1, <2>3, <3>1
  <2>4. CASE connected_channels' =
                 [connected_channels EXCEPT ![1] = [connected_channels[1] EXCEPT !.id = id]]
    <3>1. ArrayInv' /\ channel_count' = channel_count
      BY <2>4, ExceptAsLong DEF ArrayInv, channel_count, LockInv
    <3>2. QED
      BY <1>2, <2>1, <3>1
  <2>5. QED
    BY <1>3, <2>2, <2>3, <2>4 DEF SetConfigId
<1>4. CASE SendCounts(id)
  <2>1. UNCHANGED <<reader, leaked, is_open>>
    BY <1>4 DEF SendCounts
  <2>2. \/ UNCHANGED connected_channels
        \/ \E e : connected_channels' = [connected_channels EXCEPT ![op[id].index] = e]
    BY <1>4 DEF SendCounts
  <2>3. CASE UNCHANGED connected_channels
    BY <1>2, <2>1, <2>3 DEF LockInv, ArrayInv, channel_count
  <2>4. ASSUME NEW e, connected_channels' = [connected_channels EXCEPT ![op[id].index] = e]
        PROVE  LockInv'
    <3>1. ArrayInv' /\ channel_count' = channel_count
      BY <2>4, ExceptAsLong DEF ArrayInv, channel_count, LockInv
    <3>2. QED
      BY <1>2, <2>1, <3>1
  <2>5. QED
    BY <2>2, <2>3, <2>4
<1>5. CASE SendReads(id) \/ RemoveFinds(id)
  <2>1. UNCHANGED <<connected_channels, reader, leaked, is_open>>
    BY <1>5 DEF SendReads, RemoveFinds, array
  <2>2. QED
    BY <1>2, <2>1 DEF LockInv, ArrayInv, channel_count
<1>6. CASE RemoveCopies(id)
  <2>1. ~leaked /\ UNCHANGED <<leaked, is_open>>
    BY <1>6 DEF RemoveCopies
  <2>2. CASE channel_count > 0
    <3>1. channel_count - 1 \in Nat
      BY <2>2, CountIsNat DEF LockInv
    <3>2. /\ connected_channels' = Fitted(Others(id), channel_count - 1)
          /\ reader' = ReaderMoved(TRUE)
      BY <1>6, <2>2 DEF RemoveCopies, Removed
    <3>3. ArrayInv' /\ channel_count' \in Nat
      BY <3>1, <3>2, FittedLength DEF ArrayInv, channel_count
    <3>4. ReaderShape' /\ reader'.removed
      BY <3>2, MovedKeeps
    <3>5. QED
      BY <2>1, <3>3, <3>4 DEF LockInv, IndexInv
  <2>3. CASE ~(channel_count > 0)
    <3>1. UNCHANGED <<connected_channels, reader>>
      BY <1>6, <2>3 DEF RemoveCopies
    <3>2. QED
      BY <1>2, <2>1, <3>1 DEF LockInv, ArrayInv, channel_count
  <2>4. QED
    BY <2>2, <2>3
<1>7. QED
  BY <1>1, <1>3, <1>4, <1>5, <1>6 DEF SrLayer

LEMMA ReaderKeeps ==
  ASSUME LockInv, Reader
  PROVE  LockInv'
<1> USE CountIsNat DEF LockInv
<1>1. is_open = "yes" /\ UNCHANGED <<connected_channels, is_open>>
  BY DEF Reader, Look, Count, ReadId, Find, Pop, ReaderRuns, ReaderGoes, array
<1>2. ArrayInv' /\ channel_count' = channel_count
  BY <1>1 DEF ArrayInv, channel_count
<1>3. CASE Look
  <2> DEFINE i == IF reader.index = channel_count + 1 THEN 1 ELSE reader.index
  <2>1. /\ reader.at = "look" /\ channel_count > 0 /\ leaked' = leaked
        /\ reader' = [reader EXCEPT !.at = "count", !.index = i,
                          !.removed = reader.removed /\ i # 1]
    BY <1>3 DEF Look, ReaderGoes
  <2>2. /\ i \in Nat \ {0}
        /\ leaked => i # 1 /\ i > channel_count + 1
        /\ ~reader.removed => i <= channel_count
    BY <1>1, <2>1 DEF ReaderShape, IndexInv
  <2> HIDE DEF i
  <2>3. /\ reader'.at = "count" /\ reader'.index = i
        /\ reader'.removed = (reader.removed /\ i # 1) /\ ReaderShape'
    BY <2>1, <2>2 DEF ReaderShape
  <2>4. i = 1 => i <= channel_count
    BY <2>1
  <2>5. IndexInv'
    BY <1>1, <1>2, <2>1, <2>2, <2>3, <2>4 DEF IndexInv
  <2>6. QED
    BY <1>2, <2>3, <2>5
<1>4. CASE Count
  <2> DEFINE j == reader.index + 1
  <2>1. reader.at = "count" /\ ~leaked
    BY <1>4 DEF Count
  <2>0. j \in Nat \ {0} /\ j > reader.index
    BY DEF ReaderShape
  <2>2. CASE reader.index > channel_count /\ channel_count > 0
    <3>1. leaked' /\ reader' = [reader EXCEPT !.at = "look", !.index = j]
      BY <1>4, <2>2 DEF Count, ReaderGoes
    <3>2. /\ reader'.index = j /\ reader'.at = "look" /\ reader'.removed = reader.removed
          /\ ReaderShape'
      <4> HIDE DEF j
      <4>1. QED
        BY <2>0, <3>1 DEF ReaderShape
    <3>3. reader.removed
      BY <2>1, <2>2 DEF IndexInv, ReaderShape
    <3>4. QED
      BY <1>1, <1>2, <2>2, <3>2, <3>3 DEF IndexInv, ReaderShape
  <2>3. CASE ~(reader.index > channel_count /\ channel_count > 0)
    <3>1. ~leaked'
      BY <1>4, <2>1, <2>3 DEF Count
    <3>2. \/ reader' = reader
          \/ reader' = [reader EXCEPT !.at = "id"]
          \/ /\ reader' = [reader EXCEPT !.at = "look", !.index = j]
             /\ reader.index \in Entry
      BY <1>4, <2>3 DEF Count, ReaderGoes, Readable
    <3>3. CASE reader' = reader
      BY <1>2, <2>1, <3>1, <3>3 DEF IndexInv, ReaderShape
    <3>4. CASE reader' = [reader EXCEPT !.at = "id"]
      <4>1. ReaderShape' /\ reader'.at = "id"
        BY <3>4 DEF ReaderShape
      <4>2. QED
        BY <1>2, <3>1, <4>1 DEF IndexInv
    <3>5. CASE /\ reader' = [reader EXCEPT !.at = "look", !.index = j]
               /\ reader.index \in Entry
      <4>1. /\ ReaderShape' /\ reader'.at = "look" /\ reader'.index = j
            /\ reader'.removed = reader.removed
        <5> HIDE DEF j
        <5>1. QED
          BY <2>0, <3>5 DEF ReaderShape
      <4>2. reader.index <= channel_count
        BY <3>5 DEF Entry
      <4>3. QED
        BY <1>2, <3>1, <4>1, <4>2 DEF IndexInv, ReaderShape
    <3>6. QED
      BY <3>2, <3>3, <3>4, <3>5
  <2>4. QED
    BY <2>2, <2>3
<1>5. CASE ReadId \/ Find \/ (Pop /\ reader' # Looking)
  <2>1. leaked' = leaked /\ ~leaked
    BY <1>1, <1>5 DEF ReadId, Find, Pop, IndexInv
  <2>2. \/ reader' = reader
        \/ \E id : reader' = [reader EXCEPT !.at = "find", !.id = id]
        \/ \E c : reader' = [reader EXCEPT !.at = "poll", !.stale = FALSE, !.channel = c]
    BY <1>5 DEF ReadId, Find, Pop, ReaderGoes
  <2>3. /\ ReaderShape' /\ reader'.index = reader.index /\ reader'.removed = reader.removed
        /\ reader' = reader \/ reader'.at \in {"find", "poll"}
    BY <2>2 DEF ReaderShape
  <2>4. QED
    BY <1>1, <1>2, <2>1, <2>3 DEF IndexInv
<1>6. CASE Pop /\ reader' = Looking
  <2>1. leaked' = leaked /\ ~leaked
    BY <1>1, <1>6 DEF Pop, IndexInv
  <2>2. ReaderShape' /\ reader'.index = 1 /\ reader'.at = "look"
    BY <1>6 DEF Looking, ReaderShape
  <2>3. QED
    BY <1>2, <2>1, <2>2 DEF IndexInv
<1>7. QED
  BY <1>3, <1>4, <1>5, <1>6 DEF Reader

LEMMA LockStep ==
  ASSUME LockInv, [Next]_vars
  PROVE  LockInv'
<1>1. ASSUME NEW id \in Ids, ReceiveNew(id) PROVE LockInv'
  BY <1>1, AddKeeps DEF ReceiveNew
<1>2. CASE Close
  <2>1. /\ connected_channels' = <<>> /\ is_open' = "closed" /\ leaked' = leaked
        /\ reader' = [Looking EXCEPT !.removed = reader.removed]
    BY <1>2 DEF Close
  <2>2. ArrayInv' /\ channel_count' = 0
    BY <2>1, EmptySeq DEF ArrayInv, channel_count
  <2>3. /\ ReaderShape' /\ reader'.at = "look" /\ reader'.index = 1
        /\ reader'.removed = reader.removed
    <3>1. reader' = [at |-> "look", index |-> 1, id |-> NULL, channel |-> 0, stale |-> FALSE,
                     removed |-> reader.removed]
      BY <2>1 DEF Looking
    <3>2. QED
      BY <3>1 DEF ReaderShape
  <2>4. IndexInv'
    BY <2>1, <2>2, <2>3 DEF LockInv, IndexInv
  <2>5. QED
    BY <2>2, <2>3, <2>4 DEF LockInv
<1>3. CASE Open
  <2>1. UNCHANGED <<connected_channels, reader, leaked>> /\ is_open = "no"
    BY <1>3 DEF Open, array
  <2>2. ~leaked
    BY <2>1 DEF LockInv, IndexInv
  <2>3. QED
    BY <2>1, <2>2 DEF LockInv, ArrayInv, ReaderShape, IndexInv, channel_count
<1>4. CASE \/ \E id \in Ids : Receive(id)
           \/ \E w \in Sweepers : SweepStarts(w) \/ SweepReads(w)
           \/ UNCHANGED vars
  <2>1. UNCHANGED <<connected_channels, reader, leaked, is_open>>
    BY <1>4 DEF Receive, SweepStarts, SweepReads, vars, array
  <2>2. QED
    BY <2>1 DEF LockInv, ArrayInv, ReaderShape, IndexInv, channel_count
<1>5. QED
  BY <1>1, <1>2, <1>3, <1>4, SrLayerKeeps, ReaderKeeps DEF Next

(* The lock of the multiplexer is left behind only when a channel has been  *)
(* removed while the reader was going through the array.                    *)
THEOREM LockIsLeftOnlyAfterRemoval == Spec => []LockIsGivenBack
<1>1. Init => LockInv
  <2> SUFFICES ASSUME Init PROVE LockInv
    OBVIOUS
  <2>1. ArrayInv /\ channel_count = 0
    BY EmptySeq DEF Init, ArrayInv, channel_count
  <2>2. ReaderShape /\ reader.at = "look" /\ reader.index = 1
    BY DEF Init, Looking, ReaderShape
  <2>3. QED
    BY <2>1, <2>2 DEF Init, LockInv, IndexInv
<1>2. LockInv => LockIsGivenBack
  BY DEF LockInv, IndexInv, LockIsGivenBack
<1>3. QED
  BY <1>1, <1>2, LockStep, PTL DEF Spec

-------------------------------------------------------------------------------
(* What removing a channel copies: every other entry, once.                 *)

LEMMA PlacesFill ==
  ASSUME NEW n \in Nat, NEW kept \in SUBSET (1 .. n)
  PROVE  /\ Cardinality(kept) \in Nat
         /\ \A i \in kept : Place(kept, i) \in 1 .. Cardinality(kept)
         /\ \A i, j \in kept : i # j => Place(kept, i) # Place(kept, j)
         /\ \A k \in 1 .. Cardinality(kept) : \E i \in kept : Place(kept, i) = k
<1> DEFINE m == Cardinality(kept)
           Before(i) == {j \in kept : j <= i}
<1>1. IsFiniteSet(kept) /\ m \in Nat
  <2>1. IsFiniteSet(1 .. n)
    BY FS_Interval
  <2>2. IsFiniteSet(kept)
    BY <2>1, FS_Subset
  <2>3. QED
    BY <2>2, FS_CardinalityType
<1>0. \A i \in kept : i \in Int
  OBVIOUS
<1>2. ASSUME NEW i \in kept
      PROVE  /\ IsFiniteSet(Before(i)) /\ Cardinality(Before(i)) \in Nat
             /\ Cardinality(Before(i)) <= m
  <2>1. Before(i) \in SUBSET kept
    OBVIOUS
  <2> HIDE DEF Before
  <2>2. QED
    BY <1>1, <2>1, FS_Subset, FS_CardinalityType
<1>3. ASSUME NEW i \in kept
      PROVE  Cardinality(Before(i)) \in 1 .. m
  <2>1. i \in Before(i)
    BY <1>0
  <2>2. Cardinality(Before(i)) # 0
    <3> HIDE DEF Before
    <3>1. QED
      BY <1>2, <2>1, FS_EmptySet
  <2>3. QED
    BY <1>2, <2>2, <1>1
<1>4. ASSUME NEW i \in kept, NEW j \in kept, i < j
      PROVE  Cardinality(Before(i)) # Cardinality(Before(j))
  <2>1. Before(i) \in SUBSET Before(j) /\ j \in Before(j) /\ j \notin Before(i)
    <3>1. i \in Int /\ j \in Int /\ \A l \in kept : l <= i => l <= j
      BY <1>0, <1>4
    <3>2. j <= j /\ ~(j <= i)
      BY <3>1, <1>4
    <3>3. QED
      BY <3>1, <3>2
  <2> HIDE DEF Before
  <2>2. QED
    BY <1>2, <2>1, FS_Subset
<1>5. ASSUME NEW i \in kept, NEW j \in kept, i # j
      PROVE  Cardinality(Before(i)) # Cardinality(Before(j))
  <2>1. i < j \/ j < i
    BY <1>5
  <2> HIDE DEF Before
  <2>2. QED
    BY <1>4, <2>1
<1> DEFINE f == [i \in kept |-> Cardinality(Before(i))]
<1>6. f \in Injection(kept, 1 .. m)
  <2>1. f \in [kept -> 1 .. m]
    BY <1>3
  <2>2. \A i, j \in kept : f[i] = f[j] => i = j
    BY <1>5
  <2> HIDE DEF f
  <2>3. QED
    BY <2>1, <2>2 DEF Injection, IsInjective
<1>7. IsFiniteSet(1 .. m) /\ Cardinality(1 .. m) = m
  BY <1>1, FS_Interval
<1>8. f \in Surjection(kept, 1 .. m)
  <2> HIDE DEF f
  <2>1. QED
    BY <1>6, <1>7, FS_Injection
<1>9. \A k \in 1 .. m : \E i \in kept : f[i] = k
  BY <1>8 DEF Surjection
<1>10. \A i \in kept : f[i] = Place(kept, i)
  BY DEF Place
<1>11. \A k \in 1 .. m : \E i \in kept : Place(kept, i) = k
  BY <1>9, <1>10
<1>12. \A i \in kept : Cardinality(Before(i)) = Place(kept, i)
  BY DEF Place
<1> HIDE DEF f, Before
<1>13. QED
  BY <1>1, <1>3, <1>5, <1>11, <1>12

\* The k-th entry of what is kept is one of the array, from a place of its own.
LEMMA OthersAre ==
  ASSUME NEW id, channel_count \in Nat
  PROVE  LET from(k) == CHOOSE i \in Kept(id) : Place(Kept(id), i) = k
             m == Cardinality(Kept(id))
         IN  /\ m \in Nat /\ Others(id) = [k \in 1 .. m |-> connected_channels[from(k)]]
             /\ \A k \in 1 .. m : from(k) \in Kept(id)
             /\ \A k, l \in 1 .. m : k # l => from(k) # from(l)
             /\ \A i \in Kept(id) : \E k \in 1 .. m : from(k) = i
<1> DEFINE kept == Kept(id)
           from(k) == CHOOSE i \in kept : Place(kept, i) = k
           m == Cardinality(kept)
<1>1. kept \in SUBSET (1 .. channel_count)
  BY DEF Kept, Entry
<1>2. Others(id) = [k \in 1 .. m |-> connected_channels[from(k)]]
  BY DEF Others
<1> HIDE DEF kept
<1>3. /\ m \in Nat
      /\ \A i \in kept : Place(kept, i) \in 1 .. m
      /\ \A i, j \in kept : i # j => Place(kept, i) # Place(kept, j)
      /\ \A k \in 1 .. m : \E i \in kept : Place(kept, i) = k
  BY <1>1, PlacesFill
<1>4. \A k \in 1 .. m : from(k) \in kept /\ Place(kept, from(k)) = k
  BY <1>3
<1>5. \A i \in kept : from(Place(kept, i)) = i
  BY <1>3, <1>4
<1> HIDE DEF from, m
<1>6. /\ m \in Nat /\ Others(id) = [k \in 1 .. m |-> connected_channels[from(k)]]
      /\ \A k \in 1 .. m : from(k) \in kept
      /\ \A k, l \in 1 .. m : k # l => from(k) # from(l)
      /\ \A i \in kept : \E k \in 1 .. m : from(k) = i
  BY <1>2, <1>3, <1>4, <1>5
<1>7. QED
  BY <1>6 DEF kept, from, m

-------------------------------------------------------------------------------
(* Types. What indexes the fifos is a channel when it does so.              *)

Readers ==
    [at : {"look", "count", "id", "find", "poll"}, index : Nat \ {0},
     id : Ids \union {NULL}, channel : Channels \union {0},
     stale : BOOLEAN, removed : BOOLEAN]
Ops ==
    [at : {"new", "idle", "naming", "sending", "removing"}, index : Nat,
     number : Nat, channel : Channels \union {0}, stale : BOOLEAN]
Sweeps == [index : Nat \ {0}, count : Nat, removed : BOOLEAN]

ArrayType == connected_channels \in Seq(Entries \union {Garbage}) /\ created \in 0 .. MaxChannels
FifoType == fifo_recv \in [Channels -> 0 .. FifoSize] /\ came \in 0 .. MaxMessages
ReaderType ==
    /\ reader \in Readers
    /\ reader.at = "poll" => reader.channel \in Channels
    /\ reader.at = "find" => reader.id \in Ids
OpType == op \in [Ids -> Ops] /\ \A id \in Ids : op[id].at = "sending" => op[id].channel \in Channels
SentType == sent \in [Channels -> Seq(Nat)] /\ torn \subseteq Channels
SweepType == sweep \in [Sweepers -> Sweeps]
RestType ==
    /\ leaked \in BOOLEAN /\ is_open \in {"no", "yes", "closed"} /\ twins \in BOOLEAN
    /\ outside \subseteq Sweepers \union {"reader"} \union Ids

\* A pointer that is not stale points to an entry somebody wrote.
PointerInv ==
    \A id \in Ids : op[id].at = "sending" /\ ~op[id].stale =>
        op[id].index \in Entry /\ connected_channels[op[id].index] \in Entries

TypeInv ==
    ArrayType /\ FifoType /\ ReaderType /\ OpType /\ SentType /\ SweepType /\ RestType

LEMMA GarbageIsNoEntry ==
  /\ Garbage \notin Entries
  /\ \A e \in Entries : e.id \in Ids /\ e.channel \in Channels /\ e.seq_tx \in Nat
  /\ Garbage.id \notin Ids
BY DEF Entries, Garbage

LEMMA ArrayIsFunction ==
  ASSUME ArrayType
  PROVE  /\ channel_count \in Nat /\ Entry = 1 .. channel_count
         /\ connected_channels \in [Entry -> Entries \union {Garbage}]
BY DEF ArrayType, channel_count, Entry

LEMMA NextArrayIsFunction ==
  ASSUME ArrayType'
  PROVE  /\ channel_count' \in Nat /\ Entry' = 1 .. channel_count'
         /\ connected_channels' \in [Entry' -> Entries \union {Garbage}]
BY DEF ArrayType, channel_count, Entry

LEMMA FunctionIsArray ==
  ASSUME NEW n \in Nat, NEW f \in [1 .. n -> Entries \union {Garbage}]
  PROVE  f \in Seq(Entries \union {Garbage}) /\ Len(f) = n
<1> DEFINE E == Entries \union {Garbage}
<1>1. f \in Seq(E)
  BY SeqDef
<1>2. DOMAIN f = 1 .. n
  OBVIOUS
<1> HIDE DEF E
<1>3. Len(f) \in Nat /\ DOMAIN f = 1 .. Len(f)
  BY <1>1, LenProperties
<1>4. Len(f) = n
  BY <1>2, <1>3
<1>5. QED
  BY <1>1, <1>4 DEF E

Smaller == {p \in Nat \X Nat : p[1] < p[2]}

LEMMA SmallerIsLess == OpToRel(<, Nat) = Smaller
BY DEF OpToRel, Smaller

LEMMA LeastExists ==
  ASSUME NEW S \in SUBSET Nat, S # {}
  PROVE  \E i \in S : \A j \in S : i <= j
<1>1. IsWellFoundedOn(Smaller, Nat)
  BY NatLessThanWellFounded, SmallerIsLess, Zenon
<1>2. PICK i \in S : \A j \in S : ~(<<j, i>> \in Smaller)
  BY <1>1, WFMin
<1>3. ASSUME NEW j \in S, j < i PROVE FALSE
  <2>1. <<j, i>> \in Smaller
    BY <1>3 DEF Smaller
  <2>2. QED
    BY <1>2, <2>1
<1>4. \A j \in S : i <= j
  BY <1>3
<1>5. QED
  BY <1>4

\* The channel that the search finds.
LEMMA FoundChannel ==
  ASSUME ArrayType, NEW id, HasChannel(id)
  PROVE  IndexOf(id) \in Entry /\ connected_channels[IndexOf(id)].id = id
<1> DEFINE first(i) ==
        /\ connected_channels[i].id = id
        /\ \A j \in 1 .. i - 1 : connected_channels[j].id # id
           S == {i \in Entry : connected_channels[i].id = id}
<1>1. S # {} /\ S \in SUBSET Nat
  BY ArrayIsFunction DEF HasChannel
<1>2. PICK i \in S : \A j \in S : i <= j
  BY <1>1, LeastExists
<1>3. i \in Entry /\ first(i)
  BY <1>2, ArrayIsFunction
<1>4. IndexOf(id) = CHOOSE k \in Entry : first(k)
  BY DEF IndexOf
<1> HIDE DEF first
<1>5. IndexOf(id) \in Entry /\ first(IndexOf(id))
  BY <1>3, <1>4
<1>6. QED
  BY <1>5 DEF first

LEMMA FoundEntry ==
  ASSUME ArrayType, NEW id \in Ids, HasChannel(id)
  PROVE  /\ IndexOf(id) \in Entry
         /\ connected_channels[IndexOf(id)] \in Entries
         /\ connected_channels[IndexOf(id)].id = id
         /\ connected_channels[IndexOf(id)].channel \in Channels
BY FoundChannel, ArrayIsFunction, GarbageIsNoEntry

LEMMA ReadableEntry ==
  ASSUME ArrayType, NEW i, Readable(i)
  PROVE  i \in Entry /\ connected_channels[i] \in Entries
BY ArrayIsFunction DEF Readable

\* The fields of the records that the steps change.
LEMMA ReaderFields ==
  ASSUME NEW r \in Readers
  PROVE  /\ \A x \in {"look", "count", "id", "find", "poll"} : [r EXCEPT !.at = x] \in Readers
         /\ \A x, y : [r EXCEPT !.at = x].at = x /\ [r EXCEPT !.at = x, !.index = y].at = x
         /\ \A i \in Nat \ {0} : [r EXCEPT !.at = "look", !.index = i] \in Readers
         /\ \A i \in Nat \ {0}, b \in BOOLEAN :
               [r EXCEPT !.at = "count", !.index = i, !.removed = b] \in Readers
         /\ \A id \in Ids : [r EXCEPT !.at = "find", !.id = id] \in Readers
         /\ \A c \in Channels :
               [r EXCEPT !.at = "poll", !.stale = FALSE, !.channel = c] \in Readers
         /\ \A s, b \in BOOLEAN : [r EXCEPT !.stale = s, !.removed = b] \in Readers
<1>1. \A x \in {"look", "count", "id", "find", "poll"} : [r EXCEPT !.at = x] \in Readers
  BY DEF Readers
<1>2. \A x, y : [r EXCEPT !.at = x].at = x /\ [r EXCEPT !.at = x, !.index = y].at = x
  BY DEF Readers
<1>3. \A i \in Nat \ {0} : [r EXCEPT !.at = "look", !.index = i] \in Readers
  BY DEF Readers
<1>4. \A i \in Nat \ {0}, b \in BOOLEAN :
         [r EXCEPT !.at = "count", !.index = i, !.removed = b] \in Readers
  BY DEF Readers
<1>5. \A id \in Ids : [r EXCEPT !.at = "find", !.id = id] \in Readers
  BY DEF Readers
<1>6. \A c \in Channels : [r EXCEPT !.at = "poll", !.stale = FALSE, !.channel = c] \in Readers
  BY DEF Readers
<1>7. \A s, b \in BOOLEAN : [r EXCEPT !.stale = s, !.removed = b] \in Readers
  BY DEF Readers
<1>8. QED
  BY <1>1, <1>2, <1>3, <1>4, <1>5, <1>6, <1>7

LEMMA LookingType ==
  /\ Looking \in Readers /\ Looking.at = "look" /\ Looking.index = 1 /\ Looking.removed = FALSE
  /\ \A b \in BOOLEAN : /\ [Looking EXCEPT !.removed = b] \in Readers
                         /\ [Looking EXCEPT !.removed = b].at = "look"
                         /\ [Looking EXCEPT !.removed = b].removed = b
<1>1. Looking \in Readers
  BY DEF Looking, Readers
<1>2. Looking.at = "look" /\ Looking.index = 1 /\ Looking.removed = FALSE
  BY DEF Looking
<1>3. \A b \in BOOLEAN : /\ [Looking EXCEPT !.removed = b] \in Readers
                          /\ [Looking EXCEPT !.removed = b].at = "look"
                          /\ [Looking EXCEPT !.removed = b].removed = b
  BY <1>1, <1>2 DEF Readers
<1>4. QED
  BY <1>1, <1>2, <1>3

LEMMA OpFields ==
  /\ Idle \in Ops /\ Idle.at = "idle" /\ Idle.stale = FALSE
  /\ \A x \in {"new", "removing"} : [Idle EXCEPT !.at = x] \in Ops /\ [Idle EXCEPT !.at = x].at = x
  /\ \A o \in Ops : [o EXCEPT !.at = "naming"] \in Ops /\ [o EXCEPT !.at = "naming"].at = "naming"
  /\ \A o \in Ops, b \in BOOLEAN :
        /\ [o EXCEPT !.stale = b] \in Ops /\ [o EXCEPT !.stale = b].at = o.at
        /\ [o EXCEPT !.stale = b].channel = o.channel /\ [o EXCEPT !.stale = b].index = o.index
        /\ [o EXCEPT !.stale = b].number = o.number /\ [o EXCEPT !.stale = b].stale = b
BY DEF Idle, Ops

LEMMA ReaderMovedType ==
  ASSUME ReaderType, NEW b \in BOOLEAN
  PROVE  /\ ReaderMoved(b) \in Readers
         /\ ReaderMoved(b).at = reader.at /\ ReaderMoved(b).index = reader.index
         /\ ReaderMoved(b).channel = reader.channel /\ ReaderMoved(b).id = reader.id
         /\ ReaderMoved(b).removed <=> reader.removed \/ b
         /\ ReaderMoved(b).stale <=> reader.at = "poll"
<1>1. /\ reader \in Readers /\ reader.removed \in BOOLEAN /\ (reader.at = "poll") \in BOOLEAN
      /\ (reader.removed \/ b) \in BOOLEAN
  BY DEF ReaderType, Readers
<1>2. ReaderMoved(b) = [reader EXCEPT !.stale = reader.at = "poll",
                                      !.removed = reader.removed \/ b]
  BY DEF ReaderMoved
<1> DEFINE s == reader.at = "poll"
           x == reader.removed \/ b
<1>3. ReaderMoved(b) = [reader EXCEPT !.stale = s, !.removed = x] /\ s \in BOOLEAN /\ x \in BOOLEAN
  BY <1>1, <1>2
<1> HIDE DEF s, x
<1>4. ReaderMoved(b) \in Readers
  <2>1. [reader EXCEPT !.stale = s, !.removed = x] \in Readers
    BY <1>1, <1>3, ReaderFields
  <2>2. QED
    BY <1>3, <2>1
<1>6. /\ ReaderMoved(b).at = reader.at /\ ReaderMoved(b).index = reader.index
      /\ ReaderMoved(b).channel = reader.channel /\ ReaderMoved(b).id = reader.id
      /\ ReaderMoved(b).removed = x /\ ReaderMoved(b).stale = s
  BY <1>1, <1>3 DEF Readers
<1>5. QED
  BY <1>4, <1>6 DEF s, x

LEMMA MovedType ==
  ASSUME NEW o \in [Ids -> Ops]
  PROVE  /\ Moved(o) \in [Ids -> Ops]
         /\ \A id \in Ids :
               /\ Moved(o)[id].at = o[id].at /\ Moved(o)[id].channel = o[id].channel
               /\ Moved(o)[id].number = o[id].number /\ Moved(o)[id].index = o[id].index
               /\ Moved(o)[id].stale <=> o[id].at = "sending"
<1>1. ASSUME NEW id \in Ids
      PROVE  /\ Moved(o)[id] \in Ops
             /\ Moved(o)[id].at = o[id].at /\ Moved(o)[id].channel = o[id].channel
             /\ Moved(o)[id].number = o[id].number /\ Moved(o)[id].index = o[id].index
             /\ Moved(o)[id].stale <=> o[id].at = "sending"
  <2> DEFINE s == o[id].at = "sending"
  <2>1. s \in BOOLEAN /\ Moved(o)[id] = [o[id] EXCEPT !.stale = s] /\ o[id] \in Ops
    BY DEF Moved
  <2> HIDE DEF s
  <2>2. /\ Moved(o)[id] \in Ops
        /\ Moved(o)[id].at = o[id].at /\ Moved(o)[id].channel = o[id].channel
        /\ Moved(o)[id].number = o[id].number /\ Moved(o)[id].index = o[id].index
        /\ Moved(o)[id].stale = s
    BY <2>1, OpFields
  <2>3. QED
    BY <2>2 DEF s
<1>2. DOMAIN Moved(o) = Ids /\ Moved(o) = [id \in Ids |-> Moved(o)[id]]
  BY DEF Moved
<1>3. QED
  BY <1>1, <1>2

LEMMA SweepFields ==
  /\ Swept \in Sweeps /\ Swept.index = 1 /\ Swept.count = 0 /\ Swept.removed = FALSE
  /\ \A s \in Sweeps, b \in BOOLEAN :
        /\ [s EXCEPT !.removed = b] \in Sweeps /\ [s EXCEPT !.removed = b].removed = b
        /\ [s EXCEPT !.removed = b].index = s.index /\ [s EXCEPT !.removed = b].count = s.count
  /\ \A s \in Sweeps, i \in Nat \ {0}, n \in Nat :
        /\ [s EXCEPT !.index = i, !.count = n] \in Sweeps
        /\ [s EXCEPT !.index = i, !.count = n].index = i
        /\ [s EXCEPT !.index = i, !.count = n].count = n
        /\ [s EXCEPT !.index = i, !.count = n].removed = s.removed
  /\ \A s \in Sweeps, n \in Nat :
        /\ [s EXCEPT !.count = n] \in Sweeps /\ [s EXCEPT !.count = n].count = n
        /\ [s EXCEPT !.count = n].index = s.index /\ [s EXCEPT !.count = n].removed = s.removed
<1>1. Swept \in Sweeps /\ Swept.index = 1 /\ Swept.count = 0 /\ Swept.removed = FALSE
  BY DEF Swept, Sweeps
<1>2. \A s \in Sweeps, b \in BOOLEAN :
        /\ [s EXCEPT !.removed = b] \in Sweeps /\ [s EXCEPT !.removed = b].removed = b
        /\ [s EXCEPT !.removed = b].index = s.index /\ [s EXCEPT !.removed = b].count = s.count
  BY DEF Sweeps
<1>3. \A s \in Sweeps, i \in Nat \ {0}, n \in Nat :
        /\ [s EXCEPT !.index = i, !.count = n] \in Sweeps
        /\ [s EXCEPT !.index = i, !.count = n].index = i
        /\ [s EXCEPT !.index = i, !.count = n].count = n
        /\ [s EXCEPT !.index = i, !.count = n].removed = s.removed
  BY DEF Sweeps
<1>4. \A s \in Sweeps, n \in Nat :
        /\ [s EXCEPT !.count = n] \in Sweeps /\ [s EXCEPT !.count = n].count = n
        /\ [s EXCEPT !.count = n].index = s.index /\ [s EXCEPT !.count = n].removed = s.removed
  BY DEF Sweeps
<1>5. QED
  BY <1>1, <1>2, <1>3, <1>4

\* A channel of its own for a peer.
LEMMA AddTypes ==
  ASSUME TypeInv, NEW id \in Ids, NEW o \in [Ids -> Ops], created < MaxChannels,
         \A k \in Ids : o[k].at = "sending" => o[k].channel \in Channels,
         AddEntry(id, o)
  PROVE  /\ ArrayType' /\ ReaderType' /\ OpType' /\ twins' \in BOOLEAN
         /\ created + 1 \in Channels
<1> DEFINE e == [id |-> id, channel |-> created + 1, seq_tx |-> 0]
<1>1. created + 1 \in Channels /\ e \in Entries
  BY DEF TypeInv, ArrayType, Channels, Entries
<1>2. connected_channels' = Append(connected_channels, e) /\ created' = created + 1
  BY DEF AddEntry
<1>3. ArrayType'
  <2>1. connected_channels' \in Seq(Entries \union {Garbage})
    <3> HIDE DEF e
    <3>1. QED
      BY <1>1, <1>2 DEF TypeInv, ArrayType
  <2>2. QED
    BY <1>2, <2>1 DEF TypeInv, ArrayType
<1>4. twins' \in BOOLEAN
  BY DEF AddEntry, TypeInv, RestType, Twins
<1>5. CASE op' = o /\ UNCHANGED reader
  BY <1>1, <1>3, <1>4, <1>5 DEF TypeInv, OpType, ReaderType
<1>6. CASE op' = Moved(o) /\ reader' = ReaderMoved(FALSE)
  <2>1. OpType'
    BY <1>6, MovedType DEF OpType
  <2>2. ReaderType'
    BY <1>6, ReaderMovedType DEF TypeInv, ReaderType
  <2>3. QED
    BY <1>1, <1>3, <1>4, <2>1, <2>2
<1>7. QED
  BY <1>5, <1>6 DEF AddEntry

LEMMA ReceiveTypes ==
  ASSUME TypeInv, NEW id \in Ids, Receive(id) \/ ReceiveNew(id)
  PROVE  TypeInv'
<1>1. FifoType'
  <2>1. came' \in 0 .. MaxMessages
    BY DEF Receive, ReceiveNew, TypeInv, FifoType
  <2>2. CASE Receive(id)
    <3> DEFINE c == connected_channels[IndexOf(id)].channel
    <3>1. c \in Channels
      BY <2>2, FoundEntry DEF Receive, TypeInv
    <3>2. fifo_recv' = [fifo_recv EXCEPT ![c] = IF @ = FifoSize THEN @ ELSE @ + 1]
      BY <2>2 DEF Receive
    <3> HIDE DEF c
    <3>3. QED
      BY <2>1, <3>1, <3>2 DEF TypeInv, FifoType
  <2>3. CASE ReceiveNew(id)
    <3>1. fifo_recv' = [fifo_recv EXCEPT ![created + 1] = 1] /\ 1 \in 0 .. FifoSize
      BY <2>3 DEF ReceiveNew
    <3>2. QED
      BY <2>1, <3>1 DEF TypeInv, FifoType
  <2>4. QED
    BY <2>2, <2>3
<1>2. CASE Receive(id)
  BY <1>1, <1>2 DEF Receive, TypeInv, ArrayType, ReaderType, OpType, SentType, SweepType,
     RestType, array, calls
<1>3. CASE ReceiveNew(id)
  <2>1. created < MaxChannels /\ AddEntry(id, op) /\ UNCHANGED <<leaked, sent, torn, sweep, is_open, outside>>
    BY <1>3 DEF ReceiveNew
  <2>2. ArrayType' /\ ReaderType' /\ OpType' /\ twins' \in BOOLEAN
    BY <2>1, AddTypes DEF TypeInv, OpType
  <2>3. QED
    BY <1>1, <2>1, <2>2 DEF TypeInv, SentType, SweepType, RestType
<1>4. QED
  BY <1>2, <1>3

LEMMA SetConfigTypes ==
  ASSUME TypeInv, NEW id \in Ids, AddChannel(id) \/ SetConfigId(id)
  PROVE  TypeInv'
<1>1. CASE AddChannel(id)
  <2> DEFINE o == [op EXCEPT ![id].at = "naming"]
  <2>1. /\ created < MaxChannels /\ AddEntry(id, o)
        /\ UNCHANGED <<fifo_recv, came, leaked, sent, torn, sweep, is_open, outside>>
    BY <1>1 DEF AddChannel
  <2>2. /\ o \in [Ids -> Ops]
        /\ \A k \in Ids : o[k].at = "sending" => o[k].channel \in Channels
    <3>1. op[id] \in Ops
      BY DEF TypeInv, OpType
    <3>2. [op[id] EXCEPT !.at = "naming"] \in Ops /\ [op[id] EXCEPT !.at = "naming"].at = "naming"
      BY <3>1, OpFields
    <3>3. QED
      BY <3>2 DEF TypeInv, OpType
  <2> HIDE DEF o
  <2>3. ArrayType' /\ ReaderType' /\ OpType' /\ twins' \in BOOLEAN
    BY <2>1, <2>2, AddTypes
  <2>4. QED
    BY <2>1, <2>3 DEF TypeInv, SentType, SweepType, RestType, FifoType
<1>2. CASE SetConfigId(id)
  <2>1. UNCHANGED <<created, fifo_recv, came, leaked, reader, sent, torn, sweep, is_open>>
    BY <1>2 DEF SetConfigId
  <2>2. CASE UNCHANGED <<connected_channels, twins, op>> /\ outside' = outside \union {id}
    BY <2>1, <2>2 DEF TypeInv, ArrayType, OpType, ReaderType, FifoType, SentType, SweepType,
       RestType
  <2>3. CASE /\ channel_count > 0 => Readable(1)
             /\ connected_channels' = IF channel_count = 0 THEN <<>>
                                      ELSE [connected_channels EXCEPT ![1].id = id]
             /\ twins' = (twins \/ Twins(connected_channels'))
             /\ op' = [op EXCEPT ![id] = Idle]
             /\ UNCHANGED outside
    <3>1. ArrayType'
      <4>1. CASE channel_count = 0
        BY <2>1, <2>3, <4>1 DEF TypeInv, ArrayType
      <4>2. CASE channel_count # 0
        <5> DEFINE e == [connected_channels[1] EXCEPT !.id = id]
        <5>1. 1 \in Entry /\ connected_channels[1] \in Entries
          <6>1. channel_count > 0
            BY <4>2, ArrayIsFunction DEF TypeInv
          <6>2. QED
            BY <2>3, <6>1, ReadableEntry DEF TypeInv
        <5>2. e \in Entries
          BY <5>1 DEF Entries
        <5>3. connected_channels' = [connected_channels EXCEPT ![1] = e]
          BY <2>3, <4>2
        <5> HIDE DEF e
        <5>4. connected_channels' \in [1 .. channel_count -> Entries \union {Garbage}]
          BY <5>1, <5>2, <5>3, ArrayIsFunction DEF TypeInv
        <5>5. QED
          BY <2>1, <5>4, ArrayIsFunction, FunctionIsArray DEF TypeInv, ArrayType
      <4>3. QED
        BY <4>1, <4>2
    <3>2. OpType'
      BY <2>3, OpFields DEF TypeInv, OpType
    <3>3. RestType'
      BY <2>1, <2>3 DEF TypeInv, RestType, Twins
    <3>4. QED
      BY <2>1, <3>1, <3>2, <3>3 DEF TypeInv, ReaderType, FifoType, SentType, SweepType
  <2>4. QED
    BY <1>2, <2>2, <2>3, ArrayIsFunction DEF SetConfigId, TypeInv
<1>3. QED
  BY <1>1, <1>2

LEMMA SendTypes ==
  ASSUME TypeInv, PointerInv, NEW id \in Ids, SendReads(id) \/ SendCounts(id)
  PROVE  TypeInv'
<1>1. CASE SendReads(id)
  <2> DEFINE i == IndexOf(id)
             e == connected_channels[i]
             o == [at |-> "sending", index |-> i, number |-> e.seq_tx, channel |-> e.channel,
                   stale |-> FALSE]
  <2>1. /\ i \in Nat /\ e.channel \in Channels /\ e.seq_tx \in Nat
    BY <1>1, FoundEntry, ArrayIsFunction, GarbageIsNoEntry DEF SendReads, TypeInv
  <2>2. op' = [op EXCEPT ![id] = o]
    BY <1>1 DEF SendReads
  <2>3. o \in Ops /\ o.channel \in Channels
    <3> HIDE DEF i, e
    <3>1. QED
      BY <2>1 DEF Ops
  <2> HIDE DEF o
  <2>4. OpType'
    BY <2>2, <2>3 DEF TypeInv, OpType
  <2>5. QED
    BY <1>1, <2>4 DEF SendReads, TypeInv, ArrayType, ReaderType, FifoType, SentType, SweepType,
       RestType, array
<1>2. CASE SendCounts(id)
  <2>1. /\ UNCHANGED <<created, fifo_recv, came, leaked, reader, sweep, is_open, twins>>
        /\ op[id].at = "sending" /\ op[id].channel \in Channels /\ op[id] \in Ops
        /\ op[id].number \in Nat
    BY <1>2 DEF SendCounts, TypeInv, OpType, Ops
  <2>2. ArrayType'
    <3>1. CASE UNCHANGED connected_channels
      BY <2>1, <3>1 DEF TypeInv, ArrayType
    <3>2. CASE /\ ~op[id].stale
               /\ connected_channels' = [connected_channels EXCEPT ![op[id].index].seq_tx = @ + 1]
      <4> DEFINE i == op[id].index
                 e == [connected_channels[i] EXCEPT !.seq_tx = @ + 1]
      <4>1. connected_channels' = [connected_channels EXCEPT ![i] = e]
        BY <3>2
      <4>2. i \in Entry /\ connected_channels[i] \in Entries
        BY <2>1, <3>2 DEF PointerInv
      <4>3. e \in Entries
        <5> HIDE DEF i
        <5>1. QED
          BY <4>2 DEF Entries
      <4> HIDE DEF e, i
      <4>4. connected_channels' \in [1 .. channel_count -> Entries \union {Garbage}]
        BY <4>1, <4>2, <4>3, ArrayIsFunction DEF TypeInv
      <4>5. QED
        BY <2>1, <4>4, ArrayIsFunction, FunctionIsArray DEF TypeInv, ArrayType
    <3>3. QED
      BY <1>2, <3>1, <3>2 DEF SendCounts
  <2>3. SentType'
    <3>1. CASE UNCHANGED <<sent, torn>>
      BY <3>1 DEF TypeInv, SentType
    <3>2. CASE /\ sent' = [sent EXCEPT ![op[id].channel] = Append(@, op[id].number)]
               /\ torn' = torn \/ torn' = torn \union {op[id].channel}
      <4>1. Append(sent[op[id].channel], op[id].number) \in Seq(Nat)
        BY <2>1 DEF TypeInv, SentType
      <4>2. QED
        BY <2>1, <3>2, <4>1 DEF TypeInv, SentType
    <3>3. QED
      BY <1>2, <3>1, <3>2 DEF SendCounts
  <2>4. OpType'
    <3>1. op' = op \/ op' = [op EXCEPT ![id] = Idle]
      BY <1>2 DEF SendCounts
    <3>2. QED
      BY <3>1, OpFields DEF TypeInv, OpType
  <2>5. RestType'
    BY <1>2 DEF SendCounts, TypeInv, RestType
  <2>6. QED
    BY <2>1, <2>2, <2>3, <2>4, <2>5 DEF TypeInv, ReaderType, FifoType, SweepType
<1>3. QED
  BY <1>1, <1>2

LEMMA OthersType ==
  ASSUME ArrayType, NEW id
  PROVE  /\ Len(Others(id)) = Cardinality(Kept(id)) /\ Cardinality(Kept(id)) \in Nat
         /\ Others(id) \in [1 .. Cardinality(Kept(id)) -> Entries \union {Garbage}]
<1> DEFINE from(k) == CHOOSE i \in Kept(id) : Place(Kept(id), i) = k
           m == Cardinality(Kept(id))
<1>1. /\ m \in Nat /\ Others(id) = [k \in 1 .. m |-> connected_channels[from(k)]]
      /\ \A k \in 1 .. m : from(k) \in Kept(id)
  BY OthersAre, ArrayIsFunction
<1> HIDE DEF from, m
<1>2. \A i \in Kept(id) : connected_channels[i] \in Entries \union {Garbage}
  BY ArrayIsFunction DEF Kept
<1>3. Others(id) \in [1 .. m -> Entries \union {Garbage}]
  BY <1>1, <1>2
<1>4. Len(Others(id)) = m
  BY <1>1, <1>3, FunctionIsArray
<1>5. QED
  BY <1>1, <1>3, <1>4 DEF m

LEMMA RemoveTypes ==
  ASSUME TypeInv, NEW id \in Ids, RemoveFinds(id) \/ RemoveCopies(id)
  PROVE  TypeInv'
<1>1. CASE RemoveFinds(id)
  <2>1. op' = [op EXCEPT ![id] = [Idle EXCEPT !.at = "removing"]]
    BY <1>1 DEF RemoveFinds
  <2>2. OpType'
    BY <2>1, OpFields DEF TypeInv, OpType
  <2>3. QED
    BY <1>1, <2>2 DEF RemoveFinds, TypeInv, ArrayType, ReaderType, FifoType, SentType, SweepType,
       RestType, array
<1>2. CASE RemoveCopies(id)
  <2>1. /\ UNCHANGED <<created, fifo_recv, came, leaked, sent, torn, is_open, twins>>
        /\ outside' = outside \/ outside' = outside \union {id}
    BY <1>2 DEF RemoveCopies
  <2>2. FifoType' /\ SentType' /\ RestType'
    BY <2>1 DEF TypeInv, FifoType, SentType, RestType
  <2>3. CASE UNCHANGED <<connected_channels, reader, op, sweep>>
    BY <2>1, <2>2, <2>3 DEF TypeInv, ArrayType, ReaderType, OpType, SweepType
  <2>4. CASE /\ channel_count > 0
             /\ connected_channels' = Fitted(Others(id), channel_count - 1)
             /\ Removed([op EXCEPT ![id] = Idle])
    <3>1. channel_count - 1 \in Nat
      BY <2>4, ArrayIsFunction DEF TypeInv
    <3>2. Fitted(Others(id), channel_count - 1)
             \in [1 .. channel_count - 1 -> Entries \union {Garbage}]
      <4> DEFINE o == Others(id)
                 E == Entries \union {Garbage}
      <4>1. Len(o) \in Nat /\ o \in [1 .. Len(o) -> E] /\ Garbage \in E
        BY OthersType DEF TypeInv
      <4> HIDE DEF o, E
      <4>2. Fitted(o, channel_count - 1) \in [1 .. channel_count - 1 -> E]
        BY <3>1, <4>1 DEF Fitted
      <4>3. QED
        BY <4>2 DEF o, E
    <3>3. ArrayType'
      BY <2>1, <2>4, <3>1, <3>2, FunctionIsArray DEF TypeInv, ArrayType
    <3>4. OpType'
      <4> DEFINE o == [op EXCEPT ![id] = Idle]
      <4>1. /\ o \in [Ids -> Ops]
            /\ \A k \in Ids : o[k].at = "sending" => o[k].channel \in Channels
        BY OpFields DEF TypeInv, OpType
      <4>2. op' = Moved(o)
        BY <2>4 DEF Removed
      <4> HIDE DEF o
      <4>3. QED
        BY <4>1, <4>2, MovedType DEF OpType
    <3>5. ReaderType'
      BY <2>4, ReaderMovedType DEF Removed, TypeInv, ReaderType
    <3>6. SweepType'
      <4>1. sweep' = [w \in Sweepers |->
                [sweep[w] EXCEPT !.removed = sweep[w].index <= sweep[w].count]]
        BY <2>4 DEF Removed
      <4>2. ASSUME NEW w \in Sweepers
            PROVE  [sweep[w] EXCEPT !.removed = sweep[w].index <= sweep[w].count] \in Sweeps
        <5> DEFINE b == sweep[w].index <= sweep[w].count
        <5>1. b \in BOOLEAN /\ sweep[w] \in Sweeps
          BY DEF TypeInv, SweepType
        <5> HIDE DEF b
        <5>2. [sweep[w] EXCEPT !.removed = b] \in Sweeps
          BY <5>1, SweepFields
        <5>3. QED
          BY <5>2 DEF b
      <4>3. QED
        BY <4>1, <4>2 DEF SweepType
    <3>7. QED
      BY <2>2, <3>3, <3>4, <3>5, <3>6 DEF TypeInv
  <2>5. QED
    BY <1>2, <2>3, <2>4 DEF RemoveCopies
<1>3. QED
  BY <1>1, <1>2

LEMMA ReaderTypes ==
  ASSUME TypeInv, Reader
  PROVE  TypeInv'
<1>1. UNCHANGED <<array, came, calls, sweep, is_open, twins>>
  BY DEF Reader, Look, Count, ReadId, Find, Pop, ReaderGoes
<1>2. SUFFICES FifoType' /\ ReaderType' /\ leaked' \in BOOLEAN
                         /\ outside' \subseteq Sweepers \union {"reader"} \union Ids
  BY <1>1 DEF TypeInv, ArrayType, OpType, SentType, SweepType, RestType, array, calls
<1>3. reader \in Readers /\ reader.index \in Nat \ {0} /\ reader.removed \in BOOLEAN
  BY DEF TypeInv, ReaderType, Readers
<1>4. UNCHANGED fifo_recv \/ Pop
  BY DEF Reader, Look, Count, ReadId, Find
<1>5. UNCHANGED fifo_recv => FifoType'
  BY <1>1 DEF TypeInv, FifoType
<1>6. /\ leaked' \in BOOLEAN
      /\ outside' \subseteq Sweepers \union {"reader"} \union Ids
  BY DEF Reader, Look, Count, ReadId, Find, Pop, TypeInv, RestType
<1>7. reader' = reader => ReaderType'
  BY DEF TypeInv, ReaderType
<1>8. CASE Look
  <2> DEFINE i == IF reader.index = channel_count + 1 THEN 1 ELSE reader.index
             b == reader.removed /\ i # 1
  <2>1. reader' = [reader EXCEPT !.at = "count", !.index = i, !.removed = b]
    BY <1>8 DEF Look, ReaderGoes
  <2>2. i \in Nat \ {0} /\ b \in BOOLEAN
    BY <1>3
  <2> HIDE DEF i, b
  <2>3. reader' \in Readers /\ reader'.at = "count"
    <3>1. [reader EXCEPT !.at = "count", !.index = i, !.removed = b] \in Readers
      BY <1>3, <2>2, ReaderFields
    <3>2. QED
      BY <1>3, <2>1, <3>1 DEF Readers
  <2>4. ~Pop
    BY <1>8 DEF Look, Pop
  <2>5. QED
    BY <1>4, <1>5, <1>6, <2>3, <2>4 DEF ReaderType
<1>9. CASE Count
  <2> DEFINE j == reader.index + 1
  <2>1. \/ reader' = reader
        \/ reader' = [reader EXCEPT !.at = "id"]
        \/ reader' = [reader EXCEPT !.at = "look", !.index = j]
    BY <1>9 DEF Count, ReaderGoes
  <2>2. j \in Nat \ {0}
    BY <1>3
  <2> HIDE DEF j
  <2>3. reader' = [reader EXCEPT !.at = "look", !.index = j] => ReaderType'
    <3>1. [reader EXCEPT !.at = "look", !.index = j] \in Readers
      BY <1>3, <2>2, ReaderFields
    <3>2. [reader EXCEPT !.at = "look", !.index = j].at = "look"
      BY <1>3 DEF Readers
    <3>3. QED
      BY <3>1, <3>2 DEF ReaderType
  <2>4. reader' = [reader EXCEPT !.at = "id"] => ReaderType'
    <3>1. [reader EXCEPT !.at = "id"] \in Readers /\ [reader EXCEPT !.at = "id"].at = "id"
      BY <1>3, ReaderFields
    <3>2. QED
      BY <3>1 DEF ReaderType
  <2>5. UNCHANGED fifo_recv
    BY <1>9 DEF Count
  <2>6. QED
    BY <1>5, <1>6, <1>7, <2>1, <2>3, <2>4, <2>5
<1>10. CASE ReadId
  <2> DEFINE id == connected_channels[reader.index].id
  <2>1. CASE Readable(reader.index)
    <3>1. id \in Ids
      BY <2>1, ReadableEntry, GarbageIsNoEntry DEF TypeInv
    <3>2. reader' = [reader EXCEPT !.at = "find", !.id = id]
      BY <1>10, <2>1 DEF ReadId, ReaderGoes
    <3> HIDE DEF id
    <3>3. reader' \in Readers
      BY <1>3, <3>1, <3>2, ReaderFields
    <3>4. reader'.at = "find" /\ reader'.id = id
      BY <1>3, <3>2 DEF Readers
    <3>5. QED
      BY <1>5, <1>6, <1>10, <3>1, <3>3, <3>4 DEF ReaderType, ReadId
  <2>2. CASE ~Readable(reader.index)
    BY <1>5, <1>6, <1>7, <1>10, <2>2 DEF ReadId, ReaderGoes
  <2>3. QED
    BY <2>1, <2>2
<1>11. CASE Find
  <2> DEFINE c == connected_channels[IndexOf(reader.id)].channel
  <2>1. c \in Channels
    BY <1>11, FoundEntry DEF Find, TypeInv, ReaderType
  <2>2. reader' = [reader EXCEPT !.at = "poll", !.stale = FALSE, !.channel = c]
    BY <1>11 DEF Find, ReaderGoes
  <2> HIDE DEF c
  <2>3. reader' \in Readers
    BY <1>3, <2>1, <2>2, ReaderFields
  <2>4. reader'.at = "poll" /\ reader'.channel = c
    BY <1>3, <2>2 DEF Readers
  <2>5. QED
    BY <1>5, <1>6, <1>11, <2>1, <2>3, <2>4 DEF ReaderType, Find
<1>12. CASE Pop
  <2>1. CASE UNCHANGED <<reader, fifo_recv>>
    BY <1>5, <1>6, <1>7, <2>1
  <2>2. CASE /\ fifo_recv[reader.channel] > 0
             /\ fifo_recv' = [fifo_recv EXCEPT ![reader.channel] = @ - 1]
             /\ reader' = Looking
    <3>1. reader.channel \in Channels
      BY <1>12 DEF Pop, TypeInv, ReaderType
    <3>2. FifoType'
      BY <1>1, <2>2, <3>1 DEF TypeInv, FifoType
    <3>3. ReaderType'
      BY <2>2, LookingType DEF ReaderType
    <3>4. QED
      BY <1>6, <3>2, <3>3
  <2>3. QED
    BY <1>12, <2>1, <2>2 DEF Pop, ReaderGoes
<1>13. QED
  BY <1>8, <1>9, <1>10, <1>11, <1>12 DEF Reader

LEMMA SweepTypes ==
  ASSUME TypeInv, NEW w \in Sweepers, SweepStarts(w) \/ SweepReads(w)
  PROVE  TypeInv'
<1>1. UNCHANGED <<array, fifo_recv, came, leaked, reader, calls, is_open, twins>>
  BY DEF SweepStarts, SweepReads
<1>2. outside' \subseteq Sweepers \union {"reader"} \union Ids
  BY DEF SweepStarts, SweepReads, TypeInv, RestType
<1>3. sweep[w] \in Sweeps /\ sweep[w].index + 1 \in Nat \ {0} /\ sweep[w].count \in Nat
  BY DEF TypeInv, SweepType, Sweeps
<1>4. \/ sweep' = sweep
      \/ \E s \in Sweeps : sweep' = [sweep EXCEPT ![w] = s]
  <2>1. CASE SweepStarts(w)
    <3>1. sweep' = [sweep EXCEPT ![w] = [sweep[w] EXCEPT !.count = channel_count]]
      BY <2>1 DEF SweepStarts
    <3>2. [sweep[w] EXCEPT !.count = channel_count] \in Sweeps
      BY <1>3, SweepFields, ArrayIsFunction DEF TypeInv
    <3>3. QED
      BY <3>1, <3>2
  <2>2. CASE SweepReads(w)
    <3> DEFINE n == IF w = "diagnose" THEN channel_count ELSE sweep[w].count
               i == sweep[w].index + 1
    <3>1. n \in Nat
      BY <1>3, ArrayIsFunction DEF TypeInv
    <3>2. sweep' = sweep \/ SweepTo(w, i, n)
      BY <2>2 DEF SweepReads
    <3> HIDE DEF n
    <3>3. SweepTo(w, i, n) =>
             \/ sweep' = [sweep EXCEPT ![w] = [sweep[w] EXCEPT !.index = i, !.count = n]]
             \/ sweep' = [sweep EXCEPT ![w] = Swept]
      BY DEF SweepTo
    <3>4. i \in Nat \ {0}
      BY <1>3
    <3> HIDE DEF i
    <3>5. [sweep[w] EXCEPT !.index = i, !.count = n] \in Sweeps /\ Swept \in Sweeps
      BY <1>3, <3>1, <3>4, SweepFields
    <3>6. QED
      BY <3>2, <3>3, <3>5
  <2>3. QED
    BY <2>1, <2>2
<1>5. SweepType'
  BY <1>4 DEF TypeInv, SweepType
<1>6. QED
  BY <1>1, <1>2, <1>5 DEF TypeInv, ArrayType, FifoType, ReaderType, OpType, SentType, RestType,
     array, calls

LEMMA TypeStep ==
  ASSUME TypeInv, PointerInv, [Next]_vars
  PROVE  TypeInv'
<1>1. CASE Open \/ UNCHANGED vars
  BY <1>1 DEF Open, vars, array, calls, TypeInv, ArrayType, FifoType, ReaderType, OpType, SentType,
     SweepType, RestType
<1>2. CASE Close
  <2>1. /\ UNCHANGED <<created, came, leaked, sent, torn, sweep, outside, twins>>
        /\ is_open' = "closed" /\ connected_channels' = <<>>
        /\ fifo_recv' = [c \in Channels |-> 0]
        /\ reader' = [Looking EXCEPT !.removed = reader.removed]
        /\ op' = [id \in Ids |-> Idle]
    BY <1>2 DEF Close
  <2>2. ReaderType'
    <3>1. reader.removed \in BOOLEAN
      BY DEF TypeInv, ReaderType, Readers
    <3>2. QED
      BY <2>1, <3>1, LookingType DEF ReaderType
  <2>3. OpType'
    BY <2>1, OpFields DEF OpType
  <2>4. ArrayType' /\ FifoType'
    BY <2>1 DEF TypeInv, ArrayType, FifoType
  <2>5. QED
    BY <2>1, <2>2, <2>3, <2>4 DEF TypeInv, SentType, SweepType, RestType
<1>3. QED
  BY <1>1, <1>2, ReceiveTypes, SetConfigTypes, SendTypes, RemoveTypes, ReaderTypes, SweepTypes
     DEF Next, SrLayer

-------------------------------------------------------------------------------
(* The array grows, but for a removal and the close: what is at a place     *)
(* stays there.                                                             *)

Grows ==
    /\ channel_count <= channel_count'
    /\ \A i \in Entry :
          /\ connected_channels'[i].channel = connected_channels[i].channel
          /\ connected_channels[i] \in Entries => connected_channels'[i] \in Entries

LEMMA UnchangedGrows ==
  ASSUME TypeInv, UNCHANGED connected_channels
  PROVE  Grows
<1>1. channel_count' = channel_count /\ channel_count \in Nat
  BY ArrayIsFunction DEF TypeInv, channel_count
<1>2. QED
  BY <1>1 DEF Grows

LEMMA WrittenGrows ==
  ASSUME TypeInv, NEW i \in Entry, NEW e \in Entries,
         connected_channels' = [connected_channels EXCEPT ![i] = e],
         e.channel = connected_channels[i].channel
  PROVE  /\ Grows /\ channel_count' = channel_count
         /\ \A j \in Entry : connected_channels'[j] = IF j = i THEN e ELSE connected_channels[j]
<1>1. /\ channel_count \in Nat /\ Entry = 1 .. channel_count
      /\ connected_channels \in [1 .. channel_count -> Entries \union {Garbage}]
  BY ArrayIsFunction DEF TypeInv
<1>2. connected_channels' \in [1 .. channel_count -> Entries \union {Garbage}]
  BY <1>1
<1>3. channel_count' = channel_count
  BY <1>1, <1>2, FunctionIsArray DEF channel_count
<1>4. \A j \in Entry : connected_channels'[j] = IF j = i THEN e ELSE connected_channels[j]
  BY <1>1
<1>5. QED
  BY <1>1, <1>3, <1>4 DEF Grows

LEMMA AddGrows ==
  ASSUME TypeInv, NEW id \in Ids, NEW o, created < MaxChannels, AddEntry(id, o)
  PROVE  /\ Grows /\ channel_count' = channel_count + 1
         /\ \A i \in Entry : connected_channels'[i] = connected_channels[i]
         /\ connected_channels'[channel_count + 1] =
                [id |-> id, channel |-> created + 1, seq_tx |-> 0]
         /\ connected_channels'[channel_count + 1] \in Entries
<1> DEFINE e == [id |-> id, channel |-> created + 1, seq_tx |-> 0]
<1>1. e \in Entries
  BY DEF TypeInv, ArrayType, Channels, Entries
<1>2. connected_channels' = Append(connected_channels, e)
  BY DEF AddEntry
<1>3. channel_count \in Nat /\ Entry = 1 .. channel_count
  BY ArrayIsFunction DEF TypeInv
<1>4. connected_channels \in Seq(Entries \union {Garbage})
  BY DEF TypeInv, ArrayType
<1> HIDE DEF e
<1>5. /\ Len(connected_channels') = channel_count + 1
      /\ \A i \in 1 .. channel_count : connected_channels'[i] = connected_channels[i]
      /\ connected_channels'[channel_count + 1] = e
  BY <1>2, <1>3, <1>4 DEF channel_count
<1>6. channel_count' = channel_count + 1
  BY <1>5 DEF channel_count
<1>7. Grows
  BY <1>3, <1>5, <1>6 DEF Grows
<1>8. QED
  BY <1>1, <1>3, <1>5, <1>6, <1>7 DEF e

\* What the rename leaves behind, when it ends well.
LEMMA RenameGrows ==
  ASSUME TypeInv, NEW id \in Ids, SetConfigId(id)
  PROVE  /\ Grows /\ channel_count' = channel_count
         /\ \/ UNCHANGED connected_channels
            \/ /\ 1 \in Entry /\ connected_channels[1] \in Entries
               /\ connected_channels' =
                     [connected_channels EXCEPT ![1] = [connected_channels[1] EXCEPT !.id = id]]
<1>1. CASE UNCHANGED connected_channels
  BY <1>1, UnchangedGrows DEF channel_count
<1>2. CASE channel_count = 0 /\ connected_channels' = <<>>
  <2>1. connected_channels = <<>>
    BY <1>2, EmptySeq DEF channel_count, TypeInv, ArrayType
  <2>2. QED
    BY <1>1, <1>2, <2>1
<1>3. CASE /\ channel_count > 0 /\ Readable(1)
           /\ connected_channels' = [connected_channels EXCEPT ![1].id = id]
  <2> DEFINE e == [connected_channels[1] EXCEPT !.id = id]
  <2>1. 1 \in Entry /\ connected_channels[1] \in Entries
    BY <1>3, ReadableEntry DEF TypeInv
  <2>2. e \in Entries /\ e.channel = connected_channels[1].channel
    BY <2>1 DEF Entries
  <2>3. connected_channels' = [connected_channels EXCEPT ![1] = e]
    BY <1>3
  <2> HIDE DEF e
  <2>4. Grows /\ channel_count' = channel_count
    BY <2>1, <2>2, <2>3, WrittenGrows
  <2>5. QED
    BY <2>1, <2>3, <2>4 DEF e
<1>4. QED
  BY <1>1, <1>2, <1>3, ArrayIsFunction DEF SetConfigId, TypeInv

\* What the counting of a packet changes.
LEMMA CountGrows ==
  ASSUME TypeInv, PointerInv, NEW id \in Ids, SendCounts(id)
  PROVE  /\ Grows /\ channel_count' = channel_count
         /\ \/ UNCHANGED connected_channels
            \/ /\ ~op[id].stale
               /\ op[id].index \in Entry /\ connected_channels[op[id].index] \in Entries
               /\ connected_channels' = [connected_channels EXCEPT ![op[id].index] =
                     [connected_channels[op[id].index] EXCEPT !.seq_tx = @ + 1]]
<1>1. CASE UNCHANGED connected_channels
  BY <1>1, UnchangedGrows DEF channel_count
<1>2. CASE /\ ~op[id].stale
           /\ connected_channels' = [connected_channels EXCEPT ![op[id].index].seq_tx = @ + 1]
  <2> DEFINE i == op[id].index
             e == [connected_channels[i] EXCEPT !.seq_tx = @ + 1]
  <2>1. i \in Entry /\ connected_channels[i] \in Entries
    BY <1>2 DEF PointerInv, SendCounts
  <2>2. connected_channels' = [connected_channels EXCEPT ![i] = e]
    BY <1>2
  <2>3. e \in Entries /\ e.channel = connected_channels[i].channel
    <3> HIDE DEF i
    <3>1. QED
      BY <2>1 DEF Entries
  <2>4. Grows /\ channel_count' = channel_count
    <3> HIDE DEF i, e
    <3>1. QED
      BY <2>1, <2>2, <2>3, WrittenGrows
  <2>5. QED
    BY <1>2, <2>1, <2>2, <2>4
<1>3. QED
  BY <1>1, <1>2 DEF SendCounts

LEMMA ArraySteps ==
  ASSUME TypeInv, PointerInv, [Next]_vars
  PROVE  Grows \/ Close \/ \E id \in Ids : RemoveCopies(id)
<1>1. ASSUME NEW id \in Ids, ReceiveNew(id) \/ AddChannel(id) PROVE Grows
  <2>1. created < MaxChannels /\ \E o : AddEntry(id, o)
    BY <1>1 DEF ReceiveNew, AddChannel
  <2>2. QED
    BY <2>1, AddGrows
<1>2. ASSUME NEW id \in Ids, Receive(id) \/ SendReads(id) \/ RemoveFinds(id) PROVE Grows
  BY <1>2, UnchangedGrows DEF Receive, SendReads, RemoveFinds, array
<1>3. ASSUME Reader \/ Open \/ UNCHANGED vars PROVE Grows
  BY <1>3, UnchangedGrows DEF Reader, Look, Count, ReadId, Find, Pop, ReaderGoes, Open, array, vars
<1>4. ASSUME NEW w \in Sweepers, SweepStarts(w) \/ SweepReads(w) PROVE Grows
  BY <1>4, UnchangedGrows DEF SweepStarts, SweepReads, array
<1>5. QED
  BY <1>1, <1>2, <1>3, <1>4, RenameGrows, CountGrows DEF Next, SrLayer

LEMMA PointerStep ==
  ASSUME TypeInv, PointerInv, [Next]_vars
  PROVE  PointerInv'
<1>1. CASE Close
  BY <1>1, OpFields DEF Close, PointerInv
<1>2. ASSUME NEW id \in Ids, RemoveCopies(id) PROVE PointerInv'
  <2>1. CASE UNCHANGED <<connected_channels, op>>
    BY <2>1 DEF PointerInv, Entry, channel_count
  <2>2. CASE Removed([op EXCEPT ![id] = Idle])
    <3> DEFINE o == [op EXCEPT ![id] = Idle]
    <3>1. o \in [Ids -> Ops] /\ op' = Moved(o)
      BY <2>2, OpFields DEF TypeInv, OpType, Removed
    <3> HIDE DEF o
    <3>2. \A k \in Ids : op'[k].at = "sending" => op'[k].stale
      BY <3>1, MovedType
    <3>3. QED
      BY <3>2 DEF PointerInv
  <2>3. QED
    BY <1>2, <2>1, <2>2 DEF RemoveCopies
<1>3. CASE Grows
  <2>1. SUFFICES ASSUME NEW k \in Ids, op'[k].at = "sending", ~op'[k].stale
                 PROVE  op'[k].index \in Entry' /\ connected_channels'[op'[k].index] \in Entries
    BY DEF PointerInv
  <2>2. \A i \in Entry : connected_channels[i] \in Entries =>
            i \in Entry' /\ connected_channels'[i] \in Entries
    <3>1. TypeInv'
      BY TypeStep
    <3>2. Entry' = 1 .. channel_count' /\ Entry = 1 .. channel_count
      BY <3>1, ArrayIsFunction, NextArrayIsFunction DEF TypeInv
    <3>3. channel_count' \in Nat /\ channel_count \in Nat
      BY <3>1, ArrayIsFunction, NextArrayIsFunction DEF TypeInv
    <3>4. Entry \subseteq Entry'
      BY <1>3, <3>2, <3>3 DEF Grows
    <3>5. QED
      BY <1>3, <3>4 DEF Grows
  <2>3. CASE op[k].at = "sending" /\ ~op[k].stale /\ op'[k].index = op[k].index
    BY <2>2, <2>3 DEF PointerInv
  <2>4. CASE SendReads(k)
    <3>1. op'[k].index = IndexOf(k) /\ HasChannel(k) /\ UNCHANGED connected_channels
      BY <2>4 DEF SendReads, TypeInv, OpType, array
    <3>2. IndexOf(k) \in Entry /\ connected_channels[IndexOf(k)] \in Entries
      BY <3>1, FoundEntry DEF TypeInv
    <3>3. QED
      BY <2>2, <3>1, <3>2
  <2>5. CASE op' = op
    BY <2>1, <2>3, <2>5
  <2>6. ASSUME NEW id \in Ids, NEW o \in [Ids -> Ops], AddEntry(id, o),
               o[k].at = "sending" => o[k] = op[k]
        PROVE  op[k].at = "sending" /\ ~op[k].stale /\ op'[k].index = op[k].index
    <3>1. op' = o \/ op' = Moved(o)
      BY <2>6 DEF AddEntry
    <3>2. op' = o
      BY <2>1, <2>6, <3>1, MovedType
    <3>3. QED
      BY <2>1, <2>6, <3>2
  <2>7. ASSUME NEW id \in Ids, ReceiveNew(id) \/ AddChannel(id)
        PROVE  op[k].at = "sending" /\ ~op[k].stale /\ op'[k].index = op[k].index
    <3>1. CASE ReceiveNew(id)
      BY <2>6, <3>1 DEF ReceiveNew, TypeInv, OpType
    <3>2. CASE AddChannel(id)
      <4> DEFINE o == [op EXCEPT ![id].at = "naming"]
      <4>1. o \in [Ids -> Ops] /\ o[id].at = "naming" /\ \A m \in Ids \ {id} : o[m] = op[m]
        BY OpFields DEF TypeInv, OpType
      <4>2. AddEntry(id, o)
        BY <3>2 DEF AddChannel
      <4> HIDE DEF o
      <4>3. QED
        BY <2>6, <4>1, <4>2
    <3>3. QED
      BY <2>7, <3>1, <3>2
  <2>8. ASSUME NEW id \in Ids, NEW o, op' = [op EXCEPT ![id] = o],
               k = id => o.at # "sending"
        PROVE  op[k].at = "sending" /\ ~op[k].stale /\ op'[k].index = op[k].index
    <3>1. k # id
      BY <2>1, <2>8 DEF TypeInv, OpType
    <3>2. op'[k] = op[k]
      BY <2>8, <3>1
    <3>3. QED
      BY <2>1, <3>2
  <2>9. ASSUME NEW id \in Ids, SetConfigId(id) \/ SendCounts(id) \/ RemoveFinds(id), op' # op
        PROVE  op[k].at = "sending" /\ ~op[k].stale /\ op'[k].index = op[k].index
    <3>1. op' = [op EXCEPT ![id] = Idle] \/ op' = [op EXCEPT ![id] = [Idle EXCEPT !.at = "removing"]]
      BY <2>9 DEF SetConfigId, SendCounts, RemoveFinds
    <3>2. Idle.at # "sending" /\ [Idle EXCEPT !.at = "removing"].at # "sending"
      BY OpFields
    <3>3. PICK o : op' = [op EXCEPT ![id] = o] /\ o.at # "sending"
      BY <3>1, <3>2
    <3>4. QED
      BY <2>8, <3>3
  <2>10. ASSUME NEW id \in Ids, SendReads(id), id # k
         PROVE  op[k].at = "sending" /\ ~op[k].stale /\ op'[k].index = op[k].index
    <3>1. PICK o : op' = [op EXCEPT ![id] = o]
      BY <2>10 DEF SendReads
    <3>2. k # id
      BY <2>10
    <3>3. QED
      BY <2>8, <3>1, <3>2
  <2>11. CASE op' # op /\ ~SendReads(k) /\ \E id \in Ids : SrLayer(id) \/ ReceiveNew(id)
    <3>1. PICK id \in Ids : SrLayer(id) \/ ReceiveNew(id)
      BY <2>11
    <3>2. CASE RemoveCopies(id)
      BY <1>2, <3>2, <2>1 DEF PointerInv
    <3>3. QED
      BY <2>3, <2>7, <2>9, <2>10, <2>11, <3>1, <3>2 DEF SrLayer
  <2>12. op' = op \/ \E id \in Ids : SrLayer(id) \/ ReceiveNew(id)
    <3>1. ASSUME Close PROVE FALSE
      BY <2>1, <3>1, OpFields DEF Close
    <3>2. QED
      BY <3>1 DEF Next, Open, Receive, Reader, Look, Count, ReadId, Find, Pop, ReaderGoes,
         SweepStarts, SweepReads, calls, vars
  <2>13. QED
    BY <2>4, <2>5, <2>11, <2>12
<1>4. QED
  BY <1>1, <1>2, <1>3, ArraySteps

-------------------------------------------------------------------------------
(* As long as no two channels have had one id, every peer has at most one   *)
(* entry, and what the SR layer does for a peer concerns that entry.        *)

Id(i) == connected_channels[i].id
Channel(i) == connected_channels[i].channel

UniqueInv ==
    ~twins =>
      /\ \A i \in Entry : connected_channels[i] \in Entries /\ Channel(i) <= created
      /\ \A i, j \in Entry : i # j => Id(i) # Id(j) /\ Channel(i) # Channel(j)

Holds(id) ==
    /\ op[id].at \in {"naming", "removing"} => HasChannel(id)
    /\ op[id].at = "sending" =>
          \E i \in Entry :
             /\ Id(i) = id /\ Channel(i) = op[id].channel
             /\ connected_channels[i].seq_tx = op[id].number
             /\ op[id].stale \/ i = op[id].index

OpInv == ~twins => \A id \in Ids : Holds(id)

\* Where an entry of the next array comes from.
ComesFrom(f) ==
    /\ \A k \in Entry' : f[k] \in Entry
    /\ \A k, l \in Entry' : k # l => f[k] # f[l]
    /\ \A k \in Entry' :
          /\ connected_channels'[k] \in Entries
          /\ connected_channels'[k].id = Id(f[k])
          /\ connected_channels'[k].channel = Channel(f[k])
          /\ connected_channels'[k].seq_tx >= connected_channels[f[k]].seq_tx

LEMMA TwinsStay ==
  ASSUME [Next]_vars, ~twins', twins \in BOOLEAN
  PROVE  ~twins
BY DEF Next, Open, Close, Receive, ReceiveNew, SrLayer, AddChannel, SetConfigId, SendReads,
   SendCounts, RemoveFinds, RemoveCopies, Reader, Look, Count, ReadId, Find, Pop, ReaderGoes,
   SweepStarts, SweepReads, AddEntry, vars

LEMMA NewIsFresh ==
  ASSUME TypeInv, NEW id \in Ids, NEW o, created < MaxChannels, AddEntry(id, o), ~twins'
  PROVE  \A i \in Entry : Id(i) # id
<1>1. SUFFICES ASSUME NEW i \in Entry, Id(i) = id PROVE FALSE
  OBVIOUS
<1> DEFINE n == channel_count + 1
<1>2. /\ channel_count' = n /\ connected_channels'[i] = connected_channels[i]
      /\ connected_channels'[n].id = id
  <2>1. /\ channel_count' = channel_count + 1
        /\ \A j \in Entry : connected_channels'[j] = connected_channels[j]
        /\ connected_channels'[channel_count + 1] =
               [id |-> id, channel |-> created + 1, seq_tx |-> 0]
    BY AddGrows
  <2>2. QED
    BY <2>1
<1>3. channel_count \in Nat /\ i \in 1 .. channel_count
  BY ArrayIsFunction DEF TypeInv
<1>4. DOMAIN connected_channels' = 1 .. n
  <2>1. connected_channels' = Append(connected_channels, [id |-> id, channel |-> created + 1, seq_tx |-> 0])
    BY DEF AddEntry
  <2>2. DOMAIN connected_channels' = 1 .. Len(connected_channels) + 1
    BY <2>1 DEF TypeInv, ArrayType
  <2>3. QED
    BY <2>2 DEF channel_count
<1>5. i \in DOMAIN connected_channels' /\ n \in DOMAIN connected_channels' /\ i # n
  BY <1>3, <1>4
<1>6. Twins(connected_channels')
  BY <1>1, <1>2, <1>5 DEF Twins, Id
<1>7. QED
  BY <1>6 DEF AddEntry

LEMMA RenameIsNone ==
  ASSUME TypeInv, TypeInv', OpInv, NEW id \in Ids, SetConfigId(id), ~twins', ~twins
  PROVE  UNCHANGED connected_channels
<1>1. CASE /\ 1 \in Entry /\ connected_channels[1] \in Entries
           /\ connected_channels' =
                 [connected_channels EXCEPT ![1] = [connected_channels[1] EXCEPT !.id = id]]
           /\ twins' = (twins \/ Twins(connected_channels'))
  <2> DEFINE e == [connected_channels[1] EXCEPT !.id = id]
  <2>1. PICK i \in Entry : Id(i) = id
    BY DEF OpInv, Holds, SetConfigId, HasChannel, Id
  <2>2. e.id = id /\ (Id(1) = id => e = connected_channels[1])
    BY <1>1 DEF Id, Entries
  <2>3. connected_channels' = [connected_channels EXCEPT ![1] = e]
    BY <1>1
  <2> HIDE DEF e
  <2>4. DOMAIN connected_channels' = Entry /\ DOMAIN connected_channels = Entry
    BY <2>3, ArrayIsFunction DEF TypeInv
  <2>5. connected_channels'[1].id = id
    BY <1>1, <2>2, <2>3, <2>4
  <2>6. CASE i = 1
    <3>1. e = connected_channels[1]
      BY <2>1, <2>2, <2>6
    <3>2. QED
      BY <2>3, <2>4, <3>1, ArrayIsFunction DEF TypeInv
  <2>7. CASE i # 1
    <3>1. connected_channels'[i].id = id
      BY <2>1, <2>3, <2>4, <2>7 DEF Id
    <3>2. Twins(connected_channels')
      BY <1>1, <2>1, <2>4, <2>5, <2>7, <3>1 DEF Twins
    <3>3. QED
      BY <1>1, <3>2
  <2>8. QED
    BY <2>6, <2>7
<1>2. QED
  <2>1. CASE UNCHANGED connected_channels
    BY <2>1
  <2>2. CASE ~UNCHANGED connected_channels
    <3>1. twins' = (twins \/ Twins(connected_channels'))
      BY <2>2 DEF SetConfigId
    <3>2. QED
      BY <1>1, <2>2, <3>1, RenameGrows
  <2>3. QED
    BY <2>1, <2>2

\* The removal takes the one entry away that it is for, and leaves no gap.
LEMMA RemoveDrops ==
  ASSUME TypeInv, TypeInv', UniqueInv, OpInv, NEW id \in Ids, RemoveCopies(id), ~twins
  PROVE  /\ \E f : ComesFrom(f) /\ \A k \in Entry' : connected_channels'[k] = connected_channels[f[k]]
         /\ \A i \in Entry : Id(i) # id => \E k \in Entry' : connected_channels'[k] = connected_channels[i]
         /\ UNCHANGED outside /\ Removed([op EXCEPT ![id] = Idle])
<1> DEFINE from(k) == CHOOSE i \in Kept(id) : Place(Kept(id), i) = k
           m == Cardinality(Kept(id))
           n == channel_count - 1
<1>1. PICK x \in Entry : Id(x) = id
  BY DEF OpInv, Holds, RemoveCopies, HasChannel, Id
<1>2. channel_count \in Nat \ {0} /\ n \in Nat /\ Entry = 1 .. channel_count
  BY <1>1, ArrayIsFunction DEF TypeInv
<1>3. Kept(id) = Entry \ {x}
  BY <1>1 DEF Kept, UniqueInv, Id
<1>4. m = n
  <2>1. IsFiniteSet(Entry) /\ Cardinality(Entry) = channel_count
    BY <1>2, FS_Interval
  <2>2. QED
    BY <1>1, <1>3, <2>1, FS_RemoveElement
<1>5. /\ Others(id) = [k \in 1 .. m |-> connected_channels[from(k)]]
      /\ \A k \in 1 .. m : from(k) \in Kept(id)
      /\ \A k, l \in 1 .. m : k # l => from(k) # from(l)
      /\ \A i \in Kept(id) : \E k \in 1 .. m : from(k) = i
  BY <1>2, OthersAre
<1>6. Len(Others(id)) = m
  BY OthersType DEF TypeInv
<1> HIDE DEF from, m
<1>7. /\ connected_channels' = Fitted(Others(id), n)
      /\ UNCHANGED outside /\ Removed([op EXCEPT ![id] = Idle])
  <2>1. channel_count > 0 /\ Len(Others(id)) # channel_count
    BY <1>2, <1>4, <1>6
  <2>2. QED
    BY <2>1 DEF RemoveCopies
<1>8. /\ DOMAIN connected_channels' = 1 .. n
      /\ \A k \in 1 .. n : connected_channels'[k] = connected_channels[from(k)]
  <2>1. \A k \in 1 .. n : Fitted(Others(id), n)[k] = Others(id)[k]
    BY <1>2, <1>4, <1>6 DEF Fitted
  <2>2. DOMAIN Fitted(Others(id), n) = 1 .. n
    BY DEF Fitted
  <2>3. \A k \in 1 .. n : Others(id)[k] = connected_channels[from(k)]
    BY <1>4, <1>5
  <2> HIDE DEF n
  <2>4. QED
    BY <1>7, <2>1, <2>2, <2>3
<1>9. Entry' = 1 .. n
  BY <1>8, NextArrayIsFunction DEF TypeInv
<1> HIDE DEF n
<1> DEFINE f == [k \in 1 .. n |-> from(k)]
<1>10. ComesFrom(f) /\ \A k \in Entry' : connected_channels'[k] = connected_channels[f[k]]
  <2>1. \A k \in 1 .. n : f[k] = from(k)
    OBVIOUS
  <2> HIDE DEF f
  <2>2. /\ \A k \in Entry' : f[k] \in Kept(id)
        /\ \A k, l \in Entry' : k # l => f[k] # f[l]
        /\ \A k \in Entry' : connected_channels'[k] = connected_channels[f[k]]
    BY <1>4, <1>5, <1>8, <1>9, <2>1
  <2>3. \A i \in Kept(id) : i \in Entry /\ connected_channels[i] \in Entries
    BY <1>3 DEF UniqueInv
  <2>4. \A e \in Entries : e.seq_tx \in Nat
    BY GarbageIsNoEntry
  <2>5. QED
    BY <2>2, <2>3, <2>4 DEF ComesFrom, Id, Channel
<1>11. \A i \in Entry : Id(i) # id => \E k \in Entry' : connected_channels'[k] = connected_channels[i]
  <2>1. ASSUME NEW i \in Entry, Id(i) # id
        PROVE  \E k \in Entry' : connected_channels'[k] = connected_channels[i]
    <3>1. i \in Kept(id)
      BY <2>1 DEF Kept, Id
    <3>2. PICK k \in 1 .. n : from(k) = i
      BY <1>4, <1>5, <3>1
    <3>3. QED
      BY <1>8, <1>9, <3>2
  <2>2. QED
    BY <2>1
<1>12. \E g : ComesFrom(g) /\ \A k \in Entry' : connected_channels'[k] = connected_channels[g[k]]
  BY <1>10
<1>13. QED
  BY <1>7, <1>11, <1>12

\* The ways in which the array changes as long as ids are unique.
Same == UNCHANGED <<connected_channels, created>>
New(id) ==
    /\ \A i \in Entry : Id(i) # id
    /\ Entry' = Entry \union {channel_count + 1} /\ channel_count + 1 \notin Entry
    /\ \A i \in Entry : connected_channels'[i] = connected_channels[i]
    /\ connected_channels'[channel_count + 1] = [id |-> id, channel |-> created + 1, seq_tx |-> 0]
    /\ connected_channels'[channel_count + 1] \in Entries
    /\ created' = created + 1 /\ created + 1 \in Channels
Counted(id) ==
    /\ op[id].index \in Entry /\ ~op[id].stale
    /\ connected_channels[op[id].index] \in Entries
    /\ Entry' = Entry /\ created' = created
    /\ \A i \in Entry : connected_channels'[i] =
          IF i = op[id].index
          THEN [connected_channels[i] EXCEPT !.seq_tx = connected_channels[i].seq_tx + 1]
          ELSE connected_channels[i]

LEMMA AddIsNew ==
  ASSUME TypeInv, TypeInv', NEW id \in Ids, NEW o, created < MaxChannels, AddEntry(id, o), ~twins'
  PROVE  New(id)
<1>1. \A i \in Entry : Id(i) # id
  BY NewIsFresh
<1>2. /\ channel_count' = channel_count + 1
      /\ \A i \in Entry : connected_channels'[i] = connected_channels[i]
      /\ connected_channels'[channel_count + 1] =
             [id |-> id, channel |-> created + 1, seq_tx |-> 0]
      /\ connected_channels'[channel_count + 1] \in Entries
  BY AddGrows
<1>3. created' = created + 1 /\ created + 1 \in Channels
  BY DEF AddEntry, TypeInv, ArrayType, Channels
<1>4. Entry = 1 .. channel_count /\ channel_count \in Nat /\ Entry' = 1 .. channel_count'
  BY ArrayIsFunction, NextArrayIsFunction DEF TypeInv
<1>5. Entry' = Entry \union {channel_count + 1} /\ channel_count + 1 \notin Entry
  BY <1>2, <1>4
<1>6. QED
  BY <1>1, <1>2, <1>3, <1>5 DEF New

LEMMA CountIsCounted ==
  ASSUME TypeInv, TypeInv', PointerInv, NEW id \in Ids, SendCounts(id)
  PROVE  Same \/ Counted(id)
<1>1. created' = created
  BY DEF SendCounts
<1>2. CASE UNCHANGED connected_channels
  BY <1>1, <1>2 DEF Same
<1>3. CASE /\ ~op[id].stale
           /\ op[id].index \in Entry /\ connected_channels[op[id].index] \in Entries
           /\ connected_channels' = [connected_channels EXCEPT ![op[id].index] =
                 [connected_channels[op[id].index] EXCEPT !.seq_tx = @ + 1]]
           /\ channel_count' = channel_count
  <2> DEFINE x == op[id].index
             e == [connected_channels[x] EXCEPT !.seq_tx = connected_channels[x].seq_tx + 1]
  <2>1. connected_channels' = [connected_channels EXCEPT ![x] = e] /\ x \in Entry
    BY <1>3
  <2>2. Entry' = Entry
    BY <1>3 DEF Entry
  <2>3. DOMAIN connected_channels = Entry
    BY ArrayIsFunction DEF TypeInv
  <2>4. \A i \in Entry : connected_channels'[i] = IF i = x THEN e ELSE connected_channels[i]
    <3> HIDE DEF e, x
    <3>1. QED
      BY <2>1, <2>3
  <2>5. \A i \in Entry : connected_channels'[i] =
          IF i = x
          THEN [connected_channels[i] EXCEPT !.seq_tx = connected_channels[i].seq_tx + 1]
          ELSE connected_channels[i]
    BY <2>4
  <2>6. QED
    BY <1>1, <1>3, <2>2, <2>5 DEF Counted
<1>4. QED
  BY <1>2, <1>3, CountGrows

LEMMA Ways ==
  ASSUME TypeInv, TypeInv', PointerInv, OpInv, [Next]_vars, ~twins'
  PROVE  \/ Same
         \/ Close
         \/ \E id \in Ids : \/ New(id) /\ (ReceiveNew(id) \/ AddChannel(id))
                            \/ Counted(id) /\ SendCounts(id)
                            \/ RemoveCopies(id)
<1>1. ~twins
  BY TwinsStay DEF TypeInv, RestType
<1>2. ASSUME NEW id \in Ids, ReceiveNew(id) \/ AddChannel(id) PROVE New(id)
  <2>1. created < MaxChannels /\ \E o : AddEntry(id, o)
    BY <1>2 DEF ReceiveNew, AddChannel
  <2>2. QED
    BY <2>1, AddIsNew
<1>3. ASSUME NEW id \in Ids, Receive(id) \/ SendReads(id) \/ RemoveFinds(id) PROVE Same
  BY <1>3 DEF Receive, SendReads, RemoveFinds, array, Same
<1>4. ASSUME NEW id \in Ids, SetConfigId(id) PROVE Same
  BY <1>1, <1>4, RenameIsNone DEF SetConfigId, Same
<1>5. ASSUME Reader \/ Open \/ UNCHANGED vars PROVE Same
  BY <1>5 DEF Reader, Look, Count, ReadId, Find, Pop, ReaderGoes, Open, array, vars, Same
<1>6. ASSUME NEW w \in Sweepers, SweepStarts(w) \/ SweepReads(w) PROVE Same
  BY <1>6 DEF SweepStarts, SweepReads, array, Same
<1>7. QED
  BY <1>2, <1>3, <1>4, <1>5, <1>6, CountIsCounted DEF Next, SrLayer

LEMMA UniqueStep ==
  ASSUME TypeInv, TypeInv', PointerInv, UniqueInv, OpInv, [Next]_vars
  PROVE  UniqueInv'
<1>1. SUFFICES ASSUME ~twins' PROVE UniqueInv'
  BY DEF UniqueInv
<1>2. ~twins
  BY <1>1, TwinsStay DEF TypeInv, RestType
<1>3. /\ \A i \in Entry : connected_channels[i] \in Entries /\ Channel(i) <= created
      /\ \A i, j \in Entry : i # j => Id(i) # Id(j) /\ Channel(i) # Channel(j)
  BY <1>2 DEF UniqueInv
<1>4. CASE Same
  <2>1. Entry' = Entry
    BY <1>4 DEF Same, Entry, channel_count
  <2>2. QED
    BY <1>3, <1>4, <2>1 DEF Same, UniqueInv, Id, Channel
<1>5. CASE Close
  <2>1. connected_channels' = <<>>
    BY <1>5 DEF Close
  <2>2. Entry' = {}
    BY <2>1 DEF Entry, channel_count
  <2>3. QED
    BY <2>2 DEF UniqueInv
<1>6. ASSUME NEW f, ComesFrom(f), created' = created PROVE UniqueInv'
  <2>1. \A k \in Entry' : /\ f[k] \in Entry /\ connected_channels'[k] \in Entries
                          /\ connected_channels'[k].id = Id(f[k])
                          /\ connected_channels'[k].channel = Channel(f[k])
    BY <1>6 DEF ComesFrom
  <2>2. \A k, l \in Entry' : k # l => f[k] # f[l]
    BY <1>6 DEF ComesFrom
  <2>3. QED
    BY <1>3, <1>6, <2>1, <2>2 DEF UniqueInv, Id, Channel
<1>7. ASSUME NEW id \in Ids, New(id) PROVE UniqueInv'
  <2> DEFINE n == channel_count + 1
  <2>1. /\ connected_channels'[n].id = id /\ connected_channels'[n].channel = created + 1
        /\ connected_channels'[n] \in Entries /\ created' = created + 1 /\ created \in Nat
        /\ Entry' = Entry \union {n} /\ n \notin Entry
        /\ \A i \in Entry : connected_channels'[i] = connected_channels[i]
    BY <1>7 DEF New, TypeInv, ArrayType
  <2>2. \A i \in Entry : Id(i) # id /\ Channel(i) \in Nat /\ Channel(i) <= created
    BY <1>3, <1>7, GarbageIsNoEntry DEF New, Channel, Channels
  <2> HIDE DEF n
  <2>3. \A i \in Entry : /\ connected_channels'[i] \in Entries
                         /\ connected_channels'[i].channel <= created'
                         /\ connected_channels'[i].id # connected_channels'[n].id
                         /\ connected_channels'[i].channel # connected_channels'[n].channel
    BY <1>3, <2>1, <2>2 DEF Id, Channel
  <2>4. \A i, j \in Entry : i # j => /\ connected_channels'[i].id # connected_channels'[j].id
                                     /\ connected_channels'[i].channel # connected_channels'[j].channel
    BY <1>3, <2>1 DEF Id, Channel
  <2>5. QED
    BY <2>1, <2>3, <2>4 DEF UniqueInv, Id, Channel
<1>8. ASSUME NEW id \in Ids, Counted(id) PROVE UniqueInv'
  <2>1. \A i \in Entry : /\ connected_channels'[i] \in Entries
                         /\ connected_channels'[i].id = Id(i)
                         /\ connected_channels'[i].channel = Channel(i)
    <3>1. SUFFICES ASSUME NEW i \in Entry
                   PROVE  /\ connected_channels'[i] \in Entries
                          /\ connected_channels'[i].id = connected_channels[i].id
                          /\ connected_channels'[i].channel = connected_channels[i].channel
      BY DEF Id, Channel
    <3>2. ASSUME NEW e \in Entries
          PROVE  /\ [e EXCEPT !.seq_tx = e.seq_tx + 1] \in Entries
                 /\ [e EXCEPT !.seq_tx = e.seq_tx + 1].id = e.id
                 /\ [e EXCEPT !.seq_tx = e.seq_tx + 1].channel = e.channel
      BY DEF Entries
    <3>3. connected_channels[i] \in Entries
      BY <1>3
    <3>4. \/ connected_channels'[i] = connected_channels[i]
          \/ connected_channels'[i] =
                [connected_channels[i] EXCEPT !.seq_tx = connected_channels[i].seq_tx + 1]
      BY <1>8 DEF Counted
    <3>5. QED
      BY <3>2, <3>3, <3>4
  <2>2. QED
    BY <1>3, <1>8, <2>1 DEF Counted, UniqueInv, Id, Channel
<1>9. ASSUME NEW id \in Ids, RemoveCopies(id) PROVE UniqueInv'
  <2>1. created' = created
    BY <1>9 DEF RemoveCopies
  <2>2. QED
    BY <1>2, <1>6, <1>9, <2>1, RemoveDrops
<1>10. QED
  BY <1>1, <1>4, <1>5, <1>7, <1>8, <1>9, Ways

\* What is done for a peer goes on, if its entry is still there.
LEMMA HoldsOn ==
  ASSUME TypeInv, NEW id \in Ids, Holds(id),
         op'[id].at = op[id].at, op'[id].channel = op[id].channel,
         op'[id].number = op[id].number, op'[id].index = op[id].index,
         op[id].stale => op'[id].stale,
         \A i \in Entry : Id(i) = id =>
            \E k \in Entry' : /\ connected_channels'[k] = connected_channels[i]
                              /\ op'[id].stale \/ k = i
  PROVE  Holds(id)'
<1>1. op'[id].at \in {"naming", "removing"} => HasChannel(id)'
  <2>1. ASSUME op'[id].at \in {"naming", "removing"} PROVE HasChannel(id)'
    <3>1. PICK i \in Entry : Id(i) = id
      BY <2>1 DEF Holds, HasChannel, Id
    <3>2. PICK k \in Entry' : connected_channels'[k] = connected_channels[i]
      BY <3>1
    <3>3. connected_channels'[k].id = id
      BY <3>1, <3>2 DEF Id
    <3>4. QED
      BY <3>3 DEF HasChannel
  <2>2. QED
    BY <2>1
<1>2. ASSUME op'[id].at = "sending"
      PROVE  \E k \in Entry' :
                /\ connected_channels'[k].id = id
                /\ connected_channels'[k].channel = op'[id].channel
                /\ connected_channels'[k].seq_tx = op'[id].number
                /\ op'[id].stale \/ k = op'[id].index
  <2>1. PICK i \in Entry : /\ Id(i) = id /\ Channel(i) = op[id].channel
                           /\ connected_channels[i].seq_tx = op[id].number
                           /\ op[id].stale \/ i = op[id].index
    BY <1>2 DEF Holds
  <2>2. PICK k \in Entry' : /\ connected_channels'[k] = connected_channels[i]
                            /\ op'[id].stale \/ k = i
    BY <2>1
  <2>3. QED
    BY <2>1, <2>2 DEF Id, Channel
<1>3. QED
  BY <1>1, <1>2 DEF Holds, Id, Channel

LEMMA OpStep ==
  ASSUME TypeInv, TypeInv', PointerInv, UniqueInv, OpInv, [Next]_vars
  PROVE  OpInv'
<1>1. SUFFICES ASSUME ~twins', NEW k \in Ids PROVE Holds(k)'
  BY DEF OpInv
<1>2. ~twins /\ Holds(k)
  BY <1>1, TwinsStay DEF TypeInv, RestType, OpInv
<1>3. CASE op'[k].at \notin {"naming", "removing", "sending"}
  BY <1>3 DEF Holds
<1>4. ASSUME NEW o \in [Ids -> Ops], op' = o \/ op' = Moved(o), o[k] = op[k]
      PROVE  /\ op'[k].at = op[k].at /\ op'[k].channel = op[k].channel
             /\ op'[k].number = op[k].number /\ op'[k].index = op[k].index
             /\ op[k].at = "sending" /\ op[k].stale => op'[k].stale
  BY <1>4, MovedType
<1>5. CASE Close
  BY <1>3, <1>5, OpFields DEF Close
<1>6. ASSUME NEW id \in Ids, RemoveCopies(id) PROVE Holds(k)'
  <2> DEFINE o == [op EXCEPT ![id] = Idle]
  <2>1. /\ o \in [Ids -> Ops] /\ o[id] = Idle /\ op' = Moved(o)
        /\ k # id => o[k] = op[k]
    BY <1>2, <1>6, RemoveDrops, OpFields DEF TypeInv, OpType, Removed
  <2> HIDE DEF o
  <2>2. CASE k = id
    <3>1. op'[k].at = "idle"
      BY <2>1, <2>2, MovedType, OpFields
    <3>2. QED
      BY <1>3, <3>1
  <2>3. CASE k # id
    <3>1. \A i \in Entry : Id(i) = k => \E j \in Entry' : connected_channels'[j] = connected_channels[i]
      BY <1>2, <1>6, <2>3, RemoveDrops
    <3>2. /\ op'[k].at = op[k].at /\ op'[k].channel = op[k].channel
          /\ op'[k].number = op[k].number /\ op'[k].index = op[k].index
          /\ op[k].at = "sending" => op'[k].stale
      BY <2>1, <2>3, MovedType
    <3>3. CASE op[k].at = "sending"
      BY <1>2, <3>1, <3>2, <3>3, HoldsOn
    <3>4. CASE op[k].at # "sending"
      <4>1. ASSUME op'[k].at \in {"naming", "removing"} PROVE HasChannel(k)'
        <5>1. PICK i \in Entry : Id(i) = k
          BY <1>2, <3>2, <4>1 DEF Holds, HasChannel, Id
        <5>2. QED
          BY <3>1, <5>1 DEF HasChannel, Id
      <4>2. QED
        BY <3>2, <3>4, <4>1 DEF Holds
    <3>5. QED
      BY <3>3, <3>4
  <2>4. QED
    BY <2>2, <2>3
<1>7. ASSUME Same \/ \E id \in Ids : New(id) \/ (Counted(id) /\ SendCounts(id) /\ id # k)
      PROVE  \A i \in Entry : Id(i) = k => i \in Entry' /\ connected_channels'[i] = connected_channels[i]
  <2>1. CASE Same
    BY <2>1 DEF Same, Entry, channel_count
  <2>2. ASSUME NEW id \in Ids, New(id)
        PROVE  \A i \in Entry : i \in Entry' /\ connected_channels'[i] = connected_channels[i]
    BY <2>2 DEF New
  <2>3. ASSUME NEW id \in Ids, Counted(id), SendCounts(id), id # k, NEW i \in Entry, Id(i) = k
        PROVE  i \in Entry' /\ connected_channels'[i] = connected_channels[i]
    <3>1. Holds(id) /\ op[id].at = "sending" /\ ~op[id].stale
      BY <1>2, <2>3 DEF OpInv, SendCounts, Counted
    <3>2. Id(op[id].index) = id
      BY <3>1 DEF Holds
    <3>3. QED
      BY <2>3, <3>2 DEF Counted
  <2>4. QED
    BY <1>7, <2>1, <2>2, <2>3
<1>8. ASSUME op'[k] = op[k], Same \/ \E id \in Ids : New(id) \/ (Counted(id) /\ SendCounts(id) /\ id # k)
      PROVE  Holds(k)'
  <2>1. \A i \in Entry : Id(i) = k =>
            \E j \in Entry' : connected_channels'[j] = connected_channels[i] /\ (op'[k].stale \/ j = i)
    BY <1>7, <1>8
  <2>2. QED
    BY <1>2, <1>8, <2>1, HoldsOn
<1>9. ASSUME NEW id \in Ids, New(id), ReceiveNew(id) \/ AddChannel(id) PROVE Holds(k)'
  <2>1. CASE AddChannel(id) /\ k = id
    <3>1. HasChannel(k)'
      BY <1>9, <2>1 DEF New, HasChannel
    <3>2. op'[k].at = "naming"
      <4> DEFINE o == [op EXCEPT ![id].at = "naming"]
      <4>1. o \in [Ids -> Ops] /\ o[id].at = "naming"
        BY OpFields DEF TypeInv, OpType
      <4>2. op' = o \/ op' = Moved(o)
        BY <2>1 DEF AddChannel, AddEntry
      <4> HIDE DEF o
      <4>3. QED
        BY <2>1, <4>1, <4>2, MovedType
    <3>3. QED
      BY <3>1, <3>2 DEF Holds
  <2>2. CASE ~(AddChannel(id) /\ k = id)
    <3>1. PICK o \in [Ids -> Ops] : (op' = o \/ op' = Moved(o)) /\ o[k] = op[k]
      <4>1. CASE ReceiveNew(id)
        BY <4>1 DEF ReceiveNew, AddEntry, TypeInv, OpType
      <4>2. CASE AddChannel(id) /\ k # id
        <5> DEFINE o == [op EXCEPT ![id].at = "naming"]
        <5>1. o \in [Ids -> Ops] /\ o[k] = op[k]
          BY <4>2, OpFields DEF TypeInv, OpType
        <5>2. op' = o \/ op' = Moved(o)
          BY <4>2 DEF AddChannel, AddEntry
        <5> HIDE DEF o
        <5>3. QED
          BY <5>1, <5>2
      <4>3. QED
        BY <1>9, <2>2, <4>1, <4>2
    <3>2. /\ op'[k].at = op[k].at /\ op'[k].channel = op[k].channel
          /\ op'[k].number = op[k].number /\ op'[k].index = op[k].index
          /\ op[k].at = "sending" /\ op[k].stale => op'[k].stale
      BY <1>4, <3>1
    <3>3. \A i \in Entry : Id(i) = k => i \in Entry' /\ connected_channels'[i] = connected_channels[i]
      BY <1>7, <1>9
    <3>4. CASE op[k].at = "sending"
      BY <1>2, <3>2, <3>3, <3>4, HoldsOn
    <3>5. CASE op[k].at # "sending"
      <4>1. ASSUME op'[k].at \in {"naming", "removing"} PROVE HasChannel(k)'
        <5>1. PICK i \in Entry : Id(i) = k
          BY <1>2, <3>2, <4>1 DEF Holds, HasChannel, Id
        <5>2. QED
          BY <3>3, <5>1 DEF HasChannel, Id
      <4>2. QED
        BY <3>2, <3>5, <4>1 DEF Holds
    <3>6. QED
      BY <3>4, <3>5
  <2>3. QED
    BY <2>1, <2>2
<1>10. ASSUME NEW id \in Ids, SetConfigId(id) \/ SendCounts(id), ~UNCHANGED op
       PROVE  op' = [op EXCEPT ![id] = Idle]
  BY <1>10 DEF SetConfigId, SendCounts
<1>11. ASSUME NEW id \in Ids, SetConfigId(id) \/ SendCounts(id), k = id, ~UNCHANGED op
       PROVE  Holds(k)'
  <2>1. op'[k] = Idle
    BY <1>10, <1>11 DEF TypeInv, OpType
  <2>2. QED
    BY <1>3, <2>1, OpFields
<1>12. ASSUME NEW id \in Ids, Counted(id), SendCounts(id) PROVE Holds(k)'
  <2>1. CASE UNCHANGED op
    <3>1. UNCHANGED connected_channels
      <4>1. op[id] \in Ops /\ op[id].at = "sending" /\ Idle.at = "idle"
        BY <1>12, OpFields DEF SendCounts, TypeInv, OpType
      <4>2. op' # [op EXCEPT ![id] = Idle]
        BY <2>1, <4>1 DEF TypeInv, OpType
      <4>3. QED
        BY <1>12, <4>2 DEF SendCounts
    <3>2. Same
      BY <1>12, <3>1 DEF Same, SendCounts
    <3>3. QED
      BY <1>8, <2>1, <3>2
  <2>2. CASE k # id /\ ~UNCHANGED op
    <3>1. op'[k] = op[k]
      BY <1>10, <1>12, <2>2 DEF TypeInv, OpType
    <3>2. QED
      BY <1>8, <1>12, <2>2, <3>1
  <2>3. QED
    BY <1>11, <1>12, <2>1, <2>2
<1>13. ASSUME NEW id \in Ids, SendReads(id), k = id PROVE Holds(k)'
  <2> DEFINE i == IndexOf(id)
  <2>1. /\ op'[k].at = "sending" /\ op'[k].index = i /\ op'[k].number = connected_channels[i].seq_tx
        /\ op'[k].channel = connected_channels[i].channel
        /\ UNCHANGED connected_channels /\ HasChannel(id)
    BY <1>13 DEF SendReads, TypeInv, OpType, array
  <2>2. i \in Entry /\ connected_channels[i].id = id
    BY <2>1, FoundChannel DEF TypeInv
  <2>3. Entry' = Entry
    BY <2>1 DEF Entry, channel_count
  <2> HIDE DEF i
  <2>4. QED
    BY <1>13, <2>1, <2>2, <2>3 DEF Holds, Id, Channel
<1>14. ASSUME NEW id \in Ids, RemoveFinds(id), k = id PROVE Holds(k)'
  <2>1. op'[k].at = "removing" /\ UNCHANGED connected_channels /\ HasChannel(id)
    BY <1>14, OpFields DEF RemoveFinds, TypeInv, OpType, array
  <2>2. HasChannel(k)'
    BY <1>14, <2>1 DEF HasChannel, Entry, channel_count
  <2>3. QED
    BY <2>1, <2>2 DEF Holds
<1>15. ASSUME NEW id \in Ids, ReceiveNew(id) \/ AddChannel(id) PROVE Holds(k)'
  <2>1. created < MaxChannels /\ \E o : AddEntry(id, o)
    BY <1>15 DEF ReceiveNew, AddChannel
  <2>2. New(id)
    BY <1>1, <2>1, AddIsNew
  <2>3. QED
    BY <1>9, <1>15, <2>2
<1>16. ASSUME NEW id \in Ids, SetConfigId(id) \/ SendReads(id) \/ SendCounts(id) \/ RemoveFinds(id),
              Same
       PROVE  Holds(k)'
  <2>1. op' = op \/ \E o : op' = [op EXCEPT ![id] = o]
    BY <1>16 DEF SetConfigId, SendReads, SendCounts, RemoveFinds
  <2>2. CASE k # id \/ op' = op
    <3>1. op'[k] = op[k]
      BY <2>1, <2>2 DEF TypeInv, OpType
    <3>2. QED
      BY <1>8, <1>16, <3>1
  <2>3. CASE k = id /\ op' # op
    BY <1>11, <1>13, <1>14, <1>16, <2>3
  <2>4. QED
    BY <2>2, <2>3
<1>17. ASSUME NEW id \in Ids, SetConfigId(id) PROVE Same
  BY <1>1, <1>2, <1>17, RenameIsNone DEF SetConfigId, Same
<1>18. ASSUME NEW id \in Ids, SendReads(id) \/ RemoveFinds(id) PROVE Same
  BY <1>18 DEF SendReads, RemoveFinds, array, Same
<1>19. ASSUME NEW id \in Ids, SendCounts(id) PROVE Holds(k)'
  BY <1>12, <1>16, <1>19, CountIsCounted
<1>20. ASSUME NEW id \in Ids, SrLayer(id) PROVE Holds(k)'
  BY <1>6, <1>15, <1>16, <1>17, <1>18, <1>19, <1>20 DEF SrLayer
<1>21. ASSUME \/ Open \/ Reader \/ UNCHANGED vars
              \/ \E id \in Ids : Receive(id)
              \/ \E w \in Sweepers : SweepStarts(w) \/ SweepReads(w)
       PROVE  Holds(k)'
  <2>1. Same /\ op' = op
    BY <1>21 DEF Open, Receive, Reader, Look, Count, ReadId, Find, Pop, ReaderGoes, SweepStarts,
       SweepReads, array, calls, vars, Same
  <2>2. QED
    BY <1>8, <2>1
<1>22. QED
  BY <1>5, <1>15, <1>20, <1>21 DEF Next

-------------------------------------------------------------------------------
(* The numbers of the packets on a channel are smaller than the next one of *)
(* its entry, unless the array was copied during a send.                    *)

SentInv ==
    ~twins =>
      /\ \A c \in Channels : c > created => sent[c] = <<>>
      /\ \A i \in Entry : Channel(i) \notin torn =>
            \A n \in 1 .. Len(sent[Channel(i)]) :
               sent[Channel(i)][n] < connected_channels[i].seq_tx
      /\ NumbersUsedOnce

LEMMA AppendKeepsOrder ==
  ASSUME NEW s \in Seq(Nat), NEW x \in Nat,
         \A i, j \in 1 .. Len(s) : i < j => s[i] < s[j], \A i \in 1 .. Len(s) : s[i] < x
  PROVE  LET t == Append(s, x)
         IN  /\ \A i, j \in 1 .. Len(t) : i < j => t[i] < t[j]
             /\ \A i \in 1 .. Len(t) : t[i] < x + 1
OBVIOUS

LEMMA SentStep ==
  ASSUME TypeInv, TypeInv', PointerInv, UniqueInv, OpInv, SentInv, [Next]_vars
  PROVE  SentInv'
<1>1. SUFFICES ASSUME ~twins' PROVE SentInv'
  BY DEF SentInv
<1>2. ~twins
  BY <1>1, TwinsStay DEF TypeInv, RestType
<1>3. /\ \A c \in Channels : c > created => sent[c] = <<>>
      /\ \A i \in Entry : Channel(i) \notin torn =>
            \A n \in 1 .. Len(sent[Channel(i)]) :
               sent[Channel(i)][n] < connected_channels[i].seq_tx
      /\ NumbersUsedOnce
  BY <1>2 DEF SentInv
<1>4. \A i \in Entry : /\ Channel(i) \in Channels /\ connected_channels[i].seq_tx \in Nat
                       /\ Channel(i) <= created
  BY <1>2, GarbageIsNoEntry DEF UniqueInv, Channel
<1>5. ASSUME UNCHANGED <<sent, torn>>, created' \in Nat, created' >= created,
             \A k \in Entry' :
                \/ sent[connected_channels'[k].channel] = <<>>
                \/ \E i \in Entry : /\ connected_channels'[k].channel = Channel(i)
                                    /\ connected_channels'[k].seq_tx \in Nat
                                    /\ connected_channels'[k].seq_tx >= connected_channels[i].seq_tx
      PROVE  SentInv'
  <2>1. \A c \in Channels : c > created' => sent'[c] = <<>>
    BY <1>3, <1>5 DEF TypeInv, ArrayType, Channels
  <2>2. NumbersUsedOnce'
    BY <1>2, <1>3, <1>5 DEF NumbersUsedOnce
  <2>3. ASSUME NEW k \in Entry', connected_channels'[k].channel \notin torn',
               NEW n \in 1 .. Len(sent'[connected_channels'[k].channel])
        PROVE  sent'[connected_channels'[k].channel][n] < connected_channels'[k].seq_tx
    <3>1. sent[connected_channels'[k].channel] # <<>>
      BY <1>5, <2>3
    <3>2. PICK i \in Entry : /\ connected_channels'[k].channel = Channel(i)
                             /\ connected_channels'[k].seq_tx \in Nat
                             /\ connected_channels'[k].seq_tx >= connected_channels[i].seq_tx
      BY <1>5, <3>1
    <3>3. Channel(i) \notin torn /\ n \in 1 .. Len(sent[Channel(i)])
      BY <1>5, <2>3, <3>2
    <3>4. sent[Channel(i)][n] < connected_channels[i].seq_tx
      BY <1>3, <3>3
    <3>5. sent[Channel(i)][n] \in Nat
      BY <1>4, <3>3 DEF TypeInv, SentType
    <3>6. QED
      BY <1>4, <1>5, <3>2, <3>4, <3>5
  <2>4. QED
    BY <2>1, <2>2, <2>3 DEF SentInv, Channel
<1>6. ASSUME Same, UNCHANGED <<sent, torn>> PROVE SentInv'
  <2>1. Entry' = Entry /\ created' = created /\ created \in Nat
    BY <1>6 DEF Same, Entry, channel_count, TypeInv, ArrayType
  <2>2. QED
    BY <1>4, <1>5, <1>6, <2>1 DEF Same, Channel
<1>7. CASE Close
  <2>1. Entry' = {} /\ created' = created /\ created \in Nat /\ UNCHANGED <<sent, torn>>
    BY <1>7 DEF Close, Entry, channel_count, TypeInv, ArrayType
  <2>2. QED
    BY <1>5, <2>1
<1>8. ASSUME NEW id \in Ids, New(id), ReceiveNew(id) \/ AddChannel(id) PROVE SentInv'
  <2>1. /\ UNCHANGED <<sent, torn>> /\ created' = created + 1 /\ created \in Nat
        /\ created + 1 \in Channels /\ Entry' = Entry \union {channel_count + 1}
        /\ \A i \in Entry : connected_channels'[i] = connected_channels[i]
        /\ connected_channels'[channel_count + 1].channel = created + 1
    BY <1>8 DEF ReceiveNew, AddChannel, New, TypeInv, ArrayType
  <2>2. sent[created + 1] = <<>>
    BY <1>3, <2>1
  <2>3. ASSUME NEW k \in Entry'
        PROVE  \/ sent[connected_channels'[k].channel] = <<>>
               \/ \E i \in Entry : /\ connected_channels'[k].channel = Channel(i)
                                   /\ connected_channels'[k].seq_tx \in Nat
                                   /\ connected_channels'[k].seq_tx >= connected_channels[i].seq_tx
    <3>1. CASE k = channel_count + 1
      BY <2>1, <2>2, <3>1
    <3>2. CASE k \in Entry
      BY <1>4, <2>1, <3>2 DEF Channel
    <3>3. QED
      BY <2>1, <3>1, <3>2
  <2>4. QED
    BY <1>5, <2>1, <2>3
<1>9. ASSUME NEW id \in Ids, RemoveCopies(id) PROVE SentInv'
  <2>1. UNCHANGED <<sent, torn>> /\ created' = created /\ created \in Nat
    BY <1>9 DEF RemoveCopies, TypeInv, ArrayType
  <2>2. PICK f : ComesFrom(f)
    BY <1>2, <1>9, RemoveDrops
  <2>3. \A e \in Entries : e.seq_tx \in Nat
    BY GarbageIsNoEntry
  <2>4. \A k \in Entry' :
           \E i \in Entry : /\ connected_channels'[k].channel = Channel(i)
                            /\ connected_channels'[k].seq_tx \in Nat
                            /\ connected_channels'[k].seq_tx >= connected_channels[i].seq_tx
    BY <2>2, <2>3 DEF ComesFrom
  <2>5. QED
    BY <1>5, <2>1, <2>4
<1>10. ASSUME NEW id \in Ids, SendCounts(id) PROVE SentInv'
  <2> DEFINE c == op[id].channel
             x == op[id].number
  <2>1. PICK i \in Entry : /\ Id(i) = id /\ Channel(i) = c
                           /\ connected_channels[i].seq_tx = x
                           /\ op[id].stale \/ i = op[id].index
    BY <1>2, <1>10 DEF OpInv, Holds, SendCounts
  <2>2. created' = created /\ c \in Channels /\ x \in Nat
    BY <1>4, <1>10, <2>1 DEF SendCounts
  <2>3. CASE Same /\ UNCHANGED <<sent, torn>>
    BY <1>6, <2>3
  <2>4. CASE /\ op[id].stale /\ torn' = torn \union {c} /\ UNCHANGED connected_channels
             /\ sent' = [sent EXCEPT ![c] = Append(@, x)]
    <3>1. Entry' = Entry
      BY <2>4 DEF Entry, channel_count
    <3>2. \A d \in Channels : d # c => sent'[d] = sent[d]
      BY <2>4 DEF TypeInv, SentType
    <3>3. \A d \in Channels : d > created' => sent'[d] = <<>>
      <4>1. ~(c > created)
        BY <1>4, <2>1, <2>2 DEF TypeInv, ArrayType, Channels
      <4>2. QED
        BY <1>3, <2>2, <3>2, <4>1
    <3>4. NumbersUsedOnce'
      BY <1>2, <1>3, <2>4, <3>2 DEF NumbersUsedOnce
    <3>5. \A k \in Entry' : connected_channels'[k].channel \notin torn' =>
             \A n \in 1 .. Len(sent'[connected_channels'[k].channel]) :
                sent'[connected_channels'[k].channel][n] < connected_channels'[k].seq_tx
      BY <1>3, <1>4, <2>4, <3>1, <3>2 DEF Channel
    <3>6. QED
      BY <3>3, <3>4, <3>5 DEF SentInv, Channel
  <2>5. CASE /\ Counted(id) /\ i = op[id].index /\ UNCHANGED torn
             /\ sent' = [sent EXCEPT ![c] = Append(@, x)]
    <3> DEFINE s == sent[c]
               t == Append(s, x)
    <3>1. s \in Seq(Nat) /\ t \in Seq(Nat)
      BY <2>2 DEF TypeInv, SentType
    <3>2. sent'[c] = t /\ \A d \in Channels : d # c => sent'[d] = sent[d]
      BY <2>2, <2>5 DEF TypeInv, SentType
    <3>3. /\ Entry' = Entry
          /\ connected_channels'[i].seq_tx = x + 1 /\ connected_channels'[i].channel = c
          /\ \A k \in Entry : k # i => connected_channels'[k] = connected_channels[k]
      <4>1. /\ connected_channels'[i] =
                  [connected_channels[i] EXCEPT !.seq_tx = connected_channels[i].seq_tx + 1]
            /\ connected_channels[i] \in Entries
        BY <2>1, <2>5 DEF Counted
      <4>2. connected_channels'[i].seq_tx = x + 1 /\ connected_channels'[i].channel = c
        BY <2>1, <4>1 DEF Entries, Channel
      <4>3. QED
        BY <2>1, <2>5, <4>2 DEF Counted
    <3>4. c \notin torn =>
             /\ \A m, n \in 1 .. Len(s) : m < n => s[m] < s[n]
             /\ \A n \in 1 .. Len(s) : s[n] < x
      BY <1>2, <1>3, <2>1, <2>2 DEF NumbersUsedOnce
    <3>5. c \notin torn =>
             /\ \A m, n \in 1 .. Len(t) : m < n => t[m] < t[n]
             /\ \A n \in 1 .. Len(t) : t[n] < x + 1
      <4> HIDE DEF s
      <4>1. QED
        BY <2>2, <3>1, <3>4, AppendKeepsOrder
    <3> HIDE DEF s, t
    <3>6. \A d \in Channels : d > created' => sent'[d] = <<>>
      <4>1. ~(c > created)
        BY <1>4, <2>1, <2>2 DEF TypeInv, ArrayType, Channels
      <4>2. QED
        BY <1>3, <2>2, <3>2, <4>1
    <3>7. NumbersUsedOnce'
      <4>1. SUFFICES ASSUME NEW d \in Channels \ torn
                     PROVE  \A m, n \in 1 .. Len(sent'[d]) : m < n => sent'[d][m] < sent'[d][n]
        BY <2>5 DEF NumbersUsedOnce
      <4>2. CASE d = c
        BY <3>2, <3>5, <4>2
      <4>3. CASE d # c
        <5>1. sent'[d] = sent[d]
          BY <3>2, <4>3
        <5>2. \A m, n \in 1 .. Len(sent[d]) : m < n => sent[d][m] < sent[d][n]
          BY <1>2, <1>3 DEF NumbersUsedOnce
        <5>3. QED
          BY <5>1, <5>2
      <4>4. QED
        BY <4>2, <4>3
    <3>8. ASSUME NEW k \in Entry', connected_channels'[k].channel \notin torn'
          PROVE  \A n \in 1 .. Len(sent'[connected_channels'[k].channel]) :
                    sent'[connected_channels'[k].channel][n] < connected_channels'[k].seq_tx
      <4>1. CASE k = i
        BY <2>5, <3>2, <3>3, <3>5, <3>8, <4>1
      <4>2. CASE k # i
        <5>1. connected_channels'[k] = connected_channels[k] /\ k \in Entry
          BY <3>3, <3>8, <4>2
        <5>2. Channel(k) # c
          BY <1>2, <2>1, <4>2, <5>1 DEF UniqueInv
        <5>3. sent'[Channel(k)] = sent[Channel(k)]
          BY <1>4, <3>2, <5>1, <5>2
        <5>4. QED
          BY <1>3, <2>5, <3>8, <5>1, <5>3 DEF Channel
      <4>3. QED
        BY <4>1, <4>2
    <3>9. QED
      BY <3>6, <3>7, <3>8 DEF SentInv, Channel
  <2>6. QED
    <3>1. CASE op[id].stale
      BY <1>10, <2>3, <2>4, <3>1 DEF SendCounts, Same
    <3>2. CASE ~op[id].stale
      <4>1. UNCHANGED torn /\ sent' = [sent EXCEPT ![c] = Append(@, x)]
        BY <1>10, <3>2 DEF SendCounts
      <4>2. Counted(id)
        <5>1. connected_channels' = [connected_channels EXCEPT ![op[id].index].seq_tx = @ + 1]
          BY <1>10, <3>2 DEF SendCounts
        <5>2. ASSUME UNCHANGED connected_channels PROVE FALSE
          <6>1. connected_channels'[i].seq_tx = x + 1
            <7>1. /\ DOMAIN connected_channels = Entry /\ i = op[id].index
                  /\ connected_channels[i] \in Entries
              BY <1>2, <2>1, <3>2, ArrayIsFunction DEF TypeInv, UniqueInv
            <7>2. connected_channels' = [connected_channels EXCEPT ![i] =
                     [connected_channels[i] EXCEPT !.seq_tx = connected_channels[i].seq_tx + 1]]
              BY <5>1, <7>1
            <7>3. QED
              BY <2>1, <7>1, <7>2 DEF Entries
          <6>2. QED
            BY <2>1, <2>2, <5>2, <6>1
        <5>3. QED
          BY <1>10, <5>2, CountIsCounted DEF Same
      <4>3. QED
        BY <2>1, <2>5, <3>2, <4>1, <4>2
    <3>3. QED
      BY <3>1, <3>2
<1>11. ASSUME NEW id \in Ids, SetConfigId(id) PROVE SentInv'
  BY <1>1, <1>2, <1>6, <1>11, RenameIsNone DEF SetConfigId, Same
<1>12. ASSUME \/ Open \/ Reader \/ UNCHANGED vars
              \/ \E id \in Ids : Receive(id) \/ SendReads(id) \/ RemoveFinds(id)
              \/ \E w \in Sweepers : SweepStarts(w) \/ SweepReads(w)
       PROVE  SentInv'
  <2>1. Same /\ UNCHANGED <<sent, torn>>
    BY <1>12 DEF Open, Receive, SendReads, RemoveFinds, Reader, Look, Count, ReadId, Find, Pop,
       ReaderGoes, SweepStarts, SweepReads, array, calls, vars, Same
  <2>2. QED
    BY <1>6, <2>1
<1>13. ASSUME NEW id \in Ids, ReceiveNew(id) \/ AddChannel(id) PROVE SentInv'
  <2>1. created < MaxChannels /\ \E o : AddEntry(id, o)
    BY <1>13 DEF ReceiveNew, AddChannel
  <2>2. QED
    BY <1>1, <1>8, <1>13, <2>1, AddIsNew
<1>14. QED
  BY <1>7, <1>9, <1>10, <1>11, <1>12, <1>13 DEF Next, SrLayer

-------------------------------------------------------------------------------
(* The reader: once it has found a message, the message and the channel are *)
(* there until it takes it, unless a channel is removed.                    *)

ReaderInv ==
    ~twins /\ ~reader.removed =>
      /\ reader.at = "id" => reader.index \in Entry /\ fifo_recv[Channel(reader.index)] > 0
      /\ reader.at = "find" =>
            \E i \in Entry : Id(i) = reader.id /\ fifo_recv[Channel(i)] > 0
      /\ reader.at = "poll" => fifo_recv[reader.channel] > 0

LEMMA OthersKeepReader ==
  ASSUME TypeInv, TypeInv', PointerInv, UniqueInv, OpInv, ReaderInv, [Next]_vars, ~Reader
  PROVE  ReaderInv'
<1>1. SUFFICES ASSUME ~twins', ~reader'.removed PROVE ReaderInv'
  BY DEF ReaderInv
<1>2. ~twins
  BY <1>1, TwinsStay DEF TypeInv, RestType
<1>3. CASE Close
  <2>1. reader.removed \in BOOLEAN
    BY DEF TypeInv, ReaderType, Readers
  <2>2. reader'.at = "look"
    BY <1>3, <2>1, LookingType DEF Close
  <2>3. QED
    BY <2>2 DEF ReaderInv
<1>4. ASSUME NEW id \in Ids, RemoveCopies(id) PROVE FALSE
  <2>1. reader' = ReaderMoved(TRUE)
    BY <1>2, <1>4, RemoveDrops DEF Removed
  <2>2. reader'.removed
    BY <2>1, ReaderMovedType DEF TypeInv
  <2>3. QED
    BY <1>1, <2>2
<1>5. CASE ~Close
  <2>1. reader' = reader \/ reader' = ReaderMoved(FALSE)
    BY <1>4, <1>5 DEF Next, Open, SrLayer, Receive, ReceiveNew, AddChannel, SetConfigId, SendReads,
       SendCounts, RemoveFinds, SweepStarts, SweepReads, AddEntry, vars
  <2>2. /\ reader'.at = reader.at /\ reader'.index = reader.index /\ reader'.id = reader.id
        /\ reader'.channel = reader.channel /\ ~reader.removed
    BY <1>1, <2>1, ReaderMovedType DEF TypeInv
  <2>3. \A c \in Channels : fifo_recv[c] > 0 => fifo_recv'[c] > 0
    <3>1. \/ fifo_recv' = fifo_recv
          \/ \E c : fifo_recv' = [fifo_recv EXCEPT ![c] = IF @ = FifoSize THEN @ ELSE @ + 1]
          \/ \E c : fifo_recv' = [fifo_recv EXCEPT ![c] = 1]
      BY <1>4, <1>5 DEF Next, Open, SrLayer, Receive, ReceiveNew, AddChannel, SetConfigId,
         SendReads, SendCounts, RemoveFinds, SweepStarts, SweepReads, vars
    <3>2. fifo_recv \in [Channels -> Nat]
      BY DEF TypeInv, FifoType
    <3>3. QED
      BY <3>1, <3>2
  <2>4. \A i \in Entry : /\ i \in Entry' /\ connected_channels'[i].id = Id(i)
                         /\ connected_channels'[i].channel = Channel(i)
    <3>1. CASE Same
      BY <3>1 DEF Same, Entry, channel_count, Id, Channel
    <3>2. CASE \E id \in Ids : New(id)
      BY <3>2 DEF New, Id, Channel
    <3>3. ASSUME NEW id \in Ids, Counted(id), NEW i \in Entry
          PROVE  /\ i \in Entry' /\ connected_channels'[i].id = Id(i)
                 /\ connected_channels'[i].channel = Channel(i)
      <4>1. \A e \in Entries : /\ [e EXCEPT !.seq_tx = e.seq_tx + 1].id = e.id
                               /\ [e EXCEPT !.seq_tx = e.seq_tx + 1].channel = e.channel
        BY DEF Entries
      <4>2. connected_channels[i] \in Entries
        BY <1>2 DEF UniqueInv
      <4>3. \/ connected_channels'[i] = connected_channels[i]
            \/ connected_channels'[i] =
                  [connected_channels[i] EXCEPT !.seq_tx = connected_channels[i].seq_tx + 1]
        BY <3>3 DEF Counted
      <4>4. i \in Entry'
        BY <3>3 DEF Counted
      <4>5. QED
        BY <4>1, <4>2, <4>3, <4>4 DEF Id, Channel
    <3>4. QED
      BY <1>1, <1>4, <1>5, <3>1, <3>2, <3>3, Ways
  <2>5. \A i \in Entry : Channel(i) \in Channels
    BY <1>2, GarbageIsNoEntry DEF UniqueInv, Channel
  <2>6. reader.at = "poll" => reader.channel \in Channels
    BY DEF TypeInv, ReaderType
  <2>7. /\ reader.at = "id" => reader.index \in Entry /\ fifo_recv[Channel(reader.index)] > 0
        /\ reader.at = "find" =>
              \E i \in Entry : Id(i) = reader.id /\ fifo_recv[Channel(i)] > 0
        /\ reader.at = "poll" => fifo_recv[reader.channel] > 0
    BY <1>2, <2>2 DEF ReaderInv
  <2>8. reader'.at = "id" =>
           /\ reader'.index \in Entry'
           /\ fifo_recv'[connected_channels'[reader'.index].channel] > 0
    BY <2>2, <2>3, <2>4, <2>5, <2>7
  <2>9. reader'.at = "find" =>
           \E i \in Entry' : /\ connected_channels'[i].id = reader'.id
                             /\ fifo_recv'[connected_channels'[i].channel] > 0
    BY <2>2, <2>3, <2>4, <2>5, <2>7
  <2>10. reader'.at = "poll" => fifo_recv'[reader'.channel] > 0
    BY <2>2, <2>3, <2>6, <2>7
  <2>11. QED
    BY <2>8, <2>9, <2>10 DEF ReaderInv, Id, Channel
<1>6. QED
  BY <1>3, <1>5

LEMMA ReaderSteps ==
  ASSUME TypeInv, LockInv, UniqueInv, ReaderInv, Reader
  PROVE  ReaderInv'
<1>1. UNCHANGED <<connected_channels, twins>> /\ reader \in Readers
  BY DEF Reader, Look, Count, ReadId, Find, Pop, ReaderGoes, array, TypeInv, ReaderType
<1>2. Entry' = Entry
  BY <1>1 DEF Entry, channel_count
<1>3. CASE reader'.at \in {"look", "count"}
  BY <1>3 DEF ReaderInv
<1>4. CASE UNCHANGED <<reader, fifo_recv>>
  BY <1>1, <1>2, <1>4 DEF ReaderInv, Id, Channel
<1>5. CASE Look
  <2>1. PICK x, y : reader' = [reader EXCEPT !.at = "count", !.index = x, !.removed = y]
    BY <1>5 DEF Look, ReaderGoes
  <2>2. reader'.at = "count"
    BY <1>1, <2>1 DEF Readers
  <2>3. QED
    BY <1>3, <2>2
<1>6. CASE Count
  <2>1. \/ reader' = reader
        \/ \E x : reader' = [reader EXCEPT !.at = "look", !.index = x]
        \/ /\ reader' = [reader EXCEPT !.at = "id"] /\ Readable(reader.index)
           /\ fifo_recv[connected_channels[reader.index].channel] > 0
    BY <1>6 DEF Count, ReaderGoes
  <2>2. UNCHANGED fifo_recv
    BY <1>6 DEF Count
  <2>3. ASSUME NEW x, reader' = [reader EXCEPT !.at = "look", !.index = x]
        PROVE  reader'.at = "look"
    BY <1>1, <2>3 DEF Readers
  <2>4. CASE /\ reader' = [reader EXCEPT !.at = "id"] /\ Readable(reader.index)
             /\ fifo_recv[connected_channels[reader.index].channel] > 0
    <3>1. reader'.at = "id" /\ reader'.index = reader.index
      BY <1>1, <2>4 DEF Readers
    <3>2. QED
      BY <1>1, <1>2, <2>2, <2>4, <3>1 DEF ReaderInv, Channel, Readable
  <2>5. QED
    BY <1>3, <1>4, <2>1, <2>2, <2>3, <2>4
<1>7. CASE ReadId
  <2>1. CASE Readable(reader.index)
    <3>1. reader' = [reader EXCEPT !.at = "find", !.id = connected_channels[reader.index].id]
      BY <1>7, <2>1 DEF ReadId, ReaderGoes
    <3>2. /\ reader'.at = "find" /\ reader'.id = connected_channels[reader.index].id
          /\ reader'.removed = reader.removed
      BY <1>1, <3>1 DEF Readers
    <3>3. UNCHANGED fifo_recv /\ reader.at = "id"
      BY <1>7 DEF ReadId
    <3>4. QED
      BY <1>1, <1>2, <3>2, <3>3 DEF ReaderInv, Id, Channel
  <2>2. CASE ~Readable(reader.index)
    BY <1>4, <1>7, <2>2 DEF ReadId, ReaderGoes
  <2>3. QED
    BY <2>1, <2>2
<1>8. CASE Find
  <2> DEFINE x == IndexOf(reader.id)
  <2>1. reader' = [reader EXCEPT !.at = "poll", !.stale = FALSE,
                                 !.channel = connected_channels[x].channel]
    BY <1>8 DEF Find, ReaderGoes
  <2>2. /\ reader'.at = "poll" /\ reader'.channel = connected_channels[x].channel
        /\ reader'.removed = reader.removed
    <3> HIDE DEF x
    <3>1. QED
      BY <1>1, <2>1 DEF Readers
  <2>3. UNCHANGED fifo_recv /\ reader.at = "find" /\ HasChannel(reader.id)
    BY <1>8 DEF Find
  <2>4. x \in Entry /\ Id(x) = reader.id
    BY <2>3, FoundChannel DEF TypeInv, Id
  <2> HIDE DEF x
  <2>5. ASSUME ~twins, ~reader.removed PROVE fifo_recv[Channel(x)] > 0
    <3>1. PICK i \in Entry : Id(i) = reader.id /\ fifo_recv[Channel(i)] > 0
      BY <2>3, <2>5 DEF ReaderInv
    <3>2. i = x
      BY <2>4, <2>5, <3>1 DEF UniqueInv
    <3>3. QED
      BY <3>1, <3>2
  <2>6. QED
    BY <1>1, <2>2, <2>3, <2>5 DEF ReaderInv, Channel
<1>9. CASE Pop
  <2>1. reader' = Looking \/ UNCHANGED <<reader, fifo_recv>>
    BY <1>9 DEF Pop, ReaderGoes
  <2>2. QED
    BY <1>3, <1>4, <2>1, LookingType
<1>10. QED
  BY <1>5, <1>6, <1>7, <1>8, <1>9 DEF Reader

-------------------------------------------------------------------------------
(* The loops of the timeout and of the diagnosis.                           *)

SweepInv ==
    \A w \in Sweepers :
        sweep[w].count > 0 =>
            /\ sweep[w].index <= sweep[w].count
            /\ is_open # "no"
            /\ is_open = "yes" /\ ~sweep[w].removed => sweep[w].count <= channel_count

LEMMA SweepStep ==
  ASSUME TypeInv, TypeInv', PointerInv, SweepInv, [Next]_vars
  PROVE  SweepInv'
<1> DEFINE Good(w) ==
        sweep'[w].count > 0 =>
            /\ sweep'[w].index <= sweep'[w].count
            /\ is_open' # "no"
            /\ is_open' = "yes" /\ ~sweep'[w].removed => sweep'[w].count <= channel_count'
<1>1. SUFFICES ASSUME NEW w \in Sweepers PROVE Good(w)
  BY DEF SweepInv
<1>2. /\ sweep[w] \in Sweeps /\ sweep[w].index \in Nat \ {0} /\ sweep[w].count \in Nat
      /\ channel_count \in Nat /\ channel_count' \in Nat
  BY ArrayIsFunction, NextArrayIsFunction DEF TypeInv, SweepType, Sweeps
<1>3. is_open # "no" => is_open' # "no"
  BY DEF Next, Open, Close, Receive, ReceiveNew, SrLayer, AddChannel, SetConfigId, SendReads,
     SendCounts, RemoveFinds, RemoveCopies, Reader, Look, Count, ReadId, Find, Pop, ReaderGoes,
     SweepStarts, SweepReads, AddEntry, vars
<1>4. ASSUME sweep'[w] = sweep[w], is_open' = is_open \/ Close \/ Open,
             Grows \/ is_open' # "yes"
      PROVE  Good(w)
  BY <1>2, <1>3, <1>4 DEF SweepInv, Grows, Open, Close
<1>5. CASE Close
  BY <1>4, <1>5 DEF Close
<1>6. ASSUME NEW id \in Ids, RemoveCopies(id) PROVE Good(w)
  <2>1. is_open' = is_open
    BY <1>6 DEF RemoveCopies
  <2>2. CASE UNCHANGED <<connected_channels, sweep>>
    BY <1>4, <2>1, <2>2, UnchangedGrows
  <2>3. CASE sweep' = [v \in Sweepers |->
                          [sweep[v] EXCEPT !.removed = sweep[v].index <= sweep[v].count]]
    <3> DEFINE b == sweep[w].index <= sweep[w].count
    <3>1. sweep'[w] = [sweep[w] EXCEPT !.removed = b] /\ b \in BOOLEAN
      BY <2>3
    <3>2. sweep[w].count > 0 => b
      BY DEF SweepInv
    <3> HIDE DEF b
    <3>3. /\ sweep'[w].index = sweep[w].index /\ sweep'[w].count = sweep[w].count
          /\ sweep'[w].removed = b
      BY <1>2, <3>1 DEF Sweeps
    <3>4. QED
      BY <1>3, <3>2, <3>3 DEF SweepInv
  <2>4. QED
    BY <1>6, <2>2, <2>3 DEF RemoveCopies, Removed
<1>7. ASSUME NEW v \in Sweepers, SweepStarts(v) \/ SweepReads(v) PROVE Good(w)
  <2>1. UNCHANGED <<connected_channels, is_open>> /\ channel_count' = channel_count
    BY <1>7 DEF SweepStarts, SweepReads, array, channel_count
  <2>2. CASE v # w
    <3>1. sweep'[w] = sweep[w]
      BY <1>7, <2>2 DEF SweepStarts, SweepReads, SweepTo, TypeInv, SweepType
    <3>2. QED
      BY <1>4, <2>1, <3>1, UnchangedGrows
  <2>3. CASE v = w /\ SweepStarts(w)
    <3>1. /\ sweep'[w] = [sweep[w] EXCEPT !.count = channel_count] /\ sweep[w] = Swept
          /\ is_open = "yes" /\ channel_count > 0
      BY <2>3 DEF SweepStarts, TypeInv, SweepType
    <3>2. sweep'[w].index = 1 /\ sweep'[w].count = channel_count
      BY <1>2, <3>1 DEF Swept
    <3>3. QED
      BY <1>2, <2>1, <3>1, <3>2
  <2>4. CASE v = w /\ SweepReads(w)
    <3> DEFINE n == IF w = "diagnose" THEN channel_count ELSE sweep[w].count
               i == sweep[w].index + 1
    <3>1. CASE sweep' = sweep
      BY <1>4, <2>1, <3>1, UnchangedGrows
    <3>2. CASE SweepTo(w, i, n) /\ is_open = "yes"
      <4>1. n \in Nat /\ i \in Nat \ {0}
        BY <1>2
      <4>2. ~sweep[w].removed => n <= channel_count
        BY <1>2, <2>4, <3>2 DEF SweepInv, SweepReads
      <4> HIDE DEF i, n
      <4>3. CASE i <= n
        <5>1. sweep'[w] = [sweep[w] EXCEPT !.index = i, !.count = n]
          BY <3>2, <4>3 DEF SweepTo, TypeInv, SweepType
        <5>2. /\ sweep'[w].index = i /\ sweep'[w].count = n
              /\ sweep'[w].removed = sweep[w].removed
          BY <1>2, <4>1, <5>1 DEF Sweeps
        <5>3. QED
          BY <2>1, <3>2, <4>2, <4>3, <5>2
      <4>4. CASE ~(i <= n)
        <5>1. sweep'[w] = Swept
          BY <3>2, <4>4 DEF SweepTo, TypeInv, SweepType
        <5>2. sweep'[w].count = 0
          BY <5>1 DEF Swept
        <5>3. QED
          BY <5>2
      <4>5. QED
        BY <4>3, <4>4
    <3>3. QED
      BY <2>4, <3>1, <3>2 DEF SweepReads
  <2>5. QED
    BY <1>7, <2>2, <2>3, <2>4
<1>8. CASE UNCHANGED <<sweep, is_open>> /\ ~Close
  BY <1>2, <1>4, <1>6, <1>8, ArraySteps
<1>9. CASE Open
  BY <1>4, <1>9, UnchangedGrows DEF Open, array
<1>10. QED
  BY <1>5, <1>6, <1>7, <1>8, <1>9 DEF Next, SrLayer, Receive, ReceiveNew, AddChannel,
     SetConfigId, SendReads, SendCounts, RemoveFinds, Reader, Look, Count, ReadId, Find, Pop,
     ReaderGoes, calls, vars

-------------------------------------------------------------------------------
(* Who reads outside the array does so because it has moved or become       *)
(* shorter, or because a channel had been created twice.                    *)

LEMMA WrittenIsReadable ==
  ASSUME UniqueInv, ~twins, NEW i \in Entry
  PROVE  Readable(i)
BY GarbageIsNoEntry DEF UniqueInv, Readable

LEMMA OneOutside ==
  ASSUME TypeInv, outside = {}, NEW x, outside' \subseteq outside \union {x},
         x \in Sweepers => is_open' = "closed" \/ sweep'[x].removed \/ twins',
         x = "reader" => reader'.removed \/ reader'.stale \/ twins',
         x \in Ids => twins' \/ op'[x].stale
  PROVE  ReadsInside'
BY DEF ReadsInside

LEMMA SrLayerReadsInside ==
  ASSUME TypeInv, TypeInv', UniqueInv, OpInv, outside = {}, NEW id \in Ids, SrLayer(id)
  PROVE  ReadsInside'
<1>1. id \notin Sweepers /\ id # "reader"
  BY DEF Sweepers
<1>2. CASE UNCHANGED outside
  BY <1>2 DEF ReadsInside
<1>3. ASSUME outside' = outside \union {id}, twins' \/ op'[id].stale
      PROVE  ReadsInside'
  BY <1>1, <1>3, OneOutside
<1>4. CASE SetConfigId(id) /\ outside' # outside
  <2>1. channel_count > 0 /\ ~Readable(1) /\ outside' = outside \union {id} /\ twins' = twins
    BY <1>4 DEF SetConfigId
  <2>2. 1 \in Entry
    BY <2>1, ArrayIsFunction DEF TypeInv
  <2>3. twins
    BY <2>1, <2>2, WrittenIsReadable
  <2>4. QED
    BY <1>3, <2>1, <2>3
<1>5. CASE SendCounts(id) /\ outside' # outside
  BY <1>3, <1>5 DEF SendCounts
<1>6. CASE RemoveCopies(id) /\ outside' # outside
  <2>1. outside' = outside \union {id} /\ twins' = twins
    BY <1>6 DEF RemoveCopies
  <2>2. twins
    BY <1>6, RemoveDrops
  <2>3. QED
    BY <1>3, <2>1, <2>2
<1>7. CASE AddChannel(id) \/ SendReads(id) \/ RemoveFinds(id)
  BY <1>2, <1>7 DEF AddChannel, SendReads, RemoveFinds
<1>8. QED
  BY <1>2, <1>4, <1>5, <1>6, <1>7 DEF SrLayer

LEMMA ReaderReadsInside ==
  ASSUME TypeInv, LockInv, UniqueInv, ReaderInv, outside = {}, Reader
  PROVE  ReadsInside'
<1>1. "reader" \notin Sweepers /\ "reader" \notin Ids
  BY DEF Sweepers
<1>2. CASE UNCHANGED outside
  BY <1>2 DEF ReadsInside
<1>3. ASSUME outside' = outside \union {"reader"},
             reader'.removed \/ reader'.stale \/ twins'
      PROVE  ReadsInside'
  BY <1>1, <1>3, OneOutside
<1>4. twins' = twins
  BY DEF Reader, Look, Count, ReadId, Find, Pop, ReaderGoes
<1>5. CASE Count /\ outside' # outside
  <2>1. /\ reader' = reader /\ outside' = outside \union {"reader"} /\ reader.at = "count"
        /\ ~Readable(reader.index)
        /\ ~(reader.index > channel_count /\ channel_count > 0)
    BY <1>5 DEF Count, ReaderGoes
  <2>2. reader.index \in Nat \ {0} /\ channel_count \in Nat /\ Entry = 1 .. channel_count
    BY ArrayIsFunction DEF LockInv, ReaderShape, TypeInv
  <2>3. ~reader.removed => reader.index \in Entry
    BY <2>1, <2>2 DEF LockInv, IndexInv
  <2>4. reader.removed \/ twins
    BY <2>1, <2>3, WrittenIsReadable
  <2>5. QED
    BY <1>3, <1>4, <2>1, <2>4
<1>6. CASE ReadId /\ outside' # outside
  <2>1. /\ reader' = reader /\ outside' = outside \union {"reader"} /\ reader.at = "id"
        /\ ~Readable(reader.index)
    BY <1>6 DEF ReadId, ReaderGoes
  <2>2. reader.removed \/ twins
    BY <2>1, WrittenIsReadable DEF ReaderInv
  <2>3. QED
    BY <1>3, <1>4, <2>1, <2>2
<1>7. CASE Pop /\ outside' # outside
  BY <1>3, <1>7 DEF Pop, ReaderGoes
<1>8. CASE Look \/ Find
  BY <1>2, <1>8 DEF Look, Find
<1>9. QED
  BY <1>2, <1>5, <1>6, <1>7, <1>8 DEF Reader

LEMMA SweepReadsInside ==
  ASSUME TypeInv, UniqueInv, SweepInv, outside = {}, NEW w \in Sweepers, SweepReads(w)
  PROVE  ReadsInside'
<1>1. w \notin Ids /\ w # "reader" /\ UNCHANGED <<is_open, twins>>
  BY DEF Sweepers, SweepReads
<1>2. CASE UNCHANGED outside
  BY <1>2 DEF ReadsInside
<1>3. CASE outside' # outside
  <2>1. /\ outside' = outside \union {w} /\ sweep' = sweep /\ sweep[w].count > 0
        /\ ~(is_open = "yes" /\ Readable(sweep[w].index))
    BY <1>3 DEF SweepReads
  <2>2. /\ sweep[w].index \in Nat \ {0} /\ sweep[w].count \in Nat
        /\ channel_count \in Nat /\ Entry = 1 .. channel_count
    BY ArrayIsFunction DEF TypeInv, SweepType, Sweeps
  <2>3. is_open # "closed" /\ ~sweep[w].removed => is_open = "yes" /\ sweep[w].index \in Entry
    BY <2>1, <2>2 DEF SweepInv, TypeInv, RestType
  <2>4. is_open = "closed" \/ sweep[w].removed \/ twins
    BY <2>1, <2>3, WrittenIsReadable
  <2>5. QED
    BY <1>1, <2>1, <2>4, OneOutside
<1>4. QED
  BY <1>2, <1>3

LEMMA InsideStep ==
  ASSUME TypeInv, TypeInv', LockInv, UniqueInv, OpInv, ReaderInv, SweepInv, ReadsInside,
         [Next]_vars
  PROVE  ReadsInside'
<1>1. CASE UNCHANGED vars
  BY <1>1 DEF vars, calls, ReadsInside
<1>2. CASE Next
  <2>1. outside = {}
    BY <1>2 DEF Next
  <2>2. CASE UNCHANGED outside
    BY <2>1, <2>2 DEF ReadsInside
  <2>3. QED
    BY <1>2, <2>1, <2>2, SrLayerReadsInside, ReaderReadsInside, SweepReadsInside
       DEF Next, Open, Close, Receive, ReceiveNew, SweepStarts
<1>3. QED
  BY <1>1, <1>2

-------------------------------------------------------------------------------
(* The inductive invariant and what follows from it.                        *)

MuxInv ==
    /\ TypeInv /\ PointerInv /\ LockInv /\ UniqueInv /\ OpInv /\ SentInv
    /\ ReaderInv /\ SweepInv /\ ReadsInside

LEMMA MuxInit ==
  ASSUME Init
  PROVE  MuxInv
<1>1. /\ connected_channels = <<>> /\ channel_count = 0 /\ Entry = {} /\ created = 0
      /\ reader = Looking /\ outside = {} /\ leaked = FALSE /\ is_open = "no"
      /\ twins = FALSE
  BY EmptySeq DEF Init, channel_count, Entry
<1>2. /\ \A id \in Ids : op[id] \in Ops /\ op[id].at \in {"new", "idle"}
      /\ op \in [Ids -> Ops]
  <2>1. /\ Idle \in Ops /\ [Idle EXCEPT !.at = "new"] \in Ops
        /\ Idle.at = "idle" /\ [Idle EXCEPT !.at = "new"].at = "new"
    BY OpFields
  <2>2. op = [id \in Ids |-> IF id \in Dialled THEN [Idle EXCEPT !.at = "new"] ELSE Idle]
    BY DEF Init
  <2>3. QED
    BY <2>1, <2>2
<1>3. /\ \A c \in Channels : sent[c] = <<>> /\ Len(sent[c]) = 0
      /\ sent \in [Channels -> Seq(Nat)] /\ torn = {}
  BY EmptySeq DEF Init
<1>4. sweep \in [Sweepers -> Sweeps] /\ \A w \in Sweepers : sweep[w].count = 0
  <2>1. Swept \in Sweeps /\ Swept.count = 0
    BY SweepFields
  <2>2. QED
    BY <2>1 DEF Init
<1>5. TypeInv
  <2>1. ArrayType
    BY <1>1, EmptySeq DEF ArrayType
  <2>2. FifoType
    BY DEF Init, FifoType
  <2>3. ReaderType
    BY <1>1, LookingType DEF ReaderType
  <2>4. OpType /\ SentType /\ SweepType /\ RestType
    BY <1>1, <1>2, <1>3, <1>4 DEF OpType, SentType, SweepType, RestType
  <2>5. QED
    BY <2>1, <2>2, <2>3, <2>4 DEF TypeInv
<1>6. PointerInv /\ OpInv
  BY <1>2 DEF PointerInv, OpInv, Holds
<1>7. LockInv
  <2>1. ArrayInv
    BY <1>1, EmptySeq DEF ArrayInv
  <2>2. ReaderShape
    BY <1>1 DEF Looking, ReaderShape
  <2>3. IndexInv
    BY <1>1, LookingType DEF IndexInv
  <2>4. QED
    BY <2>1, <2>2, <2>3 DEF LockInv
<1>8. UniqueInv /\ ReaderInv /\ SweepInv
  BY <1>1, <1>4, LookingType DEF UniqueInv, ReaderInv, SweepInv
<1>9. SentInv
  BY <1>1, <1>3 DEF SentInv, NumbersUsedOnce
<1>10. ReadsInside
  BY <1>1 DEF ReadsInside
<1>11. QED
  BY <1>5, <1>6, <1>7, <1>8, <1>9, <1>10 DEF MuxInv

LEMMA MuxStep ==
  ASSUME MuxInv, [Next]_vars
  PROVE  MuxInv'
<1>1. /\ TypeInv /\ PointerInv /\ LockInv /\ UniqueInv /\ OpInv /\ SentInv
      /\ ReaderInv /\ SweepInv /\ ReadsInside
  BY DEF MuxInv
<1>2. TypeInv' /\ PointerInv' /\ LockInv'
  BY <1>1, TypeStep, PointerStep, LockStep
<1>3. UniqueInv' /\ OpInv' /\ SentInv'
  BY <1>1, <1>2, UniqueStep, OpStep, SentStep
<1>4. ReaderInv'
  BY <1>1, <1>2, OthersKeepReader, ReaderSteps
<1>5. SweepInv' /\ ReadsInside'
  BY <1>1, <1>2, SweepStep, InsideStep
<1>6. QED
  BY <1>2, <1>3, <1>4, <1>5 DEF MuxInv

\* In every reachable state the multiplexer's invariant holds.
THEOREM MuxIsKept == Spec => []MuxInv
<1>1. Init => MuxInv
  BY MuxInit
<1>2. MuxInv /\ [Next]_vars => MuxInv'
  BY MuxStep
<1>3. QED
  BY <1>1, <1>2, PTL DEF Spec

\* Every variable keeps its type.
THEOREM TypeCorrect == Spec => []TypeOK
<1>1. MuxInv => TypeOK
  BY DEF MuxInv, TypeInv, ArrayType, FifoType, ReaderType, OpType, SentType, SweepType,
     RestType, Readers, Ops, Sweeps, TypeOK
<1>2. QED
  BY <1>1, MuxIsKept, PTL

\* No thread reads outside the array of the channels, unless that has been made
\* shorter or freed since the thread took its bound or its pointer, or a peer has
\* got two channels.
THEOREM ReadsStayInside == Spec => []ReadsInside
<1>1. MuxInv => ReadsInside
  BY DEF MuxInv
<1>2. QED
  BY <1>1, MuxIsKept, PTL

\* The reader waits for a message of one peer only when a channel was removed
\* between its look at the fifo and its pop, or a peer has got two channels.
THEOREM WaitsAfterRemoval == Spec => []WaitsOnlyAfterRemoval
<1>1. MuxInv => WaitsOnlyAfterRemoval
  <2> SUFFICES ASSUME MuxInv, ReaderWaits, ~twins, ~reader.removed
               PROVE  FALSE
    BY DEF WaitsOnlyAfterRemoval
  <2>1. /\ reader.at = "find" => \E i \in Entry : Id(i) = reader.id
        /\ reader.at = "poll" => fifo_recv[reader.channel] > 0 /\ reader.channel \in Channels
    BY DEF MuxInv, ReaderInv, TypeInv, ReaderType
  <2>2. fifo_recv \in [Channels -> Nat]
    BY DEF MuxInv, TypeInv, FifoType
  <2>3. reader.at # "find"
    BY <2>1 DEF ReaderWaits, HasChannel, Id
  <2>4. QED
    BY <2>1, <2>2, <2>3 DEF ReaderWaits
<1>2. QED
  BY <1>1, MuxIsKept, PTL

\* On one channel no number is used again, unless the array moved during a send or
\* a peer has got two channels.
THEOREM NumbersAreUsedOnce == Spec => []NumbersUsedOnce
<1>1. MuxInv => NumbersUsedOnce
  BY DEF MuxInv, SentInv, NumbersUsedOnce
<1>2. QED
  BY <1>1, MuxIsKept, PTL

\* No step takes away the channel of a peer, but the removal of its own channel and
\* the close of the multiplexer.
THEOREM OthersAreKept == Spec => OthersKeepTheirs
<1> DEFINE Keeps == ~twins' /\ is_open' # "closed" => \A i \in Entry :
               op[connected_channels[i].id].at # "removing" =>
                   \E j \in DOMAIN connected_channels' :
                       connected_channels'[j].channel = connected_channels[i].channel
<1>1. MuxInv /\ MuxInv' /\ [Next]_vars => Keeps
  <2> SUFFICES ASSUME MuxInv, MuxInv', [Next]_vars, ~twins', is_open' # "closed",
                      NEW i \in Entry, op[Id(i)].at # "removing"
               PROVE  \E j \in DOMAIN connected_channels' :
                          connected_channels'[j].channel = Channel(i)
    BY DEF Id, Channel
  <2>1. TypeInv /\ TypeInv' /\ PointerInv /\ UniqueInv /\ OpInv
    BY DEF MuxInv
  <2>2. ~twins
    BY <2>1, TwinsStay DEF TypeInv, RestType
  <2>3. DOMAIN connected_channels' = Entry'
    BY <2>1, NextArrayIsFunction DEF TypeInv
  <2>4. CASE Same
    BY <2>3, <2>4 DEF Same, Entry, channel_count, Channel
  <2>5. ASSUME NEW id \in Ids, New(id)
        PROVE  i \in Entry' /\ connected_channels'[i].channel = Channel(i)
    BY <2>5 DEF New, Channel
  <2>6. ASSUME NEW id \in Ids, Counted(id)
        PROVE  i \in Entry' /\ connected_channels'[i].channel = Channel(i)
    <3>1. \A e \in Entries : [e EXCEPT !.seq_tx = e.seq_tx + 1].channel = e.channel
      BY DEF Entries
    <3>2. connected_channels[i] \in Entries
      BY <2>1, <2>2 DEF UniqueInv
    <3>3. \/ connected_channels'[i] = connected_channels[i]
          \/ connected_channels'[i] =
                [connected_channels[i] EXCEPT !.seq_tx = connected_channels[i].seq_tx + 1]
      BY <2>6 DEF Counted
    <3>4. i \in Entry'
      BY <2>6 DEF Counted
    <3>5. QED
      BY <3>1, <3>2, <3>3, <3>4 DEF Channel
  <2>7. ASSUME NEW id \in Ids, RemoveCopies(id)
        PROVE  \E j \in Entry' : connected_channels'[j].channel = Channel(i)
    <3>1. Id(i) # id
      BY <2>7 DEF RemoveCopies
    <3>2. PICK j \in Entry' : connected_channels'[j] = connected_channels[i]
      BY <2>1, <2>2, <2>7, <3>1, RemoveDrops
    <3>3. QED
      BY <3>2 DEF Channel
  <2>8. ~Close
    BY DEF Close
  <2>9. QED
    BY <2>1, <2>3, <2>4, <2>5, <2>6, <2>7, <2>8, Ways
<1>2. QED
  BY <1>1, MuxIsKept, PTL DEF Spec, OthersKeepTheirs
=============================================================================
