------------------------ MODULE RedundancyChannelProofs ------------------------
(***************************************************************************)
(* Proofs about RedundancyChannel for every number of packets, every set   *)
(* of transports and of chunks, and every size of the defer queue.         *)
(***************************************************************************)
EXTENDS RedundancyChannel, FiniteSetTheorems, NaturalsInduction, WellFoundedInduction, TLAPS

USE DeferQueueAssumption, RedundancyAssumption

-------------------------------------------------------------------------------
(* The defer queue.                                                         *)

(* No position that is queued holds NULL.                                   *)
Filled(elements, count) == \A i \in Positions : i < count => elements[i] # NULL

LEMMA AddType ==
  ASSUME NEW q \in Queues, Filled(q.elements, q.count), NEW c \in Chunks
  PROVE  /\ Add(q, c) \in Queues
         /\ Filled(Add(q, c).elements, Add(q, c).count)
         /\ \A i \in Positions : q.elements[i] # NULL => Add(q, c).elements[i] # NULL
<1>1. CASE IsFull(q)
  BY <1>1 DEF Add
<1>2. CASE ~IsFull(q)
  <2>1. q.count \in Positions /\ q.count + 1 \in 0 .. MaxCount
    BY <1>2 DEF IsFull, Queues, Positions
  <2>2. Add(q, c) = [elements |-> [q.elements EXCEPT ![q.count] = c], count |-> q.count + 1]
    BY <1>2 DEF Add
  <2>3. [q.elements EXCEPT ![q.count] = c] \in [Positions -> Chunks \union {NULL}]
    BY <2>1 DEF Queues
  <2>4. \A i \in Positions : i < q.count + 1 => i = q.count \/ i < q.count
    BY DEF Queues, Positions
  <2>5. QED
    BY <2>1, <2>2, <2>3, <2>4 DEF Queues, Filled
<1>3. QED
  BY <1>1, <1>2

LEMMA RemoveType ==
  ASSUME NEW q \in Queues, q.count > 0, Filled(q.elements, q.count), NEW r \in RemoveFirst(q)
  PROVE  /\ r \in Queues /\ r.count = q.count - 1
         /\ \A i \in Positions : q.elements[i] # NULL => r.elements[i] # NULL
<1>1. q.count - 1 \in Positions /\ q.count - 1 \in 0 .. MaxCount /\ 0 \in Positions
  BY DEF Queues, Positions
<1>2. /\ Shifted(q) \in [Positions -> Chunks \union {NULL}]
      /\ \A i \in Positions : q.elements[i] # NULL => Shifted(q)[i] # NULL
  <2> SUFFICES ASSUME NEW i \in Positions
               PROVE  /\ Shifted(q)[i] \in Chunks \union {NULL}
                      /\ q.elements[i] # NULL => Shifted(q)[i] # NULL
    BY DEF Shifted
  <2>1. Shifted(q)[i] = q.elements[IF i < q.count - 1 THEN i + 1 ELSE i]
    BY DEF Shifted
  <2>2. i < q.count - 1 => i + 1 \in Positions /\ i + 1 < q.count
    BY DEF Queues, Positions
  <2>3. QED
    BY <2>1, <2>2 DEF Queues, Filled
<1>3. /\ Swapped(q) \in [Positions -> Chunks \union {NULL}]
      /\ \A i \in Positions : q.elements[i] # NULL => Swapped(q)[i] # NULL
  BY <1>1 DEF Swapped, Queues, Filled
<1>4. \/ r = [elements |-> Shifted(q), count |-> q.count - 1]
      \/ r = [elements |-> Swapped(q), count |-> q.count - 1]
  BY DEF RemoveFirst
<1>5. QED
  BY <1>1, <1>2, <1>3, <1>4 DEF Queues

LEMMA ContainsFirst ==
  ASSUME NEW q \in Queues, NEW h, NEW n, Contains(q, h, n)
  PROVE  /\ Get(q, h, n) = q.elements[0]
         /\ q.elements[0] \in Chunks
         /\ h[q.elements[0]].number = n
<1>1. 0 \in Positions
  BY DEF Positions
<1>2. FindIndex(q, h, n) = 0 /\ q.elements[0] # NULL /\ h[q.elements[0]].number = n
  BY DEF Contains, FindIndex
<1>3. QED
  BY <1>1, <1>2 DEF Get, Queues

(* The smallest number is at one of the positions.                          *)
LEMMA SmallestNumber ==
  ASSUME NEW S \in SUBSET Nat, S # {}
  PROVE  \E n \in S : \A m \in S : n <= m
<1> DEFINE R == {p \in Nat \X Nat : p[1] < p[2]}
<1>1. IsWellFoundedOn(R, Nat)
  BY NatLessThanWellFounded, Zenon DEF OpToRel
<1>2. \A i, j \in Nat : i < j => <<i, j>> \in R
  OBVIOUS
<1> HIDE DEF R
<1>3. PICK n \in S : \A m \in S : ~(<<m, n>> \in R)
  BY <1>1, WFMin
<1>4. \A m \in S : m \in Nat /\ n \in Nat /\ ~(m < n)
  BY <1>2, <1>3
<1>5. QED
  BY <1>4

LEMMA SmallestIsPosition ==
  ASSUME NEW q \in Queues, NEW h \in [Chunks -> Contents], ~SmallestReadsNull(q)
  PROVE  Smallest(q, h) \in Positions
<1> DEFINE n(i) == h[q.elements[i]].number
           S == {n(i) : i \in Positions}
<1>1. 0 \in Positions /\ Positions \subseteq Nat
  BY DEF Positions
<1>2. \A i \in Positions : q.elements[i] \in Chunks /\ n(i) \in Nat
  BY DEF SmallestReadsNull, Queues, Contents
<1>3. PICK k \in S : \A m \in S : k <= m
  <2>1. S \in SUBSET Nat /\ S # {}
    BY <1>1, <1>2
  <2>2. QED
    BY <2>1, SmallestNumber
<1> DEFINE T == {i \in Positions : n(i) = k}
<1>4. PICK i \in T : \A j \in T : i <= j
  <2>1. T \in SUBSET Nat /\ T # {}
    BY <1>1, <1>3
  <2>2. QED
    BY <2>1, SmallestNumber
<1>5. \A j \in Positions : n(i) < n(j) \/ (n(i) = n(j) /\ i <= j)
  <2> SUFFICES ASSUME NEW j \in Positions PROVE n(i) < n(j) \/ (n(i) = n(j) /\ i <= j)
    OBVIOUS
  <2>1. n(i) = k /\ k <= n(j) /\ n(j) \in Nat /\ n(i) \in Nat
    BY <1>2, <1>3, <1>4
  <2>2. n(j) = k => i <= j
    BY <1>4
  <2> HIDE DEF n
  <2>3. QED
    BY <2>1, <2>2
<1>6. i \in Positions
  BY <1>4
<1>7. QED
  BY <1>5, <1>6 DEF Smallest

-------------------------------------------------------------------------------
(* Types. The timeout thread's copy counts only positions that are filled.  *)

QueueInv ==
    /\ Filled(defer_q.elements, defer_q.count)
    /\ Filled(defer_q.elements, timer.count)

ThreadInv ==
    /\ \A t \in Reliable : parsed[t] # NULL => came[t] < Packets
    /\ holder # NULL => parsed[holder] # NULL

TypeInv == TypeOK /\ QueueInv /\ ThreadInv

LEMMA BlankType == Blank \in Contents
BY DEF Blank, Contents

LEMMA NumberType ==
  ASSUME NEW h \in [Chunks -> Contents], NEW c \in Chunks, NEW n \in 0 .. Packets \union {Junk}
  PROVE  [h EXCEPT ![c].number = n] \in [Chunks -> Contents]
BY DEF Contents

LEMMA ReachableType ==
  ASSUME NEW h \in [Chunks -> Contents], NEW q
  PROVE  Reachable(h, q) \in [Chunks -> Contents]
BY BlankType DEF Reachable

LEMMA ReturnType ==
  ASSUME TypeInv, NEW t \in Transports, parsed[t] # NULL, Return(t), holder' = NULL
  PROVE  /\ came' \in [Transports -> 0 .. Packets]
         /\ heap' \in [Chunks -> Contents]
         /\ parsed' \in [Transports -> Chunks \union {NULL}]
         /\ ThreadInv'
<1>1. /\ parsed' = [parsed EXCEPT ![t] = NULL]
      /\ came' = [came EXCEPT ![t] = IF t \in Reliable THEN @ + 1 ELSE 0]
  BY DEF Return
<1>2. heap' \in [Chunks -> Contents]
  <2>1. PICK n \in {heap[parsed[t]].number, Junk} :
            heap' = Reachable([heap EXCEPT ![parsed[t]].number = n], defer_q')
    BY DEF Return, Free
  <2>2. parsed[t] \in Chunks
    BY DEF TypeInv, TypeOK
  <2>3. n \in 0 .. Packets \union {Junk}
    BY <2>1, <2>2 DEF TypeInv, TypeOK, Contents
  <2>4. [heap EXCEPT ![parsed[t]].number = n] \in [Chunks -> Contents]
    BY <2>2, <2>3, NumberType DEF TypeInv, TypeOK
  <2>5. QED
    BY <2>1, <2>4, ReachableType
<1>3. t \in Reliable => came[t] + 1 \in 0 .. Packets
  BY DEF TypeInv, TypeOK, ThreadInv
<1>4. QED
  BY <1>1, <1>2, <1>3 DEF TypeInv, TypeOK, ThreadInv

LEMMA PushType ==
  ASSUME TypeInv, NEW c \in Chunks, Push(c)
  PROVE  handed' \in Seq(Delivered) /\ dropped' \in BOOLEAN
<1> DEFINE d == [packet |-> heap[c].packet, intact |-> heap[c].intact]
<1>1. d \in Delivered
  BY DEF TypeInv, TypeOK, Contents, Delivered
<1>2. \/ handed' = Append(handed, d) /\ UNCHANGED dropped
      \/ UNCHANGED handed /\ dropped' = TRUE
  BY DEF Push
<1>3. handed \in Seq(Delivered) /\ dropped \in BOOLEAN
  BY DEF TypeInv, TypeOK
<1> HIDE DEF d
<1>4. handed' \in Seq(Delivered)
  BY <1>1, <1>2, <1>3
<1>5. QED
  BY <1>2, <1>3, <1>4

LEMMA RoundType ==
  ASSUME TypeInv, NEW q \in Queues, q.count > 0, Filled(q.elements, q.count),
         NEW n, Contains(q, heap, n), Round(q, n)
  PROVE  /\ handed' \in Seq(Delivered) /\ dropped' \in BOOLEAN /\ crashed' \in BOOLEAN
         /\ heap' \in [Chunks -> Contents] /\ parsed' = parsed
<1>1. FreedByRemove(q) \in Chunks
  <2>1. q.count - 1 \in Positions
    BY DEF Queues, Positions
  <2>2. QED
    BY <2>1 DEF FreedByRemove, Filled, Queues
<1>2. crashed' \in BOOLEAN
  <2>1. heap[FreedByRemove(q)].intact \in BOOLEAN
    BY <1>1 DEF TypeInv, TypeOK, Contents
  <2>2. crashed' \in {FALSE, ~heap[FreedByRemove(q)].intact}
    BY DEF Round
  <2>3. crashed' = FALSE \/ crashed' = ~heap[FreedByRemove(q)].intact
    BY <2>2
  <2>4. QED
    BY <2>1, <2>3
<1>3. [heap EXCEPT ![FreedByRemove(q)].intact = FALSE] \in [Chunks -> Contents]
  <2>1. heap \in [Chunks -> Contents]
    BY DEF TypeInv, TypeOK
  <2>2. \A x \in Contents : [x EXCEPT !.intact = FALSE] \in Contents
    BY DEF Contents
  <2>3. QED
    BY <1>1, <2>1, <2>2
<1>4. heap' \in [Chunks -> Contents] /\ parsed' = parsed
  BY <1>3, ReachableType DEF Round
<1>5. Push(q.elements[0]) /\ q.elements[0] \in Chunks
  BY ContainsFirst DEF Round
<1>6. QED
  BY <1>2, <1>4, <1>5, PushType

(* Whatever the transports bring and however often the timeout fires, every *)
(* variable of the channel keeps its type, and no position of the defer     *)
(* queue that counts as queued is without a packet (deferqueue_add,         *)
(* deferqueue_remove).                                                      *)
THEOREM TypeCorrect == Spec => []TypeInv
<1>1. ASSUME Init PROVE TypeInv
  <2>1. defer_q \in Queues /\ defer_q.count = 0 /\ timer = NoCopy /\ timer.count = 0
    BY <1>1 DEF Init, EmptyQueue, Queues, NoCopy
  <2>2. QueueInv
    BY <2>1 DEF QueueInv, Filled, Positions
  <2>3. handed \in Seq(Delivered) /\ parsed \in [Transports -> Chunks \union {NULL}]
    BY <1>1 DEF Init
  <2>4. ThreadInv
    BY <1>1 DEF Init, ThreadInv
  <2>5. heap \in [Chunks -> Contents] /\ came \in [Transports -> 0 .. Packets]
    BY <1>1, BlankType DEF Init
  <2>6. timer \in [at : {"looking", "late", "delivering"}, seq_rx : Nat, count : 0 .. MaxCount]
    BY <2>1 DEF NoCopy
  <2>7. seq_rx = 0 /\ ticks = 0 /\ holder = NULL
    BY <1>1 DEF Init
  <2>8. channel_lock \in BOOLEAN /\ dropped \in BOOLEAN /\ crashed \in BOOLEAN
    BY <1>1, Zenon DEF Init
  <2>9. QED
    BY <2>1, <2>2, <2>3, <2>4, <2>5, <2>6, <2>7, <2>8 DEF TypeInv, TypeOK
<1>2. TypeInv /\ [Next]_vars => TypeInv'
  <2> SUFFICES ASSUME TypeInv, [Next]_vars PROVE TypeInv'
    OBVIOUS
  <2> USE DEF TypeInv
  <2>1. ASSUME NEW t \in Transports, NEW n \in Comes(t), NEW c \in Chunks, Parse(t, n, c)
        PROVE  TypeInv'
    <3>1. n \in 0 .. Packets
      BY <2>1 DEF Comes, TypeOK
    <3>2. heap' \in [Chunks -> Contents]
      BY <2>1, <3>1 DEF Parse, TypeOK, Contents
    <3>3. t \in Reliable => came[t] < Packets
      BY <2>1 DEF Comes, TypeOK
    <3>4. QED
      BY <2>1, <3>2, <3>3 DEF Parse, TypeOK, QueueInv, ThreadInv, channel
  <2>2. ASSUME NEW t \in Transports, Discard(t) PROVE TypeInv'
    BY <2>2, ReturnType DEF Discard, Entered, channel, TypeOK, QueueInv
  <2>3. ASSUME NEW t \in Transports, Accept(t) PROVE TypeInv'
    <3>1. parsed[t] \in Chunks
      BY <2>3 DEF Accept, Entered, TypeOK
    <3>2. handed' \in Seq(Delivered) /\ dropped' \in BOOLEAN
      BY <2>3, <3>1, PushType DEF Accept
    <3>3. ThreadInv'
      BY <2>3 DEF Accept, Entered, ThreadInv
    <3>4. seq_rx' \in Nat
      BY <2>3 DEF Accept, TypeOK
    <3>5. QED
      BY <2>3, <3>2, <3>3, <3>4 DEF Accept, TypeOK, QueueInv
  <2>4. ASSUME NEW t \in Transports, Defer(t) PROVE TypeInv'
    <3>1. parsed[t] \in Chunks /\ parsed[t] # NULL /\ Return(t) /\ holder' = NULL
      BY <2>4 DEF Defer, Entered, TypeOK
    <3>2. defer_q' \in {defer_q, Add(defer_q, parsed[t])}
      BY <2>4 DEF Defer
    <3>3. /\ defer_q' \in Queues /\ Filled(defer_q'.elements, defer_q'.count)
          /\ \A i \in Positions : defer_q.elements[i] # NULL => defer_q'.elements[i] # NULL
      BY <3>1, <3>2, AddType DEF TypeOK, QueueInv
    <3>4. QueueInv'
      BY <2>4, <3>3 DEF Defer, QueueInv, Filled
    <3>5. QED
      BY <2>4, <3>1, <3>3, <3>4, ReturnType DEF Defer, TypeOK
  <2>5. ASSUME NEW t \in Transports, DeliverDeferred(t) PROVE TypeInv'
    <3>1. /\ defer_q \in Queues /\ defer_q.count > 0 /\ Filled(defer_q.elements, defer_q.count)
          /\ defer_q' \in RemoveFirst(defer_q) /\ Contains(defer_q, heap, seq_rx)
          /\ Round(defer_q, seq_rx)
      BY <2>5 DEF DeliverDeferred, TypeOK, QueueInv
    <3>2. /\ handed' \in Seq(Delivered) /\ dropped' \in BOOLEAN /\ crashed' \in BOOLEAN
          /\ heap' \in [Chunks -> Contents] /\ parsed' = parsed
      BY <3>1, RoundType
    <3>3. /\ defer_q' \in Queues /\ defer_q'.count = defer_q.count - 1
          /\ \A i \in Positions : defer_q.elements[i] # NULL => defer_q'.elements[i] # NULL
      BY <3>1, RemoveType
    <3>4. QueueInv'
      BY <2>5, <3>3 DEF DeliverDeferred, QueueInv, Filled, Queues, TypeOK, Positions
    <3>5. ThreadInv'
      BY <2>5, <3>2 DEF DeliverDeferred, ThreadInv
    <3>6. seq_rx' = seq_rx + 1 /\ UNCHANGED <<came, holder, timer, ticks>>
      BY <2>5 DEF DeliverDeferred
    <3>7. channel_lock' \in BOOLEAN
      BY <2>5, Zenon DEF DeliverDeferred
    <3>8. QED
      BY <3>2, <3>3, <3>4, <3>5, <3>6, <3>7 DEF TypeOK
  <2>6. ASSUME NEW t \in Transports, Stop(t) PROVE TypeInv'
    <3>1. parsed[t] # NULL /\ Return(t) /\ holder' = NULL
      BY <2>6 DEF Stop, ThreadInv
    <3>2. channel_lock' \in BOOLEAN
      BY <2>6, Zenon DEF Stop
    <3>3. /\ came' \in [Transports -> 0 .. Packets] /\ heap' \in [Chunks -> Contents]
          /\ parsed' \in [Transports -> Chunks \union {NULL}] /\ ThreadInv'
      BY <3>1, ReturnType
    <3>4. UNCHANGED <<seq_rx, defer_q, handed, dropped, timer, ticks, crashed>>
      BY <2>6 DEF Stop
    <3>5. QED
      BY <3>1, <3>2, <3>3, <3>4 DEF TypeOK, QueueInv
  <2>7. CASE TimerCopies
    <3>1. /\ timer' \in [at : {"looking", "late", "delivering"}, seq_rx : Nat, count : 0 .. MaxCount]
          /\ timer'.count = defer_q.count
      BY <2>7 DEF TimerCopies, TypeOK, Queues
    <3>2. ticks' \in 0 .. MaxTicks
      BY <2>7 DEF TimerCopies, TypeOK
    <3>3. QED
      BY <2>7, <3>1, <3>2 DEF TimerCopies, TypeOK, QueueInv, ThreadInv, channel
  <2>8. CASE TimerFires
    <3>1. CASE crashed' = TRUE /\ UNCHANGED timer
      BY <2>8, <3>1 DEF TimerFires, TypeOK, QueueInv, ThreadInv, channel
    <3>2. CASE ~SmallestReadsNull(defer_q) /\ UNCHANGED crashed
      <4>1. defer_q.elements[Smallest(defer_q, heap)] \in Chunks
        BY <3>2, SmallestIsPosition DEF TypeOK, Queues, SmallestReadsNull
      <4>2. heap[defer_q.elements[Smallest(defer_q, heap)]].number \in Nat
        BY <4>1 DEF TypeOK, Contents
      <4>3. QED
        BY <2>8, <3>2, <4>2 DEF TimerFires, TypeOK, QueueInv, ThreadInv, channel
    <3>3. QED
      BY <2>8, <3>1, <3>2 DEF TimerFires
  <2>9. CASE TimerDelivers
    <3>1. /\ TimerQueue \in Queues /\ TimerQueue.count > 0
          /\ Filled(TimerQueue.elements, TimerQueue.count)
          /\ Contains(TimerQueue, heap, timer.seq_rx) /\ Round(TimerQueue, timer.seq_rx)
      BY <2>9 DEF TimerDelivers, TimerQueue, TypeOK, QueueInv, Queues
    <3>2. /\ handed' \in Seq(Delivered) /\ dropped' \in BOOLEAN /\ crashed' \in BOOLEAN
          /\ heap' \in [Chunks -> Contents] /\ parsed' = parsed
      BY <3>1, RoundType
    <3>3. PICK q \in RemoveFirst(TimerQueue) : defer_q' = [defer_q EXCEPT !.elements = q.elements]
      BY <2>9 DEF TimerDelivers
    <3>4. /\ q \in Queues
          /\ \A i \in Positions : defer_q.elements[i] # NULL => q.elements[i] # NULL
      BY <3>1, RemoveType DEF TimerQueue
    <3>5. /\ defer_q' \in Queues /\ defer_q'.elements = q.elements
          /\ defer_q'.count = defer_q.count
      BY <3>3, <3>4 DEF TypeOK, Queues
    <3>6. /\ timer' \in [at : {"looking", "late", "delivering"}, seq_rx : Nat, count : 0 .. MaxCount]
          /\ timer'.count = timer.count - 1
      <4>1. /\ timer.at = "delivering" /\ timer.seq_rx + 1 \in Nat
            /\ timer.count - 1 \in 0 .. MaxCount
        BY <2>9 DEF TimerDelivers, TypeOK
      <4>2. timer' = [timer EXCEPT !.seq_rx = timer.seq_rx + 1, !.count = timer.count - 1]
        BY <2>9 DEF TimerDelivers
      <4>3. timer \in [at : {"looking", "late", "delivering"}, seq_rx : Nat, count : 0 .. MaxCount]
        BY DEF TypeOK
      <4>4. QED
        BY <4>1, <4>2, <4>3
    <3>7. QueueInv'
      BY <3>4, <3>5, <3>6 DEF QueueInv, Filled, Queues, TypeOK, Positions
    <3>8. QED
      BY <2>9, <3>2, <3>5, <3>6, <3>7 DEF TimerDelivers, TypeOK, ThreadInv
  <2>10. CASE TimerStops
    BY <2>10 DEF TimerStops, NoCopy, TypeOK, QueueInv, Filled, ThreadInv, channel, Positions
  <2>11. CASE RemovesFromEmpty
    BY <2>11 DEF RemovesFromEmpty, TypeOK, QueueInv, ThreadInv, channel
  <2>12. CASE UNCHANGED vars
    BY <2>12 DEF vars, TypeOK, QueueInv, ThreadInv, channel
  <2>13. QED
    BY <2>1, <2>2, <2>3, <2>4, <2>5, <2>6, <2>7, <2>8, <2>9, <2>10, <2>11, <2>12
       DEF Next, Receiver, Timer
<1>3. QED
  BY <1>1, <1>2, PTL DEF Spec

-------------------------------------------------------------------------------
(* The numbers. A chunk has the number of its packet, or none; those that   *)
(* have been parsed have one, and nobody else has them. A packet that a     *)
(* reliable transport brings is never useless before it has been accepted,  *)
(* because no number beyond it has been.                                    *)

ChunkInv == \A c \in Chunks :
    heap[c].number = Junk \/ (heap[c].number = heap[c].packet /\ heap[c].packet < Packets)

ParsedInv == \A t \in Transports : parsed[t] # NULL =>
    /\ heap[parsed[t]].number # Junk
    /\ t \in Reliable => heap[parsed[t]].number = came[t]
    /\ \A u \in Transports \ {t} : parsed[u] # parsed[t]

NumberInv ==
    /\ seq_rx <= Packets
    /\ holder # NULL => heap[parsed[holder]].number < seq_rx

SafeInv == ChunkInv /\ ParsedInv /\ NumberInv /\ OneTransportSuffices /\ CopiesAreUnlocked

(* What a step may do to the chunks: those us have parsed stay theirs.      *)
NumbersKept(us) ==
    /\ \A c \in Chunks :
           \/ heap'[c].number = Junk
           \/ heap'[c].number = heap[c].number /\ heap'[c].packet = heap[c].packet
    /\ \A u \in us : parsed[u] # NULL =>
           parsed'[u] = parsed[u] /\ heap'[parsed[u]].number = heap[parsed[u]].number

LEMMA ReachableKeeps ==
  ASSUME NEW h, NEW q, NEW c \in Chunks
  PROVE  /\ Reachable(h, q)[c] = h[c] \/ Reachable(h, q)[c].number = Junk
         /\ \A t \in Transports : parsed'[t] = c => Reachable(h, q)[c] = h[c]
BY DEF Reachable, Blank

LEMMA ReturnKeeps ==
  ASSUME TypeInv, ParsedInv, NEW t \in Transports, parsed[t] # NULL, Return(t)
  PROVE  NumbersKept(Transports \ {t})
<1>1. PICK n \in {heap[parsed[t]].number, Junk} :
          heap' = Reachable([heap EXCEPT ![parsed[t]].number = n], defer_q')
  BY DEF Return, Free
<1>2. parsed' = [parsed EXCEPT ![t] = NULL]
  BY DEF Return
<1> DEFINE h == [heap EXCEPT ![parsed[t]].number = n]
<1>3. /\ parsed \in [Transports -> Chunks \union {NULL}] /\ heap \in [Chunks -> Contents]
      /\ parsed[t] \in Chunks
  BY DEF TypeInv, TypeOK
<1>4. \A c \in Chunks :
          /\ h[c].number = Junk \/ h[c].number = heap[c].number
          /\ h[c].packet = heap[c].packet
          /\ c # parsed[t] => h[c] = heap[c]
  BY <1>1, <1>3 DEF Contents
<1> HIDE DEF h
<1>5. heap' = Reachable(h, defer_q')
  BY <1>1 DEF h
<1>6. \A c \in Chunks :
          \/ heap'[c].number = Junk
          \/ heap'[c].number = heap[c].number /\ heap'[c].packet = heap[c].packet
  BY <1>4, <1>5, ReachableKeeps
<1>7. ASSUME NEW u \in Transports \ {t}, parsed[u] # NULL
      PROVE  parsed'[u] = parsed[u] /\ heap'[parsed[u]].number = heap[parsed[u]].number
  <2>1. parsed'[u] = parsed[u] /\ parsed[u] \in Chunks /\ parsed[u] # parsed[t]
    BY <1>2, <1>3, <1>7 DEF ParsedInv
  <2>2. heap'[parsed[u]] = h[parsed[u]]
    BY <1>5, <2>1, ReachableKeeps
  <2>3. QED
    BY <1>4, <2>1, <2>2
<1>8. QED
  BY <1>6, <1>7 DEF NumbersKept

LEMMA RoundKeeps ==
  ASSUME TypeInv, NEW q \in Queues, NEW n, Round(q, n)
  PROVE  NumbersKept(Transports)
<1> DEFINE h == [heap EXCEPT ![FreedByRemove(q)].intact = FALSE]
<1>1. /\ parsed \in [Transports -> Chunks \union {NULL}] /\ heap \in [Chunks -> Contents]
  BY DEF TypeInv, TypeOK
<1>2. \A c \in Chunks : h[c].number = heap[c].number /\ h[c].packet = heap[c].packet
  BY <1>1 DEF Contents
<1>3. parsed' = parsed /\ heap' = Reachable(h, defer_q')
  BY DEF Round
<1> HIDE DEF h
<1>4. \A c \in Chunks :
          \/ heap'[c].number = Junk
          \/ heap'[c].number = heap[c].number /\ heap'[c].packet = heap[c].packet
  BY <1>2, <1>3, ReachableKeeps
<1>5. ASSUME NEW u \in Transports, parsed[u] # NULL
      PROVE  parsed'[u] = parsed[u] /\ heap'[parsed[u]].number = heap[parsed[u]].number
  <2>1. parsed'[u] = parsed[u] /\ parsed[u] \in Chunks
    BY <1>1, <1>3, <1>5
  <2>2. heap'[parsed[u]] = h[parsed[u]]
    BY <1>3, <2>1, ReachableKeeps
  <2>3. QED
    BY <1>2, <2>1, <2>2
<1>6. QED
  BY <1>4, <1>5 DEF NumbersKept

(* A thread that returns leaves the numbers as they have to be, if the      *)
(* packet it has handled has been accepted when its transport is reliable.  *)
LEMMA ReturnSafe ==
  ASSUME TypeInv, SafeInv, NEW t \in Transports, parsed[t] # NULL, Return(t),
         t \in Reliable => heap[parsed[t]].number < seq_rx,
         holder \in {NULL, t}, holder' = NULL, ~channel_lock', seq_rx' = seq_rx
  PROVE  SafeInv'
<1>1. NumbersKept(Transports \ {t})
  BY ReturnKeeps DEF SafeInv
<1>2. /\ parsed' = [parsed EXCEPT ![t] = NULL]
      /\ came' = [came EXCEPT ![t] = IF t \in Reliable THEN @ + 1 ELSE 0]
  BY DEF Return
<1>3. /\ parsed \in [Transports -> Chunks \union {NULL}]
      /\ came \in [Transports -> 0 .. Packets] /\ seq_rx \in Nat
  BY DEF TypeInv, TypeOK
<1>4. ChunkInv'
  BY <1>1 DEF SafeInv, ChunkInv, NumbersKept
<1>5. ParsedInv'
  BY <1>1, <1>2, <1>3 DEF SafeInv, ParsedInv, NumbersKept
<1>6. OneTransportSuffices'
  <2>1. t \in Reliable => came[t] + 1 <= seq_rx
    BY <1>3 DEF SafeInv, ParsedInv
  <2>2. QED
    BY <1>2, <1>3, <2>1 DEF SafeInv, OneTransportSuffices
<1>7. QED
  BY <1>4, <1>5, <1>6 DEF SafeInv, NumberInv, CopiesAreUnlocked

LEMMA SafeStep ==
  ASSUME TypeInv, SafeInv, [Next]_vars
  PROVE  SafeInv'
<1> USE DEF SafeInv
<1>0. /\ parsed \in [Transports -> Chunks \union {NULL}] /\ heap \in [Chunks -> Contents]
      /\ came \in [Transports -> 0 .. Packets] /\ seq_rx \in Nat
  BY DEF TypeInv, TypeOK
<1>1. ASSUME NEW t \in Transports, NEW n \in Comes(t), NEW c \in Chunks, Parse(t, n, c)
      PROVE  SafeInv'
  <2>1. /\ parsed' = [parsed EXCEPT ![t] = c]
        /\ heap' = [heap EXCEPT ![c] = [number |-> n, packet |-> n, intact |-> TRUE]]
        /\ holder # t /\ \A u \in Transports : parsed[u] # c
        /\ UNCHANGED <<came, seq_rx, holder, channel_lock>>
    BY <1>1 DEF Parse, channel
  <2>2. n \in 0 .. Packets - 1 /\ (t \in Reliable => n = came[t])
    BY <1>0 DEF Comes
  <2>3. heap'[c].number = n /\ heap'[c].packet = n
    BY <1>0, <2>1
  <2>4. ChunkInv'
    BY <1>0, <2>1, <2>2, <2>3 DEF ChunkInv
  <2>5. ParsedInv'
    BY <1>0, <2>1, <2>2, <2>3 DEF ParsedInv
  <2>6. NumberInv'
    <3>1. holder # NULL => holder \in Transports /\ parsed[holder] # c
      BY <2>1 DEF TypeInv, TypeOK
    <3>2. QED
      BY <1>0, <2>1, <3>1 DEF NumberInv, TypeInv, TypeOK, ThreadInv
  <2>7. QED
    BY <2>1, <2>4, <2>5, <2>6 DEF OneTransportSuffices, CopiesAreUnlocked
<1>2. ASSUME NEW t \in Transports, Discard(t) PROVE SafeInv'
  <2>1. /\ holder = NULL /\ parsed[t] # NULL /\ Return(t)
        /\ t \in Reliable => Useless(heap[parsed[t]].number)
        /\ UNCHANGED <<seq_rx, channel_lock, holder>>
    BY <1>2 DEF Discard, Entered, channel
  <2>2. t \in Reliable => heap[parsed[t]].number < seq_rx
    BY <1>0, <2>1 DEF Useless, ParsedInv, OneTransportSuffices
  <2>3. QED
    BY <2>1, <2>2, ReturnSafe DEF CopiesAreUnlocked
<1>3. ASSUME NEW t \in Transports, Accept(t) PROVE SafeInv'
  <2>1. /\ holder = NULL /\ parsed[t] # NULL /\ heap[parsed[t]].number = seq_rx
        /\ seq_rx' = seq_rx + 1 /\ holder' = t /\ UNCHANGED <<came, heap, parsed>>
    BY <1>3 DEF Accept, Entered
  <2>2. parsed[t] \in Chunks /\ seq_rx < Packets
    BY <1>0, <2>1 DEF ChunkInv, ParsedInv
  <2>3. NumberInv'
    BY <1>0, <2>1, <2>2 DEF NumberInv
  <2>4. OneTransportSuffices'
    BY <1>0, <2>1 DEF OneTransportSuffices
  <2>5. QED
    BY <2>1, <2>3, <2>4 DEF ChunkInv, ParsedInv, CopiesAreUnlocked
<1>4. ASSUME NEW t \in Transports, Defer(t) PROVE SafeInv'
  <2>1. /\ holder = NULL /\ parsed[t] # NULL /\ Return(t) /\ heap[parsed[t]].number > seq_rx
        /\ UNCHANGED <<seq_rx, channel_lock, holder>>
    BY <1>4 DEF Defer, Entered
  <2>2. t \notin Reliable
    BY <1>0, <2>1 DEF ParsedInv, OneTransportSuffices
  <2>3. QED
    BY <2>1, <2>2, ReturnSafe DEF CopiesAreUnlocked
<1>5. ASSUME NEW t \in Transports, DeliverDeferred(t) PROVE SafeInv'
  <2>1. /\ holder = t /\ Contains(defer_q, heap, seq_rx) /\ Round(defer_q, seq_rx)
        /\ seq_rx' = seq_rx + 1 /\ UNCHANGED <<came, holder>>
    BY <1>5 DEF DeliverDeferred
  <2>2. NumbersKept(Transports) /\ parsed' = parsed
    BY <2>1, RoundKeeps DEF TypeInv, TypeOK, Round
  <2>3. seq_rx < Packets
    <3>1. defer_q.elements[0] \in Chunks /\ heap[defer_q.elements[0]].number = seq_rx
      BY <2>1, ContainsFirst DEF TypeInv, TypeOK
    <3>2. QED
      BY <1>0, <3>1 DEF ChunkInv, NumberInv
  <2>4. ChunkInv'
    BY <2>2 DEF ChunkInv, NumbersKept
  <2>5. ParsedInv'
    BY <2>1, <2>2 DEF ParsedInv, NumbersKept
  <2>6. NumberInv'
    <3>1. holder \in Transports /\ parsed[holder] # NULL /\ heap[parsed[holder]].number < seq_rx
      BY <2>1 DEF NumberInv, TypeInv, ThreadInv
    <3>2. heap'[parsed'[holder']].number = heap[parsed[holder]].number
      BY <2>1, <2>2, <3>1 DEF NumbersKept
    <3>3. heap[parsed[holder]].number \in Nat
      BY <1>0, <3>1 DEF Contents
    <3>4. QED
      BY <1>0, <2>1, <2>3, <3>1, <3>2, <3>3 DEF NumberInv
  <2>7. QED
    BY <1>0, <2>1, <2>4, <2>5, <2>6 DEF OneTransportSuffices, CopiesAreUnlocked
<1>6. ASSUME NEW t \in Transports, Stop(t) PROVE SafeInv'
  <2>1. /\ holder = t /\ Return(t) /\ holder' = NULL /\ UNCHANGED seq_rx
    BY <1>6 DEF Stop
  <2>2. ~channel_lock'
    BY <1>6 DEF Stop
  <2>3. parsed[t] # NULL /\ heap[parsed[t]].number < seq_rx
    BY <2>1 DEF NumberInv, TypeInv, ThreadInv
  <2>4. QED
    BY <2>1, <2>2, <2>3, ReturnSafe
<1>7. CASE TimerCopies \/ TimerFires \/ TimerStops \/ RemovesFromEmpty \/ UNCHANGED vars
  <2>1. UNCHANGED <<came, heap, parsed, seq_rx, holder, channel_lock>>
    BY <1>7 DEF TimerCopies, TimerFires, TimerStops, RemovesFromEmpty, vars, channel
  <2>2. QED
    BY <2>1 DEF ChunkInv, ParsedInv, NumberInv, OneTransportSuffices, CopiesAreUnlocked
<1>8. CASE TimerDelivers
  <2>1. Round(TimerQueue, timer.seq_rx) /\ UNCHANGED <<came, seq_rx, channel_lock, holder>>
    BY <1>8 DEF TimerDelivers
  <2>2. TimerQueue \in Queues
    BY DEF TimerQueue, TypeInv, TypeOK, Queues
  <2>3. NumbersKept(Transports) /\ parsed' = parsed
    BY <2>1, <2>2, RoundKeeps DEF Round
  <2>4. ChunkInv'
    BY <2>3 DEF ChunkInv, NumbersKept
  <2>5. ParsedInv'
    BY <2>1, <2>3 DEF ParsedInv, NumbersKept
  <2>6. NumberInv'
    BY <2>1, <2>3 DEF NumberInv, NumbersKept, TypeInv, TypeOK, ThreadInv
  <2>7. QED
    BY <2>1, <2>4, <2>5, <2>6 DEF OneTransportSuffices, CopiesAreUnlocked
<1>9. QED
  BY <1>1, <1>2, <1>3, <1>4, <1>5, <1>6, <1>7, <1>8 DEF Next, Receiver, Timer

LEMMA SafeInvariant == Spec => []SafeInv
<1>1. Init => SafeInv
  BY DEF Init, SafeInv, ChunkInv, ParsedInv, NumberInv, OneTransportSuffices, CopiesAreUnlocked,
         Blank
<1>2. QED
  BY <1>1, TypeCorrect, SafeStep, PTL DEF Spec

(* A packet that a reliable transport has brought has been accepted.        *)
THEOREM RedundancyWorks == Spec => []OneTransportSuffices
BY SafeInvariant, PTL DEF SafeInv

(* The copies of the channel that the timeout thread makes are unlocked.    *)
THEOREM TimeoutCanLock == Spec => []CopiesAreUnlocked
BY SafeInvariant, PTL DEF SafeInv

-------------------------------------------------------------------------------
(* The order. The packet that is accepted has the next number, from the     *)
(* transport or from the queue.                                             *)

OrderInv ==
    /\ ticks = 0 => timer.at = "looking"
    /\ ticks = 0 => \A i \in 1 .. Len(handed) : handed[i].packet < seq_rx
    /\ InOrderOnce
    /\ NothingSkipped

LEMMA PushAppends ==
  ASSUME TypeInv, NEW c \in Chunks, Push(c)
  PROVE  \/ /\ Len(handed') = Len(handed) + 1
            /\ \A i \in 1 .. Len(handed) : handed'[i] = handed[i]
            /\ handed'[Len(handed) + 1].packet = heap[c].packet
            /\ dropped' = dropped
         \/ handed' = handed /\ dropped'
<1> DEFINE d == [packet |-> heap[c].packet, intact |-> heap[c].intact]
<1>1. d \in Delivered /\ d.packet = heap[c].packet /\ handed \in Seq(Delivered)
  BY DEF TypeInv, TypeOK, Contents, Delivered
<1>2. \/ handed' = Append(handed, d) /\ dropped' = dropped
      \/ handed' = handed /\ dropped' = TRUE
  BY DEF Push
<1> HIDE DEF d
<1>3. QED
  BY <1>1, <1>2

LEMMA NextInOrder ==
  ASSUME TypeInv, SafeInv, OrderInv, NEW c \in Chunks, Push(c), heap[c].number = seq_rx,
         seq_rx' = seq_rx + 1, UNCHANGED <<timer, ticks>>
  PROVE  OrderInv'
<1>1. heap[c].packet = seq_rx /\ seq_rx \in Nat /\ Len(handed) \in Nat
  BY DEF SafeInv, ChunkInv, NumberInv, TypeInv, TypeOK
<1>2. \A i \in 1 .. Len(handed) : handed[i].packet \in Nat
  <2>1. \A i \in 1 .. Len(handed) : handed[i] \in Delivered
    BY DEF TypeInv, TypeOK
  <2>2. QED
    BY <2>1 DEF Delivered
<1>3. CASE /\ Len(handed') = Len(handed) + 1
           /\ \A i \in 1 .. Len(handed) : handed'[i] = handed[i]
           /\ handed'[Len(handed) + 1].packet = heap[c].packet
           /\ dropped' = dropped
  <2>1. \A i \in 1 .. Len(handed') : i \in 1 .. Len(handed) \/ i = Len(handed) + 1
    BY <1>1, <1>3
  <2>2. InOrderOnce'
    BY <1>1, <1>2, <1>3, <2>1 DEF OrderInv, InOrderOnce
  <2>3. NothingSkipped'
    BY <1>1, <1>3, <2>1 DEF OrderInv, NothingSkipped
  <2>4. ticks = 0 => \A i \in 1 .. Len(handed') : handed'[i].packet < seq_rx'
    BY <1>1, <1>2, <1>3, <2>1 DEF OrderInv
  <2>5. QED
    BY <2>2, <2>3, <2>4 DEF OrderInv
<1>4. CASE handed' = handed /\ dropped'
  BY <1>1, <1>2, <1>4 DEF OrderInv, InOrderOnce, NothingSkipped
<1>5. QED
  BY <1>3, <1>4, PushAppends

LEMMA OrderStep ==
  ASSUME TypeInv, SafeInv, OrderInv, [Next]_vars
  PROVE  OrderInv'
<1>1. ASSUME NEW t \in Transports, Accept(t) PROVE OrderInv'
  <2>1. /\ parsed[t] # NULL /\ heap[parsed[t]].number = seq_rx /\ Push(parsed[t])
        /\ seq_rx' = seq_rx + 1 /\ UNCHANGED <<timer, ticks>>
    BY <1>1 DEF Accept, Entered
  <2>2. parsed[t] \in Chunks
    BY <2>1 DEF TypeInv, TypeOK
  <2>3. QED
    BY <2>1, <2>2, NextInOrder
<1>2. ASSUME NEW t \in Transports, DeliverDeferred(t) PROVE OrderInv'
  <2>1. /\ Contains(defer_q, heap, seq_rx) /\ Round(defer_q, seq_rx)
        /\ seq_rx' = seq_rx + 1 /\ UNCHANGED <<timer, ticks>>
    BY <1>2 DEF DeliverDeferred
  <2>2. PICK c \in Chunks : heap[c].number = seq_rx /\ Push(c)
    BY <2>1, ContainsFirst DEF Round, TypeInv, TypeOK
  <2>3. QED
    BY <2>1, <2>2, NextInOrder
<1>3. CASE TimerCopies
  <2>1. ticks' # 0
    BY <1>3 DEF TimerCopies, TypeInv, TypeOK
  <2>2. QED
    BY <2>1 DEF OrderInv, InOrderOnce, NothingSkipped
<1>4. CASE TimerFires \/ TimerDelivers \/ TimerStops
  <2>1. ticks' # 0
    BY <1>4 DEF TimerFires, TimerDelivers, TimerStops, OrderInv
  <2>2. QED
    BY <2>1 DEF OrderInv, InOrderOnce, NothingSkipped
<1>5. CASE \/ \E t \in Transports :
                  \/ \E n \in Comes(t), c \in Chunks : Parse(t, n, c)
                  \/ Discard(t) \/ Defer(t) \/ Stop(t)
           \/ RemovesFromEmpty \/ UNCHANGED vars
  <2>1. UNCHANGED <<seq_rx, handed, dropped, timer, ticks>>
    BY <1>5 DEF Parse, Discard, Defer, Stop, RemovesFromEmpty, vars, channel
  <2>2. QED
    BY <2>1 DEF OrderInv, InOrderOnce, NothingSkipped
<1>6. QED
  BY <1>1, <1>2, <1>3, <1>4, <1>5 DEF Next, Receiver, Timer

LEMMA OrderInvariant == Spec => []OrderInv
<1>1. Init => OrderInv
  BY DEF Init, OrderInv, InOrderOnce, NothingSkipped, NoCopy
<1>2. QED
  BY <1>1, TypeCorrect, SafeInvariant, OrderStep, PTL DEF Spec

(* Until the timeout thread fires, the packets are handed up in order.      *)
THEOREM OrderIsKept == Spec => []InOrderOnce
BY OrderInvariant, PTL DEF OrderInv

(* Nor is one left out, unless the receive fifo has been full.              *)
THEOREM NoneIsSkipped == Spec => []NothingSkipped
BY OrderInvariant, PTL DEF OrderInv

-------------------------------------------------------------------------------
(* How often. When the timeout thread fires it may hand up each packet      *)
(* once: its copy of seq_rx only counts up, after a first number that may   *)
(* be that of a freed chunk.                                                *)

Handed(p) == {i \in 1 .. Len(handed) : handed[i].packet = p}
ByChannel(p) == IF p < seq_rx THEN 1 ELSE 0
StillByTimer(p) ==
    IF \/ timer.at = "late"
       \/ timer.at = "delivering" /\ (p >= timer.seq_rx \/ timer.seq_rx = Junk)
    THEN 1 ELSE 0

CountInv == \A p \in 0 .. Packets :
    Cardinality(Handed(p)) + StillByTimer(p) <= ByChannel(p) + ticks

LEMMA HandedFinite ==
  ASSUME TypeInv, NEW p
  PROVE  IsFiniteSet(Handed(p)) /\ Cardinality(Handed(p)) \in Nat
<1>1. Len(handed) \in Nat
  BY DEF TypeInv, TypeOK
<1>2. IsFiniteSet(1 .. Len(handed))
  BY <1>1, FS_Interval
<1>3. IsFiniteSet(Handed(p))
  BY <1>2, FS_Subset DEF Handed
<1>4. QED
  BY <1>3, FS_CardinalityType

LEMMA PushCounts ==
  ASSUME TypeInv, NEW c \in Chunks, Push(c), NEW p
  PROVE  /\ Cardinality(Handed(p)') \in Nat
         /\ \/ Cardinality(Handed(p)') = Cardinality(Handed(p))
            \/ heap[c].packet = p /\ Cardinality(Handed(p)') = Cardinality(Handed(p)) + 1
<1>1. Len(handed) \in Nat /\ IsFiniteSet(Handed(p)) /\ Cardinality(Handed(p)) \in Nat
  BY HandedFinite DEF TypeInv, TypeOK
<1>2. CASE handed' = handed
  BY <1>1, <1>2 DEF Handed
<1>3. CASE /\ Len(handed') = Len(handed) + 1
           /\ \A i \in 1 .. Len(handed) : handed'[i] = handed[i]
           /\ handed'[Len(handed) + 1].packet = heap[c].packet
  <2>1. \A i : i \in 1 .. Len(handed') <=> i \in 1 .. Len(handed) \/ i = Len(handed) + 1
    BY <1>1, <1>3
  <2>2. CASE heap[c].packet # p
    <3>1. Handed(p)' = Handed(p)
      BY <1>1, <1>3, <2>1, <2>2 DEF Handed
    <3>2. QED
      BY <1>1, <3>1
  <2>3. CASE heap[c].packet = p
    <3>1. Handed(p)' = Handed(p) \union {Len(handed) + 1}
      BY <1>1, <1>3, <2>1, <2>3 DEF Handed
    <3>2. Len(handed) + 1 \notin Handed(p)
      BY <1>1 DEF Handed
    <3>3. Cardinality(Handed(p) \union {Len(handed) + 1}) = Cardinality(Handed(p)) + 1
      BY <1>1, <3>2, FS_AddElement
    <3>4. QED
      BY <1>1, <2>3, <3>1, <3>3
  <2>4. QED
    BY <2>2, <2>3
<1>4. QED
  BY <1>2, <1>3, PushAppends

LEMMA ChannelCounts ==
  ASSUME TypeInv, SafeInv, CountInv, NEW c \in Chunks, Push(c), heap[c].number = seq_rx,
         seq_rx' = seq_rx + 1, UNCHANGED <<timer, ticks>>
  PROVE  CountInv'
<1>1. heap[c].packet = seq_rx /\ seq_rx \in Nat /\ ticks \in Nat
  BY DEF SafeInv, ChunkInv, NumberInv, TypeInv, TypeOK
<1> SUFFICES ASSUME NEW p \in 0 .. Packets
             PROVE  Cardinality(Handed(p)') + StillByTimer(p)' <= ByChannel(p)' + ticks'
  BY DEF CountInv
<1>2. /\ Cardinality(Handed(p)) + StillByTimer(p) <= ByChannel(p) + ticks
      /\ Cardinality(Handed(p)) \in Nat
  BY HandedFinite DEF CountInv
<1>3. StillByTimer(p)' = StillByTimer(p) /\ StillByTimer(p) \in Nat
  BY DEF StillByTimer
<1>4. /\ ByChannel(p) \in {0, 1} /\ ByChannel(p)' \in {0, 1}
      /\ ByChannel(p) <= ByChannel(p)'
      /\ p = seq_rx => ByChannel(p) = 0 /\ ByChannel(p)' = 1
  BY <1>1 DEF ByChannel
<1>5. QED
  BY <1>1, <1>2, <1>3, <1>4, PushCounts

LEMMA TimerCounts ==
  ASSUME TypeInv, SafeInv, CountInv, TimerDelivers
  PROVE  CountInv'
<1>1. /\ timer.at = "delivering" /\ timer.seq_rx \in Nat /\ ticks \in Nat
      /\ Contains(TimerQueue, heap, timer.seq_rx) /\ Round(TimerQueue, timer.seq_rx)
      /\ UNCHANGED <<seq_rx, ticks>>
  BY DEF TimerDelivers, TypeInv, TypeOK
<1>2. timer'.at = "delivering" /\ timer'.seq_rx = timer.seq_rx + 1
  BY DEF TimerDelivers, TypeInv, TypeOK
<1>3. PICK c \in Chunks : heap[c].number = timer.seq_rx /\ Push(c)
  <2>1. TimerQueue \in Queues
    BY DEF TimerQueue, TypeInv, TypeOK, Queues
  <2>2. QED
    BY <1>1, <2>1, ContainsFirst DEF Round
<1>4. \/ timer.seq_rx = Junk
      \/ heap[c].packet = timer.seq_rx /\ timer.seq_rx < Packets
  BY <1>3 DEF SafeInv, ChunkInv
<1> SUFFICES ASSUME NEW p \in 0 .. Packets
             PROVE  Cardinality(Handed(p)') + StillByTimer(p)' <= ByChannel(p)' + ticks'
  BY DEF CountInv
<1>5. /\ Cardinality(Handed(p)) + StillByTimer(p) <= ByChannel(p) + ticks
      /\ Cardinality(Handed(p)) \in Nat
  BY HandedFinite DEF CountInv
<1>6. ByChannel(p)' = ByChannel(p) /\ ByChannel(p) \in Nat
  BY <1>1 DEF ByChannel
<1>7. /\ StillByTimer(p) \in {0, 1} /\ StillByTimer(p)' \in {0, 1}
      /\ StillByTimer(p)' <= StillByTimer(p)
      /\ heap[c].packet = p => StillByTimer(p) = 1 /\ StillByTimer(p)' = 0
  BY <1>1, <1>2, <1>4 DEF StillByTimer
<1>8. QED
  BY <1>1, <1>3, <1>5, <1>6, <1>7, PushCounts

LEMMA CountStep ==
  ASSUME TypeInv, SafeInv, CountInv, [Next]_vars
  PROVE  CountInv'
<1>1. ASSUME NEW t \in Transports, Accept(t) PROVE CountInv'
  <2>1. /\ parsed[t] # NULL /\ heap[parsed[t]].number = seq_rx /\ Push(parsed[t])
        /\ seq_rx' = seq_rx + 1 /\ UNCHANGED <<timer, ticks>>
    BY <1>1 DEF Accept, Entered
  <2>2. parsed[t] \in Chunks
    BY <2>1 DEF TypeInv, TypeOK
  <2>3. QED
    BY <2>1, <2>2, ChannelCounts
<1>2. ASSUME NEW t \in Transports, DeliverDeferred(t) PROVE CountInv'
  <2>1. /\ Contains(defer_q, heap, seq_rx) /\ Round(defer_q, seq_rx)
        /\ seq_rx' = seq_rx + 1 /\ UNCHANGED <<timer, ticks>>
    BY <1>2 DEF DeliverDeferred
  <2>2. PICK c \in Chunks : heap[c].number = seq_rx /\ Push(c)
    BY <2>1, ContainsFirst DEF Round, TypeInv, TypeOK
  <2>3. QED
    BY <2>1, <2>2, ChannelCounts
<1>3. CASE TimerDelivers
  BY <1>3, TimerCounts
<1>4. CASE TimerCopies \/ TimerFires \/ TimerStops
  <2>1. /\ UNCHANGED <<seq_rx, handed>>
        /\ ticks \in Nat
        /\ \/ ticks' = ticks + 1 /\ timer.at = "looking"
           \/ ticks' = ticks /\ timer.at = "late"
           \/ ticks' = ticks /\ timer' = NoCopy
    BY <1>4 DEF TimerCopies, TimerFires, TimerStops, channel, TypeInv, TypeOK
  <2> SUFFICES ASSUME NEW p \in 0 .. Packets
               PROVE  Cardinality(Handed(p)') + StillByTimer(p)' <= ByChannel(p)' + ticks'
    BY DEF CountInv
  <2>2. Handed(p)' = Handed(p) /\ ByChannel(p)' = ByChannel(p) /\ ByChannel(p) \in Nat
    BY <2>1 DEF Handed, ByChannel
  <2>3. /\ Cardinality(Handed(p)) + StillByTimer(p) <= ByChannel(p) + ticks
        /\ Cardinality(Handed(p)) \in Nat
    BY HandedFinite DEF CountInv
  <2>4. /\ StillByTimer(p) \in {0, 1} /\ StillByTimer(p)' \in {0, 1}
        /\ timer.at = "looking" => StillByTimer(p) = 0
        /\ timer.at = "late" => StillByTimer(p) = 1
        /\ timer' = NoCopy => StillByTimer(p)' = 0
    BY DEF StillByTimer, NoCopy
  <2>5. QED
    BY <2>1, <2>2, <2>3, <2>4
<1>5. CASE \/ \E t \in Transports :
                  \/ \E n \in Comes(t), c \in Chunks : Parse(t, n, c)
                  \/ Discard(t) \/ Defer(t) \/ Stop(t)
           \/ RemovesFromEmpty \/ UNCHANGED vars
  <2>1. UNCHANGED <<seq_rx, handed, timer, ticks>>
    BY <1>5 DEF Parse, Discard, Defer, Stop, RemovesFromEmpty, vars, channel
  <2>2. QED
    BY <2>1 DEF CountInv, Handed, ByChannel, StillByTimer
<1>6. QED
  BY <1>1, <1>2, <1>3, <1>4, <1>5 DEF Next, Receiver, Timer

LEMMA CountInvariant == Spec => []CountInv
<1>1. ASSUME Init PROVE CountInv
  <2>1. \A p : Handed(p) = {}
    BY <1>1 DEF Init, Handed
  <2>2. Cardinality({}) = 0
    BY FS_EmptySet
  <2>3. timer.at = "looking" /\ seq_rx = 0 /\ ticks = 0
    BY <1>1 DEF Init, NoCopy
  <2>4. \A p \in 0 .. Packets : StillByTimer(p) = 0 /\ ByChannel(p) \in {0, 1}
    BY <2>3 DEF ByChannel, StillByTimer
  <2>5. QED
    BY <2>1, <2>2, <2>3, <2>4 DEF CountInv
<1>2. QED
  BY <1>1, TypeCorrect, SafeInvariant, CountStep, PTL DEF Spec

(* A packet is handed up again at most once for each time the timeout       *)
(* thread fires.                                                            *)
THEOREM AgainOnlyOncePerTimeout == Spec => []AgainOnlyByTimeout
<1>1. TypeInv /\ CountInv => AgainOnlyByTimeout
  <2> SUFFICES ASSUME TypeInv, CountInv, NEW p \in 0 .. Packets
               PROVE  Cardinality(Handed(p)) <= 1 + ticks
    BY DEF AgainOnlyByTimeout, Handed
  <2>1. /\ Cardinality(Handed(p)) \in Nat /\ ticks \in Nat
        /\ StillByTimer(p) \in {0, 1} /\ ByChannel(p) \in {0, 1}
        /\ Cardinality(Handed(p)) + StillByTimer(p) <= ByChannel(p) + ticks
    BY HandedFinite DEF CountInv, StillByTimer, ByChannel, TypeInv, TypeOK
  <2>2. QED
    BY <2>1
<1>2. QED
  BY <1>1, TypeCorrect, CountInvariant, PTL
===============================================================================
