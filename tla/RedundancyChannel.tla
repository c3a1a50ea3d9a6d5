--------------------------- MODULE RedundancyChannel ---------------------------
(***************************************************************************)
(* The receiving end of one redundancy channel                             *)
(* (rasta/c/rastaredundancy_new.c, and the threads of                      *)
(* rasta_red_multiplexer.c that call it): the peer sends every packet on   *)
(* every transport channel; a receive thread for each transport parses     *)
(* what comes and runs f_receive under the multiplexer's lock; the timeout *)
(* thread runs f_deferTmo on a copy of the channel, without that lock; the *)
(* SR layer takes what is in the receive fifo.                             *)
(*                                                                         *)
(* f_receive and each round of the loop of deliverDeferQueue are one step. *)
(***************************************************************************)
EXTENDS DeferQueue, Sequences

CONSTANTS
    Packets,      \* the packets the peer sends: one not sent yet is on its way
    Transports,
    Reliable,     \* the transports that lose nothing and keep the order
    Ahead,        \* n_deferqueue_size * 10
    Junk,         \* the number that a freed chunk reads as, if not its old one
    Client,       \* whether we have sent first: seq_tx > 0 when the first packet comes
    MaxTicks      \* bound on the calls of f_deferTmo

(* Junk is no number the peer uses, and smaller than none of them.          *)
ASSUME RedundancyAssumption ==
    /\ Packets \in Nat /\ Reliable \subseteq Transports /\ NULL \notin Transports
    /\ Junk \in Nat /\ Junk > Packets /\ MaxTicks \in Nat
    /\ Client \in BOOLEAN /\ Ahead \in Nat

(* A struct RastaRedundancyPacket: its number, the packet the SR PDU in it  *)
(* belongs to, and whether the data of that PDU is still allocated.         *)
Contents == [number : 0 .. Packets \union {Junk}, packet : 0 .. Packets,
             intact : BOOLEAN]
Blank == [number |-> Junk, packet |-> 0, intact |-> FALSE]
Delivered == [packet : 0 .. Packets, intact : BOOLEAN]

VARIABLES
    came,      \* came[t]: how many of them t's thread has handled, if t is reliable
    heap,      \* heap[c]: what the chunk c holds
    parsed,    \* parsed[t]: the chunk t's thread holds and has not handled, or NULL
    seq_rx, defer_q,
    handed,    \* what has been put into fifo_recv: taken by the SR layer or not yet
    channel_lock,
    holder,    \* the transport whose thread runs deliverDeferQueue, or NULL
    timer,     \* the timeout thread and its copy of the channel
    ticks,     \* calls of f_deferTmo
    dropped,   \* whether the full fifo_recv has dropped a packet
    crashed

channel == <<seq_rx, defer_q, handed, channel_lock, dropped>>
vars == <<came, heap, parsed, channel, holder, timer, ticks, crashed>>

NoCopy == [at |-> "looking", seq_rx |-> 0, count |-> 0]

(* rasta_red_init. The heap holds nothing anybody points to.                *)
Init ==
    /\ came = [t \in Transports |-> 0]
    /\ heap = [c \in Chunks |-> Blank]
    /\ parsed = [t \in Transports |-> NULL]
    /\ seq_rx = 0 /\ defer_q = EmptyQueue /\ handed = <<>>
    /\ channel_lock = FALSE
    /\ holder = NULL
    /\ timer = NoCopy
    /\ ticks = 0
    /\ dropped = FALSE
    /\ crashed = FALSE

---------------------------------------------------------------------------
(* The peer, the network and the SR layer.                                  *)

(* What can come on t next: a reliable transport brings the packets in      *)
(* order, another one any of them at any time, again or never.              *)
Comes(t) == IF t \in Reliable THEN {came[t]} \ {Packets} ELSE 0 .. Packets - 1

(* receive_packet up to the lock: the packet goes to a chunk from malloc,   *)
(* which may be one that the defer queue points to.                         *)
Parse(t, n, c) ==
    /\ parsed[t] = NULL
    /\ holder # t
    /\ \A u \in Transports : parsed[u] # c
    /\ n \in Comes(t)
    /\ parsed' = [parsed EXCEPT ![t] = c]
    /\ heap' = [heap EXCEPT ![c] = [number |-> n, packet |-> n, intact |-> TRUE]]
    /\ UNCHANGED <<came, channel, holder, timer, ticks, crashed>>

---------------------------------------------------------------------------
(* rasta_red_f_receive, and the free after it.                              *)

(* What a chunk holds that nobody points to makes no difference.            *)
Reachable(h, q) ==
    [c \in Chunks |->
        IF (\E i \in Positions : q.elements[i] = c) \/ (\E t \in Transports : parsed'[t] = c)
        THEN h[c] ELSE Blank]

(* free(receivedPacket): the chunk keeps its contents, or the allocator     *)
(* overwrites its first bytes, where the number is.                         *)
Free(c) ==
    \E n \in {heap[c].number, Junk} :
        heap' = Reachable([heap EXCEPT ![c].number = n], defer_q')

(* The end of receive_packet.                                               *)
Return(t) ==
    /\ parsed' = [parsed EXCEPT ![t] = NULL]
    /\ Free(parsed[t])
    /\ came' = [came EXCEPT ![t] = IF t \in Reliable THEN @ + 1 ELSE 0]

Entered(t) == holder = NULL /\ parsed[t] # NULL

(* Mutation of Useless: the number that is expected has come before.        *)
Useless_Expected(n) ==
    \/ seq_rx = 0 /\ ~Client /\ n # 0
    \/ n <= seq_rx /\ seq_rx > 0
    \/ n > seq_rx + Ahead

(* The wrong checksum, the first packet that is not number 0, one that has  *)
(* come before and one too far ahead.                                       *)
Useless(n) ==
    \/ seq_rx = 0 /\ ~Client /\ n # 0
    \/ n < seq_rx
    \/ n > seq_rx + Ahead

Discard(t) ==
    /\ Entered(t)
    /\ \/ Useless(heap[parsed[t]].number)
       \/ t \notin Reliable   \* checksum_correct = 0
    /\ UNCHANGED channel
    /\ Return(t)
    /\ UNCHANGED <<holder, timer, ticks, crashed>>

(* fifo_push drops the packet when the fifo is full: it holds MaxCount, and *)
(* the SR layer may have taken any of those before or none.                 *)
Push(c) ==
    \/ /\ handed' = Append(handed, [packet |-> heap[c].packet, intact |-> heap[c].intact])
       /\ UNCHANGED dropped
    \/ /\ Len(handed) >= MaxCount
       /\ dropped' = TRUE
       /\ UNCHANGED handed

(* Mutation of Accept: any packet that has not come is the next one.        *)
Accept_Ahead(t) ==
    /\ Entered(t)
    /\ ~Useless(heap[parsed[t]].number)
    /\ heap[parsed[t]].number >= seq_rx
    /\ Push(parsed[t])
    /\ seq_rx' = heap[parsed[t]].number + 1
    /\ channel_lock' = TRUE
    /\ holder' = t
    /\ UNCHANGED <<came, heap, parsed, defer_q, timer, ticks, crashed>>

(* The expected packet: deliverDeferQueue takes the channel's lock again.   *)
Accept(t) ==
    /\ Entered(t)
    /\ ~Useless(heap[parsed[t]].number)
    /\ heap[parsed[t]].number = seq_rx
    /\ Push(parsed[t])
    /\ seq_rx' = seq_rx + 1
    /\ channel_lock' = TRUE
    /\ holder' = t
    /\ UNCHANGED <<came, heap, parsed, defer_q, timer, ticks, crashed>>

(* A packet ahead is queued, unless find_index finds its number or the      *)
(* queue is full; either way receive_packet frees it.                       *)
Defer(t) ==
    LET c == parsed[t] IN
    /\ Entered(t)
    /\ ~Useless(heap[c].number) /\ heap[c].number > seq_rx
    /\ defer_q' = IF Contains(defer_q, heap, heap[c].number) THEN defer_q
                  ELSE Add(defer_q, c)
    /\ Return(t)
    /\ UNCHANGED <<seq_rx, handed, channel_lock, dropped, holder, timer, ticks, crashed>>

---------------------------------------------------------------------------
(* deliverDeferQueue, which f_receive calls on the channel and f_deferTmo   *)
(* on the timeout thread's copy. The copy shares the array of the queue and *)
(* the fifo, and has a seq_rx and a count of its own.                       *)

(* One round with the queue q, from the array both share: the first packet, *)
(* which has the number n, goes to the fifo, and remove frees the data of   *)
(* the last one. Freeing it twice may end the process.                      *)
Round(q, n) ==
    LET c == FreedByRemove(q) IN
    /\ crashed' \in {FALSE, ~heap[c].intact}
    /\ Push(Get(q, heap, n))
    /\ UNCHANGED parsed
    /\ heap' = Reachable([heap EXCEPT ![c].intact = FALSE], defer_q')

(* Mutation of DeliverDeferred: the removed packet stays the expected one.  *)
DeliverDeferred_Stays(t) ==
    /\ holder = t
    /\ Contains(defer_q, heap, seq_rx) /\ defer_q.count > 0
    /\ defer_q' \in RemoveFirst(defer_q)
    /\ Round(defer_q, seq_rx)
    /\ seq_rx' = seq_rx
    /\ channel_lock' = FALSE
    /\ UNCHANGED <<came, holder, timer, ticks>>

DeliverDeferred(t) ==
    /\ holder = t
    /\ Contains(defer_q, heap, seq_rx) /\ defer_q.count > 0
    /\ defer_q' \in RemoveFirst(defer_q)
    /\ Round(defer_q, seq_rx)
    /\ seq_rx' = seq_rx + 1
    /\ channel_lock' = FALSE
    /\ UNCHANGED <<came, holder, timer, ticks>>

(* Mutation of Stop: f_receive returns without the unlock after the call.   *)
Stop_Locked(t) ==
    /\ holder = t
    /\ ~Contains(defer_q, heap, seq_rx)
    /\ holder' = NULL
    /\ UNCHANGED channel
    /\ Return(t)
    /\ UNCHANGED <<timer, ticks, crashed>>

(* The loop ends, holding the channel's lock if it never ran; f_receive     *)
(* unlocks in either case.                                                  *)
Stop(t) ==
    /\ holder = t
    /\ ~Contains(defer_q, heap, seq_rx)
    /\ channel_lock' = FALSE
    /\ holder' = NULL
    /\ UNCHANGED defer_q
    /\ Return(t)
    /\ UNCHANGED <<seq_rx, handed, dropped, timer, ticks, crashed>>

(* channel_timeout_handler copies the channel under the multiplexer's lock  *)
(* and finds the oldest packet late. A lock that is copied while it is held *)
(* is never given back.                                                     *)
TimerCopies ==
    /\ timer.at = "looking"
    /\ holder = NULL
    /\ ~channel_lock
    /\ defer_q.count > 0
    /\ ticks < MaxTicks
    /\ timer' = [at |-> "late", seq_rx |-> seq_rx, count |-> defer_q.count]
    /\ ticks' = ticks + 1
    /\ UNCHANGED <<came, heap, parsed, channel, holder, crashed>>

(* rasta_red_f_deferTmo on the copy.                                        *)
TimerFires ==
    /\ timer.at = "late"
    /\ IF SmallestReadsNull(defer_q)
       THEN crashed' = TRUE /\ UNCHANGED timer
       ELSE /\ timer' = [timer EXCEPT
                    !.at = "delivering",
                    !.seq_rx = heap[defer_q.elements[Smallest(defer_q, heap)]].number]
            /\ UNCHANGED crashed
    /\ UNCHANGED <<came, heap, parsed, channel, holder, ticks>>

TimerQueue == [elements |-> defer_q.elements, count |-> timer.count]

(* Mutation of TimerDelivers: the loop does not go on to the next number.   *)
TimerDelivers_Stays ==
    /\ timer.at = "delivering"
    /\ Contains(TimerQueue, heap, timer.seq_rx) /\ timer.count > 0
    /\ UNCHANGED <<timer, defer_q>>
    /\ Round(TimerQueue, timer.seq_rx)
    /\ UNCHANGED <<came, seq_rx, channel_lock, holder, ticks>>

TimerDelivers ==
    /\ timer.at = "delivering"
    /\ Contains(TimerQueue, heap, timer.seq_rx) /\ timer.count > 0
    /\ timer' = [timer EXCEPT !.seq_rx = @ + 1, !.count = @ - 1]
    /\ \E q \in RemoveFirst(TimerQueue) :
           defer_q' = [defer_q EXCEPT !.elements = q.elements]
    /\ Round(TimerQueue, timer.seq_rx)
    /\ UNCHANGED <<came, seq_rx, channel_lock, holder, ticks>>

TimerStops ==
    /\ timer.at = "delivering"
    /\ ~Contains(TimerQueue, heap, timer.seq_rx)
    /\ timer' = NoCopy
    /\ UNCHANGED <<came, heap, parsed, channel, holder, ticks, crashed>>

(* The first position may still hold the expected packet when nothing is    *)
(* queued: removing it then reads the element before the array.             *)
RemovesFromEmpty ==
    /\ \/ /\ holder # NULL /\ Contains(defer_q, heap, seq_rx)
          /\ defer_q.count = 0
       \/ /\ timer.at = "delivering" /\ Contains(TimerQueue, heap, timer.seq_rx)
          /\ timer.count = 0
    /\ crashed' = TRUE
    /\ UNCHANGED <<came, heap, parsed, channel, holder, timer, ticks>>

Receiver(t) ==
    \/ \E n \in Comes(t), c \in Chunks : Parse(t, n, c)
    \/ Discard(t) \/ Accept(t) \/ Defer(t)
    \/ DeliverDeferred(t) \/ Stop(t)

Timer == TimerCopies \/ TimerFires \/ TimerDelivers \/ TimerStops

Next ==
    /\ ~crashed
    /\ \/ \E t \in Transports : Receiver(t)
       \/ Timer
       \/ RemovesFromEmpty

Spec == Init /\ [][Next]_vars

---------------------------------------------------------------------------
(* Properties.                                                              *)

TypeOK ==
    /\ came \in [Transports -> 0 .. Packets]
    /\ heap \in [Chunks -> Contents]
    /\ parsed \in [Transports -> Chunks \union {NULL}]
    /\ seq_rx \in Nat
    /\ defer_q \in Queues
    /\ handed \in Seq(Delivered)
    /\ channel_lock \in BOOLEAN
    /\ holder \in Transports \union {NULL}
    /\ timer \in [at : {"looking", "late", "delivering"}, seq_rx : Nat, count : 0 .. MaxCount]
    /\ ticks \in 0 .. MaxTicks /\ dropped \in BOOLEAN
    /\ crashed \in BOOLEAN

(* Until the timeout thread has fired, the SR layer gets the packets in     *)
(* the order of their numbers and none twice, whatever the transports do    *)
(* and whatever becomes of the freed packets in the defer queue             *)
(* (rasta_red_f_receive, deliverDeferQueue).                                *)
InOrderOnce ==
    ticks = 0 =>
        \A i, j \in 1 .. Len(handed) : i < j => handed[i].packet < handed[j].packet

(* Nor is any left out, unless the receive fifo was full: a gap is only     *)
(* ever passed over by the timeout.                                         *)
NothingSkipped ==
    ticks = 0 /\ ~dropped =>
        /\ Len(handed) = seq_rx
        /\ \A i \in 1 .. Len(handed) : handed[i].packet = i - 1

(* What redundancy is for: a packet that a reliable transport has brought   *)
(* is accepted, by that transport or by another before it, whatever the     *)
(* others lose, reorder, repeat or corrupt and whatever the timeout thread  *)
(* does.                                                                    *)
OneTransportSuffices == \A t \in Reliable : came[t] <= seq_rx

(* The timeout thread delivers from its copy what the channel still counts  *)
(* as queued, so the SR layer may get a packet again: at most once for each *)
(* time it fires (channel_timeout_handler, rasta_red_f_deferTmo).           *)
AgainOnlyByTimeout ==
    \A p \in 0 .. Packets :
        Cardinality({i \in 1 .. Len(handed) : handed[i].packet = p}) <= 1 + ticks

(* Who has the multiplexer's lock finds the channel's lock free, so the     *)
(* copies of it that the timeout thread makes can be taken                  *)
(* (deliverDeferQueue leaves it held when its loop never runs).             *)
CopiesAreUnlocked == holder = NULL => ~channel_lock

=============================================================================
