------------------------------- MODULE DeferQueue -------------------------------
(***************************************************************************)
(* The defer queue of a redundancy channel (rasta/c/rastadeferqueue.c): an *)
(* array of pointers to packets, of which the first count are queued,      *)
(* sorted by the time they came. The packets are elsewhere, in chunks of   *)
(* the heap (the argument heap), and the array does not keep them from     *)
(* being freed and used again.                                             *)
(*                                                                         *)
(* The queue's own mutex makes each operation one step. A position beyond  *)
(* count keeps what it last held.                                          *)
(***************************************************************************)
EXTENDS Integers, FiniteSets

CONSTANTS
    MaxCount,   \* n_deferqueue_size
    Chunks,     \* the chunks malloc gives out for received packets
    NULL

ASSUME DeferQueueAssumption == MaxCount \in Nat \ {0} /\ NULL \notin Chunks

Positions == 0 .. (MaxCount - 1)
Queues == [elements : [Positions -> Chunks \union {NULL}], count : 0 .. MaxCount]

(* defer_queue_init. *)
EmptyQueue == [elements |-> [i \in Positions |-> NULL], count |-> 0]

(* find_index reads the number of the packet at position 0 and compares     *)
(* that one with n for every index: the answer is 0, or -1 for none.        *)
FindIndex(q, heap, n) ==
    IF q.elements[0] # NULL /\ heap[q.elements[0]].number = n THEN 0 ELSE -1

(* deferqueue_contains. *)
Contains(q, heap, n) == FindIndex(q, heap, n) # -1

(* deferqueue_get of a number the queue contains: the chunk it copies from. *)
Get(q, heap, n) == q.elements[FindIndex(q, heap, n)]

IsFull(q) == q.count = MaxCount

(* deferqueue_add: the new packet is the youngest, so it stays last.        *)
Add(q, c) ==
    IF IsFull(q) THEN q
    ELSE [elements |-> [q.elements EXCEPT ![q.count] = c], count |-> q.count + 1]

(* deferqueue_remove of what find_index finds, at index 0: the last packet  *)
(* takes its place, and the rest is sorted by time again. Two packets of    *)
(* the same millisecond may stay swapped.                                   *)
Shifted(q) ==
    [i \in Positions |->
        q.elements[IF i < q.count - 1 THEN i + 1 ELSE i]]
Swapped(q) == [q.elements EXCEPT ![0] = q.elements[q.count - 1]]
RemoveFirst(q) ==
    {[elements |-> e, count |-> q.count - 1] : e \in {Shifted(q), Swapped(q)}}

(* The chunk whose data deferqueue_remove frees: the last one, also when    *)
(* that packet has just been moved and stays in the queue.                  *)
FreedByRemove(q) == q.elements[q.count - 1]

(* deferqueue_smallest_seqnr looks at all positions, queued or not. It      *)
(* reads through the pointer of one that was never used.                    *)
SmallestReadsNull(q) == \E i \in Positions : q.elements[i] = NULL
Smallest(q, heap) ==
    CHOOSE i \in Positions :
        LET n(j) == heap[q.elements[j]].number
        IN \A j \in Positions : n(i) < n(j) \/ (n(i) = n(j) /\ i <= j)
=============================================================================
