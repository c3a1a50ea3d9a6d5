----------------------------- MODULE RedundancyMux -----------------------------
(***************************************************************************)
(* The redundancy multiplexer (rasta/c/rasta_red_multiplexer.c): the array *)
(* of the redundancy channels of all peers, and the threads that use it.   *)
(* The receive threads of the transports add a channel for each sender     *)
(* they do not know; sr_connect adds one and renames the first; the SR     *)
(* layer sends, and removes a channel when it closes its connection; its   *)
(* receive thread looks through the channels for messages; the timeout and *)
(* the diagnosis sweep over them.                                          *)
(*                                                                         *)
(* Adding and removing put the array in another place. The lock makes the  *)
(* part of the code that holds it one step, but the array is also read     *)
(* without it, and through pointers and indices from before. When somebody *)
(* reads beyond the array or an entry nobody wrote, or through a pointer   *)
(* into one that was freed and gets no old value, the model ends.          *)
(***************************************************************************)
EXTENDS Integers, Sequences, FiniteSets

CONSTANTS
    Ids,          \* the RaSTA ids of the peers
    Dialled,      \* those sr_connect is called for, once each
    FifoSize,     \* n_deferqueue_size
    MaxChannels,  \* bound on the channels that are created
    MaxMessages,  \* bound on the messages that come
    MaxSends,     \* bound on the packets that are sent
    NULL

ASSUME MuxAssumption ==
    /\ Dialled \subseteq Ids /\ Ids \intersect {NULL, "reader", "timeout", "diagnose"} = {}
    /\ FifoSize \in Nat \ {0}
    /\ {MaxChannels, MaxMessages, MaxSends} \subseteq Nat

Sweepers == {"timeout", "diagnose"}
Channels == 1 .. MaxChannels

(* An entry of the array: a copy of the struct of the channel. Where the    *)
(* array is longer than what was copied to it, an entry is Garbage.         *)
Entries == [id : Ids, channel : Channels, seq_tx : Nat]
Garbage == [id |-> NULL, channel |-> 0, seq_tx |-> 0]

VARIABLES
    connected_channels,  \* the array: its length is channel_count
    created,     \* how many channels there have been
    fifo_recv,   \* fifo_recv[c]: how many messages are queued in channel c
    came,        \* how many messages have come
    leaked,      \* whether the lock is held by a thread that has left
    reader,      \* the SR receive thread in redundancy_mux_retrieve_all
    op,          \* op[id]: what the SR layer does for id, one thing at a time
    sent,        \* sent[c]: the numbers of the packets sent on channel c
    torn,        \* the channels whose entry was copied during a send
    sweep,       \* sweep[w]: the loop of w over the channels
    is_open,
    outside,     \* who has read outside the array
    twins        \* whether two channels have had the same id

array == <<connected_channels, created>>
calls == <<op, sent, torn>>
vars == <<array, fifo_recv, came, leaked, reader, calls, sweep, is_open, outside, twins>>

(* A pointer is stale when the array has moved since, and a loop when a     *)
(* channel has been removed.                                                *)
Idle == [at |-> "idle", index |-> 0, number |-> 0, channel |-> 0, stale |-> FALSE]
Looking == [at |-> "look", index |-> 1, id |-> NULL, channel |-> 0, stale |-> FALSE,
            removed |-> FALSE]
Swept == [index |-> 1, count |-> 0, removed |-> FALSE]

(* redundancy_mux_init_.                                                    *)
Init ==
    /\ connected_channels = <<>> /\ created = 0
    /\ fifo_recv = [c \in Channels |-> 0] /\ came = 0
    /\ leaked = FALSE
    /\ reader = Looking
    /\ op = [id \in Ids |-> IF id \in Dialled THEN [Idle EXCEPT !.at = "new"] ELSE Idle]
    /\ sent = [c \in Channels |-> <<>>] /\ torn = {}
    /\ sweep = [w \in Sweepers |-> Swept]
    /\ is_open = "no" /\ outside = {} /\ twins = FALSE

channel_count == Len(connected_channels)
Entry == 1 .. channel_count
HasChannel(id) == \E i \in Entry : connected_channels[i].id = id

Readable(i) == i \in Entry /\ connected_channels[i] # Garbage

(* redundancy_mux_get_channel.                                              *)
IndexOf(id) ==
    CHOOSE i \in Entry :
        /\ connected_channels[i].id = id
        /\ \A j \in 1 .. i - 1 : connected_channels[j].id # id

Twins(entries) ==
    \E i, j \in DOMAIN entries : i # j /\ entries[i].id = entries[j].id

(* redundancy_mux_open: the threads start.                                  *)
Open ==
    /\ is_open = "no"
    /\ is_open' = "yes"
    /\ UNCHANGED <<array, fifo_recv, came, leaked, reader, calls, sweep, outside, twins>>

(* The array is at another place, and does not come back to this one.       *)
Moved(o) == [id \in Ids |-> [o[id] EXCEPT !.stale = o[id].at = "sending"]]
ReaderMoved(removed) ==
    [reader EXCEPT !.stale = reader.at = "poll", !.removed = @ \/ removed]

(* The realloc before a new channel is stored may move the array. The new   *)
(* state of the SR layer's calls is o, but for that.                        *)
AddEntry(id, o) ==
    /\ connected_channels' =
           Append(connected_channels, [id |-> id, channel |-> created + 1, seq_tx |-> 0])
    /\ created' = created + 1
    /\ twins' = (twins \/ Twins(connected_channels'))
    /\ \/ op' = o /\ UNCHANGED reader
       \/ op' = Moved(o) /\ reader' = ReaderMoved(FALSE)

---------------------------------------------------------------------------
(* The receive threads of the transports.                                   *)

(* receive_packet for a known sender: f_receive, if it delivers, puts a     *)
(* message into the fifo, or drops it when that is full.                    *)
Receive(id) ==
    /\ is_open = "yes" /\ ~leaked /\ came < MaxMessages
    /\ HasChannel(id)
    /\ fifo_recv' = [fifo_recv EXCEPT ![connected_channels[IndexOf(id)].channel] =
                        IF @ = FifoSize THEN @ ELSE @ + 1]
    /\ came' = came + 1
    /\ UNCHANGED <<array, leaked, reader, calls, sweep, is_open, outside, twins>>

(* receive_packet for an unknown one, also when its channel has just been   *)
(* removed and this packet is late.                                         *)
ReceiveNew(id) ==
    /\ is_open = "yes" /\ ~leaked /\ came < MaxMessages /\ created < MaxChannels
    /\ ~HasChannel(id)
    /\ AddEntry(id, op)
    /\ fifo_recv' = [fifo_recv EXCEPT ![created + 1] = 1]
    /\ came' = came + 1
    /\ UNCHANGED <<leaked, sent, torn, sweep, is_open, outside>>

---------------------------------------------------------------------------
(* The SR layer: redundancy_mux_add_channel and set_config_id in            *)
(* sr_connect, redundancy_mux_send, redundancy_mux_remove_channel. The      *)
(* connection's lock keeps those for one peer apart.                        *)

Free(id) == is_open = "yes" /\ op[id].at \in {"new", "idle"}

(* The channel is added without looking for one that is there. sr_connect   *)
(* returns early when there is a connection already.                        *)
AddChannel(id) ==
    /\ Free(id) /\ ~leaked /\ created < MaxChannels
    /\ op[id].at = "new"
    /\ AddEntry(id, [op EXCEPT ![id].at = "naming"])
    /\ UNCHANGED <<fifo_recv, came, leaked, sent, torn, sweep, is_open, outside>>

(* The id of the channel that has been specified in the config: the first.  *)
(* What follows when that is an entry nobody wrote, is undefined.           *)
SetConfigId(id) ==
    /\ is_open = "yes" /\ op[id].at = "naming"
    /\ IF channel_count > 0 /\ ~Readable(1)
       THEN outside' = outside \union {id} /\ UNCHANGED <<connected_channels, twins, op>>
       ELSE /\ connected_channels' =
                   IF channel_count = 0 THEN <<>> ELSE [connected_channels EXCEPT ![1].id = id]
            /\ twins' = (twins \/ Twins(connected_channels'))
            /\ op' = [op EXCEPT ![id] = Idle]
            /\ UNCHANGED outside
    /\ UNCHANGED <<created, fifo_recv, came, leaked, reader, sent, torn, sweep, is_open>>

Sends == Cardinality({p \in Channels \X (1 .. MaxSends) : p[2] <= Len(sent[p[1]])})

(* redundancy_mux_send up to the packet: a pointer to the channel, and the  *)
(* number it has. It returns when there is no channel.                      *)
SendReads(id) ==
    /\ Free(id) /\ HasChannel(id) /\ Sends < MaxSends
    /\ LET i == IndexOf(id) e == connected_channels[i] IN
       op' = [op EXCEPT ![id] = [at |-> "sending", index |-> i, number |-> e.seq_tx,
                                 channel |-> e.channel, stale |-> FALSE]]
    /\ UNCHANGED <<array, fifo_recv, came, leaked, reader, sent, torn, sweep, is_open,
                   outside, twins>>

(* Mutation of SendCounts: the next packet gets the same number.            *)
SendCounts_Not(id) ==
    /\ is_open = "yes" /\ op[id].at = "sending"
    /\ op' = [op EXCEPT ![id] = Idle]
    /\ sent' = [sent EXCEPT ![op[id].channel] = Append(@, op[id].number)]
    /\ UNCHANGED <<array, torn, outside, fifo_recv, came, leaked, reader, sweep, is_open,
                   twins>>

(* seq_tx is counted through the pointer, and the packet is sent. In an     *)
(* array that has been left behind nobody will find the new seq_tx.         *)
SendCounts(id) ==
    /\ is_open = "yes" /\ op[id].at = "sending"
    /\ \/ /\ IF ~op[id].stale
             THEN /\ connected_channels' =
                         [connected_channels EXCEPT ![op[id].index].seq_tx = @ + 1]
                  /\ UNCHANGED torn
             ELSE torn' = torn \union {op[id].channel} /\ UNCHANGED connected_channels
          /\ sent' = [sent EXCEPT ![op[id].channel] = Append(@, op[id].number)]
          /\ op' = [op EXCEPT ![id] = Idle]
          /\ UNCHANGED outside
       \/ /\ op[id].stale
          /\ outside' = outside \union {id}
          /\ UNCHANGED <<connected_channels, torn, sent, op>>
    /\ UNCHANGED <<created, fifo_recv, came, leaked, reader, sweep, is_open,
                   twins>>

(* redundancy_mux_remove_channel looks for the channel without the lock.    *)
RemoveFinds(id) ==
    /\ Free(id) /\ HasChannel(id)
    /\ op' = [op EXCEPT ![id] = [Idle EXCEPT !.at = "removing"]]
    /\ UNCHANGED <<array, fifo_recv, came, leaked, reader, sent, torn, sweep, is_open,
                   outside, twins>>

(* Each of the kept entries goes to the place after those kept before it.   *)
Kept(id) == {i \in Entry : connected_channels[i].id # id}
Place(kept, i) == Cardinality({j \in kept : j <= i})
Others(id) ==
    [k \in 1 .. Cardinality(Kept(id)) |->
        connected_channels[CHOOSE i \in Kept(id) : Place(Kept(id), i) = k]]

(* The new array is one shorter than the old one, whatever is copied.       *)
Fitted(entries, n) ==
    [i \in 1 .. n |-> IF i <= Len(entries) THEN entries[i] ELSE Garbage]

Removed(o) ==
    /\ op' = Moved(o)
    /\ reader' = ReaderMoved(TRUE)
    /\ sweep' = [w \in Sweepers |->
           [sweep[w] EXCEPT !.removed = sweep[w].index <= sweep[w].count]]

(* Mutation of RemoveCopies: the last channel is dropped.                   *)
RemoveCopies_Last(id) ==
    /\ is_open = "yes" /\ op[id].at = "removing" /\ ~leaked /\ channel_count > 0
    /\ connected_channels' = SubSeq(connected_channels, 1, channel_count - 1)
    /\ Removed([op EXCEPT ![id] = Idle])
    /\ UNCHANGED <<created, fifo_recv, came, leaked, sent, torn, is_open, outside, twins>>

(* Those with another id are copied, beyond the new array when none has it. *)
RemoveCopies(id) ==
    LET kept == Others(id) IN
    /\ is_open = "yes" /\ op[id].at = "removing" /\ ~leaked
    /\ IF channel_count > 0
       THEN /\ connected_channels' = Fitted(kept, channel_count - 1)
            /\ outside' = IF Len(kept) = channel_count THEN outside \union {id} ELSE outside
            /\ Removed([op EXCEPT ![id] = Idle])
       ELSE /\ outside' = outside \union {id}
            /\ UNCHANGED <<connected_channels, reader, op, sweep>>
    /\ UNCHANGED <<created, fifo_recv, came, leaked, sent, torn, is_open, twins>>

---------------------------------------------------------------------------
(* The SR receive thread in redundancy_mux_retrieve_all.                    *)

ReaderRuns == is_open = "yes"
ReaderGoes(r) ==
    /\ reader' = r
    /\ UNCHANGED <<array, came, calls, sweep, is_open, twins>>

(* Mutation of Look: the index is not set back to the first channel.        *)
Look_NoWrap ==
    /\ ReaderRuns /\ reader.at = "look" /\ channel_count > 0
    /\ ReaderGoes([reader EXCEPT !.at = "count"])
    /\ UNCHANGED <<fifo_recv, leaked, outside>>

(* It waits while there is no channel, and starts again after the last one: *)
(* if it has gone past that, it does not.                                   *)
Look ==
    /\ ReaderRuns /\ reader.at = "look" /\ channel_count > 0
    /\ LET i == IF reader.index = channel_count + 1 THEN 1 ELSE reader.index IN
       ReaderGoes([reader EXCEPT !.at = "count", !.index = i,
                       !.removed = @ /\ i # 1])
    /\ UNCHANGED <<fifo_recv, leaked, outside>>

(* Mutation of Count: the loop does not go on to the next channel.          *)
Count_Stays ==
    /\ ReaderRuns /\ reader.at = "count" /\ ~leaked
    /\ Readable(reader.index)
    /\ ReaderGoes([reader EXCEPT !.at =
           IF fifo_recv[connected_channels[reader.index].channel] > 0
           THEN "id" ELSE "look"])
    /\ UNCHANGED <<fifo_recv, leaked, outside>>

(* get_queue_msg_count. When the channel is gone it returns with the lock;  *)
(* when all are, channel_count - 1 is no bound.                             *)
Count ==
    /\ ReaderRuns /\ reader.at = "count" /\ ~leaked
    /\ IF reader.index > channel_count /\ channel_count > 0
       THEN /\ leaked' = TRUE
            /\ ReaderGoes([reader EXCEPT !.at = "look", !.index = @ + 1])
            /\ UNCHANGED outside
       ELSE /\ UNCHANGED leaked
            /\ IF Readable(reader.index)
               THEN /\ ReaderGoes(
                           IF fifo_recv[connected_channels[reader.index].channel] > 0
                           THEN [reader EXCEPT !.at = "id"]
                           ELSE [reader EXCEPT !.at = "look", !.index = @ + 1])
                    /\ UNCHANGED outside
               ELSE outside' = outside \union {"reader"} /\ ReaderGoes(reader)
    /\ UNCHANGED fifo_recv

(* Mutation of ReadId: one further than the channel that has messages.      *)
ReadId_Next ==
    /\ ReaderRuns /\ reader.at = "id" /\ reader.index <= channel_count
    /\ ReaderGoes([reader EXCEPT !.at = "find",
           !.id = connected_channels[(reader.index % channel_count) + 1].id])
    /\ UNCHANGED <<fifo_recv, leaked, outside>>

(* The id of the channel that had messages, read without the lock.          *)
ReadId ==
    /\ ReaderRuns /\ reader.at = "id"
    /\ IF Readable(reader.index)
       THEN /\ ReaderGoes([reader EXCEPT !.at = "find",
                               !.id = connected_channels[reader.index].id])
            /\ UNCHANGED outside
       ELSE outside' = outside \union {"reader"} /\ ReaderGoes(reader)
    /\ UNCHANGED <<fifo_recv, leaked>>

(* redundancy_mux_retrieve (and, but for the pop, wait_for_entity): it      *)
(* waits for a channel with that id ...                                     *)
Find ==
    /\ ReaderRuns /\ reader.at = "find" /\ HasChannel(reader.id)
    /\ ReaderGoes([reader EXCEPT !.at = "poll", !.stale = FALSE,
                       !.channel = connected_channels[IndexOf(reader.id)].channel])
    /\ UNCHANGED <<fifo_recv, leaked, outside>>

(* ... and then, through the pointer it has, for a message.                 *)
Pop ==
    /\ ReaderRuns /\ reader.at = "poll"
    /\ \/ /\ fifo_recv[reader.channel] > 0
          /\ fifo_recv' = [fifo_recv EXCEPT ![reader.channel] = @ - 1]
          /\ ReaderGoes(Looking)
          /\ UNCHANGED outside
       \/ /\ reader.stale
          /\ outside' = outside \union {"reader"}
          /\ ReaderGoes(reader) /\ UNCHANGED fifo_recv
    /\ UNCHANGED leaked

Reader == Look \/ Count \/ ReadId \/ Find \/ Pop

---------------------------------------------------------------------------
(* The loops of channel_timeout_handler and channel_receive_handler.        *)

SweepStarts(w) ==
    /\ is_open = "yes" /\ ~leaked
    /\ sweep[w] = Swept /\ channel_count > 0
    /\ sweep' = [sweep EXCEPT ![w].count = channel_count]
    /\ UNCHANGED <<array, fifo_recv, came, leaked, reader, calls, is_open, outside, twins>>

SweepTo(w, i, n) == sweep' = [sweep EXCEPT ![w] =
    IF i <= n THEN [@ EXCEPT !.index = i, !.count = n] ELSE Swept]

(* Mutation of SweepReads: i <= mux_channel_count.                          *)
SweepReads_Beyond(w) ==
    /\ is_open = "yes" \/ w = "timeout"
    /\ ~leaked /\ sweep[w].count > 0
    /\ IF is_open = "yes" /\ Readable(sweep[w].index)
       THEN SweepTo(w, sweep[w].index + 1, sweep[w].count + 1) /\ UNCHANGED outside
       ELSE outside' = outside \union {w} /\ UNCHANGED sweep
    /\ UNCHANGED <<array, fifo_recv, came, leaked, reader, calls, is_open, twins>>

(* A channel is copied under the lock, up to the channel_count from before: *)
(* the diagnosis reads that again after each. The timeout thread is not     *)
(* cancelled before its next usleep, when the mux is closed.                *)
SweepReads(w) ==
    /\ is_open = "yes" \/ w = "timeout"
    /\ ~leaked /\ sweep[w].count > 0
    /\ IF is_open = "yes" /\ Readable(sweep[w].index)
       THEN /\ SweepTo(w, sweep[w].index + 1,
                       IF w = "diagnose" THEN channel_count ELSE sweep[w].count)
            /\ UNCHANGED outside
       ELSE outside' = outside \union {w} /\ UNCHANGED sweep
    /\ UNCHANGED <<array, fifo_recv, came, leaked, reader, calls, is_open, twins>>

(* redundancy_mux_close: the other threads are cancelled at once, and the   *)
(* channels are freed.                                                      *)
Close ==
    /\ is_open = "yes"
    /\ is_open' = "closed"
    /\ connected_channels' = <<>> /\ fifo_recv' = [c \in Channels |-> 0]
    /\ reader' = [Looking EXCEPT !.removed = reader.removed]
    /\ op' = [id \in Ids |-> Idle]
    /\ UNCHANGED <<created, came, leaked, sent, torn, sweep, outside, twins>>

SrLayer(id) ==
    \/ AddChannel(id) \/ SetConfigId(id)
    \/ SendReads(id) \/ SendCounts(id)
    \/ RemoveFinds(id) \/ RemoveCopies(id)

Next ==
    /\ outside = {}
    /\ \/ Open \/ Close
       \/ \E id \in Ids : Receive(id) \/ ReceiveNew(id) \/ SrLayer(id)
       \/ Reader
       \/ \E w \in Sweepers : SweepStarts(w) \/ SweepReads(w)

(* The reading thread runs for ever.                                        *)
Spec == Init /\ [][Next]_vars /\ WF_vars(Reader)

---------------------------------------------------------------------------
(* Properties.                                                              *)

TypeOK ==
    /\ connected_channels \in Seq(Entries \union {Garbage})
    /\ created \in 0 .. MaxChannels
    /\ fifo_recv \in [Channels -> 0 .. FifoSize] /\ came \in 0 .. MaxMessages
    /\ leaked \in BOOLEAN
    /\ reader \in [at : {"look", "count", "id", "find", "poll"}, index : Nat \ {0},
                   id : Ids \union {NULL}, channel : Channels \union {0},
                   stale : BOOLEAN, removed : BOOLEAN]
    /\ op \in [Ids -> [at : {"new", "idle", "naming", "sending", "removing"}, index : Nat,
                       number : Nat, channel : Channels \union {0}, stale : BOOLEAN]]
    /\ sent \in [Channels -> Seq(Nat)] /\ torn \subseteq Channels
    /\ sweep \in [Sweepers -> [index : Nat \ {0}, count : Nat, removed : BOOLEAN]]
    /\ is_open \in {"no", "yes", "closed"}
    /\ outside \subseteq Sweepers \union {"reader"} \union Ids /\ twins \in BOOLEAN

(* get_queue_msg_count returns with the lock held, which stops every thread *)
(* of the multiplexer for good, only when a channel has been removed while  *)
(* retrieve_all was going through the array.                                *)
LockIsGivenBack == leaked => reader.removed

(* No thread reads outside the array of the channels, unless that has been  *)
(* made shorter or freed since the thread took its bound or its pointer     *)
(* (channel_timeout_handler, channel_receive_handler, retrieve, send).      *)
ReadsInside ==
    /\ \A w \in outside \intersect Sweepers :
           is_open = "closed" \/ sweep[w].removed \/ twins
    /\ "reader" \in outside => reader.removed \/ reader.stale \/ twins
    /\ \A id \in outside \intersect Ids : twins \/ op[id].stale

(* The reader waits for a message of one peer, while others may have sent   *)
(* some, only when a channel was removed between its look at the fifo and   *)
(* its pop (redundancy_mux_retrieve_all, redundancy_mux_retrieve).          *)
ReaderWaits ==
    \/ reader.at = "find" /\ ~HasChannel(reader.id)
    \/ reader.at = "poll" /\ fifo_recv[reader.channel] = 0
WaitsOnlyAfterRemoval == ReaderWaits => reader.removed \/ twins

(* On one channel no number is used again, unless the array moved during a  *)
(* send (redundancy_mux_send writes through its pointer without the lock):  *)
(* the peer would discard the second packet as one it has had.              *)
NumbersUsedOnce ==
    ~twins => \A c \in Channels \ torn :
        \A i, j \in 1 .. Len(sent[c]) : i < j => sent[c][i] < sent[c][j]

(* What one thread does for a peer never takes away the channel of another  *)
(* one, with the messages in it.                                            *)
OthersKeepTheirs ==
    [][~twins' /\ is_open' # "closed" => \A i \in Entry :
           op[connected_channels[i].id].at # "removing" =>
               \E j \in DOMAIN connected_channels' :
                   connected_channels'[j].channel = connected_channels[i].channel]_vars

(* A message in the fifo of a channel is taken, if the peers do not send    *)
(* for ever and the channel is not removed, unless the reader is stopped by *)
(* one of the above.                                                        *)
Gone(c) == \A i \in Entry : connected_channels[i].channel # c
Stopped == leaked \/ outside # {} \/ ReaderWaits \/ is_open = "closed"
Drains == \A c \in Channels : fifo_recv[c] > 0 ~> fifo_recv[c] = 0 \/ Gone(c) \/ Stopped

=============================================================================
