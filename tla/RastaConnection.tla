---------------------------- MODULE RastaConnection ----------------------------
(***************************************************************************)
(* The safety and retransmission layer (rasta/c/rasta_new.c): one          *)
(* connection, with a process that runs this code at each end. In each     *)
(* process the receive, send and heartbeat threads and the user's calls    *)
(* share a struct rasta_connection under its lock; each action is one      *)
(* critical section of that lock.                                          *)
(*                                                                         *)
(* The redundancy layer below is external here: PDUs arrive in order and   *)
(* may be lost (the receive fifo is full, or the SR checksum is wrong).    *)
(* Time is left out: a timer may expire, and a timestamp may be late,      *)
(* whenever the constants allow it.                                        *)
(***************************************************************************)
EXTENDS Integers, Sequences, FiniteSetsExt

CONSTANTS
    Modulus,         \* sequence numbers are uint32_t: 2^32 in the code
    SnRange,         \* send_max * 10
    MaxPacket,       \* max_packet
    RetrCapacity,    \* MAX_QUEUE_SIZE
    InitialSn,       \* InitialSn[n]: what get_initial_seq_num returns in n
    Unset,           \* what a field the code does not initialise may hold
    Leftovers,       \* what the messages of an uninitialised packet may read as
    LeftoverCrashes, \* whether reading an uninitialised packet may crash
    Messages,        \* Messages[n]: bound on the messages n's user sends
    Heartbeats,      \* Heartbeats[n]: bound on the heartbeats n's timer sends
    Losses,          \* bound on the PDUs the network loses
    Timeouts,        \* whether T_i may expire
    LateTimestamps,  \* whether confirmed timestamps may be late
    Disconnects,     \* the nodes whose user may call sr_disconnect
    EarlyAnswers     \* whether ConResp may overtake rastalist_addConnection

Nodes == {"client", "server"}
Peer(n) == IF n = "client" THEN "server" ELSE "client"

SequenceNumbers == 0..(Modulus - 1)

ASSUME RastaConnectionAssumption ==
    /\ Modulus \in Nat /\ Modulus > 2 /\ SnRange \in Nat
    /\ MaxPacket \in Nat \ {0} /\ RetrCapacity \in Nat \ {0}
    /\ RetrCapacity + 3 <= Modulus
    /\ InitialSn \in [Nodes -> SequenceNumbers]
    /\ Unset \subseteq SequenceNumbers /\ Unset # {}
    /\ Leftovers \subseteq Seq(Nat)
    /\ Messages \in [Nodes -> Nat] /\ Heartbeats \in [Nodes -> Nat]
    /\ Losses \in Nat /\ Disconnects \subseteq Nodes
    /\ LeftoverCrashes \in BOOLEAN /\ Timeouts \in BOOLEAN
    /\ LateTimestamps \in BOOLEAN /\ EarlyAnswers \in BOOLEAN

(* Mutation of Plus: the number is not truncated to 32 bits. *)
Plus_Wide(a, b) == a + b

(* uint32_t arithmetic. *)
Plus(a, b)  == (a + b) % Modulus
Minus(a, b) == (a - b) % Modulus

States == {"START", "UP", "RETRREQ", "RETRRUN", "CLOSED", "CRASHED"}
Supervised == {"UP", "RETRREQ", "RETRRUN"}   \* what heartbeat_thread looks at

PduTypes == {"CONREQ", "CONRESP", "HB", "DATA", "RETRREQ", "RETRRESP",
             "RETRDATA", "DISCREQ"}
Pdus == [type : PduTypes, sn : SequenceNumbers, cs : SequenceNumbers,
         msgs : Seq(Nat)]

VARIABLES
    node,    \* node[n]: n's struct rasta_connection and the channel under it
    sent,    \* sent[n]: messages sr_send has taken from n's user, numbered 1, 2, ...
    beats,   \* beats[n]: heartbeats the timer of n has sent
    lost     \* PDUs lost

vars == <<node, sent, beats, lost>>

(* struct rasta_connection, and around it: whether it is in the list of     *)
(* connections, whether its redundancy channel exists, and the PDUs it has  *)
(* sent that the peer has not taken. fifo_app_msg keeps what it was given.  *)
Connections ==
    [state : States, sn_t : SequenceNumbers, sn_r : SequenceNumbers,
     cs_t : SequenceNumbers, cs_r : SequenceNumbers, hb_locked : BOOLEAN,
     fifo_send : Seq(Nat), fifo_retr : Seq(Pdus), fifo_app_msg : Seq(Nat),
     listed : BOOLEAN, channel : BOOLEAN, wire : Seq(Pdus)]

\* The types of the state: numbers stay within their width.
TypeOK ==
    /\ node \in [Nodes -> Connections]
    /\ sent \in [Nodes -> Nat] /\ beats \in [Nodes -> Nat] /\ lost \in Nat

Unconnected ==
    [state |-> "CLOSED", sn_t |-> 0, sn_r |-> 0, cs_t |-> 0, cs_r |-> 0,
     hb_locked |-> TRUE, fifo_send |-> <<>>, fifo_retr |-> <<>>,
     fifo_app_msg |-> <<>>, listed |-> FALSE, channel |-> FALSE, wire |-> <<>>]

Init ==
    /\ node = [n \in Nodes |-> Unconnected]
    /\ sent = [n \in Nodes |-> 0]
    /\ beats = [n \in Nodes |-> 0]
    /\ lost = 0

-----------------------------------------------------------------------------
(* Sending. c is a connection; each operator returns what it becomes.       *)

Pdu(c, type, msgs) == [type |-> type, sn |-> c.sn_t, cs |-> c.cs_t, msgs |-> msgs]

\* redundancy_mux_send: without a channel to the receiver, nothing is sent.
Transmit(c, pdus) == IF c.channel THEN [c EXCEPT !.wire = @ \o pdus] ELSE c

\* The PDUs that take a sequence number.
SendNumbered(c, type) ==
    [Transmit(c, <<Pdu(c, type, <<>>)>>) EXCEPT !.sn_t = Plus(@, 1)]

Reset(c) == [c EXCEPT !.state = "CLOSED", !.hb_locked = TRUE]

\* sr_close_connection; the DiscReq does not take a sequence number.
Close(c) ==
    LET told == IF c.state = "CLOSED" THEN c
                ELSE Transmit(c, <<Pdu(c, "DISCREQ", <<>>)>>)
    IN  [Reset(told) EXCEPT !.channel = FALSE]

\* "Set values according to 5.6.2": the PDU's number is confirmed from now on.
Accept(c, p) == [c EXCEPT !.sn_r = Plus(p.sn, 1), !.cs_t = p.sn]

(* Mutation of Establish: heartbeat_thread is not let in. *)
Establish_Locked(c, p) ==
    [Accept(c, p) EXCEPT !.cs_r = p.cs, !.state = "UP"]

\* handle_conresp and handle_hb: the handshake is over, T_i is armed.
Establish(c, p) ==
    [Accept(c, p) EXCEPT !.cs_r = p.cs, !.state = "UP", !.hb_locked = FALSE]

(* Mutation of Deliver: the loop over the messages starts at 1. *)
Deliver_FromOne(c, p) ==
    [c EXCEPT !.fifo_app_msg = @ \o SubSeq(p.msgs, 2, Len(p.msgs))]

Deliver(c, p) == [c EXCEPT !.fifo_app_msg = @ \o p.msgs]

(* Mutation of RemoveConfirmed: the packet confirmed itself is kept. *)
RemoveConfirmed_Short(c) ==
    LET hits == {i \in 1..Len(c.fifo_retr) : c.fifo_retr[i].sn = c.cs_r}
        last == IF hits = {} THEN Len(c.fifo_retr) ELSE Min(hits) - 1
    IN  [c EXCEPT !.fifo_retr = SubSeq(@, last + 1, Len(@))]

\* sr_remove_confirmed_messages pops until it meets the number cs_r.
RemoveConfirmed(c) ==
    LET hits == {i \in 1..Len(c.fifo_retr) : c.fifo_retr[i].sn = c.cs_r}
        last == IF hits = {} THEN Len(c.fifo_retr) ELSE Min(hits)
    IN  [c EXCEPT !.fifo_retr = SubSeq(@, last + 1, Len(@))]

\* The packets of fifo_retr with new numbers, and back into fifo_retr.
Renumber(c, payloads) ==
    LET pdus == [i \in 1..Len(payloads) |->
                    [type |-> "RETRDATA", sn |-> Plus(c.sn_t, i - 1),
                     cs |-> c.cs_t, msgs |-> payloads[i]]]
        kept == Min({Len(payloads), RetrCapacity})
    IN  [Transmit(c, pdus) EXCEPT !.sn_t = Plus(@, Len(payloads)),
                                  !.fifo_retr = SubSeq(pdus, 1, kept)]

Payloads(c) == [i \in 1..Len(c.fifo_retr) |-> c.fifo_retr[i].msgs]

\* What sr_retransmit_data may make of c. Its loop runs once too often, and
\* so ends with a packet that was never initialised.
Retransmitted(c) ==
    {SendNumbered(Renumber(c, Append(Payloads(c), junk)), "HB") : junk \in Leftovers}
      \cup {[Renumber(c, Payloads(c)) EXCEPT !.state = "CRASHED"] :
               crash \in {x \in {TRUE} : LeftoverCrashes}}

-----------------------------------------------------------------------------
(* Connecting and the user's calls.                                         *)

Becomes(n, c) == node' = [node EXCEPT ![n] = c]

\* sr_connect up to its redundancy_mux_send: the new connection is a local
\* variable still; sn_r and cs_r stay uninitialised.
Connect ==
    /\ ~node["client"].channel /\ ~node["client"].listed
    /\ node["client"].wire = <<>> /\ node["client"].state = "CLOSED"
    /\ \E sn_r, cs_r \in Unset :
         Becomes("client",
           [SendNumbered([Unconnected EXCEPT !.sn_t = InitialSn["client"],
                            !.sn_r = sn_r, !.cs_r = cs_r, !.channel = TRUE], "CONREQ")
              EXCEPT !.state = "START"])
    /\ UNCHANGED <<sent, beats, lost>>

\* sr_connect from there on: rastalist_addConnection.
AddConnection ==
    /\ node["client"].state = "START" /\ ~node["client"].listed
    /\ Becomes("client", [node["client"] EXCEPT !.listed = TRUE])
    /\ UNCHANGED <<sent, beats, lost>>

\* sr_send with one message. When the fifo is full it is dropped silently and
\* nothing changes. A connection that is not UP is closed, but keeps its
\* redundancy channel.
SrSend(n) ==
    LET c == node[n] IN
    /\ c.listed /\ sent[n] < Messages[n]
    /\ \/ /\ c.state = "UP" /\ Len(c.fifo_send) < 2 * MaxPacket
          /\ sent' = [sent EXCEPT ![n] = @ + 1]
          /\ Becomes(n, [c EXCEPT !.fifo_send = Append(@, sent[n] + 1)])
       \/ /\ c.state \in {"START", "RETRREQ", "RETRRUN"}
          /\ Becomes(n, [Transmit(c, <<Pdu(c, "DISCREQ", <<>>)>>)
                           EXCEPT !.state = "CLOSED"])
          /\ UNCHANGED sent
    /\ UNCHANGED <<beats, lost>>

SrDisconnect(n) ==
    /\ n \in Disconnects /\ node[n].listed
    /\ node[n].state # "CRASHED"
    /\ node[n].state # "CLOSED" \/ node[n].channel
    /\ Becomes(n, Close(node[n]))
    /\ UNCHANGED <<sent, beats, lost>>

-----------------------------------------------------------------------------
(* The send and heartbeat threads.                                          *)

(* Mutation of WindowOpen: one packet less may wait for confirmation. *)
WindowOpen_Strict(c) == Len(c.fifo_retr) < MaxPacket

\* send_thread: not too many packets wait for confirmation.
WindowOpen(c) == Len(c.fifo_retr) <= MaxPacket

(* Mutation of SendData: the number is used again. *)
SendData_Reuses(c, p) ==
    [Transmit(c, <<p>>) EXCEPT
        !.fifo_retr = IF Len(@) < RetrCapacity THEN Append(@, p) ELSE @]

\* send_thread: the packet is kept until it is confirmed.
SendData(c, p) ==
    [Transmit(c, <<p>>) EXCEPT
        !.fifo_retr = IF Len(@) < RetrCapacity THEN Append(@, p) ELSE @,
        !.sn_t = Plus(@, 1)]

\* send_thread: up to max_packet messages in one packet.
SendThread(n) ==
    LET c == node[n]
        k == Min({Len(c.fifo_send), MaxPacket})
        p == Pdu(c, "DATA", SubSeq(c.fifo_send, 1, k))
    IN  /\ c.listed /\ c.state \notin {"CLOSED", "CRASHED"}
        /\ WindowOpen(c)
        /\ k > 0
        /\ Becomes(n, [SendData(c, p) EXCEPT !.fifo_send = SubSeq(@, k + 1, Len(@))])
        /\ UNCHANGED <<sent, beats, lost>>

(* Mutation of Watched: only UP is supervised. *)
Watched_UpOnly(n) ==
    node[n].listed /\ ~node[n].hb_locked /\ node[n].state = "UP"

Watched(n) ==
    node[n].listed /\ ~node[n].hb_locked /\ node[n].state \in Supervised

\* heartbeat_thread, T_h has passed since the last PDU.
Heartbeat(n) ==
    /\ Watched(n) /\ beats[n] < Heartbeats[n]
    /\ Becomes(n, SendNumbered(node[n], "HB"))
    /\ beats' = [beats EXCEPT ![n] = @ + 1]
    /\ UNCHANGED <<sent, lost>>

\* heartbeat_thread, T_i has expired. It may go on to send a heartbeat, for
\* which there is no channel any more.
TiExpires(n) ==
    /\ Timeouts /\ Watched(n)
    /\ \E due \in BOOLEAN :
         Becomes(n, IF due THEN SendNumbered(Close(node[n]), "HB") ELSE Close(node[n]))
    /\ UNCHANGED <<sent, beats, lost>>
-----------------------------------------------------------------------------
(* The receive thread: one PDU at a time, under the connection's lock.      *)

Wire(n) == node[Peer(n)].wire

\* n's connection becomes c, and the PDU n looked at is gone.
Taken(n, c) ==
    /\ node' = [m \in Nodes |->
                   IF m = n THEN c
                   ELSE [node[m] EXCEPT !.wire = Tail(@)]]
    /\ UNCHANGED <<sent, beats, lost>>

SnInSeq(c, p) == p.sn = c.sn_r

\* sr_sn_range_valid and sr_cs_valid, for the PDUs that reach them.
Plausible(c, p) ==
    /\ p.type = "RETRRESP" \/ Minus(p.sn, c.sn_r) <= SnRange
    /\ Minus(p.cs, c.cs_r) < Minus(c.sn_t, c.cs_r)

\* sr_cts_in_seq
Fresh == IF LateTimestamps THEN BOOLEAN ELSE {TRUE}

Receives(n, type) ==
    /\ node[n].listed /\ node[n].channel /\ node[n].state # "CRASHED"
    /\ Wire(n) # <<>> /\ Head(Wire(n)).type = type
    /\ type = "CONRESP" \/ Plausible(node[n], Head(Wire(n)))

\* A PDU that finds no connection in the list, whose channel is gone, or whose
\* numbers are not plausible, is dropped.
Discard(n) ==
    /\ node[n].state # "CRASHED"
    /\ Wire(n) # <<>>
    /\ LET p == Head(Wire(n)) IN
         /\ p.type # "CONREQ"
         /\ \/ ~node[n].listed \/ ~node[n].channel
            \/ p.type # "CONRESP" /\ ~Plausible(node[n], p)
    /\ Taken(n, node[n])

(* Mutation of NewServer: it does not wait for the first heartbeat. *)
NewServer_Up(p) ==
    [Accept(Unconnected, p) EXCEPT
        !.state = "UP", !.sn_t = InitialSn["server"],
        !.cs_r = Minus(InitialSn["server"], 1),
        !.listed = TRUE, !.channel = TRUE]

\* What handle_conreq adds to the list; the multiplexer has just made the channel.
NewServer(p) ==
    [Accept(Unconnected, p) EXCEPT
        !.state = "START", !.sn_t = InitialSn["server"],
        !.cs_r = Minus(InitialSn["server"], 1),
        !.listed = TRUE, !.channel = TRUE]

\* handle_conreq of a new client.
HandleConReq ==
    LET p == Head(Wire("server")) IN
    /\ Wire("server") # <<>> /\ p.type = "CONREQ"
    /\ node["client"].listed \/ EarlyAnswers
    /\ Taken("server", SendNumbered(NewServer(p), "CONRESP"))

\* handle_conresp. A client that has left START in the meantime is CLOSED.
HandleConResp(n) ==
    LET c == node[n]
        p == Head(Wire(n))
    IN  /\ Receives(n, "CONRESP")
        /\ Taken(n,
             IF p.cs # Minus(c.sn_t, 1) THEN Close(c)
             ELSE IF c.state = "CLOSED" THEN c
             ELSE IF c.state = "START" /\ n = "client"
                  THEN SendNumbered(Establish(c, p), "HB")
             ELSE Close(c))

HandleDiscReq(n) ==
    /\ Receives(n, "DISCREQ")
    /\ Taken(n, [Reset(node[n]) EXCEPT !.channel = FALSE])

\* handle_hb in START: the handshake is complete. After either of the two
\* closes the code goes on.
HbCompletesHandshake(n) ==
    LET c == node[n]
        p == Head(Wire(n))
        c1 == IF SnInSeq(c, p) THEN c ELSE Close(c)
        c2 == IF n = "client" THEN Close(c1) ELSE c1
    IN  /\ Receives(n, "HB") /\ c.state = "START"
        /\ \E fresh \in Fresh :
             Taken(n, IF fresh THEN Establish(c2, p) ELSE Close(c2))

\* handle_hb: the number after the expected one, and everything sent counts as
\* confirmed.
HbInSequence(n) ==
    LET c == node[n]
        p == Head(Wire(n))
    IN  /\ Receives(n, "HB") /\ SnInSeq(c, p)
        /\ c.state \in {"UP", "RETRRUN"}
        /\ \E fresh \in Fresh :
             Taken(n, IF fresh
                      THEN [Accept(c, p) EXCEPT !.cs_r = Minus(c.sn_t, 1),
                                                !.state = "UP"]
                      ELSE Close(c))

\* handle_hb: a gap. No RetrReq is sent.
HbAfterGap(n) ==
    LET c == node[n] IN
    /\ Receives(n, "HB") /\ ~SnInSeq(c, Head(Wire(n)))
    /\ c.state \in {"UP", "RETRRUN"}
    /\ Taken(n, [c EXCEPT !.state = "RETRREQ"])

\* handle_data, in sequence. In RETRRUN the number is taken, the messages are not.
DataInSequence(n) ==
    LET c == node[n]
        p == Head(Wire(n))
    IN  /\ Receives(n, "DATA") /\ SnInSeq(c, p)
        /\ c.state \in {"UP", "RETRRUN"}
        /\ \E fresh \in Fresh :
             Taken(n, IF ~fresh THEN Close(c)
                      ELSE IF c.state = "UP"
                      THEN RemoveConfirmed([Accept(Deliver(c, p), p) EXCEPT !.cs_r = p.cs])
                      ELSE Accept(c, p))

AskAgain(c) == [SendNumbered(c, "RETRREQ") EXCEPT !.state = "RETRREQ"]

DataAfterGap(n) ==
    LET c == node[n] IN
    /\ Receives(n, "DATA") /\ ~SnInSeq(c, Head(Wire(n)))
    /\ c.state \in {"UP", "RETRRUN"}
    /\ Taken(n, AskAgain(c))

DataBeforeHandshake(n) ==
    /\ Receives(n, "DATA") /\ node[n].state = "START"
    /\ Taken(n, Close(node[n]))

\* handle_retrreq, in every state. In RETRRUN it closes the connection, and
\* goes on all the same; out of sequence it also leaves RETRREQ behind.
HandleRetrReq(n) ==
    LET c == node[n]
        p == Head(Wire(n))
        c1 == IF ~SnInSeq(c, p) THEN c
              ELSE Accept(IF c.state = "RETRRUN" THEN Close(c) ELSE c, p)
        c2 == RemoveConfirmed([c1 EXCEPT !.cs_r = p.cs])
    IN  /\ Receives(n, "RETRREQ")
        /\ \E r \in Retransmitted(SendNumbered(c2, "RETRRESP")) :
             Taken(n, IF SnInSeq(c, p) \/ r.state = "CRASHED" THEN r
                      ELSE [r EXCEPT !.state = "RETRREQ"])

HandleRetrResp(n) ==
    LET c == node[n] IN
    /\ Receives(n, "RETRRESP")
    /\ Taken(n, IF c.state = "RETRREQ"
                THEN [Accept(c, Head(Wire(n))) EXCEPT !.cs_r = Minus(c.sn_t, 1),
                                                      !.state = "RETRRUN"]
                ELSE Close(c))

\* handle_retrdata: UP expects none.
RetrDataInSequence(n) ==
    LET c == node[n]
        p == Head(Wire(n))
    IN  /\ Receives(n, "RETRDATA") /\ SnInSeq(c, p)
        /\ c.state \in {"UP", "RETRRUN"}
        /\ \E fresh \in Fresh :
             Taken(n, IF c.state = "UP" \/ ~fresh THEN Close(c)
                      ELSE [Accept(Deliver(c, p), p) EXCEPT !.cs_r = p.cs])

RetrDataAfterGap(n) ==
    LET c == node[n] IN
    /\ Receives(n, "RETRDATA") /\ ~SnInSeq(c, Head(Wire(n)))
    /\ c.state \in {"UP", "RETRRUN"}
    /\ Taken(n, IF c.state = "UP" THEN Close(c) ELSE AskAgain(c))

\* The PDUs a handler takes without doing anything in that state.
Ignore(n) ==
    LET s == node[n].state IN
    /\ \/ Receives(n, "HB") /\ s \in {"RETRREQ", "CLOSED"}
       \/ Receives(n, "DATA") /\ s \in {"RETRREQ", "CLOSED"}
       \/ Receives(n, "RETRDATA") /\ s \in {"START", "RETRREQ", "CLOSED"}
    /\ Taken(n, node[n])

-----------------------------------------------------------------------------
(* The network loses a PDU.                                                 *)
Lose(n) ==
    /\ lost < Losses /\ Wire(n) # <<>>
    /\ node' = [node EXCEPT ![Peer(n)].wire = Tail(@)]
    /\ lost' = lost + 1
    /\ UNCHANGED <<sent, beats>>

Handle(n) ==
    \/ HandleConResp(n) \/ HandleDiscReq(n)
    \/ HbCompletesHandshake(n) \/ HbInSequence(n) \/ HbAfterGap(n)
    \/ DataInSequence(n) \/ DataAfterGap(n) \/ DataBeforeHandshake(n)
    \/ HandleRetrReq(n) \/ HandleRetrResp(n)
    \/ RetrDataInSequence(n) \/ RetrDataAfterGap(n)
    \/ Ignore(n) \/ Discard(n)

Next ==
    \/ Connect \/ AddConnection \/ HandleConReq
    \/ \E n \in Nodes : \/ SrSend(n) \/ SrDisconnect(n) \/ SendThread(n)
                        \/ Heartbeat(n) \/ TiExpires(n)
                        \/ Handle(n) \/ Lose(n)

Spec == Init /\ [][Next]_vars

(* The threads of both processes run, and the network passes PDUs on.       *)
ThreadFairness ==
    /\ WF_vars(AddConnection) /\ WF_vars(HandleConReq)
    /\ \A n \in Nodes : WF_vars(SendThread(n)) /\ WF_vars(Handle(n))

\* n will never send anything again, and all it has sent is through.
Ended(n) == node[n].state \in {"CLOSED", "CRASHED"} /\ node[n].wire = <<>>

(* t_max passes when the peer has ended, and in RETRREQ, where no PDU starts *)
(* the interval anew.                                                       *)
TimerFairness ==
    \A n \in Nodes :
      WF_vars(TiExpires(n) /\ (Ended(Peer(n)) \/ node[n].state = "RETRREQ"))

FairSpec == Spec /\ ThreadFairness
TimedSpec == FairSpec /\ TimerFairness

-----------------------------------------------------------------------------
(* Properties.                                                              *)

Delivery == INSTANCE InOrderDelivery
    WITH submitted <- sent, received <- [n \in Nodes |-> node[n].fifo_app_msg]

\* What the user of either side is given is what the other side's user sent,
\* in that order and nothing twice, whatever is lost, late, closed or
\* retransmitted in between.
DeliversInOrder == Delivery!Spec

Up(n) == node[n].state = "UP"

\* The PDUs on a wire that have taken a number, and how many they are.
Numbered(w) == {i \in 1..Len(w) : w[i].type # "DISCREQ"}
OnTheWay(n) == Cardinality(Numbered(Wire(n)))

\* How many numbers the peer has used from the one n expects on.
Outstanding(n) == Minus(node[Peer(n)].sn_t, node[n].sn_r)

\* No packet waits for its confirmation until its number's turn comes again.
NumbersFresh ==
    \A n \in Nodes : \A i \in 1..Len(node[n].fifo_retr) :
        node[n].fifo_retr[i].sn # node[n].sn_t

\* While a connection is UP the number it expects is never ahead of the numbers
\* its peer has used, across the wrap of uint32_t, and everything on the wire
\* is among the outstanding ones. No number is used again while it waits.
NumbersAgree ==
    /\ \A n \in Nodes : Up(n) /\ node[n].channel =>
         /\ OnTheWay(n) <= Outstanding(n)
         /\ Outstanding(n) <= SnRange
    /\ NumbersFresh

\* The server takes the connection for established only after the client has.
UpIsMutual ==
    Up("server") => node["client"].listed /\ node["client"].state # "START"

\* A connection that got past the handshake is one heartbeat_thread looks at:
\* in no order of handshake, retransmission and close does hb_locked keep T_i
\* from being supervised.
EstablishedIsWatched ==
    \A n \in Nodes : node[n].state \in Supervised => ~node[n].hb_locked

Quiet == lost = 0 /\ \A n \in Nodes : beats[n] = 0

\* When nothing is lost and no heartbeat crosses the data, both sides agree
\* exactly on the numbers while they are UP, and no message is skipped.
LosslessIsExact ==
    Quiet => \A n \in Nodes :
        /\ Up("client") /\ Up("server") => Outstanding(n) = OnTheWay(n)
        /\ \A i \in 1..Len(node[n].fifo_app_msg) : node[n].fifo_app_msg[i] = i

\* Every message sr_send has taken then arrives, unless the connection is closed.
SentIsDelivered ==
    \A n \in Nodes :
      Len(node[Peer(n)].fifo_app_msg) < sent[n] ~>
          \/ Len(node[Peer(n)].fifo_app_msg) = sent[n]
          \/ ~Quiet \/ \E k \in Nodes : node[k].state \in {"CLOSED", "CRASHED"}

\* A connection whose peer has ended, without its DiscReq getting through, ends.
HalfOpenEnds ==
    \A n \in Nodes :
      Ended(Peer(n)) /\ node[n].state \in Supervised ~> node[n].state \notin Supervised

\* Waiting for a retransmission ends, even if the request, the answer, or both
\* are lost, or the request was never sent.
RequestsEnd ==
    \A n \in Nodes : node[n].state = "RETRREQ" ~> node[n].state # "RETRREQ"

-----------------------------------------------------------------------------
(* What the code's comments say, and the code does not do.                  *)

Items(s) == {s[i] : i \in 1..Len(s)}
InRetr(c) == UNION {Items(c.fifo_retr[i].msgs) : i \in 1..Len(c.fifo_retr)}

\* rastalist.h:44 "The connection was established, ready to send data" and
\* handle_hb "if SN not in Seq -> disconnect and close connection": a connection
\* that is UP can send.
UpHasChannel == \A n \in Nodes : Up(n) => node[n].channel

\* "removes all confirmed messages from the retransmission fifo": what leaves
\* fifo_retr has arrived.
ReleasedIsReceived ==
    [][\A n \in Nodes :
         InRetr(node[n]) \subseteq
           InRetr(node'[n]) \cup Items(node[Peer(n)].fifo_app_msg)]_vars
=============================================================================
