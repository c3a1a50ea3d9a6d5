------------------------- MODULE RastaConnectionProofs -------------------------
(***************************************************************************)
(* Proofs about RastaConnection for every width of the sequence numbers,   *)
(* every size of the fifos, and every number of messages, heartbeats and   *)
(* losses: the types of the state, what the handshake guarantees, and that *)
(* a session in which nothing is lost is exact.                            *)
(***************************************************************************)
EXTENDS RastaConnection, FiniteSetTheorems, WellFoundedInduction, TLAPS

-------------------------------------------------------------------------------
(* The least element of a set of naturals.                                  *)

Smaller == {p \in Nat \X Nat : p[1] < p[2]}

LEMMA SmallerIsLess == OpToRel(<, Nat) = Smaller
BY DEF OpToRel, Smaller

LEMMA MinIsLeast ==
  ASSUME NEW S \in SUBSET Nat, S # {}
  PROVE  Min(S) \in S /\ \A y \in S : Min(S) <= y
<1>1. IsWellFoundedOn(Smaller, Nat)
  BY NatLessThanWellFounded, SmallerIsLess, Zenon
<1>2. PICK x \in S : \A y \in S : ~(<<y, x>> \in Smaller)
  BY <1>1, WFMin
<1>3. ASSUME NEW y \in S, y < x PROVE FALSE
  <2>1. <<y, x>> \in Smaller
    BY <1>3 DEF Smaller
  <2>2. QED
    BY <1>2, <2>1
<1>4. \A y \in S : x <= y
  BY <1>3
<1>5. QED
  BY <1>4 DEF Min

LEMMA MinOfTwo ==
  ASSUME NEW a \in Nat, NEW b \in Nat
  PROVE  Min({a, b}) \in {a, b} /\ Min({a, b}) <= a /\ Min({a, b}) <= b
<1> DEFINE S == {a, b}
<1>1. S \in SUBSET Nat /\ S # {} /\ a \in S /\ b \in S
  OBVIOUS
<1> HIDE DEF S
<1>2. Min(S) \in S /\ Min(S) <= a /\ Min(S) <= b
  BY <1>1, MinIsLeast
<1>3. QED
  BY <1>2 DEF S

-------------------------------------------------------------------------------
(* The operators keep the types; and what else they change.                 *)

LEMMA SequenceNumbersWrap ==
  ASSUME NEW a \in SequenceNumbers, NEW b \in Nat
  PROVE  Plus(a, b) \in SequenceNumbers /\ Minus(a, b) \in SequenceNumbers
BY RastaConnectionAssumption DEF SequenceNumbers, Plus, Minus

LEMMA PduType ==
  ASSUME NEW c \in Connections, NEW type \in PduTypes, NEW msgs \in Seq(Nat)
  PROVE  Pdu(c, type, msgs) \in Pdus
BY DEF Pdu, Connections, Pdus

LEMMA TransmitType ==
  ASSUME NEW c \in Connections, NEW pdus \in Seq(Pdus)
  PROVE  Transmit(c, pdus) \in Connections
<1>1. c.wire \o pdus \in Seq(Pdus)
  BY DEF Connections
<1>2. QED
  BY <1>1 DEF Transmit, Connections

LEMMA ControlPdu ==
  ASSUME NEW c \in Connections, NEW type \in PduTypes
  PROVE  <<Pdu(c, type, <<>>)>> \in Seq(Pdus)
<1>1. <<>> \in Seq(Nat)
  OBVIOUS
<1>2. Pdu(c, type, <<>>) \in Pdus
  BY <1>1, PduType
<1>3. QED
  BY <1>2

LEMMA SendNumberedType ==
  ASSUME NEW c \in Connections, NEW type \in PduTypes
  PROVE  SendNumbered(c, type) \in Connections
<1> DEFINE t == Transmit(c, <<Pdu(c, type, <<>>)>>)
<1>2. t \in Connections
  BY ControlPdu, TransmitType
<1>3. Plus(t.sn_t, 1) \in SequenceNumbers
  BY <1>2, SequenceNumbersWrap DEF Connections
<1>4. SendNumbered(c, type) = [t EXCEPT !.sn_t = Plus(t.sn_t, 1)]
  BY DEF SendNumbered
<1> HIDE DEF t
<1>5. QED
  BY <1>2, <1>3, <1>4 DEF Connections

LEMMA CloseType ==
  ASSUME NEW c \in Connections
  PROVE  Close(c) \in Connections
<1> DEFINE told == IF c.state = "CLOSED" THEN c
                   ELSE Transmit(c, <<Pdu(c, "DISCREQ", <<>>)>>)
<1>1. told \in Connections
  BY ControlPdu, TransmitType DEF PduTypes
<1>2. Close(c) = [Reset(told) EXCEPT !.channel = FALSE]
  BY DEF Close
<1> HIDE DEF told
<1>3. QED
  BY <1>1, <1>2 DEF Reset, Connections, States

LEMMA AcceptType ==
  ASSUME NEW c \in Connections, NEW p \in Pdus
  PROVE  Accept(c, p) \in Connections
<1>1. p.sn \in SequenceNumbers /\ Plus(p.sn, 1) \in SequenceNumbers
  BY SequenceNumbersWrap DEF Pdus
<1>2. QED
  BY <1>1 DEF Accept, Connections

LEMMA EstablishType ==
  ASSUME NEW c \in Connections, NEW p \in Pdus
  PROVE  Establish(c, p) \in Connections
<1> DEFINE a == Accept(c, p)
<1>1. a \in Connections
  BY AcceptType
<1>2. Establish(c, p) = [a EXCEPT !.cs_r = p.cs, !.state = "UP", !.hb_locked = FALSE]
  BY DEF Establish
<1> HIDE DEF a
<1>3. QED
  BY <1>1, <1>2 DEF Connections, States, Pdus

LEMMA DeliverType ==
  ASSUME NEW c \in Connections, NEW p \in Pdus
  PROVE  Deliver(c, p) \in Connections
<1>1. c.fifo_app_msg \o p.msgs \in Seq(Nat)
  BY DEF Connections, Pdus
<1>2. QED
  BY <1>1 DEF Deliver, Connections

\* RemoveConfirmed leaves the rest of fifo_retr from some place on.
LEMMA RemoveConfirmedIsSuffix ==
  ASSUME NEW c \in Connections
  PROVE  \E k \in 0..Len(c.fifo_retr) :
           /\ RemoveConfirmed(c) =
                [c EXCEPT !.fifo_retr = SubSeq(c.fifo_retr, k + 1, Len(c.fifo_retr))]
           /\ \/ k = Len(c.fifo_retr)
              \/ k > 0 /\ c.fifo_retr[k].sn = c.cs_r
<1> DEFINE hits == {i \in 1..Len(c.fifo_retr) : c.fifo_retr[i].sn = c.cs_r}
           last == IF hits = {} THEN Len(c.fifo_retr) ELSE Min(hits)
<1>1. Len(c.fifo_retr) \in Nat
  BY DEF Connections
<1>2. RemoveConfirmed(c) =
        [c EXCEPT !.fifo_retr = SubSeq(c.fifo_retr, last + 1, Len(c.fifo_retr))]
  BY DEF RemoveConfirmed
<1>3. hits # {} => Min(hits) \in hits
  <2>1. hits \in SUBSET Nat
    OBVIOUS
  <2> HIDE DEF hits
  <2>2. QED
    BY <2>1, MinIsLeast
<1>4. /\ last \in 0..Len(c.fifo_retr)
      /\ \/ last = Len(c.fifo_retr)
         \/ last > 0 /\ c.fifo_retr[last].sn = c.cs_r
  BY <1>1, <1>3
<1> HIDE DEF last
<1>5. QED
  BY <1>2, <1>4

LEMMA RemoveConfirmedType ==
  ASSUME NEW c \in Connections
  PROVE  RemoveConfirmed(c) \in Connections
<1>1. PICK k \in 0..Len(c.fifo_retr) :
        RemoveConfirmed(c) =
          [c EXCEPT !.fifo_retr = SubSeq(c.fifo_retr, k + 1, Len(c.fifo_retr))]
  BY RemoveConfirmedIsSuffix
<1>2. SubSeq(c.fifo_retr, k + 1, Len(c.fifo_retr)) \in Seq(Pdus)
  BY DEF Connections
<1>3. QED
  BY <1>1, <1>2 DEF Connections

\* The packets that Renumber sends.
Renumbered(c, payloads) ==
    [i \in 1..Len(payloads) |-> [type |-> "RETRDATA", sn |-> Plus(c.sn_t, i - 1),
                                 cs |-> c.cs_t, msgs |-> payloads[i]]]

LEMMA RenumberIs ==
  ASSUME NEW c \in Connections, NEW payloads \in Seq(Seq(Nat))
  PROVE  /\ Renumbered(c, payloads) \in Seq(Pdus)
         /\ Len(Renumbered(c, payloads)) = Len(payloads)
         /\ \E kept \in 0..Len(payloads) :
              /\ kept <= RetrCapacity
              /\ Renumber(c, payloads) =
                   [c EXCEPT !.sn_t = Plus(c.sn_t, Len(payloads)),
                             !.wire = IF c.channel THEN c.wire \o Renumbered(c, payloads)
                                      ELSE c.wire,
                             !.fifo_retr = SubSeq(Renumbered(c, payloads), 1, kept)]
<1> DEFINE pdu(i) == [type |-> "RETRDATA", sn |-> Plus(c.sn_t, i - 1),
                      cs |-> c.cs_t, msgs |-> payloads[i]]
           kept == Min({Len(payloads), RetrCapacity})
<1>1. ASSUME NEW i \in 1..Len(payloads)
      PROVE  pdu(i) \in Pdus
  <2>1. Plus(c.sn_t, i - 1) \in SequenceNumbers
    BY SequenceNumbersWrap DEF Connections
  <2>2. QED
    BY <2>1 DEF Connections, Pdus, PduTypes
<1>2. Renumbered(c, payloads) \in Seq(Pdus) /\ Len(Renumbered(c, payloads)) = Len(payloads)
  <2>1. Renumbered(c, payloads) = [i \in 1..Len(payloads) |-> pdu(i)]
    BY DEF Renumbered
  <2> HIDE DEF pdu
  <2>2. QED
    BY <1>1, <2>1
<1>3. kept \in 0..Len(payloads) /\ kept <= RetrCapacity
  <2>1. Len(payloads) \in Nat /\ RetrCapacity \in Nat
    BY RastaConnectionAssumption
  <2>2. kept \in {Len(payloads), RetrCapacity} /\ kept <= Len(payloads) /\ kept <= RetrCapacity
    BY <2>1, MinOfTwo
  <2> HIDE DEF kept
  <2>3. QED
    BY <2>1, <2>2
<1>4. Renumber(c, payloads) =
        [Transmit(c, Renumbered(c, payloads)) EXCEPT
            !.sn_t = Plus(Transmit(c, Renumbered(c, payloads)).sn_t, Len(payloads)),
            !.fifo_retr = SubSeq(Renumbered(c, payloads), 1, kept)]
  BY DEF Renumber, Renumbered
<1> DEFINE pdus == Renumbered(c, payloads)
           w == IF c.channel THEN c.wire \o pdus ELSE c.wire
<1>5. Transmit(c, pdus) = [c EXCEPT !.wire = w]
  <2> HIDE DEF pdus
  <2>1. QED
    BY DEF Transmit, Connections
<1> HIDE DEF kept, pdus, w
<1>6. Renumber(c, payloads) = [c EXCEPT !.sn_t = Plus(c.sn_t, Len(payloads)), !.wire = w,
                                        !.fifo_retr = SubSeq(pdus, 1, kept)]
  BY <1>4, <1>5 DEF Connections, pdus
<1>7. QED
  BY <1>2, <1>3, <1>6 DEF pdus, w

LEMMA RenumberType ==
  ASSUME NEW c \in Connections, NEW payloads \in Seq(Seq(Nat))
  PROVE  Renumber(c, payloads) \in Connections
<1> DEFINE pdus == Renumbered(c, payloads)
<1>1. PICK kept \in 0..Len(payloads) :
        Renumber(c, payloads) =
          [c EXCEPT !.sn_t = Plus(c.sn_t, Len(payloads)),
                    !.wire = IF c.channel THEN c.wire \o pdus ELSE c.wire,
                    !.fifo_retr = SubSeq(pdus, 1, kept)]
  BY RenumberIs
<1>2. pdus \in Seq(Pdus) /\ Len(pdus) = Len(payloads)
  BY RenumberIs
<1>3. Plus(c.sn_t, Len(payloads)) \in SequenceNumbers
  BY SequenceNumbersWrap DEF Connections
<1> HIDE DEF pdus
<1>4. SubSeq(pdus, 1, kept) \in Seq(Pdus) /\ c.wire \o pdus \in Seq(Pdus)
  BY <1>2 DEF Connections
<1>5. QED
  BY <1>1, <1>3, <1>4 DEF Connections

LEMMA PayloadsType ==
  ASSUME NEW c \in Connections
  PROVE  Payloads(c) \in Seq(Seq(Nat)) /\ Len(Payloads(c)) = Len(c.fifo_retr)
<1>1. ASSUME NEW i \in 1..Len(c.fifo_retr)
      PROVE  c.fifo_retr[i].msgs \in Seq(Nat)
  <2>1. c.fifo_retr[i] \in Pdus
    BY DEF Connections
  <2>2. QED
    BY <2>1 DEF Pdus
<1>2. Len(c.fifo_retr) \in Nat
  BY DEF Connections
<1>3. QED
  BY <1>1, <1>2 DEF Payloads

LEMMA RetransmittedType ==
  ASSUME NEW c \in Connections, NEW r \in Retransmitted(c)
  PROVE  r \in Connections
<1>1. CASE \E junk \in Leftovers :
             r = SendNumbered(Renumber(c, Append(Payloads(c), junk)), "HB")
  <2>1. PICK junk \in Leftovers :
               r = SendNumbered(Renumber(c, Append(Payloads(c), junk)), "HB")
    BY <1>1
  <2>2. Append(Payloads(c), junk) \in Seq(Seq(Nat))
    BY PayloadsType, RastaConnectionAssumption
  <2>3. Renumber(c, Append(Payloads(c), junk)) \in Connections
    BY <2>2, RenumberType
  <2>4. QED
    BY <2>1, <2>3, SendNumberedType DEF PduTypes
<1>2. CASE r = [Renumber(c, Payloads(c)) EXCEPT !.state = "CRASHED"]
  <2>1. Renumber(c, Payloads(c)) \in Connections
    BY PayloadsType, RenumberType
  <2>2. QED
    BY <1>2, <2>1 DEF Connections, States
<1>3. QED
  BY <1>1, <1>2 DEF Retransmitted

LEMMA UnconnectedType == Unconnected \in Connections
<1>1. 0 \in SequenceNumbers
  BY RastaConnectionAssumption DEF SequenceNumbers
<1>2. QED
  BY <1>1 DEF Unconnected, Connections, States

LEMMA NewServerType ==
  ASSUME NEW p \in Pdus
  PROVE  NewServer(p) \in Connections
<1>2. Accept(Unconnected, p) \in Connections
  BY UnconnectedType, AcceptType
<1>3. InitialSn["server"] \in SequenceNumbers
  BY RastaConnectionAssumption DEF Nodes
<1>4. Minus(InitialSn["server"], 1) \in SequenceNumbers
  BY <1>3, SequenceNumbersWrap
<1>5. QED
  BY <1>2, <1>3, <1>4 DEF NewServer, Connections, States

-------------------------------------------------------------------------------
(* Steps. Every handler takes the first PDU of the peer's wire.             *)

LEMMA PeerIsNode ==
  ASSUME NEW n \in Nodes
  PROVE  Peer(n) \in Nodes /\ Peer(n) # n /\ Peer(Peer(n)) = n
BY DEF Nodes, Peer

LEMMA HeadOfWire ==
  ASSUME TypeOK, NEW n \in Nodes, Wire(n) # <<>>
  PROVE  Head(Wire(n)) \in Pdus /\ Wire(n) \in Seq(Pdus) /\ node[n] \in Connections
<1>1. node[Peer(n)] \in Connections /\ node[n] \in Connections
  BY PeerIsNode DEF TypeOK
<1>2. Wire(n) \in Seq(Pdus)
  BY <1>1 DEF Wire, Connections
<1>3. QED
  BY <1>1, <1>2

LEMMA TakenType ==
  ASSUME TypeOK, NEW n \in Nodes, NEW c \in Connections, Wire(n) # <<>>, Taken(n, c)
  PROVE  TypeOK'
<1>1. ASSUME NEW m \in Nodes, m # n
      PROVE  [node[m] EXCEPT !.wire = Tail(@)] \in Connections
  <2>1. m = Peer(n)
    BY <1>1 DEF Nodes, Peer
  <2>2. Tail(node[m].wire) \in Seq(Pdus)
    BY <2>1, HeadOfWire DEF Wire
  <2>3. QED
    BY <2>2 DEF TypeOK, Connections
<1>2. node' \in [Nodes -> Connections]
  BY <1>1 DEF Taken
<1>3. QED
  BY <1>2 DEF TypeOK, Taken

LEMMA BecomesType ==
  ASSUME TypeOK, NEW n \in Nodes, NEW c \in Connections, Becomes(n, c)
  PROVE  node' \in [Nodes -> Connections]
BY DEF Becomes, TypeOK

LEMMA RetransmissionType ==
  ASSUME NEW c \in Connections, NEW number \in SequenceNumbers, 
         NEW r \in Retransmitted(SendNumbered(RemoveConfirmed([c EXCEPT !.cs_r = number]), "RETRRESP"))
  PROVE  r \in Connections
<1>1. [c EXCEPT !.cs_r = number] \in Connections
  BY DEF Connections
<1>2. RemoveConfirmed([c EXCEPT !.cs_r = number]) \in Connections
  BY <1>1, RemoveConfirmedType
<1>3. SendNumbered(RemoveConfirmed([c EXCEPT !.cs_r = number]), "RETRRESP") \in Connections
  BY <1>2, SendNumberedType DEF PduTypes
<1>4. QED
  BY <1>3, RetransmittedType

LEMMA HandlersKeepTypes ==
  ASSUME TypeOK, NEW n \in Nodes, Handle(n)
  PROVE  TypeOK'
<1> DEFINE c == node[n]
           p == Head(Wire(n))
<1>1. Wire(n) # <<>>
  BY DEF Handle, HandleConResp, HandleDiscReq, HbCompletesHandshake, HbInSequence,
         HbAfterGap, DataInSequence, DataAfterGap, DataBeforeHandshake, HandleRetrReq,
         HandleRetrResp, RetrDataInSequence, RetrDataAfterGap, Ignore, Discard, Receives
<1>2. c \in Connections /\ p \in Pdus
  BY <1>1, HeadOfWire
<1>3. /\ Accept(c, p) \in Connections /\ Close(c) \in Connections
      /\ SendNumbered(c, "RETRREQ") \in Connections
      /\ Accept(Deliver(c, p), p) \in Connections
      /\ SendNumbered(Establish(c, p), "HB") \in Connections
      /\ Minus(c.sn_t, 1) \in SequenceNumbers /\ p.cs \in SequenceNumbers
  <2>1. "RETRREQ" \in PduTypes /\ "HB" \in PduTypes
    BY DEF PduTypes
  <2>2. c.sn_t \in SequenceNumbers /\ p.cs \in SequenceNumbers
    BY <1>2 DEF Connections, Pdus
  <2> HIDE DEF c, p
  <2>3. Deliver(c, p) \in Connections /\ Establish(c, p) \in Connections
    BY <1>2, DeliverType, EstablishType
  <2>4. QED
    BY <1>2, <2>1, <2>2, <2>3, AcceptType, CloseType, SendNumberedType, SequenceNumbersWrap
<1> HIDE DEF c, p
<1>4. SUFFICES \E d \in Connections : Taken(n, d)
  BY <1>1, TakenType
<1>5. CASE HandleConResp(n)
  BY <1>2, <1>3, <1>5 DEF HandleConResp, c, p
<1>6. CASE HandleDiscReq(n)
  <2>1. [Reset(c) EXCEPT !.channel = FALSE] \in Connections
    BY <1>2 DEF Reset, Connections, States
  <2>2. QED
    BY <1>6, <2>1 DEF HandleDiscReq, c
<1>7. CASE HbCompletesHandshake(n)
  <2> DEFINE c1 == IF SnInSeq(c, p) THEN c ELSE Close(c)
             c2 == IF n = "client" THEN Close(c1) ELSE c1
  <2>1. c1 \in Connections
    BY <1>2, <1>3
  <2>2. c2 \in Connections
    BY <2>1, CloseType
  <2>3. Establish(c2, p) \in Connections /\ Close(c2) \in Connections
    BY <1>2, <2>2, CloseType, EstablishType
  <2>4. QED
    BY <1>7, <2>3 DEF HbCompletesHandshake, c, p
<1>8. CASE HbInSequence(n)
  <2>1. [Accept(c, p) EXCEPT !.cs_r = Minus(c.sn_t, 1), !.state = "UP"] \in Connections
    BY <1>3 DEF Connections, States
  <2>2. QED
    BY <1>3, <1>8, <2>1 DEF HbInSequence, c, p
<1>9. CASE HbAfterGap(n)
  <2>1. [c EXCEPT !.state = "RETRREQ"] \in Connections
    BY <1>2 DEF Connections, States
  <2>2. QED
    BY <1>9, <2>1 DEF HbAfterGap, c
<1>10. CASE DataInSequence(n)
  <2>1. [Accept(Deliver(c, p), p) EXCEPT !.cs_r = p.cs] \in Connections
    BY <1>3 DEF Connections
  <2>2. RemoveConfirmed([Accept(Deliver(c, p), p) EXCEPT !.cs_r = p.cs]) \in Connections
    BY <2>1, RemoveConfirmedType
  <2>3. QED
    BY <1>3, <1>10, <2>2 DEF DataInSequence, c, p
<1>11. AskAgain(c) \in Connections
  BY <1>3 DEF AskAgain, Connections, States
<1>12. CASE DataAfterGap(n)
  BY <1>11, <1>12 DEF DataAfterGap, c
<1>13. CASE DataBeforeHandshake(n)
  BY <1>3, <1>13 DEF DataBeforeHandshake, c
<1>14. CASE HandleRetrReq(n)
  <2> DEFINE c1 == IF ~SnInSeq(c, p) THEN c
                   ELSE Accept(IF c.state = "RETRRUN" THEN Close(c) ELSE c, p)
             c2 == RemoveConfirmed([c1 EXCEPT !.cs_r = p.cs])
  <2>1. c1 \in Connections
    BY <1>2, <1>3, AcceptType
  <2>2. PICK r \in Retransmitted(SendNumbered(c2, "RETRRESP")) :
               Taken(n, IF SnInSeq(c, p) \/ r.state = "CRASHED" THEN r
                        ELSE [r EXCEPT !.state = "RETRREQ"])
    BY <1>14 DEF HandleRetrReq, c, p
  <2>3. r \in Connections
    BY <1>3, <2>1, RetransmissionType
  <2>4. [r EXCEPT !.state = "RETRREQ"] \in Connections
    BY <2>3 DEF Connections, States
  <2>5. QED
    BY <2>2, <2>3, <2>4
<1>15. CASE HandleRetrResp(n)
  <2>1. [Accept(c, p) EXCEPT !.cs_r = Minus(c.sn_t, 1), !.state = "RETRRUN"] \in Connections
    BY <1>3 DEF Connections, States
  <2>2. QED
    BY <1>3, <1>15, <2>1 DEF HandleRetrResp, c, p
<1>16. CASE RetrDataInSequence(n)
  <2>1. [Accept(Deliver(c, p), p) EXCEPT !.cs_r = p.cs] \in Connections
    BY <1>3 DEF Connections
  <2>2. QED
    BY <1>3, <1>16, <2>1 DEF RetrDataInSequence, c, p
<1>17. CASE RetrDataAfterGap(n)
  BY <1>3, <1>11, <1>17 DEF RetrDataAfterGap, c
<1>18. CASE Ignore(n) \/ Discard(n)
  BY <1>2, <1>18 DEF Ignore, Discard, c
<1>19. QED
  BY <1>5, <1>6, <1>7, <1>8, <1>9, <1>10, <1>12, <1>13, <1>14, <1>15, <1>16, <1>17, <1>18
     DEF Handle

LEMMA ConnectingKeepsTypes ==
  ASSUME TypeOK, Connect \/ AddConnection \/ HandleConReq
  PROVE  TypeOK'
<1>1. "client" \in Nodes /\ "server" \in Nodes
  BY DEF Nodes
<1>2. CASE Connect
  <2> DEFINE new(sn_r, cs_r) == [Unconnected EXCEPT !.sn_t = InitialSn["client"],
                                    !.sn_r = sn_r, !.cs_r = cs_r, !.channel = TRUE]
  <2>1. PICK sn_r \in Unset, cs_r \in Unset :
          Becomes("client",
            [SendNumbered(new(sn_r, cs_r), "CONREQ") EXCEPT !.state = "START"])
    BY <1>2 DEF Connect
  <2>2. new(sn_r, cs_r) \in Connections
    <3>1. sn_r \in SequenceNumbers /\ cs_r \in SequenceNumbers
      BY RastaConnectionAssumption
    <3>2. InitialSn["client"] \in SequenceNumbers
      BY RastaConnectionAssumption, <1>1
    <3>3. QED
      BY <3>1, <3>2, UnconnectedType DEF Connections
  <2> HIDE DEF new
  <2>3. SendNumbered(new(sn_r, cs_r), "CONREQ") \in Connections
    BY <2>2, SendNumberedType DEF PduTypes
  <2>4. [SendNumbered(new(sn_r, cs_r), "CONREQ") EXCEPT !.state = "START"] \in Connections
    BY <2>3 DEF Connections, States
  <2>5. QED
    BY <1>1, <1>2, <2>1, <2>4, BecomesType DEF Connect, TypeOK
<1>3. CASE AddConnection
  <2>1. [node["client"] EXCEPT !.listed = TRUE] \in Connections
    BY <1>1 DEF TypeOK, Connections
  <2>2. QED
    BY <1>1, <1>3, <2>1, BecomesType DEF AddConnection, TypeOK
<1>4. CASE HandleConReq
  <2> DEFINE p == Head(Wire("server"))
  <2>1. Wire("server") # <<>> /\ Taken("server", SendNumbered(NewServer(p), "CONRESP"))
    BY <1>4 DEF HandleConReq
  <2>2. p \in Pdus
    BY <1>1, <2>1, HeadOfWire
  <2> HIDE DEF p
  <2>3. SendNumbered(NewServer(p), "CONRESP") \in Connections
    BY <2>2, NewServerType, SendNumberedType DEF PduTypes
  <2>4. QED
    BY <1>1, <2>1, <2>3, TakenType
<1>5. QED
  BY <1>2, <1>3, <1>4

LEMMA SendDataIs ==
  ASSUME NEW c \in Connections, NEW p \in Pdus
  PROVE  LET d == SendData(c, p)
         IN  /\ d \in Connections
             /\ d = [c EXCEPT !.sn_t = Plus(c.sn_t, 1), !.wire = d.wire, !.fifo_retr = d.fifo_retr]
             /\ d.wire = IF c.channel THEN Append(c.wire, p) ELSE c.wire
             /\ d.fifo_retr = IF Len(c.fifo_retr) < RetrCapacity THEN Append(c.fifo_retr, p)
                              ELSE c.fifo_retr
<1> DEFINE d == SendData(c, p)
           wire == IF c.channel THEN Append(c.wire, p) ELSE c.wire
           retr == IF Len(c.fifo_retr) < RetrCapacity THEN Append(c.fifo_retr, p)
                   ELSE c.fifo_retr
<1>1. c.wire \in Seq(Pdus) /\ c.fifo_retr \in Seq(Pdus)
  BY DEF Connections
<1>2. wire \in Seq(Pdus) /\ retr \in Seq(Pdus) /\ c.wire \o <<p>> = Append(c.wire, p)
  BY <1>1
<1>3. Plus(c.sn_t, 1) \in SequenceNumbers
  BY SequenceNumbersWrap DEF Connections
<1>4. d = [c EXCEPT !.sn_t = Plus(c.sn_t, 1), !.wire = wire, !.fifo_retr = retr]
  BY <1>2 DEF SendData, Transmit, Connections
<1>5. SendData(c, p) = d
  OBVIOUS
<1> HIDE DEF d, wire, retr
<1>6. /\ d \in Connections /\ d.wire = wire /\ d.fifo_retr = retr
      /\ d = [c EXCEPT !.sn_t = Plus(c.sn_t, 1), !.wire = d.wire, !.fifo_retr = d.fifo_retr]
  BY <1>2, <1>3, <1>4 DEF Connections
<1>7. QED
  BY <1>6 DEF d, wire, retr

LEMMA ThreadsAndUserKeepTypes ==
  ASSUME TypeOK, NEW n \in Nodes,
         SrSend(n) \/ SrDisconnect(n) \/ SendThread(n) \/ Heartbeat(n)
           \/ TiExpires(n) \/ Lose(n)
  PROVE  TypeOK'
<1> DEFINE c == node[n]
<1>1. /\ c \in Connections
      /\ Close(c) \in Connections
      /\ SendNumbered(c, "HB") \in Connections
      /\ SendNumbered(Close(c), "HB") \in Connections
  <2>1. c \in Connections
    BY DEF TypeOK
  <2> HIDE DEF c
  <2>2. QED
    BY <2>1, CloseType, SendNumberedType DEF PduTypes
<1> HIDE DEF c
<1>2. CASE SrSend(n)
  <2>1. sent[n] + 1 \in Nat
    BY DEF TypeOK
  <2>2. [c EXCEPT !.fifo_send = Append(@, sent[n] + 1)] \in Connections
    <3>1. Append(c.fifo_send, sent[n] + 1) \in Seq(Nat)
      BY <1>1, <2>1 DEF Connections
    <3>2. QED
      BY <1>1, <3>1 DEF Connections
  <2>3. Transmit(c, <<Pdu(c, "DISCREQ", <<>>)>>) \in Connections
    BY <1>1, ControlPdu, TransmitType DEF PduTypes
  <2>4. [Transmit(c, <<Pdu(c, "DISCREQ", <<>>)>>) EXCEPT !.state = "CLOSED"] \in Connections
    BY <2>3 DEF Connections, States
  <2>5. node' \in [Nodes -> Connections]
    BY <1>2, <2>2, <2>4, BecomesType DEF SrSend, c
  <2>6. QED
    BY <1>2, <2>1, <2>5 DEF SrSend, TypeOK
<1>3. CASE SrDisconnect(n)
  BY <1>1, <1>3, BecomesType DEF SrDisconnect, TypeOK, c
<1>4. CASE SendThread(n)
  <2> DEFINE k == Min({Len(c.fifo_send), MaxPacket})
             p == Pdu(c, "DATA", SubSeq(c.fifo_send, 1, k))
             rest == [SendData(c, p) EXCEPT !.fifo_send = SubSeq(@, k + 1, Len(@))]
  <2>1. k \in 0..Len(c.fifo_send)
    <3>1. Len(c.fifo_send) \in Nat /\ MaxPacket \in Nat
      BY <1>1, RastaConnectionAssumption DEF Connections
    <3>2. QED
      BY <3>1, MinOfTwo
  <2> HIDE DEF k
  <2>2. /\ SubSeq(c.fifo_send, 1, k) \in Seq(Nat)
        /\ SubSeq(c.fifo_send, k + 1, Len(c.fifo_send)) \in Seq(Nat)
    <3>1. c.fifo_send \in Seq(Nat)
      BY <1>1 DEF Connections
    <3>2. QED
      BY <2>1, <3>1
  <2>3. p \in Pdus
    BY <1>1, <2>2, PduType DEF PduTypes
  <2> HIDE DEF p
  <2>4. rest \in Connections
    <3> DEFINE d == SendData(c, p)
    <3>1. /\ d \in Connections
          /\ d = [c EXCEPT !.sn_t = Plus(c.sn_t, 1), !.wire = d.wire, !.fifo_retr = d.fifo_retr]
      BY <1>1, <2>3, SendDataIs
    <3> HIDE DEF d
    <3>2. d.fifo_send = c.fifo_send
      BY <1>1, <3>1 DEF Connections
    <3>3. [d EXCEPT !.fifo_send = SubSeq(@, k + 1, Len(@))] \in Connections
      BY <2>2, <3>1, <3>2 DEF Connections
    <3>4. QED
      BY <3>3 DEF d
  <2>5. Becomes(n, rest)
    BY <1>4 DEF SendThread, rest, p, k, c
  <2> HIDE DEF rest
  <2>6. QED
    BY <1>4, <2>4, <2>5, BecomesType DEF SendThread, TypeOK
<1>5. CASE Heartbeat(n)
  BY <1>1, <1>5, BecomesType DEF Heartbeat, TypeOK, c
<1>6. CASE TiExpires(n)
  BY <1>1, <1>6, BecomesType DEF TiExpires, TypeOK, c
<1>7. CASE Lose(n)
  <2>1. Peer(n) \in Nodes /\ Wire(n) # <<>> /\ Wire(n) \in Seq(Pdus)
    BY <1>7, PeerIsNode, HeadOfWire DEF Lose
  <2>2. Tail(node[Peer(n)].wire) \in Seq(Pdus)
    BY <2>1 DEF Wire
  <2>3. node' \in [Nodes -> Connections]
    <3> DEFINE e == [node[Peer(n)] EXCEPT !.wire = Tail(node[Peer(n)].wire)]
    <3>1. node[Peer(n)] \in Connections
      BY <2>1 DEF TypeOK
    <3>2. e \in Connections
      BY <2>2, <3>1 DEF Connections
    <3>3. node' = [node EXCEPT ![Peer(n)] = e]
      BY <1>7 DEF Lose
    <3> HIDE DEF e
    <3>4. QED
      BY <3>2, <3>3 DEF TypeOK
  <2>4. QED
    BY <1>7, <2>3 DEF Lose, TypeOK
<1>8. QED
  BY <1>2, <1>3, <1>4, <1>5, <1>6, <1>7

\* In every reachable state the fields of both connections have the types that
\* rastafactory.h and rasta_new.h give them; sequence numbers stay within their width.
THEOREM TypeCorrect == Spec => []TypeOK
<1>1. Init => TypeOK
  BY RastaConnectionAssumption
     DEF Init, TypeOK, Unconnected, Connections, SequenceNumbers, States
<1>2. TypeOK /\ [Next]_vars => TypeOK'
  <2> SUFFICES ASSUME TypeOK, [Next]_vars
               PROVE  TypeOK'
    OBVIOUS
  <2>1. CASE Connect \/ AddConnection \/ HandleConReq
    BY <2>1, ConnectingKeepsTypes
  <2>2. CASE \E n \in Nodes : Handle(n)
    BY <2>2, HandlersKeepTypes
  <2>3. CASE \E n \in Nodes : SrSend(n) \/ SrDisconnect(n) \/ SendThread(n) \/ Heartbeat(n)
                                 \/ TiExpires(n) \/ Lose(n)
    BY <2>3, ThreadsAndUserKeepTypes
  <2>4. CASE UNCHANGED vars
    BY <2>4 DEF vars, TypeOK
  <2>5. QED
    BY <2>1, <2>2, <2>3, <2>4 DEF Next
<1>3. QED
  BY <1>1, <1>2, PTL DEF Spec

-------------------------------------------------------------------------------
(* What the operators change, field by field.                               *)

LEMMA SendNumberedIs ==
  ASSUME NEW c \in Connections, NEW type \in PduTypes
  PROVE  SendNumbered(c, type) =
           [c EXCEPT !.sn_t = Plus(c.sn_t, 1),
                     !.wire = IF c.channel THEN Append(c.wire, Pdu(c, type, <<>>)) ELSE c.wire]
<1>1. c.wire \in Seq(Pdus) /\ Pdu(c, type, <<>>) \in Pdus
  <2>1. <<>> \in Seq(Nat)
    OBVIOUS
  <2>2. QED
    BY <2>1, PduType DEF Connections
<1>2. c.wire \o <<Pdu(c, type, <<>>)>> = Append(c.wire, Pdu(c, type, <<>>))
  BY <1>1
<1>3. QED
  BY <1>2 DEF SendNumbered, Transmit, Connections

LEMMA CloseIs ==
  ASSUME NEW c \in Connections
  PROVE  Close(c) =
           [c EXCEPT !.state = "CLOSED", !.hb_locked = TRUE, !.channel = FALSE,
                     !.wire = IF c.channel /\ c.state # "CLOSED"
                              THEN Append(c.wire, Pdu(c, "DISCREQ", <<>>)) ELSE c.wire]
<1>1. c.wire \in Seq(Pdus) /\ Pdu(c, "DISCREQ", <<>>) \in Pdus
  <2>1. <<>> \in Seq(Nat) /\ "DISCREQ" \in PduTypes
    BY DEF PduTypes
  <2>2. QED
    BY <2>1, PduType DEF Connections
<1>2. c.wire \o <<Pdu(c, "DISCREQ", <<>>)>> = Append(c.wire, Pdu(c, "DISCREQ", <<>>))
  BY <1>1
<1>3. QED
  BY <1>2 DEF Close, Reset, Transmit, Connections

\* v is w with PDUs of some types put on behind.
Adds(w, v, types) ==
    /\ Len(w) <= Len(v)
    /\ \A i \in 1..Len(v) : IF i <= Len(w) THEN v[i] = w[i] ELSE v[i].type \in types

LEMMA SameAdds ==
  ASSUME NEW w \in Seq(Pdus), NEW types
  PROVE  Adds(w, w, types)
BY DEF Adds

LEMMA AppendAdds ==
  ASSUME NEW w \in Seq(Pdus), NEW p \in Pdus
  PROVE  Adds(w, Append(w, p), {p.type})
BY DEF Adds

LEMMA ConcatAdds ==
  ASSUME NEW w \in Seq(Pdus), NEW v \in Seq(Pdus), NEW types,
         \A i \in 1..Len(v) : v[i].type \in types
  PROVE  Adds(w, w \o v, types)
BY DEF Adds

LEMMA AddsInTurn ==
  ASSUME NEW u \in Seq(Pdus), NEW v \in Seq(Pdus), NEW w \in Seq(Pdus), NEW types, NEW more,
         Adds(u, v, types), Adds(v, w, more)
  PROVE  Adds(u, w, types \cup more)
BY DEF Adds

LEMMA AddsFewer ==
  ASSUME NEW w, NEW v, NEW types, NEW more, Adds(w, v, types), types \subseteq more
  PROVE  Adds(w, v, more)
BY DEF Adds

LEMMA CloseAdds ==
  ASSUME NEW c \in Connections
  PROVE  Adds(c.wire, Close(c).wire, {"DISCREQ"})
<1>1. c.wire \in Seq(Pdus) /\ Pdu(c, "DISCREQ", <<>>) \in Pdus
  <2>1. <<>> \in Seq(Nat) /\ "DISCREQ" \in PduTypes
    BY DEF PduTypes
  <2>2. QED
    BY <2>1, PduType DEF Connections
<1>2. Pdu(c, "DISCREQ", <<>>).type = "DISCREQ"
  BY DEF Pdu
<1>3. Close(c).wire \in {c.wire, Append(c.wire, Pdu(c, "DISCREQ", <<>>))}
  BY CloseIs DEF Connections
<1>4. QED
  BY <1>1, <1>2, <1>3, AppendAdds, SameAdds

LEMMA SendNumberedAdds ==
  ASSUME NEW c \in Connections, NEW type \in PduTypes
  PROVE  Adds(c.wire, SendNumbered(c, type).wire, {type})
<1>1. c.wire \in Seq(Pdus) /\ Pdu(c, type, <<>>) \in Pdus
  <2>1. <<>> \in Seq(Nat)
    OBVIOUS
  <2>2. QED
    BY <2>1, PduType DEF Connections
<1>2. Pdu(c, type, <<>>).type = type
  BY DEF Pdu
<1>3. SendNumbered(c, type).wire \in {c.wire, Append(c.wire, Pdu(c, type, <<>>))}
  <2> DEFINE q == Pdu(c, type, <<>>)
             e == SendNumbered(c, type)
  <2>1. e = [c EXCEPT !.sn_t = Plus(c.sn_t, 1),
                      !.wire = IF c.channel THEN Append(c.wire, q) ELSE c.wire]
    BY SendNumberedIs
  <2> HIDE DEF q, e
  <2>2. e.wire \in {c.wire, Append(c.wire, q)}
    BY <2>1 DEF Connections
  <2>3. QED
    BY <2>2 DEF q, e
<1>4. QED
  BY <1>1, <1>2, <1>3, AppendAdds, SameAdds

LEMMA CloseFields ==
  ASSUME NEW c \in Connections
  PROVE  /\ Close(c) \in Connections
         /\ Close(c).state = "CLOSED" /\ Close(c).hb_locked = TRUE /\ Close(c).channel = FALSE
         /\ Close(c).listed = c.listed
         /\ Close(c).fifo_send = c.fifo_send /\ Close(c).fifo_retr = c.fifo_retr
         /\ Close(c).fifo_app_msg = c.fifo_app_msg
         /\ Close(c).sn_t = c.sn_t /\ Close(c).cs_t = c.cs_t
         /\ Adds(c.wire, Close(c).wire, {"DISCREQ"})
<1> DEFINE w == IF c.channel /\ c.state # "CLOSED"
                THEN Append(c.wire, Pdu(c, "DISCREQ", <<>>)) ELSE c.wire
<1>1. Close(c) = [c EXCEPT !.state = "CLOSED", !.hb_locked = TRUE, !.channel = FALSE, !.wire = w]
  BY CloseIs
<1> HIDE DEF w
<1>2. QED
  BY <1>1, CloseType, CloseAdds DEF Connections

LEMMA SendNumberedFields ==
  ASSUME NEW c \in Connections, NEW type \in PduTypes
  PROVE  LET e == SendNumbered(c, type)
         IN  /\ e \in Connections
             /\ e.state = c.state /\ e.hb_locked = c.hb_locked /\ e.channel = c.channel
             /\ e.listed = c.listed
             /\ e.fifo_send = c.fifo_send /\ e.fifo_retr = c.fifo_retr
             /\ e.fifo_app_msg = c.fifo_app_msg
             /\ e.cs_t = c.cs_t /\ e.sn_t = Plus(c.sn_t, 1)
             /\ Adds(c.wire, e.wire, {type})
<1> DEFINE w == IF c.channel THEN Append(c.wire, Pdu(c, type, <<>>)) ELSE c.wire
           e == SendNumbered(c, type)
<1>1. e = [c EXCEPT !.sn_t = Plus(c.sn_t, 1), !.wire = w]
  BY SendNumberedIs
<1>2. e \in Connections /\ Adds(c.wire, e.wire, {type})
  BY SendNumberedType, SendNumberedAdds
<1> HIDE DEF w, e
<1>3. QED
  BY <1>1, <1>2 DEF Connections, e

(* Changes on changes of a record.                                          *)
LEMMA ChangedAgain ==
  ASSUME NEW c, NEW d, NEW r, NEW a, NEW b, NEW f, NEW x, NEW y,
         d = [c EXCEPT !.sn_t = a, !.wire = b, !.fifo_retr = f],
         r = [d EXCEPT !.sn_t = x, !.wire = y]
  PROVE  r = [c EXCEPT !.sn_t = x, !.wire = y, !.fifo_retr = f]
OBVIOUS

LEMMA StateChanged ==
  ASSUME NEW c, NEW d, NEW r, NEW a, NEW b, NEW f, NEW x,
         d = [c EXCEPT !.sn_t = a, !.wire = b, !.fifo_retr = f],
         r = [d EXCEPT !.state = x]
  PROVE  r = [c EXCEPT !.sn_t = a, !.wire = b, !.fifo_retr = f, !.state = x]
OBVIOUS

\* What sr_retransmit_data leaves alone, whatever it makes of the rest.
LEMMA RetransmissionAdds ==
  ASSUME NEW c \in Connections, NEW r \in Retransmitted(c)
  PROVE  /\ r = [c EXCEPT !.sn_t = r.sn_t, !.wire = r.wire, !.fifo_retr = r.fifo_retr,
                          !.state = r.state]
         /\ r.state \in {c.state, "CRASHED"}
         /\ Adds(c.wire, r.wire, {"RETRDATA", "HB"})
<1>1. ASSUME NEW payloads \in Seq(Seq(Nat))
      PROVE  LET d == Renumber(c, payloads)
             IN  /\ d = [c EXCEPT !.sn_t = d.sn_t, !.wire = d.wire, !.fifo_retr = d.fifo_retr]
                 /\ Adds(c.wire, d.wire, {"RETRDATA"})
                 /\ d \in Connections
  <2> DEFINE d == Renumber(c, payloads)
             pdus == Renumbered(c, payloads)
  <2>1. pdus \in Seq(Pdus) /\ \A i \in 1..Len(pdus) : pdus[i].type \in {"RETRDATA"}
    BY RenumberIs DEF Renumbered
  <2>2. /\ d = [c EXCEPT !.sn_t = d.sn_t, !.wire = d.wire, !.fifo_retr = d.fifo_retr]
        /\ d.wire = c.wire \/ d.wire = c.wire \o pdus
    <3>1. PICK kept \in 0..Len(payloads) :
            d = [c EXCEPT !.sn_t = Plus(c.sn_t, Len(payloads)),
                          !.wire = IF c.channel THEN c.wire \o pdus ELSE c.wire,
                          !.fifo_retr = SubSeq(pdus, 1, kept)]
      BY RenumberIs
    <3> HIDE DEF d, pdus
    <3>2. QED
      BY <3>1 DEF Connections
  <2>3. c.wire \in Seq(Pdus)
    BY DEF Connections
  <2> HIDE DEF pdus, d
  <2>4. Adds(c.wire, d.wire, {"RETRDATA"})
    <3>1. Adds(c.wire, c.wire, {"RETRDATA"}) /\ Adds(c.wire, c.wire \o pdus, {"RETRDATA"})
      BY <2>1, <2>3, ConcatAdds, SameAdds
    <3>2. QED
      BY <2>2, <3>1
  <2>5. QED
    BY <2>2, <2>4, RenumberType DEF d
<1>2. CASE \E junk \in Leftovers :
             r = SendNumbered(Renumber(c, Append(Payloads(c), junk)), "HB")
  <2>1. PICK junk \in Leftovers :
               r = SendNumbered(Renumber(c, Append(Payloads(c), junk)), "HB")
    BY <1>2
  <2>2. Append(Payloads(c), junk) \in Seq(Seq(Nat))
    BY PayloadsType, RastaConnectionAssumption
  <2> DEFINE d == Renumber(c, Append(Payloads(c), junk))
  <2>3. /\ d = [c EXCEPT !.sn_t = d.sn_t, !.wire = d.wire, !.fifo_retr = d.fifo_retr]
        /\ Adds(c.wire, d.wire, {"RETRDATA"})
        /\ d \in Connections
    BY <1>1, <2>2
  <2> HIDE DEF d
  <2>4. /\ r = [d EXCEPT !.sn_t = r.sn_t, !.wire = r.wire]
        /\ Adds(d.wire, r.wire, {"HB"})
        /\ r \in Connections
    <3>1. r = SendNumbered(d, "HB") /\ "HB" \in PduTypes
      BY <2>1 DEF d, PduTypes
    <3>2. r = [d EXCEPT !.sn_t = Plus(d.sn_t, 1),
                        !.wire = IF d.channel THEN Append(d.wire, Pdu(d, "HB", <<>>)) ELSE d.wire]
      BY <2>3, <3>1, SendNumberedIs
    <3>3. r = [d EXCEPT !.sn_t = r.sn_t, !.wire = r.wire]
      BY <2>3, <3>2 DEF Connections
    <3>4. Adds(d.wire, r.wire, {"HB"}) /\ r \in Connections
      BY <2>3, <3>1, SendNumberedAdds, SendNumberedType
    <3>5. QED
      BY <3>3, <3>4
  <2>5. Adds(c.wire, r.wire, {"RETRDATA"} \cup {"HB"})
    <3>1. c.wire \in Seq(Pdus) /\ d.wire \in Seq(Pdus) /\ r.wire \in Seq(Pdus)
      BY <2>3, <2>4 DEF Connections
    <3>2. QED
      BY <2>3, <2>4, <3>1, AddsInTurn
  <2>6. Adds(c.wire, r.wire, {"RETRDATA", "HB"})
    BY <2>5, AddsFewer
  <2>7. /\ r = [c EXCEPT !.sn_t = r.sn_t, !.wire = r.wire, !.fifo_retr = r.fifo_retr,
                         !.state = r.state]
        /\ r.state = c.state
    <3>0. {"sn_t", "wire", "fifo_retr", "state"} \subseteq DOMAIN c
      BY DEF Connections
    <3>1. r = [c EXCEPT !.sn_t = r.sn_t, !.wire = r.wire, !.fifo_retr = d.fifo_retr]
      BY <2>3, <2>4, ChangedAgain
    <3>2. r.fifo_retr = d.fifo_retr /\ r.state = c.state
      BY <3>1, <3>0
    <3>3. r = [c EXCEPT !.sn_t = r.sn_t, !.wire = r.wire, !.fifo_retr = r.fifo_retr]
      BY <3>1, <3>2
    <3>4. ASSUME NEW a, NEW b, NEW f, r = [c EXCEPT !.sn_t = a, !.wire = b, !.fifo_retr = f]
          PROVE  r = [c EXCEPT !.sn_t = a, !.wire = b, !.fifo_retr = f, !.state = r.state]
      BY <3>2, <3>4
    <3>5. r = [c EXCEPT !.sn_t = r.sn_t, !.wire = r.wire, !.fifo_retr = r.fifo_retr,
                        !.state = r.state]
      BY <3>3, <3>4, Zenon
    <3>6. QED
      BY <3>2, <3>5
  <2>8. QED
    BY <2>6, <2>7
<1>3. CASE r = [Renumber(c, Payloads(c)) EXCEPT !.state = "CRASHED"]
  <2> DEFINE d == Renumber(c, Payloads(c))
  <2>1. /\ d = [c EXCEPT !.sn_t = d.sn_t, !.wire = d.wire, !.fifo_retr = d.fifo_retr]
        /\ Adds(c.wire, d.wire, {"RETRDATA"})
        /\ d \in Connections
    BY <1>1, PayloadsType
  <2> HIDE DEF d
  <2>2. r = [d EXCEPT !.state = "CRASHED"]
    BY <1>3 DEF d
  <2>3. Adds(c.wire, r.wire, {"RETRDATA", "HB"})
    BY <2>1, <2>2, AddsFewer DEF Connections
  <2>4. /\ r = [c EXCEPT !.sn_t = d.sn_t, !.wire = d.wire, !.fifo_retr = d.fifo_retr,
                         !.state = "CRASHED"]
        /\ {"sn_t", "wire", "fifo_retr", "state"} \subseteq DOMAIN c
    BY <2>1, <2>2, StateChanged DEF Connections
  <2>5. /\ r.sn_t = d.sn_t /\ r.wire = d.wire /\ r.fifo_retr = d.fifo_retr
        /\ r.state = "CRASHED"
    BY <2>4
  <2>6. QED
    BY <2>3, <2>4, <2>5
<1>4. QED
  BY <1>2, <1>3 DEF Retransmitted

-------------------------------------------------------------------------------
(* The handshake.                                                           *)

\* What holds of each side by itself: as long as heartbeat_thread is locked
\* out, the side is not past the handshake.
SideInv(c) ==
    /\ c.hb_locked => c.state \in {"START", "CLOSED", "CRASHED"}
    /\ c.state = "START" => c.hb_locked /\ c.channel

Only(w, types) == \A i \in 1..Len(w) : w[i].type \in types

\* What is true of a server that has not had the first heartbeat yet.
Waits(s) ==
    /\ s.hb_locked /\ s.state \in {"START", "CLOSED"}
    /\ s.fifo_send = <<>> /\ Only(s.wire, {"CONRESP", "DISCREQ"})

\* The connection has not been closed by a DiscReq, or does not exist yet.
Open(c) == c.channel \/ ~c.listed

\* A side that is not in its process's list of connections.
UnlistedInv ==
    LET c == node["client"]
        s == node["server"]
    IN  /\ ~s.listed => s = Unconnected
        /\ ~c.listed =>
             \/ c = Unconnected /\ ~s.listed
             \/ /\ c.state = "START" /\ c.channel
                /\ c.fifo_send = <<>> /\ c.fifo_retr = <<>> /\ c.fifo_app_msg = <<>>

\* The ConReq is the first PDU of the client and nothing else is.
RequestInv ==
    /\ \A i \in 1..Len(node["client"].wire) :
         node["client"].wire[i].type = "CONREQ" => i = 1 /\ ~node["server"].listed
    /\ \A i \in 1..Len(node["server"].wire) : node["server"].wire[i].type # "CONREQ"

\* A server that is not watched yet, and whose connection is open, waits, and
\* its client has not been asked to retransmit anything.
ServerInv ==
    LET c == node["client"]
        s == node["server"]
    IN  s.hb_locked /\ Open(s) =>
          /\ Waits(s)
          /\ Only(c.wire, {"CONREQ", "HB", "DATA", "DISCREQ"})
          /\ c.state \in {"START", "UP", "CLOSED"}

\* A client that is not watched yet, and whose connection is open, has sent its
\* ConReq at most, and its server waits.
ClientInv ==
    LET c == node["client"]
        s == node["server"]
    IN  c.hb_locked /\ Open(c) =>
          /\ Waits(s)
          /\ Only(c.wire, {"CONREQ", "DISCREQ"})
          /\ c.fifo_send = <<>> /\ c.state \in {"START", "CLOSED"}

HandshakeInv ==
    /\ \A n \in Nodes : SideInv(node[n])
    /\ UnlistedInv /\ RequestInv /\ ServerInv /\ ClientInv

\* What a handler, or a step of a thread or of the user, may make of a side c
\* with respect to the handshake.
Progress(c, e) ==
    /\ ~c.listed => e = c
    /\ e.listed = c.listed
    /\ e.channel => c.channel
    /\ e.hb_locked /\ e.channel => c.hb_locked
    /\ Adds(c.wire, e.wire, PduTypes \ {"CONREQ", "CONRESP"})

\* Before the handshake's end a PDU of these types changes nothing, or ends the
\* handshake or the connection.
Answer(c, p, e) ==
    /\ p.type # "CONREQ"
    /\ SideInv(c) /\ (p.type = "RETRREQ" /\ c.channel => ~c.hb_locked) => SideInv(e)
    /\ p.type \in {"HB", "DATA", "CONRESP"} /\ c.state \in {"START", "CLOSED"}
         /\ e.hb_locked /\ e.channel => e = c
    /\ p.type \in {"CONRESP", "DISCREQ"} =>
         e.state \in {c.state, "UP", "CLOSED"} /\ Adds(c.wire, e.wire, {"HB", "DISCREQ"})
    /\ p.type = "DISCREQ" =>
         /\ e.wire = c.wire /\ e.fifo_send = c.fifo_send
         /\ e = c \/ (~e.channel /\ e.hb_locked /\ e.state = "CLOSED")

LEMMA SameAnswer ==
  ASSUME NEW c \in Connections, NEW p \in Pdus, p.type # "CONREQ"
  PROVE  Progress(c, c) /\ Answer(c, p, c)
<1>1. /\ Adds(c.wire, c.wire, {"HB", "DISCREQ"})
      /\ Adds(c.wire, c.wire, PduTypes \ {"CONREQ", "CONRESP"})
  BY SameAdds DEF Connections
<1>2. QED
  BY <1>1 DEF Progress, Answer

LEMMA CloseAnswers ==
  ASSUME NEW c \in Connections, NEW p \in Pdus, c.listed, p.type \notin {"CONREQ", "DISCREQ"}
  PROVE  Progress(c, Close(c)) /\ Answer(c, p, Close(c))
<1> DEFINE e == Close(c)
<1>1. /\ e.state = "CLOSED" /\ e.hb_locked /\ ~e.channel /\ e.listed = c.listed
  BY CloseFields
<1>2. /\ Adds(c.wire, e.wire, {"HB", "DISCREQ"})
      /\ Adds(c.wire, e.wire, PduTypes \ {"CONREQ", "CONRESP"})
  BY CloseAdds, AddsFewer DEF PduTypes
<1> HIDE DEF e
<1>3. Progress(c, e) /\ Answer(c, p, e)
  BY <1>1, <1>2 DEF Progress, Answer, SideInv
<1>4. QED
  BY <1>3 DEF e

LEMMA SupervisedAnswers ==
  ASSUME NEW c \in Connections, NEW p \in Pdus, NEW e \in Connections,
         c.listed, c.state \in Supervised,
         p.type \notin {"CONREQ", "CONRESP", "DISCREQ"},
         e.listed = c.listed, e.channel = c.channel, e.hb_locked = c.hb_locked,
         e.state \in Supervised, Adds(c.wire, e.wire, {"RETRREQ"})
  PROVE  Progress(c, e) /\ Answer(c, p, e)
<1>1. Adds(c.wire, e.wire, PduTypes \ {"CONREQ", "CONRESP"})
  BY AddsFewer DEF PduTypes
<1>2. QED
  BY <1>1 DEF Progress, Answer, SideInv, Supervised

\* Every handler is Progress, and an Answer to what it takes.
LEMMA HandlersAnswer ==
  ASSUME TypeOK, NEW n \in Nodes, Handle(n)
  PROVE  /\ Wire(n) # <<>>
         /\ \E e \in Connections : /\ Taken(n, e)
                                   /\ Progress(node[n], e)
                                   /\ Answer(node[n], Head(Wire(n)), e)
<1> DEFINE c == node[n]
           p == Head(Wire(n))
<1>1. Wire(n) # <<>>
  BY DEF Handle, HandleConResp, HandleDiscReq, HbCompletesHandshake, HbInSequence,
         HbAfterGap, DataInSequence, DataAfterGap, DataBeforeHandshake, HandleRetrReq,
         HandleRetrResp, RetrDataInSequence, RetrDataAfterGap, Ignore, Discard, Receives
<1>2. c \in Connections /\ p \in Pdus /\ c.wire \in Seq(Pdus)
  BY <1>1, HeadOfWire DEF Connections
<1>3. /\ Accept(c, p) \in Connections /\ Close(c) \in Connections
      /\ Deliver(c, p) \in Connections
      /\ Accept(Deliver(c, p), p) \in Connections
      /\ Minus(c.sn_t, 1) \in SequenceNumbers /\ p.cs \in SequenceNumbers
  <2>1. c.sn_t \in SequenceNumbers /\ p.cs \in SequenceNumbers
    BY <1>2 DEF Connections, Pdus
  <2> HIDE DEF c, p
  <2>2. Deliver(c, p) \in Connections
    BY <1>2, DeliverType
  <2>3. QED
    BY <1>2, <2>1, <2>2, AcceptType, CloseType, SequenceNumbersWrap
<1>4. c.listed \/ Discard(n)
  BY DEF Handle, HandleConResp, HandleDiscReq, HbCompletesHandshake, HbInSequence,
         HbAfterGap, DataInSequence, DataAfterGap, DataBeforeHandshake, HandleRetrReq,
         HandleRetrResp, RetrDataInSequence, RetrDataAfterGap, Ignore, Receives
<1> HIDE DEF c, p
<1>5. SUFFICES \E e \in Connections : Taken(n, e) /\ Progress(c, e) /\ Answer(c, p, e)
  BY <1>1 DEF c, p
<1>6. CASE Ignore(n) \/ Discard(n)
  <2>1. Taken(n, c) /\ p.type # "CONREQ"
    BY <1>6 DEF Ignore, Discard, Receives, c, p
  <2>2. QED
    BY <1>2, <2>1, SameAnswer
<1> USE <1>2, <1>3
<1>7. AskAgain(c) \in Connections /\ Adds(c.wire, AskAgain(c).wire, {"RETRREQ"})
       /\ AskAgain(c).listed = c.listed /\ AskAgain(c).channel = c.channel
       /\ AskAgain(c).hb_locked = c.hb_locked /\ AskAgain(c).state = "RETRREQ"
  <2> DEFINE s == SendNumbered(c, "RETRREQ")
  <2>1. /\ s \in Connections /\ Adds(c.wire, s.wire, {"RETRREQ"})
        /\ s.listed = c.listed /\ s.channel = c.channel /\ s.hb_locked = c.hb_locked
    <3>1. "RETRREQ" \in PduTypes
      BY DEF PduTypes
    <3>2. QED
      BY <3>1, SendNumberedFields
  <2>2. AskAgain(c) = [s EXCEPT !.state = "RETRREQ"]
    BY DEF AskAgain
  <2> HIDE DEF s
  <2>3. QED
    BY <2>1, <2>2 DEF Connections, States
<1>8. Adds(c.wire, c.wire, {"RETRREQ"})
  BY SameAdds
<1>9. CASE HandleConResp(n)
  <2>1. p.type = "CONRESP" /\ c.listed
    BY <1>9 DEF HandleConResp, Receives, c, p
  <2>2. CASE Taken(n, Close(c))
    BY <2>1, <2>2, CloseAnswers
  <2>3. CASE Taken(n, c)
    BY <2>1, <2>3, SameAnswer
  <2>4. CASE c.state = "START" /\ Taken(n, SendNumbered(Establish(c, p), "HB"))
    <3> DEFINE d == Establish(c, p)
               e == SendNumbered(d, "HB")
    <3>1. /\ d \in Connections /\ d.wire = c.wire /\ d.listed = c.listed
          /\ d.channel = c.channel /\ ~d.hb_locked /\ d.state = "UP"
      BY EstablishType DEF Establish, Accept, Connections
    <3> HIDE DEF d
    <3>2. "HB" \in PduTypes
      BY DEF PduTypes
    <3>3. /\ e \in Connections /\ Adds(d.wire, e.wire, {"HB"}) /\ e.listed = d.listed
          /\ e.channel = d.channel /\ e.hb_locked = d.hb_locked /\ e.state = d.state
      BY <3>1, <3>2, SendNumberedFields
    <3> HIDE DEF e
    <3>4. /\ Adds(c.wire, e.wire, {"HB", "DISCREQ"})
          /\ Adds(c.wire, e.wire, PduTypes \ {"CONREQ", "CONRESP"})
      BY <3>1, <3>3, AddsFewer DEF PduTypes
    <3>5. Progress(c, e) /\ Answer(c, p, e)
      BY <2>1, <3>1, <3>3, <3>4 DEF Progress, Answer, SideInv
    <3>6. QED
      BY <2>4, <3>3, <3>5 DEF d, e
  <2>5. QED
    BY <1>9, <2>2, <2>3, <2>4 DEF HandleConResp, c, p
<1>10. CASE HandleDiscReq(n)
  <2> DEFINE e == [Reset(c) EXCEPT !.channel = FALSE]
  <2>1. /\ e \in Connections /\ e.wire = c.wire /\ e.listed = c.listed
        /\ ~e.channel /\ e.hb_locked /\ e.state = "CLOSED" /\ e.fifo_send = c.fifo_send
    BY DEF Reset, Connections, States
  <2>2. p.type = "DISCREQ" /\ c.listed /\ Taken(n, e)
    BY <1>10 DEF HandleDiscReq, Receives, c, p
  <2> HIDE DEF e
  <2>3. /\ Adds(c.wire, e.wire, {"HB", "DISCREQ"})
        /\ Adds(c.wire, e.wire, PduTypes \ {"CONREQ", "CONRESP"})
    BY <2>1, SameAdds
  <2>4. Progress(c, e) /\ Answer(c, p, e)
    BY <2>1, <2>2, <2>3 DEF Progress, Answer, SideInv
  <2>5. QED
    BY <2>1, <2>2, <2>4
<1>11. CASE HbCompletesHandshake(n)
  <2> DEFINE c1 == IF SnInSeq(c, p) THEN c ELSE Close(c)
             c2 == IF n = "client" THEN Close(c1) ELSE c1
  <2>1. p.type = "HB" /\ c.listed /\ c.state = "START"
    BY <1>11 DEF HbCompletesHandshake, Receives, c, p
  <2>2. /\ c1 \in Connections /\ Adds(c.wire, c1.wire, {"DISCREQ"})
        /\ c1.listed = c.listed /\ (c1.channel => c.channel)
    BY CloseFields, SameAdds
  <2> HIDE DEF c1
  <2>3. /\ c2 \in Connections /\ Adds(c.wire, c2.wire, {"DISCREQ"})
        /\ c2.listed = c.listed /\ (c2.channel => c.channel)
    <3>1. /\ Close(c1) \in Connections /\ Adds(c1.wire, Close(c1).wire, {"DISCREQ"})
          /\ Close(c1).listed = c1.listed /\ ~Close(c1).channel
      BY <2>2, CloseFields
    <3>2. Adds(c.wire, Close(c1).wire, {"DISCREQ"} \cup {"DISCREQ"})
      BY <2>2, <3>1, AddsInTurn DEF Connections
    <3>3. Adds(c.wire, Close(c1).wire, {"DISCREQ"})
      BY <3>2, AddsFewer
    <3>4. QED
      BY <2>2, <3>1, <3>3
  <2> HIDE DEF c2
  <2>4. /\ Close(c2) \in Connections /\ Adds(c2.wire, Close(c2).wire, {"DISCREQ"})
        /\ Close(c2).listed = c2.listed /\ ~Close(c2).channel
        /\ Close(c2).hb_locked /\ Close(c2).state = "CLOSED"
    BY <2>3, CloseFields
  <2>5. /\ Establish(c2, p) \in Connections /\ Establish(c2, p).wire = c2.wire
        /\ Establish(c2, p).listed = c2.listed /\ Establish(c2, p).channel = c2.channel
        /\ ~Establish(c2, p).hb_locked /\ Establish(c2, p).state = "UP"
    BY <2>3, EstablishType DEF Establish, Accept, Connections
  <2>6. Adds(c.wire, Close(c2).wire, {"DISCREQ"} \cup {"DISCREQ"})
    BY <2>3, <2>4, AddsInTurn DEF Connections
  <2>7. PICK e \in {Establish(c2, p), Close(c2)} : Taken(n, e)
    BY <1>11 DEF HbCompletesHandshake, c, p, c1, c2
  <2>8. /\ e \in Connections /\ Adds(c.wire, e.wire, PduTypes \ {"CONREQ", "CONRESP"})
        /\ e.listed = c.listed /\ (e.channel => c.channel)
        /\ \/ ~e.hb_locked /\ e.state = "UP"
           \/ e.hb_locked /\ ~e.channel /\ e.state = "CLOSED"
    BY <2>3, <2>4, <2>5, <2>6, AddsFewer DEF PduTypes
  <2>9. Progress(c, e) /\ Answer(c, p, e)
    BY <2>1, <2>8 DEF Progress, Answer, SideInv
  <2>10. QED
    BY <2>7, <2>8, <2>9
<1>12. CASE HbInSequence(n)
  <2> DEFINE e == [Accept(c, p) EXCEPT !.cs_r = Minus(c.sn_t, 1), !.state = "UP"]
  <2>1. p.type = "HB" /\ c.listed /\ c.state \in Supervised /\ (Taken(n, e) \/ Taken(n, Close(c)))
    BY <1>12 DEF HbInSequence, Receives, Supervised, c, p
  <2>2. /\ e \in Connections /\ e.wire = c.wire /\ e.listed = c.listed /\ e.state \in Supervised
        /\ e.channel = c.channel /\ e.hb_locked = c.hb_locked
    BY DEF Accept, Connections, States, Supervised
  <2> HIDE DEF e
  <2>3. QED
    BY <1>8, <2>1, <2>2, CloseAnswers, SupervisedAnswers
<1>13. CASE HbAfterGap(n)
  <2> DEFINE e == [c EXCEPT !.state = "RETRREQ"]
  <2>1. p.type = "HB" /\ c.listed /\ c.state \in Supervised /\ Taken(n, e)
    BY <1>13 DEF HbAfterGap, Receives, Supervised, c, p
  <2>2. /\ e \in Connections /\ e.wire = c.wire /\ e.listed = c.listed /\ e.state \in Supervised
        /\ e.channel = c.channel /\ e.hb_locked = c.hb_locked
    BY DEF Connections, States, Supervised
  <2> HIDE DEF e
  <2>3. QED
    BY <1>8, <2>1, <2>2, SupervisedAnswers
<1>14. CASE DataInSequence(n)
  <2> DEFINE d == [Accept(Deliver(c, p), p) EXCEPT !.cs_r = p.cs]
             e == RemoveConfirmed(d)
  <2>1. /\ p.type = "DATA" /\ c.listed /\ c.state \in Supervised
        /\ Taken(n, Close(c)) \/ Taken(n, e) \/ Taken(n, Accept(c, p))
    BY <1>14 DEF DataInSequence, Receives, Supervised, c, p
  <2>2. /\ d \in Connections /\ d.wire = c.wire /\ d.listed = c.listed /\ d.state = c.state
        /\ d.channel = c.channel /\ d.hb_locked = c.hb_locked
    BY DEF Accept, Deliver, Connections, States
  <2> HIDE DEF d
  <2>3. /\ e \in Connections /\ e.wire = c.wire /\ e.listed = c.listed /\ e.state = c.state
        /\ e.channel = c.channel /\ e.hb_locked = c.hb_locked
    BY <2>2, RemoveConfirmedIsSuffix, RemoveConfirmedType DEF Connections
  <2> HIDE DEF e
  <2>4. /\ Accept(c, p).wire = c.wire /\ Accept(c, p).listed = c.listed
        /\ Accept(c, p).state = c.state /\ Accept(c, p).channel = c.channel
        /\ Accept(c, p).hb_locked = c.hb_locked
    BY DEF Accept, Connections
  <2>5. Progress(c, e) /\ Answer(c, p, e)
    BY <1>8, <2>1, <2>3, SupervisedAnswers
  <2>6. Progress(c, Accept(c, p)) /\ Answer(c, p, Accept(c, p))
    BY <1>8, <2>1, <2>4, SupervisedAnswers
  <2>7. QED
    BY <2>1, <2>3, <2>5, <2>6, CloseAnswers
<1>15. CASE DataAfterGap(n)
  <2>1. p.type = "DATA" /\ c.listed /\ c.state \in Supervised /\ Taken(n, AskAgain(c))
    BY <1>15 DEF DataAfterGap, Receives, Supervised, c, p
  <2>2. "RETRREQ" \in Supervised
    BY DEF Supervised
  <2>3. QED
    BY <1>7, <2>1, <2>2, SupervisedAnswers
<1>16. CASE DataBeforeHandshake(n)
  <2>1. p.type = "DATA" /\ c.listed /\ Taken(n, Close(c))
    BY <1>16 DEF DataBeforeHandshake, Receives, c, p
  <2>2. QED
    BY <2>1, CloseAnswers
<1>17. CASE HandleRetrReq(n)
  <2> DEFINE c1 == IF ~SnInSeq(c, p) THEN c
                   ELSE Accept(IF c.state = "RETRRUN" THEN Close(c) ELSE c, p)
             c2 == RemoveConfirmed([c1 EXCEPT !.cs_r = p.cs])
             c3 == SendNumbered(c2, "RETRRESP")
  <2>1. PICK r \in Retransmitted(c3) :
               Taken(n, IF SnInSeq(c, p) \/ r.state = "CRASHED" THEN r
                        ELSE [r EXCEPT !.state = "RETRREQ"])
    BY <1>17 DEF HandleRetrReq, c, p
  <2>2. p.type = "RETRREQ" /\ c.listed /\ c.channel
    BY <1>17 DEF HandleRetrReq, Receives, c, p
  <2>3. /\ c1 \in Connections /\ Adds(c.wire, c1.wire, {"DISCREQ"}) /\ c1.listed = c.listed
        /\ (c1.channel => c.channel) /\ (c1.channel => c1.hb_locked = c.hb_locked)
        /\ \/ c1.state = c.state /\ c1.channel = c.channel /\ c1.hb_locked = c.hb_locked
           \/ SnInSeq(c, p) /\ c1.state = "CLOSED"
    <3> DEFINE b == IF c.state = "RETRRUN" THEN Close(c) ELSE c
    <3>1. /\ b \in Connections /\ Adds(c.wire, b.wire, {"DISCREQ"}) /\ b.listed = c.listed
          /\ (b.channel => c.channel) /\ (b.channel => b.hb_locked = c.hb_locked)
          /\ \/ b.state = c.state /\ b.channel = c.channel /\ b.hb_locked = c.hb_locked
             \/ b.state = "CLOSED"
      BY CloseFields, SameAdds
    <3> HIDE DEF b
    <3>2. /\ Accept(b, p) \in Connections /\ Accept(b, p).wire = b.wire
          /\ Accept(b, p).listed = b.listed /\ Accept(b, p).state = b.state
          /\ Accept(b, p).channel = b.channel /\ Accept(b, p).hb_locked = b.hb_locked
      BY <3>1, AcceptType DEF Accept, Connections
    <3>3. c1 = IF ~SnInSeq(c, p) THEN c ELSE Accept(b, p)
      BY DEF b
    <3> HIDE DEF c1
    <3>4. QED
      BY <3>1, <3>2, <3>3, SameAdds
  <2> HIDE DEF c1
  <2>4. /\ c2 \in Connections /\ c2.wire = c1.wire /\ c2.listed = c1.listed
        /\ c2.channel = c1.channel /\ c2.hb_locked = c1.hb_locked /\ c2.state = c1.state
    <3> DEFINE d == [c1 EXCEPT !.cs_r = p.cs]
    <3>1. /\ d \in Connections /\ d.wire = c1.wire /\ d.listed = c1.listed
          /\ d.channel = c1.channel /\ d.hb_locked = c1.hb_locked /\ d.state = c1.state
      BY <2>3 DEF Connections
    <3>2. c2 = RemoveConfirmed(d)
      OBVIOUS
    <3> HIDE DEF c2, d
    <3>3. \E h \in 0..Len(d.fifo_retr) :
            c2 = [d EXCEPT !.fifo_retr = SubSeq(d.fifo_retr, h + 1, Len(d.fifo_retr))]
      BY <3>1, <3>2, RemoveConfirmedIsSuffix
    <3>4. c2 \in Connections
      BY <3>1, <3>2, RemoveConfirmedType
    <3>5. QED
      BY <3>1, <3>3, <3>4 DEF Connections
  <2> HIDE DEF c2
  <2>5. /\ c3 \in Connections /\ Adds(c2.wire, c3.wire, {"RETRRESP"}) /\ c3.listed = c2.listed
        /\ c3.channel = c2.channel /\ c3.hb_locked = c2.hb_locked /\ c3.state = c2.state
    <3>1. "RETRRESP" \in PduTypes
      BY DEF PduTypes
    <3>2. QED
      BY <2>4, <3>1, SendNumberedFields
  <2> HIDE DEF c3
  <2>6. /\ r \in Connections /\ Adds(c3.wire, r.wire, {"RETRDATA", "HB"}) /\ r.listed = c3.listed
        /\ r.channel = c3.channel /\ r.hb_locked = c3.hb_locked /\ r.state \in {c3.state, "CRASHED"}
    <3>1. /\ r = [c3 EXCEPT !.sn_t = r.sn_t, !.wire = r.wire, !.fifo_retr = r.fifo_retr,
                             !.state = r.state]
          /\ r.state \in {c3.state, "CRASHED"}
          /\ Adds(c3.wire, r.wire, {"RETRDATA", "HB"})
      BY <2>1, <2>5, RetransmissionAdds
    <3>2. r \in Connections
      BY <2>1, <2>5, RetransmittedType
    <3>3. r.listed = c3.listed /\ r.channel = c3.channel /\ r.hb_locked = c3.hb_locked
      BY <2>5, <3>1 DEF Connections
    <3>4. QED
      BY <3>1, <3>2, <3>3
  <2>7. Adds(c.wire, r.wire, PduTypes \ {"CONREQ", "CONRESP"})
    <3>1. Adds(c.wire, c3.wire, {"DISCREQ"} \cup {"RETRRESP"})
      BY <2>3, <2>4, <2>5, AddsInTurn DEF Connections
    <3>2. Adds(c.wire, r.wire, ({"DISCREQ"} \cup {"RETRRESP"}) \cup {"RETRDATA", "HB"})
      BY <2>5, <2>6, <3>1, AddsInTurn DEF Connections
    <3>3. QED
      BY <3>2, AddsFewer DEF PduTypes
  <2> DEFINE e == IF SnInSeq(c, p) \/ r.state = "CRASHED" THEN r
                  ELSE [r EXCEPT !.state = "RETRREQ"]
  <2>8. /\ e \in Connections /\ e.wire = r.wire /\ e.listed = r.listed /\ e.channel = r.channel
        /\ e.hb_locked = r.hb_locked
        /\ \/ e.state = "RETRREQ" /\ ~SnInSeq(c, p)
           \/ e.state = "CRASHED"
           \/ e.state = r.state /\ SnInSeq(c, p)
    BY <2>6 DEF Connections, States
  <2>9. Taken(n, e)
    BY <2>1
  <2> HIDE DEF e
  <2>10. Progress(c, e)
    BY <2>2, <2>3, <2>4, <2>5, <2>6, <2>7, <2>8 DEF Progress
  <2>11. SideInv(c) /\ ~c.hb_locked => SideInv(e)
    BY <2>3, <2>4, <2>5, <2>6, <2>8 DEF SideInv
  <2>12. QED
    BY <2>2, <2>8, <2>9, <2>10, <2>11 DEF Answer
<1>18. CASE HandleRetrResp(n)
  <2> DEFINE e == [Accept(c, p) EXCEPT !.cs_r = Minus(c.sn_t, 1), !.state = "RETRRUN"]
  <2>1. /\ p.type = "RETRRESP" /\ c.listed
        /\ \/ Taken(n, Close(c))
           \/ c.state \in Supervised /\ Taken(n, e)
    <3>1. p.type = "RETRRESP" /\ c.listed /\ Taken(n, IF c.state = "RETRREQ" THEN e ELSE Close(c))
      BY <1>18 DEF HandleRetrResp, Receives, c, p
    <3> HIDE DEF e
    <3>2. QED
      BY <3>1 DEF Supervised
  <2>2. /\ e \in Connections /\ e.wire = c.wire /\ e.listed = c.listed /\ e.state \in Supervised
        /\ e.channel = c.channel /\ e.hb_locked = c.hb_locked
    BY DEF Accept, Connections, States, Supervised
  <2> HIDE DEF e
  <2>3. QED
    BY <1>8, <2>1, <2>2, CloseAnswers, SupervisedAnswers
<1>19. CASE RetrDataInSequence(n)
  <2> DEFINE e == [Accept(Deliver(c, p), p) EXCEPT !.cs_r = p.cs]
  <2>1. /\ p.type = "RETRDATA" /\ c.listed /\ c.state \in Supervised
        /\ Taken(n, Close(c)) \/ Taken(n, e)
    BY <1>19 DEF RetrDataInSequence, Receives, Supervised, c, p
  <2>2. /\ e \in Connections /\ e.wire = c.wire /\ e.listed = c.listed /\ e.state = c.state
        /\ e.channel = c.channel /\ e.hb_locked = c.hb_locked
    BY DEF Accept, Deliver, Connections
  <2> HIDE DEF e
  <2>3. QED
    BY <1>8, <2>1, <2>2, CloseAnswers, SupervisedAnswers
<1>20. CASE RetrDataAfterGap(n)
  <2>1. /\ p.type = "RETRDATA" /\ c.listed /\ c.state \in Supervised
        /\ Taken(n, Close(c)) \/ Taken(n, AskAgain(c))
    BY <1>20 DEF RetrDataAfterGap, Receives, Supervised, c, p
  <2>2. "RETRREQ" \in Supervised
    BY DEF Supervised
  <2>3. QED
    BY <1>7, <2>1, <2>2, CloseAnswers, SupervisedAnswers
<1>21. QED
  BY <1>6, <1>9, <1>10, <1>11, <1>12, <1>13, <1>14, <1>15, <1>16, <1>17, <1>18, <1>19, <1>20
     DEF Handle

LEMMA HandlersKeepHandshake ==
  ASSUME TypeOK, HandshakeInv, NEW n \in Nodes, Handle(n)
  PROVE  HandshakeInv'
<1> DEFINE p == Head(Wire(n))
           d == node[Peer(n)]
           t == [d EXCEPT !.wire = Tail(d.wire)]
<1>1. PICK e \in Connections :
             Taken(n, e) /\ Progress(node[n], e) /\ Answer(node[n], p, e)
  BY HandlersAnswer
<1>2. /\ Wire(n) # <<>> /\ Wire(n) = d.wire /\ d.wire \in Seq(Pdus)
      /\ d \in Connections /\ node[n] \in Connections /\ p \in Pdus
  BY HandlersAnswer, HeadOfWire, PeerIsNode DEF Wire, TypeOK
<1>3. /\ t \in Connections /\ t.wire = Tail(d.wire) /\ t.listed = d.listed /\ t.state = d.state
      /\ t.channel = d.channel /\ t.hb_locked = d.hb_locked
      /\ t.fifo_send = d.fifo_send /\ t.fifo_retr = d.fifo_retr
      /\ t.fifo_app_msg = d.fifo_app_msg
  <2> HIDE DEF d
  <2>1. Tail(d.wire) \in Seq(Pdus)
    BY <1>2
  <2>2. QED
    BY <1>2, <2>1 DEF Connections
<1>4. node'[n] = e /\ node'[Peer(n)] = t
  BY <1>1, PeerIsNode DEF Taken
<1>5. /\ p = d.wire[1] /\ 1 \in 1..Len(d.wire) /\ Len(t.wire) = Len(d.wire) - 1
      /\ \A i \in 1..Len(t.wire) : i + 1 \in 1..Len(d.wire) /\ t.wire[i] = d.wire[i + 1]
  <2> HIDE DEF t, d
  <2>1. p = Head(d.wire)
    BY <1>2
  <2>2. QED
    BY <1>2, <1>3, <2>1
<1>6. ASSUME NEW types, Only(d.wire, types)
      PROVE  Only(t.wire, types) /\ p.type \in types
  BY <1>5, <1>6 DEF Only
<1> HIDE DEF p, d, t
<1>7. CASE n = "client"
  <2>1. /\ node["client"] \in Connections /\ d = node["server"]
        /\ node'["client"] = e /\ node'["server"] = t
    BY <1>2, <1>4, <1>7 DEF Peer, d
  <2> DEFINE c == node["client"]
  <2>2. Progress(c, e) /\ Answer(c, p, e)
    BY <1>1, <1>7
  <2>3. SideInv(c) /\ SideInv(d)
    BY <2>1 DEF HandshakeInv, Nodes
  <2>4. c.hb_locked /\ c.channel => p.type \in {"CONRESP", "DISCREQ"}
    BY <1>6, <2>1 DEF HandshakeInv, ClientInv, Open, Waits
  <2>5. SideInv(e)
    BY <2>2, <2>3, <2>4 DEF Answer
  <2>6. SideInv(t)
    BY <1>3, <2>3 DEF SideInv
  <2>7. d.listed
    BY <1>2, <2>1 DEF HandshakeInv, UnlistedInv, Unconnected
  <2>8. UnlistedInv'
    BY <1>3, <2>1, <2>2, <2>7 DEF HandshakeInv, UnlistedInv, Progress
  <2>9. RequestInv'
    <3>1. \A i \in 1..Len(e.wire) : e.wire[i].type # "CONREQ"
      <4>1. \A i \in 1..Len(c.wire) : c.wire[i].type # "CONREQ"
        BY <2>1, <2>7 DEF HandshakeInv, RequestInv
      <4>2. c.wire \in Seq(Pdus) /\ e.wire \in Seq(Pdus)
        BY <1>1, <2>1 DEF Connections
      <4>3. QED
        BY <2>2, <4>1, <4>2 DEF Progress, Adds
    <3>2. \A i \in 1..Len(t.wire) : t.wire[i].type # "CONREQ"
      BY <1>5, <2>1 DEF HandshakeInv, RequestInv
    <3>3. QED
      BY <2>1, <3>1, <3>2 DEF RequestInv
  <2>10. Waits(d) => Waits(t)
    BY <1>3, <1>6 DEF Waits
  <2>11. ServerInv'
    <3>1. SUFFICES ASSUME t.hb_locked, Open(t)
                   PROVE  /\ Waits(t)
                          /\ Only(e.wire, {"CONREQ", "HB", "DATA", "DISCREQ"})
                          /\ e.state \in {"START", "UP", "CLOSED"}
      BY <2>1 DEF ServerInv
    <3>2. /\ Waits(d)
          /\ Only(c.wire, {"CONREQ", "HB", "DATA", "DISCREQ"})
          /\ c.state \in {"START", "UP", "CLOSED"}
      BY <1>3, <2>1, <3>1 DEF HandshakeInv, ServerInv, Open
    <3>3. p.type \in {"CONRESP", "DISCREQ"}
      BY <1>6, <3>2 DEF Waits
    <3>4. e.state \in {c.state, "UP", "CLOSED"} /\ Adds(c.wire, e.wire, {"HB", "DISCREQ"})
      BY <2>2, <3>3 DEF Answer
    <3>5. c.wire \in Seq(Pdus) /\ e.wire \in Seq(Pdus)
      BY <1>1, <2>1 DEF Connections
    <3>6. Only(e.wire, {"CONREQ", "HB", "DATA", "DISCREQ"})
      BY <3>2, <3>4, <3>5 DEF Adds, Only
    <3>7. QED
      BY <2>10, <3>2, <3>4, <3>6
  <2>12. ClientInv'
    <3>1. SUFFICES ASSUME e.hb_locked, Open(e)
                   PROVE  /\ Waits(t)
                          /\ Only(e.wire, {"CONREQ", "DISCREQ"})
                          /\ e.fifo_send = <<>> /\ e.state \in {"START", "CLOSED"}
      BY <2>1 DEF ClientInv
    <3>2. c.hb_locked /\ Open(c)
      BY <2>2, <3>1 DEF Progress, Open
    <3>3. /\ Waits(d)
          /\ Only(c.wire, {"CONREQ", "DISCREQ"})
          /\ c.fifo_send = <<>> /\ c.state \in {"START", "CLOSED"}
      BY <2>1, <3>2 DEF HandshakeInv, ClientInv
    <3>4. p.type \in {"CONRESP", "DISCREQ"}
      BY <1>6, <3>3 DEF Waits
    <3>5. e = c
      BY <2>2, <3>1, <3>3, <3>4 DEF Answer, Progress, Open
    <3>6. QED
      BY <2>10, <3>3, <3>5
  <2>13. QED
    BY <2>1, <2>5, <2>6, <2>8, <2>9, <2>11, <2>12 DEF HandshakeInv, Nodes
<1>8. CASE n = "server"
  <2>1. /\ node["server"] \in Connections /\ d = node["client"]
        /\ node'["server"] = e /\ node'["client"] = t
    BY <1>2, <1>4, <1>8 DEF Peer, d
  <2> DEFINE s == node["server"]
  <2>2. Progress(s, e) /\ Answer(s, p, e)
    BY <1>1, <1>8
  <2>3. SideInv(s) /\ SideInv(d)
    BY <2>1 DEF HandshakeInv, Nodes
  <2>4. s.hb_locked /\ s.channel => p.type \in {"HB", "DATA", "DISCREQ"}
    BY <1>6, <2>1, <2>2 DEF HandshakeInv, ServerInv, Open, Answer
  <2>5. SideInv(e)
    BY <2>2, <2>3, <2>4 DEF Answer
  <2>6. SideInv(t)
    BY <1>3, <2>3 DEF SideInv
  <2>7. UnlistedInv'
    <3>1. ~e.listed => e = Unconnected
      BY <2>1, <2>2 DEF HandshakeInv, UnlistedInv, Progress
    <3>2. d # Unconnected
      BY <1>2 DEF Unconnected
    <3>3. QED
      BY <1>3, <2>1, <3>1, <3>2 DEF HandshakeInv, UnlistedInv
  <2>8. RequestInv'
    <3>1. \A i \in 1..Len(e.wire) : e.wire[i].type # "CONREQ"
      <4>1. \A i \in 1..Len(s.wire) : s.wire[i].type # "CONREQ"
        BY <2>1 DEF HandshakeInv, RequestInv
      <4>2. s.wire \in Seq(Pdus) /\ e.wire \in Seq(Pdus)
        BY <1>1, <2>1 DEF Connections
      <4>3. QED
        BY <2>2, <4>1, <4>2 DEF Progress, Adds
    <3>2. ASSUME NEW i \in 1..Len(t.wire)
          PROVE  t.wire[i].type # "CONREQ"
      <4>1. d.wire[i + 1].type = "CONREQ" => i + 1 = 1
        BY <1>5, <2>1 DEF HandshakeInv, RequestInv
      <4>2. i + 1 # 1
        OBVIOUS
      <4>3. QED
        BY <1>5, <4>1, <4>2
    <3>3. QED
      BY <2>1, <3>1, <3>2 DEF RequestInv
  <2>9. ServerInv'
    <3>1. SUFFICES ASSUME e.hb_locked, Open(e)
                   PROVE  /\ Waits(e)
                          /\ Only(t.wire, {"CONREQ", "HB", "DATA", "DISCREQ"})
                          /\ t.state \in {"START", "UP", "CLOSED"}
      BY <2>1 DEF ServerInv
    <3>2. s.hb_locked /\ Open(s)
      BY <2>2, <3>1 DEF Progress, Open
    <3>3. /\ Waits(s)
          /\ Only(d.wire, {"CONREQ", "HB", "DATA", "DISCREQ"})
          /\ d.state \in {"START", "UP", "CLOSED"}
      BY <2>1, <3>2 DEF HandshakeInv, ServerInv
    <3>4. p.type \in {"HB", "DATA", "DISCREQ"}
      BY <1>6, <2>2, <3>3 DEF Answer
    <3>5. e = s
      BY <2>2, <3>1, <3>3, <3>4 DEF Answer, Progress, Open, Waits
    <3>6. QED
      BY <1>3, <1>6, <3>3, <3>5
  <2>10. ClientInv'
    <3>1. SUFFICES ASSUME t.hb_locked, Open(t)
                   PROVE  /\ Waits(e)
                          /\ Only(t.wire, {"CONREQ", "DISCREQ"})
                          /\ t.fifo_send = <<>> /\ t.state \in {"START", "CLOSED"}
      BY <2>1 DEF ClientInv
    <3>2. /\ Waits(s)
          /\ Only(d.wire, {"CONREQ", "DISCREQ"})
          /\ d.fifo_send = <<>> /\ d.state \in {"START", "CLOSED"}
      BY <1>3, <2>1, <3>1 DEF HandshakeInv, ClientInv, Open
    <3>3. p.type = "DISCREQ"
      BY <1>6, <2>2, <3>2 DEF Answer
    <3>4. Waits(e)
      BY <2>2, <3>2, <3>3 DEF Answer, Waits
    <3>5. QED
      BY <1>3, <1>6, <3>2, <3>4
  <2>11. QED
    BY <2>1, <2>5, <2>6, <2>7, <2>8, <2>9, <2>10 DEF HandshakeInv, Nodes
<1>9. QED
  BY <1>7, <1>8 DEF Nodes

\* What the threads and the user of a side may make of it.
Own(c, e) ==
    /\ c.listed /\ Progress(c, e)
    /\ SideInv(c) => SideInv(e)
    /\ e.state \in {c.state, "CLOSED"}
    /\ Adds(c.wire, e.wire, {"HB", "DATA", "DISCREQ"})
    /\ c.hb_locked /\ c.fifo_send = <<>> /\ c.state \in {"START", "CLOSED"} =>
         e.hb_locked /\ e.fifo_send = <<>> /\ Adds(c.wire, e.wire, {"DISCREQ"})

\* Closing, sending a heartbeat after it or not, and sending one while watched.
LEMMA ClosingIsOwn ==
  ASSUME NEW c \in Connections, c.listed
  PROVE  Own(c, Close(c)) /\ Own(c, SendNumbered(Close(c), "HB"))
<1> DEFINE d == Close(c)
           e == SendNumbered(d, "HB")
<1>1. /\ d \in Connections /\ d.state = "CLOSED" /\ d.hb_locked /\ ~d.channel
      /\ d.listed = c.listed /\ d.fifo_send = c.fifo_send
      /\ Adds(c.wire, d.wire, {"DISCREQ"})
  BY CloseFields
<1> HIDE DEF d
<1>2. "HB" \in PduTypes
  BY DEF PduTypes
<1>3. /\ e.state = d.state /\ e.hb_locked = d.hb_locked /\ e.channel = d.channel
      /\ e.listed = d.listed /\ e.fifo_send = d.fifo_send
  BY <1>1, <1>2, SendNumberedFields
<1>4. e.wire = d.wire
  <2>1. e = [d EXCEPT !.sn_t = Plus(d.sn_t, 1),
                      !.wire = IF d.channel THEN Append(d.wire, Pdu(d, "HB", <<>>)) ELSE d.wire]
    BY <1>1, <1>2, SendNumberedIs
  <2> HIDE DEF e
  <2>2. QED
    BY <1>1, <2>1 DEF Connections
<1>5. /\ Adds(c.wire, d.wire, {"HB", "DATA", "DISCREQ"})
      /\ Adds(c.wire, d.wire, PduTypes \ {"CONREQ", "CONRESP"})
  BY <1>1, AddsFewer DEF PduTypes
<1> HIDE DEF e
<1>6. Own(c, d) /\ Own(c, e)
  BY <1>1, <1>3, <1>4, <1>5 DEF Own, Progress, SideInv
<1>7. QED
  BY <1>6 DEF d, e

LEMMA HeartbeatIsOwn ==
  ASSUME NEW c \in Connections, c.listed, ~c.hb_locked
  PROVE  Own(c, SendNumbered(c, "HB"))
<1> DEFINE e == SendNumbered(c, "HB")
<1>1. "HB" \in PduTypes
  BY DEF PduTypes
<1>2. /\ e.state = c.state /\ e.hb_locked = c.hb_locked /\ e.channel = c.channel
      /\ e.listed = c.listed /\ e.fifo_send = c.fifo_send /\ Adds(c.wire, e.wire, {"HB"})
  BY <1>1, SendNumberedFields
<1> HIDE DEF e
<1>3. /\ Adds(c.wire, e.wire, {"HB", "DATA", "DISCREQ"})
      /\ Adds(c.wire, e.wire, PduTypes \ {"CONREQ", "CONRESP"})
  BY <1>2, AddsFewer DEF PduTypes
<1>4. Own(c, e)
  BY <1>2, <1>3 DEF Own, Progress, SideInv
<1>5. QED
  BY <1>4 DEF e

LEMMA ThreadsAndUserAreOwn ==
  ASSUME TypeOK, NEW n \in Nodes,
         SrSend(n) \/ SrDisconnect(n) \/ SendThread(n) \/ Heartbeat(n) \/ TiExpires(n)
  PROVE  \E e : Becomes(n, e) /\ Own(node[n], e)
<1> DEFINE c == node[n]
<1>1. c \in Connections /\ c.wire \in Seq(Pdus) /\ sent[n] \in Nat
  BY DEF TypeOK, Connections
<1> HIDE DEF c
<1>2. SUFFICES \E e : Becomes(n, e) /\ Own(c, e)
  BY DEF c
<1>3. \A types : Adds(c.wire, c.wire, types)
  BY <1>1, SameAdds
<1>4. CASE SrSend(n)
  <2>1. c.listed
    BY <1>4 DEF SrSend, c
  <2>2. CASE c.state = "UP" /\ Becomes(n, [c EXCEPT !.fifo_send = Append(@, sent[n] + 1)])
    <3> DEFINE e == [c EXCEPT !.fifo_send = Append(@, sent[n] + 1)]
    <3>1. /\ e.state = c.state /\ e.hb_locked = c.hb_locked /\ e.channel = c.channel
          /\ e.listed = c.listed /\ e.wire = c.wire
      BY <1>1 DEF Connections
    <3> HIDE DEF e
    <3>2. /\ Adds(c.wire, e.wire, {"HB", "DATA", "DISCREQ"})
          /\ Adds(c.wire, e.wire, PduTypes \ {"CONREQ", "CONRESP"})
      BY <1>1, <3>1, SameAdds
    <3>3. Own(c, e)
      BY <2>1, <2>2, <3>1, <3>2 DEF Own, Progress, SideInv
    <3>4. QED
      BY <2>2, <3>3 DEF e
  <2>3. CASE /\ c.state \in {"START", "RETRREQ", "RETRRUN"}
             /\ Becomes(n, [Transmit(c, <<Pdu(c, "DISCREQ", <<>>)>>) EXCEPT !.state = "CLOSED"])
    <3> DEFINE pdus == <<Pdu(c, "DISCREQ", <<>>)>>
               t == Transmit(c, pdus)
               e == [t EXCEPT !.state = "CLOSED"]
    <3>1. pdus \in Seq(Pdus) /\ \A i \in 1..Len(pdus) : pdus[i].type \in {"DISCREQ"}
      <4>1. "DISCREQ" \in PduTypes
        BY DEF PduTypes
      <4>2. QED
        BY <1>1, <4>1, ControlPdu DEF Pdu
    <3> HIDE DEF pdus
    <3>2. /\ t.hb_locked = c.hb_locked /\ t.channel = c.channel /\ t.listed = c.listed
          /\ t.fifo_send = c.fifo_send /\ t.wire \in {c.wire, c.wire \o pdus}
          /\ t \in Connections
      BY <1>1, <3>1, TransmitType DEF Transmit, Connections
    <3> HIDE DEF t
    <3>3. /\ e.state = "CLOSED" /\ e.hb_locked = c.hb_locked /\ e.channel = c.channel
          /\ e.listed = c.listed /\ e.fifo_send = c.fifo_send
          /\ e.wire \in {c.wire, c.wire \o pdus}
      BY <3>2 DEF Connections
    <3> HIDE DEF e
    <3>4. Adds(c.wire, e.wire, {"DISCREQ"})
      <4>1. Adds(c.wire, c.wire, {"DISCREQ"}) /\ Adds(c.wire, c.wire \o pdus, {"DISCREQ"})
        BY <1>1, <3>1, ConcatAdds, SameAdds
      <4>2. QED
        BY <3>3, <4>1
    <3>5. /\ Adds(c.wire, e.wire, {"HB", "DATA", "DISCREQ"})
          /\ Adds(c.wire, e.wire, PduTypes \ {"CONREQ", "CONRESP"})
      BY <3>4, AddsFewer DEF PduTypes
    <3>6. Own(c, e)
      BY <2>1, <3>3, <3>4, <3>5 DEF Own, Progress, SideInv
    <3>7. QED
      BY <2>3, <3>6 DEF e, t, pdus
  <2>4. QED
    BY <1>4, <2>2, <2>3 DEF SrSend, c
<1>5. CASE SrDisconnect(n)
  BY <1>1, <1>5, ClosingIsOwn DEF SrDisconnect, c
<1>6. CASE SendThread(n)
  <2> DEFINE k == Min({Len(c.fifo_send), MaxPacket})
             p == Pdu(c, "DATA", SubSeq(c.fifo_send, 1, k))
             d == SendData(c, p)
             e == [d EXCEPT !.fifo_send = SubSeq(@, k + 1, Len(@))]
  <2>1. k \in 0..Len(c.fifo_send)
    <3>1. Len(c.fifo_send) \in Nat /\ MaxPacket \in Nat
      BY <1>1, RastaConnectionAssumption DEF Connections
    <3>2. QED
      BY <3>1, MinOfTwo
  <2>2. c.listed /\ k > 0 /\ Becomes(n, e)
    BY <1>6 DEF SendThread, c
  <2> HIDE DEF k
  <2>3. p \in Pdus /\ p.type = "DATA" /\ c.fifo_send # <<>>
    <3>1. c.fifo_send \in Seq(Nat)
      BY <1>1 DEF Connections
    <3>2. SubSeq(c.fifo_send, 1, k) \in Seq(Nat) /\ c.fifo_send # <<>>
      BY <2>1, <2>2, <3>1
    <3>3. QED
      BY <1>1, <3>2, PduType DEF Pdu, PduTypes
  <2> HIDE DEF p
  <2>4. /\ e.state = c.state /\ e.hb_locked = c.hb_locked /\ e.channel = c.channel
        /\ e.listed = c.listed /\ e.wire \in {c.wire, Append(c.wire, p)}
    <3>1. /\ d \in Connections /\ d.wire \in {c.wire, Append(c.wire, p)}
          /\ d = [c EXCEPT !.sn_t = Plus(c.sn_t, 1), !.wire = d.wire, !.fifo_retr = d.fifo_retr]
      BY <1>1, <2>3, SendDataIs
    <3> HIDE DEF d
    <3>2. /\ d.state = c.state /\ d.hb_locked = c.hb_locked /\ d.channel = c.channel
          /\ d.listed = c.listed
      BY <1>1, <3>1 DEF Connections
    <3>3. /\ e.state = d.state /\ e.hb_locked = d.hb_locked /\ e.channel = d.channel
          /\ e.listed = d.listed /\ e.wire = d.wire
      BY <3>1 DEF Connections
    <3>4. QED
      BY <3>1, <3>2, <3>3
  <2> HIDE DEF e
  <2>5. Adds(c.wire, e.wire, {"DATA"})
    <3>1. Adds(c.wire, c.wire, {"DATA"}) /\ Adds(c.wire, Append(c.wire, p), {"DATA"})
      BY <1>1, <2>3, AppendAdds, SameAdds
    <3>2. QED
      BY <2>4, <3>1
  <2>6. /\ Adds(c.wire, e.wire, {"HB", "DATA", "DISCREQ"})
        /\ Adds(c.wire, e.wire, PduTypes \ {"CONREQ", "CONRESP"})
    BY <2>5, AddsFewer DEF PduTypes
  <2>7. Own(c, e)
    BY <2>2, <2>3, <2>4, <2>6 DEF Own, Progress, SideInv
  <2>8. QED
    BY <2>2, <2>7
<1>7. CASE Heartbeat(n)
  BY <1>1, <1>7, HeartbeatIsOwn DEF Heartbeat, Watched, c
<1>8. CASE TiExpires(n)
  BY <1>1, <1>8, ClosingIsOwn DEF TiExpires, Watched, c
<1>9. QED
  BY <1>4, <1>5, <1>6, <1>7, <1>8

LEMMA OwnStepsKeepHandshake ==
  ASSUME TypeOK, TypeOK', HandshakeInv, NEW n \in Nodes, NEW e, Becomes(n, e), Own(node[n], e)
  PROVE  HandshakeInv'
<1>1. /\ node'[n] = e /\ node'[Peer(n)] = node[Peer(n)]
      /\ e \in Connections /\ node[n] \in Connections /\ node[Peer(n)] \in Connections
  BY PeerIsNode DEF Becomes, TypeOK
<1>2. e.wire \in Seq(Pdus) /\ node[n].wire \in Seq(Pdus)
  BY <1>1 DEF Connections
<1>3. SideInv(e)
  BY DEF HandshakeInv, Own
<1>4. node[n].listed /\ e.listed
  BY DEF Own, Progress
<1>5. ASSUME NEW types, Only(node[n].wire, types)
      PROVE  /\ {"HB", "DATA", "DISCREQ"} \subseteq types => Only(e.wire, types)
             /\ /\ node[n].hb_locked /\ node[n].fifo_send = <<>>
                /\ node[n].state \in {"START", "CLOSED"} /\ "DISCREQ" \in types
                => Only(e.wire, types)
  BY <1>2, <1>5 DEF Own, Adds, Only
<1>6. CASE n = "client"
  <2>1. /\ node'["client"] = e /\ node'["server"] = node["server"]
        /\ Own(node["client"], e)
    BY <1>1, <1>6 DEF Peer
  <2>2. SideInv(node["server"])
    BY DEF HandshakeInv, Nodes
  <2>3. UnlistedInv'
    BY <1>4, <1>6, <2>1 DEF HandshakeInv, UnlistedInv
  <2>4. RequestInv'
    BY <1>2, <1>6, <2>1 DEF HandshakeInv, RequestInv, Own, Adds
  <2>5. ServerInv'
    BY <1>5, <1>6, <2>1 DEF HandshakeInv, ServerInv, Own
  <2>6. ClientInv'
    BY <1>4, <1>5, <1>6, <2>1 DEF HandshakeInv, ClientInv, Own, Progress, Open
  <2>7. QED
    BY <1>3, <2>1, <2>2, <2>3, <2>4, <2>5, <2>6 DEF HandshakeInv, Nodes
<1>7. CASE n = "server"
  <2>1. /\ node'["server"] = e /\ node'["client"] = node["client"]
        /\ Own(node["server"], e)
    BY <1>1, <1>7 DEF Peer
  <2>2. SideInv(node["client"])
    BY DEF HandshakeInv, Nodes
  <2>3. UnlistedInv'
    BY <1>4, <1>7, <2>1 DEF HandshakeInv, UnlistedInv
  <2>4. RequestInv'
    BY <1>2, <1>4, <1>7, <2>1 DEF HandshakeInv, RequestInv, Own, Adds
  <2>5. Waits(node["server"]) => Waits(e)
    BY <1>5, <1>7, <2>1 DEF Waits, Own
  <2>6. ServerInv'
    BY <1>4, <1>7, <2>1, <2>5 DEF HandshakeInv, ServerInv, Own, Progress, Open
  <2>7. ClientInv'
    BY <2>1, <2>5 DEF HandshakeInv, ClientInv
  <2>8. QED
    BY <1>3, <2>1, <2>2, <2>3, <2>4, <2>6, <2>7 DEF HandshakeInv, Nodes
<1>8. QED
  BY <1>6, <1>7 DEF Nodes

\* A PDU less on a wire does no harm.
LEMMA LosingKeepsHandshake ==
  ASSUME TypeOK, HandshakeInv, NEW n \in Nodes, Lose(n)
  PROVE  HandshakeInv'
<1> DEFINE d == node[Peer(n)]
           t == [d EXCEPT !.wire = Tail(d.wire)]
<1>1. /\ Wire(n) # <<>> /\ Wire(n) = d.wire /\ d.wire \in Seq(Pdus)
      /\ d \in Connections /\ Peer(n) \in Nodes
  BY HeadOfWire, PeerIsNode DEF Lose, Wire, TypeOK
<1>2. node' = [node EXCEPT ![Peer(n)] = t]
  BY DEF Lose
<1>3. /\ t.wire = Tail(d.wire) /\ t.listed = d.listed /\ t.state = d.state
      /\ t.channel = d.channel /\ t.hb_locked = d.hb_locked
      /\ t.fifo_send = d.fifo_send /\ t.fifo_retr = d.fifo_retr
      /\ t.fifo_app_msg = d.fifo_app_msg
  <2> HIDE DEF d
  <2>1. QED
    BY <1>1 DEF Connections
<1>4. /\ Len(t.wire) = Len(d.wire) - 1
      /\ \A i \in 1..Len(t.wire) : i + 1 \in 1..Len(d.wire) /\ t.wire[i] = d.wire[i + 1]
                                   /\ i + 1 # 1
  <2> HIDE DEF t, d
  <2>1. QED
    BY <1>1, <1>3
<1> HIDE DEF d, t
<1>5. \A types : Only(d.wire, types) => Only(t.wire, types)
  BY <1>4 DEF Only
<1>6. d # Unconnected
  BY <1>1 DEF Unconnected
<1>7. SideInv(d) => SideInv(t)
  BY <1>3 DEF SideInv
<1>8. Waits(d) => Waits(t)
  BY <1>3, <1>5 DEF Waits
<1>9. CASE Peer(n) = "client"
  <2>1. /\ d = node["client"] /\ node'["client"] = t /\ node'["server"] = node["server"]
    BY <1>1, <1>2, <1>9 DEF TypeOK, Nodes, d
  <2>2. SideInv(t) /\ SideInv(node["server"])
    BY <1>7, <2>1 DEF HandshakeInv, Nodes
  <2>3. UnlistedInv'
    BY <1>3, <1>6, <2>1 DEF HandshakeInv, UnlistedInv
  <2>4. RequestInv'
    BY <1>4, <2>1 DEF HandshakeInv, RequestInv
  <2>5. ServerInv'
    BY <1>3, <1>5, <2>1 DEF HandshakeInv, ServerInv
  <2>6. ClientInv'
    BY <1>3, <1>5, <2>1 DEF HandshakeInv, ClientInv, Open
  <2>7. QED
    BY <2>1, <2>2, <2>3, <2>4, <2>5, <2>6 DEF HandshakeInv, Nodes
<1>10. CASE Peer(n) = "server"
  <2>1. /\ d = node["server"] /\ node'["server"] = t /\ node'["client"] = node["client"]
    BY <1>1, <1>2, <1>10 DEF TypeOK, Nodes, d
  <2>2. SideInv(t) /\ SideInv(node["client"])
    BY <1>7, <2>1 DEF HandshakeInv, Nodes
  <2>3. UnlistedInv'
    BY <1>3, <1>6, <2>1 DEF HandshakeInv, UnlistedInv
  <2>4. RequestInv'
    BY <1>3, <1>4, <2>1 DEF HandshakeInv, RequestInv
  <2>5. ServerInv'
    BY <1>3, <1>8, <2>1 DEF HandshakeInv, ServerInv, Open
  <2>6. ClientInv'
    BY <1>8, <2>1 DEF HandshakeInv, ClientInv
  <2>7. QED
    BY <2>1, <2>2, <2>3, <2>4, <2>5, <2>6 DEF HandshakeInv, Nodes
<1>11. QED
  BY <1>1, <1>9, <1>10 DEF Nodes

LEMMA ConnectingKeepsHandshake ==
  ASSUME TypeOK, HandshakeInv, Connect \/ AddConnection \/ HandleConReq
  PROVE  HandshakeInv'
<1> DEFINE c == node["client"]
           s == node["server"]
<1>1. "client" \in Nodes /\ "server" \in Nodes /\ c \in Connections /\ s \in Connections
  BY DEF Nodes, TypeOK
<1>2. c.wire \in Seq(Pdus) /\ s.wire \in Seq(Pdus)
  BY <1>1 DEF Connections
<1> HIDE DEF c, s
<1>3. SideInv(c) /\ SideInv(s)
  BY <1>1 DEF HandshakeInv, c, s
<1>4. CASE Connect
  <2> DEFINE new(sn_r, cs_r) == [Unconnected EXCEPT !.sn_t = InitialSn["client"],
                                    !.sn_r = sn_r, !.cs_r = cs_r, !.channel = TRUE]
  <2>1. PICK sn_r \in Unset, cs_r \in Unset :
          Becomes("client",
            [SendNumbered(new(sn_r, cs_r), "CONREQ") EXCEPT !.state = "START"])
    BY <1>4 DEF Connect
  <2> DEFINE b == new(sn_r, cs_r)
             d == SendNumbered(b, "CONREQ")
             e == [d EXCEPT !.state = "START"]
  <2>2. b \in Connections
    <3>1. sn_r \in SequenceNumbers /\ cs_r \in SequenceNumbers
      BY RastaConnectionAssumption
    <3>2. InitialSn["client"] \in SequenceNumbers
      BY RastaConnectionAssumption, <1>1
    <3>3. QED
      BY <3>1, <3>2, UnconnectedType DEF Connections
  <2>3. /\ b.wire = <<>> /\ b.channel /\ b.hb_locked /\ ~b.listed
        /\ b.fifo_send = <<>> /\ b.fifo_retr = <<>> /\ b.fifo_app_msg = <<>>
    BY DEF Unconnected
  <2>4. "CONREQ" \in PduTypes /\ "START" \in States
    BY DEF PduTypes, States
  <2> HIDE DEF b
  <2>5. /\ d \in Connections /\ d.channel /\ d.hb_locked /\ ~d.listed
        /\ d.fifo_send = <<>> /\ d.fifo_retr = <<>> /\ d.fifo_app_msg = <<>>
        /\ Adds(b.wire, d.wire, {"CONREQ"})
        /\ d.wire = Append(b.wire, Pdu(b, "CONREQ", <<>>))
    <3>1. d = [b EXCEPT !.sn_t = Plus(b.sn_t, 1),
                        !.wire = IF b.channel THEN Append(b.wire, Pdu(b, "CONREQ", <<>>))
                                 ELSE b.wire]
      BY <2>2, <2>4, SendNumberedIs
    <3>2. d.wire = Append(b.wire, Pdu(b, "CONREQ", <<>>))
      BY <2>2, <2>3, <3>1 DEF Connections
    <3>3. QED
      BY <2>2, <2>3, <2>4, <3>2, SendNumberedFields
  <2> HIDE DEF d
  <2>6. /\ e.state = "START" /\ e.channel /\ e.hb_locked /\ ~e.listed
        /\ e.fifo_send = <<>> /\ e.fifo_retr = <<>> /\ e.fifo_app_msg = <<>>
        /\ e.wire = d.wire
    BY <2>5 DEF Connections
  <2>7. Len(e.wire) = 1 /\ Only(e.wire, {"CONREQ"})
    <3>1. Pdu(b, "CONREQ", <<>>) \in Pdus
      <4>1. <<>> \in Seq(Nat)
        OBVIOUS
      <4>2. QED
        BY <2>2, <2>4, <4>1, PduType
    <3>2. Len(e.wire) = 1
      BY <2>3, <2>5, <2>6, <3>1
    <3>3. QED
      BY <2>3, <2>5, <2>6, <3>2 DEF Adds, Only
  <2>8. node'["client"] = e /\ node'["server"] = s
    BY <1>1, <2>1 DEF Becomes, TypeOK, Nodes, s, e, d, b
  <2> HIDE DEF e
  <2>9. c = Unconnected /\ ~s.listed
    BY <1>4 DEF Connect, HandshakeInv, UnlistedInv, c, s
  <2>10. s = Unconnected
    BY <2>9 DEF HandshakeInv, UnlistedInv, s
  <2>11. SideInv(e)
    BY <2>6 DEF SideInv
  <2>12. UnlistedInv'
    BY <2>6, <2>8, <2>9, <2>10 DEF UnlistedInv
  <2>13. RequestInv'
    BY <2>7, <2>8, <2>9, <2>10 DEF RequestInv, Unconnected
  <2>14. Waits(s)
    BY <2>10 DEF Waits, Unconnected, Only
  <2>15. ServerInv' /\ ClientInv'
    BY <2>6, <2>7, <2>8, <2>14 DEF ServerInv, ClientInv, Only
  <2>16. QED
    BY <1>3, <2>8, <2>11, <2>12, <2>13, <2>15 DEF HandshakeInv, Nodes
<1>5. CASE AddConnection
  <2> DEFINE e == [c EXCEPT !.listed = TRUE]
  <2>1. /\ e.state = c.state /\ e.channel = c.channel /\ e.hb_locked = c.hb_locked /\ e.listed
        /\ e.fifo_send = c.fifo_send /\ e.wire = c.wire
    BY <1>1 DEF Connections
  <2>2. node'["client"] = e /\ node'["server"] = s
    BY <1>1, <1>5 DEF AddConnection, Becomes, TypeOK, Nodes, s, c
  <2>3. c.state = "START" /\ ~c.listed
    BY <1>5 DEF AddConnection, c
  <2> HIDE DEF e
  <2>4. SideInv(e)
    BY <1>3, <2>1 DEF SideInv
  <2>5. UnlistedInv'
    BY <2>1, <2>2 DEF HandshakeInv, UnlistedInv, s
  <2>6. RequestInv'
    BY <2>1, <2>2 DEF HandshakeInv, RequestInv, s, c
  <2>7. ServerInv' /\ ClientInv'
    BY <1>3, <2>1, <2>2, <2>3 DEF HandshakeInv, ServerInv, ClientInv, SideInv, Open, s, c
  <2>8. QED
    BY <1>3, <2>2, <2>4, <2>5, <2>6, <2>7 DEF HandshakeInv, Nodes
<1>6. CASE HandleConReq
  <2> DEFINE p == Head(c.wire)
             b == NewServer(p)
             e == SendNumbered(b, "CONRESP")
             t == [c EXCEPT !.wire = Tail(c.wire)]
  <2>1. /\ c.wire # <<>> /\ p \in Pdus /\ p.type = "CONREQ"
        /\ node'["server"] = e /\ node'["client"] = t
    <3>1. Wire("server") = c.wire
      BY DEF Wire, Peer, c
    <3>2. /\ Wire("server") # <<>> /\ Head(Wire("server")).type = "CONREQ"
          /\ Taken("server", SendNumbered(NewServer(Head(Wire("server"))), "CONRESP"))
      BY <1>6 DEF HandleConReq
    <3>3. QED
      BY <1>1, <1>2, <3>1, <3>2 DEF Taken, c
  <2>2. /\ b \in Connections /\ b.wire = <<>> /\ b.channel /\ b.hb_locked /\ b.listed
        /\ b.fifo_send = <<>> /\ b.state = "START"
    BY <2>1, NewServerType DEF NewServer, Accept, Unconnected
  <2> HIDE DEF b
  <2>3. /\ e \in Connections /\ Adds(b.wire, e.wire, {"CONRESP"}) /\ e.channel /\ e.hb_locked
        /\ e.listed /\ e.fifo_send = <<>> /\ e.state = "START"
    <3>1. "CONRESP" \in PduTypes
      BY DEF PduTypes
    <3>2. QED
      BY <2>2, <3>1, SendNumberedFields
  <2> HIDE DEF e
  <2>4. /\ t.wire = Tail(c.wire) /\ t.listed = c.listed /\ t.state = c.state
        /\ t.channel = c.channel /\ t.hb_locked = c.hb_locked
        /\ t.fifo_send = c.fifo_send /\ t.fifo_retr = c.fifo_retr
        /\ t.fifo_app_msg = c.fifo_app_msg
    BY <1>1 DEF Connections
  <2>5. /\ p = c.wire[1] /\ 1 \in 1..Len(c.wire) /\ Len(t.wire) = Len(c.wire) - 1
        /\ \A i \in 1..Len(t.wire) : i + 1 \in 1..Len(c.wire) /\ t.wire[i] = c.wire[i + 1]
                                      /\ i + 1 # 1
    <3> HIDE DEF t
    <3>1. QED
      BY <1>2, <2>1, <2>4
  <2> HIDE DEF p, t
  <2>6. ~s.listed /\ c # Unconnected
    BY <2>1, <2>5 DEF HandshakeInv, RequestInv, Unconnected, c, s
  <2>7. s = Unconnected
    BY <2>6 DEF HandshakeInv, UnlistedInv, s
  <2>8. Only(e.wire, {"CONRESP"})
    BY <2>2, <2>3 DEF Adds, Only
  <2>9. SideInv(e) /\ SideInv(t)
    BY <1>3, <2>3, <2>4 DEF SideInv
  <2>10. UnlistedInv'
    BY <2>1, <2>3, <2>4, <2>6 DEF HandshakeInv, UnlistedInv, c
  <2>11. RequestInv'
    BY <2>1, <2>5, <2>8 DEF HandshakeInv, RequestInv, Only, c
  <2>12. Waits(e)
    BY <2>3, <2>8 DEF Waits, Only
  <2>13. ServerInv'
    <3>1. /\ Only(c.wire, {"CONREQ", "HB", "DATA", "DISCREQ"})
          /\ c.state \in {"START", "UP", "CLOSED"}
      BY <2>7 DEF HandshakeInv, ServerInv, Open, Unconnected, c, s
    <3>2. Only(t.wire, {"CONREQ", "HB", "DATA", "DISCREQ"})
      BY <2>5, <3>1 DEF Only
    <3>3. QED
      BY <2>1, <2>4, <2>12, <3>1, <3>2 DEF ServerInv
  <2>14. ClientInv'
    <3>1. SUFFICES ASSUME c.hb_locked, Open(c)
                   PROVE  /\ Only(t.wire, {"CONREQ", "DISCREQ"})
                          /\ c.fifo_send = <<>> /\ c.state \in {"START", "CLOSED"}
      BY <2>1, <2>4, <2>12 DEF ClientInv, Open
    <3>2. /\ Only(c.wire, {"CONREQ", "DISCREQ"})
          /\ c.fifo_send = <<>> /\ c.state \in {"START", "CLOSED"}
      BY <3>1 DEF HandshakeInv, ClientInv, c
    <3>3. QED
      BY <2>5, <3>2 DEF Only
  <2>15. QED
    BY <2>1, <2>9, <2>10, <2>11, <2>13, <2>14 DEF HandshakeInv, Nodes
<1>7. QED
  BY <1>4, <1>5, <1>6

\* In every reachable state the handshake's invariant holds.
THEOREM HandshakeIsKept == Spec => []HandshakeInv
<1>1. Init => HandshakeInv
  <2> SUFFICES ASSUME Init
               PROVE  HandshakeInv
    OBVIOUS
  <2>1. node["client"] = Unconnected /\ node["server"] = Unconnected
    BY DEF Init, Nodes
  <2>2. SideInv(Unconnected) /\ Waits(Unconnected) /\ Only(Unconnected.wire, {})
    BY DEF SideInv, Waits, Only, Unconnected
  <2>3. UnlistedInv /\ RequestInv
    BY <2>1 DEF UnlistedInv, RequestInv, Unconnected
  <2>4. ServerInv /\ ClientInv
    BY <2>1, <2>2 DEF ServerInv, ClientInv, Unconnected, Only
  <2>5. QED
    BY <2>1, <2>2, <2>3, <2>4 DEF HandshakeInv, Nodes
<1>2. TypeOK /\ TypeOK' /\ HandshakeInv /\ [Next]_vars => HandshakeInv'
  <2> SUFFICES ASSUME TypeOK, TypeOK', HandshakeInv, [Next]_vars
               PROVE  HandshakeInv'
    OBVIOUS
  <2>1. CASE Connect \/ AddConnection \/ HandleConReq
    BY <2>1, ConnectingKeepsHandshake
  <2>2. CASE \E n \in Nodes : Handle(n)
    BY <2>2, HandlersKeepHandshake
  <2>3. ASSUME NEW n \in Nodes,
               SrSend(n) \/ SrDisconnect(n) \/ SendThread(n) \/ Heartbeat(n) \/ TiExpires(n)
        PROVE  HandshakeInv'
    BY <2>3, ThreadsAndUserAreOwn, OwnStepsKeepHandshake
  <2>4. CASE \E n \in Nodes : Lose(n)
    BY <2>4, LosingKeepsHandshake
  <2>5. CASE UNCHANGED vars
    BY <2>5 DEF vars, HandshakeInv, UnlistedInv, RequestInv, ServerInv, ClientInv
  <2>6. QED
    BY <2>1, <2>2, <2>3, <2>4, <2>5 DEF Next
<1>3. QED
  BY <1>1, <1>2, TypeCorrect, PTL DEF Spec

\* Whoever has got past the handshake is one heartbeat_thread looks at: hb_locked
\* keeps T_i from being supervised in no order of handshake, retransmission
\* requests and closes.
THEOREM EstablishedIsSupervised == Spec => []EstablishedIsWatched
<1>1. TypeOK /\ HandshakeInv => EstablishedIsWatched
  BY DEF HandshakeInv, SideInv, EstablishedIsWatched, Supervised
<1>2. QED
  BY <1>1, TypeCorrect, HandshakeIsKept, PTL

\* The server is UP only when the client has got past START, whatever is lost and
\* whichever of the two closes in the meantime.
THEOREM UpAfterClient == Spec => []UpIsMutual
<1>1. HandshakeInv => UpIsMutual
  <2> SUFFICES ASSUME HandshakeInv, Up("server")
               PROVE  node["client"].listed /\ node["client"].state # "START"
    BY DEF UpIsMutual
  <2>1. SideInv(node["client"]) /\ SideInv(node["server"])
    BY DEF HandshakeInv, Nodes
  <2>2. ~Waits(node["server"])
    BY <2>1 DEF Up, SideInv, Waits
  <2>3. ~(node["client"].hb_locked /\ Open(node["client"]))
    BY <2>2 DEF HandshakeInv, ClientInv
  <2>4. node["server"].listed
    BY DEF HandshakeInv, UnlistedInv, Up, Unconnected
  <2>5. node["client"].listed
    BY <2>1, <2>3, <2>4 DEF HandshakeInv, UnlistedInv, SideInv, Open
  <2>6. QED
    BY <2>1, <2>3, <2>5 DEF SideInv, Open
<1>2. QED
  BY <1>1, HandshakeIsKept, PTL

-------------------------------------------------------------------------------
(* A session in which nothing is lost and no heartbeat is sent: the numbers  *)
(* of each side count from 1 on, whatever the first one is, and do not wrap. *)

\* The user of a side sends fewer messages than there are numbers: 2^32 - 4.
MessagesFit == \A n \in Nodes : Messages[n] + 4 <= Modulus

Origin(n) == Minus(InitialSn[n], 1)
Num(n, x) == Minus(x, Origin(n))

LEMMA SmallRemainder ==
  ASSUME NEW x \in Int, NEW m \in Nat, m > 0, -m <= x, x < 2 * m
  PROVE  x % m = IF x < 0 THEN x + m ELSE IF x < m THEN x ELSE x - m
OBVIOUS

LEMMA NumIs ==
  ASSUME NEW n \in Nodes, NEW x \in SequenceNumbers
  PROVE  /\ Origin(n) \in SequenceNumbers
         /\ Num(n, x) = IF x < Origin(n) THEN x - Origin(n) + Modulus ELSE x - Origin(n)
         /\ Num(n, x) \in Nat /\ Num(n, x) < Modulus
<1>1. InitialSn[n] \in SequenceNumbers
  BY RastaConnectionAssumption
<1>2. Modulus \in Nat /\ Modulus > 2
  BY RastaConnectionAssumption
<1>3. Origin(n) \in SequenceNumbers
  BY <1>1, SequenceNumbersWrap DEF Origin
<1> DEFINE o == Origin(n)
<1>4. o \in Nat /\ x \in Nat /\ o < Modulus /\ x < Modulus
  BY <1>2, <1>3 DEF SequenceNumbers
<1>5. Num(n, x) = (x - o) % Modulus
  BY DEF Num, Minus
<1> HIDE DEF o
<1>6. (x - o) % Modulus = IF x < o THEN x - o + Modulus ELSE x - o
  BY <1>2, <1>4, SmallRemainder
<1>7. QED
  BY <1>2, <1>3, <1>4, <1>5, <1>6 DEF o

LEMMA NumOfInitial ==
  ASSUME NEW n \in Nodes
  PROVE  Num(n, InitialSn[n]) = 1 /\ Num(n, Origin(n)) = 0
<1>1. Modulus \in Nat /\ Modulus > 2 /\ InitialSn[n] \in 0..(Modulus - 1)
  BY RastaConnectionAssumption DEF SequenceNumbers
<1> DEFINE i == InitialSn[n]
<1>2. Origin(n) = IF i < 1 THEN i - 1 + Modulus ELSE i - 1
  <2>1. Origin(n) = (i - 1) % Modulus
    BY DEF Origin, Minus
  <2> HIDE DEF i
  <2>2. i \in Nat /\ i < Modulus
    BY <1>1 DEF i
  <2>3. QED
    BY <1>1, <2>1, <2>2, SmallRemainder
<1>3. i \in SequenceNumbers /\ Origin(n) \in SequenceNumbers
  BY <1>1, NumIs DEF SequenceNumbers
<1> HIDE DEF i
<1>4. i \in 0..(Modulus - 1)
  BY <1>1 DEF i
<1>5. Num(n, i) = 1 /\ Num(n, Origin(n)) = 0
  BY <1>1, <1>2, <1>3, <1>4, NumIs
<1>6. QED
  BY <1>5 DEF i

LEMMA NextNum ==
  ASSUME NEW n \in Nodes, NEW x \in SequenceNumbers, Num(n, x) + 1 < Modulus
  PROVE  Num(n, Plus(x, 1)) = Num(n, x) + 1
<1>1. Modulus \in Nat /\ Modulus > 2 /\ x \in 0..(Modulus - 1) /\ Origin(n) \in 0..(Modulus - 1)
  BY RastaConnectionAssumption, NumIs DEF SequenceNumbers
<1>2. Plus(x, 1) = IF x + 1 < Modulus THEN x + 1 ELSE x + 1 - Modulus
  BY <1>1, SmallRemainder DEF Plus
<1>3. Plus(x, 1) \in SequenceNumbers
  BY SequenceNumbersWrap
<1>4. QED
  BY <1>1, <1>2, <1>3, NumIs

LEMMA PriorNum ==
  ASSUME NEW n \in Nodes, NEW x \in SequenceNumbers, Num(n, x) > 0
  PROVE  Num(n, Minus(x, 1)) = Num(n, x) - 1
<1>1. Modulus \in Nat /\ Modulus > 2 /\ x \in 0..(Modulus - 1) /\ Origin(n) \in 0..(Modulus - 1)
  BY RastaConnectionAssumption, NumIs DEF SequenceNumbers
<1>2. Minus(x, 1) = IF x < 1 THEN x - 1 + Modulus ELSE x - 1
  BY <1>1, SmallRemainder DEF Minus
<1>3. Minus(x, 1) \in SequenceNumbers
  BY SequenceNumbersWrap
<1>4. QED
  BY <1>1, <1>2, <1>3, NumIs

LEMMA NumsDiffer ==
  ASSUME NEW n \in Nodes, NEW x \in SequenceNumbers, NEW y \in SequenceNumbers
  PROVE  /\ Num(n, x) = Num(n, y) => x = y
         /\ Num(n, x) <= Num(n, y) => Minus(y, x) = Num(n, y) - Num(n, x)
<1>1. /\ Modulus \in Nat /\ Modulus > 2 /\ x \in 0..(Modulus - 1) /\ y \in 0..(Modulus - 1)
      /\ Origin(n) \in 0..(Modulus - 1)
  BY RastaConnectionAssumption, NumIs DEF SequenceNumbers
<1>2. Minus(y, x) = IF y < x THEN y - x + Modulus ELSE y - x
  BY <1>1, SmallRemainder DEF Minus
<1>3. QED
  BY <1>1, <1>2, NumIs

\* The type of the PDU with the k-th number of side m, and those that confirm.
TypeAt(m, k) ==
    IF k = 1 THEN IF m = "client" THEN "CONREQ" ELSE "CONRESP"
    ELSE IF k = 2 /\ m = "client" THEN "HB" ELSE "DATA"
Acks == {"CONRESP", "HB", "DATA"}

\* A side that may still send, and one that knows which number it expects.
Alive(c) == c.state \in {"START", "UP"}
Tracks(n, c) == c.state = "UP" \/ (c.state = "START" /\ n = "server")

\* The wire of m: types go by numbers, which are far from wrapping, a DiscReq is the
\* last PDU, and what is confirmed does not go back.
ExactWire(m, w) ==
    /\ \A i \in 1..Len(w) :
         /\ w[i].type \in {"DISCREQ", TypeAt(m, Num(m, w[i].sn))}
         /\ w[i].type # "DATA" => w[i].msgs = <<>>
         /\ w[i].type = "DISCREQ" => i = Len(w)
         /\ w[i].type # "DISCREQ" => Num(m, w[i].sn) + 1 < Modulus
    /\ \A i, j \in 1..Len(w) :
         i <= j /\ w[i].type \in Acks /\ w[j].type \in Acks =>
           Num(Peer(m), w[i].cs) <= Num(Peer(m), w[j].cs)

\* The numbers of side m: it has used at most one for each message taken from
\* its user, and three; and it confirms what it has accepted last.
ExactNumbers(m, c, given) ==
    /\ c.state = "START" => Num(m, c.sn_t) = 2 /\ (m = "server" => Num(m, c.cs_r) = 0)
    /\ c.state = "UP" => Num(m, c.sn_t) >= IF m = "client" THEN 3 ELSE 2
    /\ Alive(c) => Num(m, c.sn_t) <= 3 + (given - Len(c.fifo_send))
    /\ Tracks(m, c) =>
         /\ Num(Peer(m), c.sn_r) = Num(Peer(m), c.cs_t) + 1
         /\ Num(Peer(m), c.sn_r) >= 2
         /\ m = "server" => (c.state = "START" <=> Num(Peer(m), c.sn_r) = 2)
         /\ \A i \in 1..Len(c.wire) : c.wire[i].type \in Acks =>
              Num(Peer(m), c.wire[i].cs) <= Num(Peer(m), c.cs_t)

\* The messages of side m: what it has not sent yet, and what it was sent.
ExactMessages(m, c, given) ==
    /\ given <= Messages[m] /\ Len(c.fifo_send) <= given
    /\ c.state = "START" => c.fifo_send = <<>>
    /\ \A k \in 1..Len(c.fifo_send) :
         c.fifo_send[k] = (given - Len(c.fifo_send)) + k
    /\ \A k \in 1..Len(c.fifo_app_msg) : c.fifo_app_msg[k] = k

ExactSide(m, c, given) ==
    /\ c.state \in {"START", "UP", "CLOSED"}
    /\ c.state = "UP" => c.channel /\ c.listed
    /\ \A i \in 1..Len(c.wire) : c.wire[i].type = "DISCREQ" => c.state = "CLOSED"
    /\ ExactWire(m, c.wire)
    /\ ExactNumbers(m, c, given)
    /\ ExactMessages(m, c, given)

\* Whether side r may still take messages.
MayTake(r) == ~r.listed \/ r.state # "CLOSED"

\* From sender s on side m to receiver r: the PDUs on the wire have the numbers
\* from a on, up to the next one of s, and a is the one r expects; before the
\* i-th there are f[i] messages, which are those r has at the first.
ExactRoute(m, s, r, given, a, f) ==
    /\ \A i \in 1..Len(s.wire) : Num(m, s.wire[i].sn) = a + (i - 1)
    /\ Alive(s) => Num(m, s.sn_t) = a + Len(s.wire)
    /\ Tracks(Peer(m), r) => Num(m, r.sn_r) = a
    /\ f[Len(s.wire) + 1] = given - Len(s.fifo_send)
    /\ MayTake(r) => f[1] = Len(r.fifo_app_msg)
    /\ \A i \in 1..Len(s.wire) :
         /\ f[i + 1] = f[i] + Len(s.wire[i].msgs)
         /\ \A k \in 1..Len(s.wire[i].msgs) : s.wire[i].msgs[k] = f[i] + k

Messengers(w) == [1..(Len(w) + 1) -> Nat]

\* What the wire confirms is what r has sent, and not before what r has been
\* confirmed already.
ExactAcks(m, s, r) ==
    LET n == Peer(m) IN
    /\ Tracks(n, r) => \A i \in 1..Len(s.wire) :
         s.wire[i].type \in Acks => Num(n, r.cs_r) <= Num(n, s.wire[i].cs)
    /\ Tracks(n, r) /\ Tracks(m, s) => Num(n, r.cs_r) <= Num(n, s.cs_t)
    /\ Alive(r) => \A i \in 1..Len(s.wire) :
         s.wire[i].type \in Acks => Num(n, s.wire[i].cs) < Num(n, r.sn_t)

ExactLink(m, s, r, given) ==
    /\ ExactAcks(m, s, r)
    /\ \E a \in Nat : \E f \in Messengers(s.wire) : ExactRoute(m, s, r, given, a, f)

Exact ==
    \A n \in Nodes :
        /\ ExactSide(n, node[n], sent[n])
        /\ ExactLink(n, node[n], node[Peer(n)], sent[n])

\* Before the server is there the client has sent nothing that confirms.
ExactRequest ==
    ~node["server"].listed =>
        node["client"].state # "UP" /\ Only(node["client"].wire, {"CONREQ", "DISCREQ"})

LEMMA ConnectionFields ==
  ASSUME NEW c \in Connections
  PROVE  /\ c.sn_t \in SequenceNumbers /\ c.sn_r \in SequenceNumbers
         /\ c.cs_t \in SequenceNumbers /\ c.cs_r \in SequenceNumbers
         /\ c.wire \in Seq(Pdus) /\ c.fifo_send \in Seq(Nat) /\ c.fifo_app_msg \in Seq(Nat)
         /\ Len(c.wire) \in Nat /\ Len(c.fifo_send) \in Nat /\ Len(c.fifo_app_msg) \in Nat
         /\ \A i \in 1..Len(c.wire) : c.wire[i] \in Pdus
BY DEF Connections

LEMMA PduFields ==
  ASSUME NEW p \in Pdus
  PROVE  /\ p.type \in PduTypes /\ p.sn \in SequenceNumbers /\ p.cs \in SequenceNumbers
         /\ p.msgs \in Seq(Nat) /\ Len(p.msgs) \in Nat
BY DEF Pdus

LEMMA IntervalSize ==
  ASSUME NEW k \in Nat
  PROVE  Cardinality(1..k) = k
<1>1. 1 \in Int /\ k \in Int
  OBVIOUS
<1>2. Cardinality(1..k) = IF 1 > k THEN 0 ELSE k - 1 + 1
  BY <1>1, FS_Interval
<1>3. QED
  BY <1>2

\* So both sides count the same, and skip nothing.
LEMMA ExactIsLossless ==
  ASSUME TypeOK, Exact, NEW n \in Nodes
  PROVE  /\ Up("client") /\ Up("server") => Outstanding(n) = OnTheWay(n)
         /\ \A i \in 1..Len(node[n].fifo_app_msg) : node[n].fifo_app_msg[i] = i
<1> DEFINE m == Peer(n)
           s == node[m]
           r == node[n]
<1>1. m \in Nodes /\ Peer(m) = n /\ s \in Connections /\ r \in Connections
  BY PeerIsNode DEF TypeOK
<1>2. ExactSide(n, r, sent[n]) /\ ExactSide(m, s, sent[m])
      /\ ExactLink(m, s, r, sent[m])
  BY <1>1 DEF Exact
<1>3. /\ s.sn_t \in SequenceNumbers /\ r.sn_r \in SequenceNumbers /\ Len(s.wire) \in Nat
      /\ Num(m, s.sn_t) \in Nat /\ Num(m, s.sn_t) < Modulus /\ Num(m, r.sn_r) \in Nat
  BY <1>1, ConnectionFields, NumIs
<1>4. Outstanding(n) = Minus(s.sn_t, r.sn_r) /\ OnTheWay(n) = Cardinality(Numbered(s.wire))
  BY DEF Outstanding, OnTheWay, Wire
<1>5. Up("client") /\ Up("server") => r.state = "UP" /\ s.state = "UP"
  BY <1>1 DEF Up, Nodes
<1> HIDE DEF m, s, r
<1>6. ASSUME r.state = "UP", s.state = "UP"
      PROVE  Minus(s.sn_t, r.sn_r) = Cardinality(Numbered(s.wire))
  <2>1. PICK a \in Nat, f \in Messengers(s.wire) : ExactRoute(m, s, r, sent[m], a, f)
    BY <1>2 DEF ExactLink
  <2>2. Num(m, s.sn_t) = a + Len(s.wire) /\ Num(m, r.sn_r) = a
    BY <1>1, <1>6, <2>1 DEF ExactRoute, Alive, Tracks
  <2>3. Minus(s.sn_t, r.sn_r) = Len(s.wire)
    BY <1>1, <1>3, <2>2, NumsDiffer
  <2>4. Numbered(s.wire) = 1..Len(s.wire)
    BY <1>2, <1>6 DEF ExactSide, Numbered
  <2>5. Cardinality(1..Len(s.wire)) = Len(s.wire)
    BY <1>3, IntervalSize
  <2>6. QED
    BY <2>3, <2>4, <2>5
<1>7. \A i \in 1..Len(r.fifo_app_msg) : r.fifo_app_msg[i] = i
  BY <1>2 DEF ExactSide, ExactMessages
<1>8. QED
  BY <1>4, <1>5, <1>6, <1>7 DEF r

(* What a step does to the PDUs from m to n. The receiver's side may change  *)
(* where this does not matter to them.                                       *)
SameReceiver(r, t) ==
    /\ t.listed = r.listed /\ t.state = r.state /\ t.fifo_app_msg = r.fifo_app_msg
    /\ t.sn_r = r.sn_r /\ t.cs_r = r.cs_r /\ t.sn_t = r.sn_t

\* The sender has put nothing on the wire.
LEMMA SilentLink ==
  ASSUME NEW m \in Nodes, NEW c \in Connections, NEW e \in Connections,
         NEW r \in Connections, NEW t \in Connections, NEW g \in Nat, NEW h \in Nat,
         ExactLink(m, c, r, g), SameReceiver(r, t),
         e.wire = c.wire, h - Len(e.fifo_send) = g - Len(c.fifo_send),
         Alive(e) => Alive(c) /\ e.sn_t = c.sn_t,
         Tracks(m, e) => Tracks(m, c) /\ Num(Peer(m), c.cs_t) <= Num(Peer(m), e.cs_t)
  PROVE  ExactLink(m, e, t, h)
<1>1. /\ c.cs_t \in SequenceNumbers /\ e.cs_t \in SequenceNumbers /\ r.cs_r \in SequenceNumbers
      /\ Peer(m) \in Nodes
  BY ConnectionFields, PeerIsNode
<1>2. /\ Num(Peer(m), c.cs_t) \in Nat /\ Num(Peer(m), e.cs_t) \in Nat
      /\ Num(Peer(m), r.cs_r) \in Nat
  BY <1>1, NumIs
<1>3. ExactAcks(m, e, t)
  BY <1>2 DEF ExactLink, ExactAcks, SameReceiver, Alive, Tracks
<1>4. PICK a \in Nat, f \in Messengers(c.wire) : ExactRoute(m, c, r, g, a, f)
  BY DEF ExactLink
<1>5. f \in Messengers(e.wire) /\ ExactRoute(m, e, t, h, a, f)
  BY <1>4 DEF ExactRoute, SameReceiver, Alive, Tracks, MayTake
<1>6. QED
  BY <1>3, <1>5 DEF ExactLink

LEMMA AppendedAt ==
  ASSUME NEW w \in Seq(Pdus), NEW p \in Pdus
  PROVE  /\ Append(w, p) \in Seq(Pdus) /\ Len(Append(w, p)) = Len(w) + 1
         /\ \A i \in 1..(Len(w) + 1) :
              Append(w, p)[i] = IF i <= Len(w) THEN w[i] ELSE p
OBVIOUS

\* The sender has put a PDU with its next number on the wire, and lives on or
\* has closed.
LEMMA SendLink ==
  ASSUME NEW m \in Nodes, NEW c \in Connections, NEW e \in Connections,
         NEW r \in Connections, NEW t \in Connections, NEW g \in Nat, NEW h \in Nat,
         NEW p \in Pdus,
         ExactLink(m, c, r, g), SameReceiver(r, t), Alive(c),
         e.wire = Append(c.wire, p), p.sn = c.sn_t,
         Alive(e) => Num(m, e.sn_t) = Num(m, c.sn_t) + 1,
         h - Len(e.fifo_send) = (g - Len(c.fifo_send)) + Len(p.msgs),
         g - Len(c.fifo_send) \in Nat,
         \A k \in 1..Len(p.msgs) : p.msgs[k] = (g - Len(c.fifo_send)) + k,
         Tracks(m, e) => /\ Num(Peer(m), e.cs_t) = Num(Peer(m), p.cs)
                         /\ Tracks(Peer(m), r) => Num(Peer(m), r.cs_r) <= Num(Peer(m), p.cs),
         p.type \in Acks => /\ Tracks(m, e)
                            /\ Alive(r) => Num(Peer(m), p.cs) < Num(Peer(m), r.sn_t)
  PROVE  ExactLink(m, e, t, h)
<1> DEFINE L == Len(c.wire)
           n == Peer(m)
<1>1. /\ c.wire \in Seq(Pdus) /\ L \in Nat /\ e.wire \in Seq(Pdus) /\ Len(e.wire) = L + 1
      /\ \A i \in 1..(L + 1) : e.wire[i] = IF i <= L THEN c.wire[i] ELSE p
  BY ConnectionFields, AppendedAt
<1>2. /\ n \in Nodes /\ p.cs \in SequenceNumbers /\ r.cs_r \in SequenceNumbers
      /\ c.sn_t \in SequenceNumbers /\ e.sn_t \in SequenceNumbers /\ Len(p.msgs) \in Nat
  BY ConnectionFields, PduFields, PeerIsNode
<1>3. /\ Num(n, p.cs) \in Nat /\ Num(n, r.cs_r) \in Nat /\ Num(m, c.sn_t) \in Nat
  BY <1>2, NumIs
<1> HIDE DEF L, n
<1>4. ExactAcks(m, e, t)
  <2>1. /\ Tracks(n, t) <=> Tracks(n, r)
        /\ Alive(t) <=> Alive(r)
        /\ t.cs_r = r.cs_r /\ t.sn_t = r.sn_t
    BY DEF SameReceiver, Tracks, Alive
  <2>2. \A i \in 1..(L + 1) : i <= L => i \in 1..L
    BY <1>1
  <2>3. ASSUME NEW i \in 1..(L + 1), e.wire[i].type \in Acks
        PROVE  /\ Tracks(n, r) => Num(n, r.cs_r) <= Num(n, e.wire[i].cs)
               /\ Alive(r) => Num(n, e.wire[i].cs) < Num(n, r.sn_t)
    <3>1. CASE i <= L
      BY <1>1, <2>2, <2>3, <3>1 DEF ExactLink, ExactAcks, n, L
    <3>2. CASE ~(i <= L)
      BY <1>1, <2>3, <3>2 DEF n
    <3>3. QED
      BY <3>1, <3>2
  <2>4. Tracks(n, r) /\ Tracks(m, e) => Num(n, r.cs_r) <= Num(n, e.cs_t)
    BY DEF n
  <2>5. QED
    BY <1>1, <2>1, <2>3, <2>4 DEF ExactAcks, n
<1>5. PICK a \in Nat, f \in Messengers(c.wire) : ExactRoute(m, c, r, g, a, f)
  BY DEF ExactLink
<1>6. /\ Num(m, c.sn_t) = a + L /\ f[L + 1] = g - Len(c.fifo_send)
      /\ \A i \in 1..(L + 1) : f[i] \in Nat
  BY <1>1, <1>5 DEF ExactRoute, Messengers, L
<1> DEFINE F == [i \in 1..((L + 1) + 1) |-> IF i <= L + 1 THEN f[i] ELSE f[L + 1] + Len(p.msgs)]
<1>7. F \in [1..((L + 1) + 1) -> Nat]
  BY <1>1, <1>2, <1>6
<1>8. /\ \A i \in 1..(L + 1) : F[i] = f[i]
      /\ F[(L + 1) + 1] = f[L + 1] + Len(p.msgs)
  BY <1>1
<1> HIDE DEF F
<1>9. F \in Messengers(e.wire)
  BY <1>1, <1>7 DEF Messengers
<1>10. ExactRoute(m, e, t, h, a, F)
  <2>1. \A i \in 1..Len(e.wire) : Num(m, e.wire[i].sn) = a + (i - 1)
    <3> SUFFICES ASSUME NEW i \in 1..(L + 1)
                 PROVE  Num(m, e.wire[i].sn) = a + (i - 1)
      BY <1>1
    <3>1. CASE i <= L
      <4>1. i \in 1..Len(c.wire) /\ e.wire[i] = c.wire[i]
        BY <1>1, <3>1 DEF L
      <4>2. QED
        BY <1>5, <4>1 DEF ExactRoute
    <3>2. CASE ~(i <= L)
      <4>1. i = L + 1 /\ e.wire[i] = p
        BY <1>1, <3>2
      <4>2. Num(m, e.wire[i].sn) = a + L
        BY <1>6, <4>1
      <4>3. QED
        BY <1>1, <4>1, <4>2
    <3>3. QED
      BY <3>1, <3>2
  <2>2. Alive(e) => Num(m, e.sn_t) = a + Len(e.wire)
    BY <1>1, <1>6
  <2>3. Tracks(n, t) => Num(m, t.sn_r) = a
    BY <1>5 DEF ExactRoute, SameReceiver, Tracks, n
  <2>4. F[Len(e.wire) + 1] = h - Len(e.fifo_send)
    BY <1>1, <1>6, <1>8
  <2>5. MayTake(t) => F[1] = Len(t.fifo_app_msg)
    <3>1. F[1] = f[1]
      BY <1>1, <1>8
    <3>2. QED
      BY <1>5, <3>1 DEF ExactRoute, SameReceiver, MayTake
  <2>6. ASSUME NEW i \in 1..Len(e.wire)
        PROVE  /\ F[i + 1] = F[i] + Len(e.wire[i].msgs)
               /\ \A k \in 1..Len(e.wire[i].msgs) : e.wire[i].msgs[k] = F[i] + k
    <3>0. i \in 1..(L + 1)
      BY <1>1
    <3>1. CASE i <= L
      <4>1. /\ i \in 1..Len(c.wire) /\ e.wire[i] = c.wire[i] /\ i + 1 \in 1..(L + 1)
            /\ F[i] = f[i] /\ F[i + 1] = f[i + 1]
        BY <1>1, <1>8, <3>0, <3>1 DEF L
      <4>2. QED
        BY <1>5, <4>1 DEF ExactRoute
    <3>2. CASE ~(i <= L)
      <4>1. i = L + 1 /\ e.wire[i] = p /\ F[i] = f[L + 1] /\ F[i + 1] = f[L + 1] + Len(p.msgs)
        BY <1>1, <1>8, <3>0, <3>2
      <4>2. QED
        BY <1>6, <4>1
    <3>3. QED
      BY <3>1, <3>2
  <2>7. QED
    BY <2>1, <2>2, <2>3, <2>4, <2>5, <2>6 DEF ExactRoute, n
<1>11. QED
  BY <1>4, <1>9, <1>10 DEF ExactLink

\* One PDU less on the wire.
Popped(s, t) ==
    /\ s.wire # <<>> /\ t.wire = Tail(s.wire)
    /\ t.listed = s.listed /\ t.state = s.state /\ t.channel = s.channel
    /\ t.fifo_app_msg = s.fifo_app_msg /\ t.fifo_send = s.fifo_send
    /\ t.sn_r = s.sn_r /\ t.cs_r = s.cs_r /\ t.sn_t = s.sn_t /\ t.cs_t = s.cs_t

LEMMA TailAt ==
  ASSUME NEW s \in Connections, NEW t \in Connections, Popped(s, t)
  PROVE  /\ s.wire[1] = Head(s.wire) /\ s.wire[1] \in Pdus /\ 1 \in 1..Len(s.wire)
         /\ Len(s.wire) = Len(t.wire) + 1 /\ Len(t.wire) \in Nat
         /\ \A i \in 1..Len(t.wire) : i + 1 \in 1..Len(s.wire) /\ t.wire[i] = s.wire[i + 1]
<1>1. s.wire \in Seq(Pdus) /\ s.wire # <<>> /\ t.wire = Tail(s.wire)
  BY ConnectionFields DEF Popped
<1> DEFINE w == s.wire
           v == t.wire
<1> HIDE DEF w, v
<1>2. w \in Seq(Pdus) /\ w # <<>> /\ v = Tail(w)
  BY <1>1 DEF w, v
<1>3. /\ w[1] = Head(w) /\ w[1] \in Pdus /\ 1 \in 1..Len(w)
      /\ Len(w) = Len(v) + 1 /\ Len(v) \in Nat
      /\ \A i \in 1..Len(v) : i + 1 \in 1..Len(w) /\ v[i] = w[i + 1]
  BY <1>2
<1>4. QED
  BY <1>3 DEF w, v

LEMMA PoppedSide ==
  ASSUME NEW m \in Nodes, NEW s \in Connections, NEW t \in Connections, NEW g \in Nat,
         ExactSide(m, s, g), Popped(s, t)
  PROVE  ExactSide(m, t, g)
<1>1. /\ Len(s.wire) = Len(t.wire) + 1 /\ Len(t.wire) \in Nat
      /\ \A i \in 1..Len(t.wire) : i + 1 \in 1..Len(s.wire) /\ t.wire[i] = s.wire[i + 1]
  BY TailAt
<1>2. ExactWire(m, t.wire)
  <2>1. \A i \in 1..Len(t.wire) :
          /\ t.wire[i].type \in {"DISCREQ", TypeAt(m, Num(m, t.wire[i].sn))}
          /\ t.wire[i].type # "DATA" => t.wire[i].msgs = <<>>
          /\ t.wire[i].type = "DISCREQ" => i = Len(t.wire)
          /\ t.wire[i].type # "DISCREQ" => Num(m, t.wire[i].sn) + 1 < Modulus
    BY <1>1 DEF ExactSide, ExactWire
  <2>2. ASSUME NEW i \in 1..Len(t.wire), NEW j \in 1..Len(t.wire), i <= j,
               t.wire[i].type \in Acks, t.wire[j].type \in Acks
        PROVE  Num(Peer(m), t.wire[i].cs) <= Num(Peer(m), t.wire[j].cs)
    <3>1. /\ i + 1 \in 1..Len(s.wire) /\ j + 1 \in 1..Len(s.wire) /\ i + 1 <= j + 1
          /\ t.wire[i] = s.wire[i + 1] /\ t.wire[j] = s.wire[j + 1]
      BY <1>1, <2>2
    <3>2. QED
      BY <2>2, <3>1 DEF ExactSide, ExactWire
  <2>3. QED
    BY <2>1, <2>2 DEF ExactWire
<1>3. ExactNumbers(m, t, g)
  <2>1. Tracks(m, t) => \A i \in 1..Len(t.wire) : t.wire[i].type \in Acks =>
          Num(Peer(m), t.wire[i].cs) <= Num(Peer(m), t.cs_t)
    BY <1>1 DEF ExactSide, ExactNumbers, Popped, Tracks
  <2>2. QED
    BY <2>1 DEF ExactSide, ExactNumbers, Popped, Tracks, Alive
<1>4. ExactMessages(m, t, g)
  BY DEF ExactSide, ExactMessages, Popped
<1>5. \A i \in 1..Len(t.wire) : t.wire[i].type = "DISCREQ" => t.state = "CLOSED"
  BY <1>1 DEF ExactSide, Popped
<1>6. QED
  BY <1>2, <1>3, <1>4, <1>5 DEF ExactSide, Popped

\* What follows on a wire confirms no less.
LEMMA LaterAcks ==
  ASSUME NEW m \in Nodes, NEW s \in Connections, NEW t \in Connections, NEW g \in Nat,
         ExactSide(m, s, g), Popped(s, t), Head(s.wire).type \in Acks
  PROVE  /\ \A i \in 1..Len(t.wire) : t.wire[i].type \in Acks =>
              Num(Peer(m), Head(s.wire).cs) <= Num(Peer(m), t.wire[i].cs)
         /\ Tracks(m, s) => Num(Peer(m), Head(s.wire).cs) <= Num(Peer(m), s.cs_t)
<1>1. /\ s.wire[1] = Head(s.wire) /\ 1 \in 1..Len(s.wire)
      /\ \A i \in 1..Len(t.wire) : i + 1 \in 1..Len(s.wire) /\ t.wire[i] = s.wire[i + 1]
  BY TailAt
<1>2. \A i \in 1..Len(t.wire) : 1 <= i + 1
  OBVIOUS
<1>3. QED
  BY <1>1, <1>2 DEF ExactSide, ExactWire, ExactNumbers

\* The receiver takes the first PDU, or drops it.
LEMMA TakeLink ==
  ASSUME NEW m \in Nodes, NEW s \in Connections, NEW t \in Connections,
         NEW c \in Connections, NEW e \in Connections, NEW g \in Nat, NEW p \in Pdus,
         ExactLink(m, s, c, g), Popped(s, t), p = Head(s.wire),
         MayTake(e) => /\ MayTake(c)
                       /\ Len(e.fifo_app_msg) = Len(c.fifo_app_msg) + Len(p.msgs),
         Tracks(Peer(m), e) =>
           /\ \/ Num(m, e.sn_r) = Num(m, p.sn) + 1
              \/ t.wire = <<>> /\ ~Alive(s)
           /\ \A i \in 1..Len(t.wire) : t.wire[i].type \in Acks =>
                Num(Peer(m), e.cs_r) <= Num(Peer(m), t.wire[i].cs)
           /\ Tracks(m, s) => Num(Peer(m), e.cs_r) <= Num(Peer(m), s.cs_t),
         Alive(e) => \/ Alive(c) /\ Num(Peer(m), c.sn_t) <= Num(Peer(m), e.sn_t)
                     \/ \A i \in 1..Len(t.wire) : t.wire[i].type \notin Acks
  PROVE  ExactLink(m, t, e, g)
<1> DEFINE n == Peer(m)
           L == Len(t.wire)
<1>1. /\ p = s.wire[1] /\ 1 \in 1..Len(s.wire) /\ Len(s.wire) = L + 1 /\ L \in Nat
      /\ \A i \in 1..L : i + 1 \in 1..Len(s.wire) /\ t.wire[i] = s.wire[i + 1]
      /\ t.wire \in Seq(Pdus)
  BY TailAt, ConnectionFields
<1>2. /\ n \in Nodes /\ c.sn_t \in SequenceNumbers /\ e.sn_t \in SequenceNumbers
      /\ e.sn_r \in SequenceNumbers /\ Len(p.msgs) \in Nat
      /\ \A i \in 1..L : t.wire[i].cs \in SequenceNumbers
  BY ConnectionFields, PduFields, PeerIsNode
<1>3. /\ Num(n, c.sn_t) \in Nat /\ Num(n, e.sn_t) \in Nat /\ Num(m, e.sn_r) \in Nat
      /\ \A i \in 1..L : Num(n, t.wire[i].cs) \in Nat
  BY <1>2, NumIs
<1>4. (Tracks(m, t) <=> Tracks(m, s)) /\ (Alive(t) <=> Alive(s))
      /\ t.cs_t = s.cs_t /\ t.sn_t = s.sn_t /\ t.fifo_send = s.fifo_send
  BY DEF Popped, Tracks, Alive
<1>5. ExactAcks(m, t, e)
  <2>1. ASSUME Alive(e), NEW i \in 1..L, t.wire[i].type \in Acks
        PROVE  Num(n, t.wire[i].cs) < Num(n, e.sn_t)
    <3>1. Alive(c) /\ Num(n, c.sn_t) <= Num(n, e.sn_t)
      BY <2>1 DEF L, n
    <3>2. Num(n, t.wire[i].cs) < Num(n, c.sn_t)
      BY <1>1, <2>1, <3>1 DEF ExactLink, ExactAcks, n
    <3>3. QED
      BY <1>2, <1>3, <3>1, <3>2
  <2>2. QED
    BY <1>4, <2>1 DEF ExactAcks, n, L
<1>6. PICK a \in Nat, f \in Messengers(s.wire) : ExactRoute(m, s, c, g, a, f)
  BY DEF ExactLink
<1>7. /\ Num(m, p.sn) = a /\ f[1 + 1] = f[1] + Len(p.msgs)
      /\ \A i \in 1..L : Num(m, t.wire[i].sn) = a + i
  <2>1. \A i \in 1..Len(s.wire) : Num(m, s.wire[i].sn) = a + (i - 1)
    BY <1>6 DEF ExactRoute
  <2>2. Num(m, p.sn) = a + (1 - 1)
    BY <1>1, <2>1
  <2>3. ASSUME NEW i \in 1..L PROVE Num(m, t.wire[i].sn) = a + i
    <3>1. Num(m, t.wire[i].sn) = a + ((i + 1) - 1)
      BY <1>1, <2>1
    <3>2. QED
      BY <3>1
  <2>4. f[1 + 1] = f[1] + Len(s.wire[1].msgs)
    BY <1>1, <1>6 DEF ExactRoute
  <2>5. Num(m, p.sn) = a
    BY <2>2
  <2>6. QED
    BY <1>1, <2>3, <2>4, <2>5
<1> DEFINE F == [i \in 1..(L + 1) |-> f[i + 1]]
<1>8. \A i \in 1..(L + 1) : F[i] = f[i + 1] /\ f[i + 1] \in Nat
  <2>1. f \in [1..(Len(s.wire) + 1) -> Nat]
    BY <1>6 DEF Messengers
  <2>2. \A i \in 1..(L + 1) : i + 1 \in 1..(Len(s.wire) + 1)
    BY <1>1
  <2>3. QED
    BY <2>1, <2>2
<1>9. F \in Messengers(t.wire)
  BY <1>8 DEF Messengers, L
<1> HIDE DEF F, n, L
<1>10. PICK b \in Nat : /\ L > 0 \/ Alive(s) => b = a + 1
                        /\ Tracks(n, e) => Num(m, e.sn_r) = b
  <2>1. CASE Tracks(n, e) /\ Num(m, e.sn_r) # a + 1
    <3>1. t.wire = <<>> /\ ~Alive(s)
      BY <1>7, <2>1 DEF n
    <3>2. L = 0
      BY <3>1 DEF L
    <3>3. QED
      BY <1>3, <3>1, <3>2
  <2>2. CASE ~(Tracks(n, e) /\ Num(m, e.sn_r) # a + 1)
    <3>1. a + 1 \in Nat
      OBVIOUS
    <3>2. QED
      BY <2>2, <3>1
  <2>3. QED
    BY <2>1, <2>2
<1>11. ExactRoute(m, t, e, g, b, F)
  <2>1. \A i \in 1..L : Num(m, t.wire[i].sn) = b + (i - 1)
    <3> SUFFICES ASSUME NEW i \in 1..L
                 PROVE  Num(m, t.wire[i].sn) = b + (i - 1)
      OBVIOUS
    <3>1. i \in Nat /\ b = a + 1
      BY <1>1, <1>10
    <3>2. Num(m, t.wire[i].sn) = a + i
      BY <1>7
    <3>3. QED
      BY <3>1, <3>2
  <2>2. Alive(t) => Num(m, t.sn_t) = b + L
    BY <1>1, <1>4, <1>6, <1>10 DEF ExactRoute
  <2>3. F[L + 1] = g - Len(t.fifo_send)
    <3>1. F[L + 1] = f[(L + 1) + 1]
      BY <1>1, <1>8
    <3>2. QED
      BY <1>1, <1>4, <1>6, <3>1 DEF ExactRoute
  <2>4. MayTake(e) => F[1] = Len(e.fifo_app_msg)
    <3>1. F[1] = f[1 + 1]
      BY <1>1, <1>8
    <3>2. MayTake(c) => f[1] = Len(c.fifo_app_msg)
      BY <1>6 DEF ExactRoute
    <3>3. QED
      BY <1>7, <3>1, <3>2
  <2>5. ASSUME NEW i \in 1..L
        PROVE  /\ F[i + 1] = F[i] + Len(t.wire[i].msgs)
               /\ \A k \in 1..Len(t.wire[i].msgs) : t.wire[i].msgs[k] = F[i] + k
    <3>1. /\ i \in 1..(L + 1) /\ i + 1 \in 1..(L + 1)
          /\ i + 1 \in 1..Len(s.wire) /\ t.wire[i] = s.wire[i + 1]
      BY <1>1
    <3>2. F[i] = f[i + 1] /\ F[i + 1] = f[(i + 1) + 1]
      BY <1>8, <3>1
    <3>3. /\ f[(i + 1) + 1] = f[i + 1] + Len(s.wire[i + 1].msgs)
          /\ \A k \in 1..Len(s.wire[i + 1].msgs) : s.wire[i + 1].msgs[k] = f[i + 1] + k
      BY <1>6, <3>1 DEF ExactRoute
    <3>4. QED
      BY <3>1, <3>2, <3>3
  <2>6. QED
    BY <1>10, <2>1, <2>2, <2>3, <2>4, <2>5 DEF ExactRoute, n, L
<1>12. QED
  BY <1>5, <1>9, <1>11 DEF ExactLink

\* The receiver's side changes on its own: it may close, or send.
LEMMA ReceiverLink ==
  ASSUME NEW m \in Nodes, NEW s \in Connections, NEW c \in Connections,
         NEW e \in Connections, NEW g \in Nat, ExactLink(m, s, c, g),
         MayTake(e) => MayTake(c) /\ e.fifo_app_msg = c.fifo_app_msg,
         Tracks(Peer(m), e) => /\ Tracks(Peer(m), c)
                               /\ e.sn_r = c.sn_r /\ e.cs_r = c.cs_r,
         Alive(e) => \/ Alive(c) /\ Num(Peer(m), c.sn_t) <= Num(Peer(m), e.sn_t)
                     \/ \A i \in 1..Len(s.wire) : s.wire[i].type \notin Acks
  PROVE  ExactLink(m, s, e, g)
<1> DEFINE n == Peer(m)
<1>1. n \in Nodes /\ c.sn_t \in SequenceNumbers /\ e.sn_t \in SequenceNumbers
      /\ \A i \in 1..Len(s.wire) : s.wire[i].cs \in SequenceNumbers
  BY ConnectionFields, PduFields, PeerIsNode
<1>2. Num(n, c.sn_t) \in Nat /\ Num(n, e.sn_t) \in Nat
      /\ \A i \in 1..Len(s.wire) : Num(n, s.wire[i].cs) \in Nat
  BY <1>1, NumIs
<1>3. ASSUME Alive(e), NEW i \in 1..Len(s.wire), s.wire[i].type \in Acks
      PROVE  Num(n, s.wire[i].cs) < Num(n, e.sn_t)
  <2>1. Alive(c) /\ Num(n, c.sn_t) <= Num(n, e.sn_t)
    BY <1>3
  <2>2. Num(n, s.wire[i].cs) < Num(n, c.sn_t)
    BY <1>3, <2>1 DEF ExactLink, ExactAcks
  <2> HIDE DEF n
  <2>3. QED
    BY <1>2, <2>1, <2>2
<1>4. ExactAcks(m, s, e)
  BY <1>3 DEF ExactLink, ExactAcks
<1>5. PICK a \in Nat, f \in Messengers(s.wire) : ExactRoute(m, s, c, g, a, f)
  BY DEF ExactLink
<1>6. ExactRoute(m, s, e, g, a, f)
  BY <1>5 DEF ExactRoute
<1>7. QED
  BY <1>4, <1>6 DEF ExactLink

\* A side closes, telling the peer or not.
Shuts(c, e) ==
    /\ e.state = "CLOSED" /\ e.listed = c.listed
    /\ e.fifo_send = c.fifo_send /\ e.fifo_app_msg = c.fifo_app_msg
    /\ \/ e.wire = c.wire
       \/ /\ Alive(c)
          /\ \E q \in Pdus : /\ q.type = "DISCREQ" /\ q.sn = c.sn_t /\ q.msgs = <<>>
                             /\ e.wire = Append(c.wire, q)

\* A PDU more at the end of a wire without a DiscReq.
LEMMA AppendedWire ==
  ASSUME NEW m \in Nodes, NEW w \in Seq(Pdus), NEW p \in Pdus, ExactWire(m, w),
         \A i \in 1..Len(w) : w[i].type # "DISCREQ",
         p.type \in {"DISCREQ", TypeAt(m, Num(m, p.sn))},
         p.type # "DATA" => p.msgs = <<>>,
         p.type # "DISCREQ" => Num(m, p.sn) + 1 < Modulus,
         p.type \in Acks => \A i \in 1..Len(w) : w[i].type \in Acks =>
            Num(Peer(m), w[i].cs) <= Num(Peer(m), p.cs)
  PROVE  ExactWire(m, Append(w, p))
<1> DEFINE v == Append(w, p)
<1>1. /\ v \in Seq(Pdus) /\ Len(v) = Len(w) + 1 /\ Len(w) \in Nat
      /\ \A i \in 1..(Len(w) + 1) : v[i] = IF i <= Len(w) THEN w[i] ELSE p
  BY AppendedAt
<1>2. Peer(m) \in Nodes /\ p.cs \in SequenceNumbers /\ Num(Peer(m), p.cs) \in Nat
  BY PeerIsNode, PduFields, NumIs
<1> HIDE DEF v
<1>3. ASSUME NEW i \in 1..Len(v)
      PROVE  /\ v[i].type \in {"DISCREQ", TypeAt(m, Num(m, v[i].sn))}
             /\ v[i].type # "DATA" => v[i].msgs = <<>>
             /\ v[i].type = "DISCREQ" => i = Len(v)
             /\ v[i].type # "DISCREQ" => Num(m, v[i].sn) + 1 < Modulus
  <2>1. CASE i <= Len(w)
    <3>1. i \in 1..Len(w) /\ v[i] = w[i]
      BY <1>1, <2>1
    <3>2. QED
      BY <3>1 DEF ExactWire
  <2>2. CASE ~(i <= Len(w))
    <3>1. i = Len(v) /\ v[i] = p
      BY <1>1, <2>2
    <3>2. QED
      BY <3>1
  <2>3. QED
    BY <2>1, <2>2
<1>4. ASSUME NEW i \in 1..Len(v), NEW j \in 1..Len(v), i <= j,
             v[i].type \in Acks, v[j].type \in Acks
      PROVE  Num(Peer(m), v[i].cs) <= Num(Peer(m), v[j].cs)
  <2>1. CASE j <= Len(w)
    <3>1. i \in 1..Len(w) /\ j \in 1..Len(w) /\ v[i] = w[i] /\ v[j] = w[j]
      BY <1>1, <1>4, <2>1
    <3>2. QED
      BY <1>4, <3>1 DEF ExactWire
  <2>2. CASE ~(j <= Len(w)) /\ i <= Len(w)
    <3>1. i \in 1..Len(w) /\ v[i] = w[i] /\ v[j] = p
      BY <1>1, <2>2
    <3>2. QED
      BY <1>4, <3>1
  <2>3. CASE ~(i <= Len(w))
    <3>1. v[i] = p /\ v[j] = p
      BY <1>1, <1>4, <2>3
    <3>2. QED
      BY <1>2, <3>1
  <2>4. QED
    BY <2>1, <2>2, <2>3
<1>5. ExactWire(m, v)
  BY <1>3, <1>4 DEF ExactWire
<1>6. QED
  BY <1>5 DEF v

LEMMA ShutSide ==
  ASSUME NEW m \in Nodes, NEW c \in Connections, NEW e \in Connections, NEW g \in Nat,
         ExactSide(m, c, g), Shuts(c, e)
  PROVE  ExactSide(m, e, g)
<1>1. /\ e.state = "CLOSED" /\ e.fifo_send = c.fifo_send /\ e.fifo_app_msg = c.fifo_app_msg
      /\ c.wire \in Seq(Pdus)
  BY ConnectionFields DEF Shuts
<1>2. ExactNumbers(m, e, g)
  BY <1>1 DEF ExactNumbers, Alive, Tracks
<1>3. ExactMessages(m, e, g)
  <2>1. ExactMessages(m, c, g)
    BY DEF ExactSide
  <2>2. e.state # "START"
    BY <1>1
  <2>3. QED
    BY <1>1, <2>1, <2>2, Zenon DEF ExactMessages
<1>4. ExactWire(m, e.wire)
  <2>1. CASE e.wire = c.wire
    BY <2>1 DEF ExactSide
  <2>2. CASE ~(e.wire = c.wire)
    <3>1. Alive(c)
      BY <2>2 DEF Shuts
    <3>2. PICK q \in Pdus : /\ q.type = "DISCREQ" /\ q.sn = c.sn_t /\ q.msgs = <<>>
                            /\ e.wire = Append(c.wire, q)
      BY <2>2 DEF Shuts
    <3>3. \A i \in 1..Len(c.wire) : c.wire[i].type # "DISCREQ"
      BY <3>1 DEF ExactSide, Alive
    <3>4. q.type \notin Acks
      BY <3>2 DEF Acks
    <3>5. ExactWire(m, Append(c.wire, q))
      BY <1>1, <3>2, <3>3, <3>4, AppendedWire DEF ExactSide
    <3>6. QED
      BY <3>2, <3>5
  <2>3. QED
    BY <2>1, <2>2
<1>5. QED
  BY <1>1, <1>2, <1>3, <1>4 DEF ExactSide

LEMMA ShutLink ==
  ASSUME NEW m \in Nodes, NEW c \in Connections, NEW e \in Connections, NEW g \in Nat,
         NEW r \in Connections, NEW t \in Connections,
         ExactSide(m, c, g), ExactLink(m, c, r, g), Shuts(c, e), SameReceiver(r, t)
  PROVE  ExactLink(m, e, t, g)
<1>1. /\ e.state = "CLOSED" /\ e.fifo_send = c.fifo_send /\ ~Alive(e) /\ ~Tracks(m, e)
      /\ Len(c.fifo_send) \in Nat /\ Len(c.fifo_send) <= g
  BY ConnectionFields DEF Shuts, Alive, Tracks, ExactSide, ExactMessages
<1>2. CASE e.wire = c.wire
  BY <1>1, <1>2, SilentLink
<1>3. CASE ~(e.wire = c.wire)
  <2>1. Alive(c)
    BY <1>3 DEF Shuts
  <2>2. PICK q \in Pdus : /\ q.type = "DISCREQ" /\ q.sn = c.sn_t /\ q.msgs = <<>>
                          /\ e.wire = Append(c.wire, q)
    BY <1>3 DEF Shuts
  <2>3. q.type \notin Acks /\ Len(q.msgs) = 0
    BY <2>2 DEF Acks
  <2>4. /\ g - Len(c.fifo_send) \in Nat
        /\ g - Len(e.fifo_send) = (g - Len(c.fifo_send)) + Len(q.msgs)
        /\ \A k \in 1..Len(q.msgs) : q.msgs[k] = (g - Len(c.fifo_send)) + k
    BY <1>1, <2>3
  <2>5. QED
    BY <1>1, <2>1, <2>2, <2>3, <2>4, SendLink
<1>4. QED
  BY <1>2, <1>3

LEMMA CloseShuts ==
  ASSUME NEW c \in Connections, c.state \in {"START", "UP", "CLOSED"}
  PROVE  Shuts(c, Close(c)) /\ Shuts(c, SendNumbered(Close(c), "HB"))
<1> DEFINE q == Pdu(c, "DISCREQ", <<>>)
           d == Close(c)
           e == SendNumbered(d, "HB")
<1>1. d = [c EXCEPT !.state = "CLOSED", !.hb_locked = TRUE, !.channel = FALSE,
                    !.wire = IF c.channel /\ c.state # "CLOSED" THEN Append(c.wire, q) ELSE c.wire]
  BY CloseIs
<1>2. q \in Pdus /\ q.type = "DISCREQ" /\ q.sn = c.sn_t /\ q.msgs = <<>>
  <2>1. <<>> \in Seq(Nat) /\ "DISCREQ" \in PduTypes
    BY DEF PduTypes
  <2>2. q \in Pdus
    BY <2>1, PduType
  <2>3. QED
    BY <2>2 DEF Pdu
<1> HIDE DEF q
<1>3. /\ d.state = "CLOSED" /\ ~d.channel /\ d.listed = c.listed /\ d.fifo_send = c.fifo_send
      /\ d.fifo_app_msg = c.fifo_app_msg
      /\ d.wire = IF c.channel /\ c.state # "CLOSED" THEN Append(c.wire, q) ELSE c.wire
      /\ d \in Connections
  BY <1>1, CloseType DEF Connections
<1> HIDE DEF d
<1>4. e = [d EXCEPT !.sn_t = Plus(d.sn_t, 1),
                    !.wire = IF d.channel THEN Append(d.wire, Pdu(d, "HB", <<>>)) ELSE d.wire]
  BY <1>3, SendNumberedIs DEF PduTypes
<1> HIDE DEF e
<1>5. /\ e.state = "CLOSED" /\ e.listed = c.listed /\ e.fifo_send = c.fifo_send
      /\ e.fifo_app_msg = c.fifo_app_msg /\ e.wire = d.wire
  BY <1>3, <1>4 DEF Connections
<1>6. Shuts(c, d) /\ Shuts(c, e)
  BY <1>2, <1>3, <1>5 DEF Shuts, Alive
<1>7. QED
  BY <1>6 DEF d, e

(* Steps. A handler changes its side and takes a PDU off the peer's wire;    *)
(* the other steps change one side.                                          *)
LEMMA TakenKeepsExact ==
  ASSUME TypeOK, Exact, NEW n \in Nodes, NEW e \in Connections, Wire(n) # <<>>, Taken(n, e),
         ExactSide(n, e, sent[n]),
         ASSUME NEW t \in Connections, Popped(node[Peer(n)], t)
         PROVE  /\ ExactLink(Peer(n), t, e, sent[Peer(n)])
                /\ ExactLink(n, e, t, sent[n])
  PROVE  Exact'
<1> DEFINE m == Peer(n)
           d == node[m]
           t == [d EXCEPT !.wire = Tail(d.wire)]
<1>1. m \in Nodes /\ m # n /\ Peer(m) = n /\ d \in Connections /\ sent[m] \in Nat
  BY PeerIsNode DEF TypeOK
<1>2. d.wire # <<>> /\ d.wire \in Seq(Pdus)
  BY <1>1, ConnectionFields DEF Wire
<1>3. t \in Connections /\ Popped(d, t)
  <2> HIDE DEF d
  <2>1. Tail(d.wire) \in Seq(Pdus)
    BY <1>2
  <2>2. QED
    BY <1>1, <1>2, <2>1 DEF Connections, Popped
<1>4. node'[n] = e /\ node'[m] = t /\ sent' = sent
  BY <1>1 DEF Taken
<1>5. ExactSide(m, t, sent[m])
  BY <1>1, <1>3, PoppedSide DEF Exact
<1>6. ExactLink(m, t, e, sent[m]) /\ ExactLink(n, e, t, sent[n])
  BY <1>3
<1>7. \A k \in Nodes : k = n \/ k = m
  BY <1>1 DEF Nodes
<1> HIDE DEF m, t, d
<1>8. ASSUME NEW k \in Nodes
      PROVE  /\ ExactSide(k, node'[k], sent'[k])
             /\ ExactLink(k, node'[k], node'[Peer(k)], sent'[k])
  <2>1. CASE k = n
    BY <1>4, <1>6, <2>1 DEF m
  <2>2. CASE k = m
    BY <1>1, <1>4, <1>5, <1>6, <2>2
  <2>3. QED
    BY <1>7, <2>1, <2>2
<1>9. QED
  BY <1>8 DEF Exact

LEMMA BecomesKeepsExact ==
  ASSUME TypeOK, Exact, NEW n \in Nodes, NEW e \in Connections, Becomes(n, e),
         sent'[Peer(n)] = sent[Peer(n)],
         ExactSide(n, e, sent'[n]),
         ExactLink(n, e, node[Peer(n)], sent'[n]),
         ExactLink(Peer(n), node[Peer(n)], e, sent[Peer(n)])
  PROVE  Exact'
<1> DEFINE m == Peer(n)
<1>1. m \in Nodes /\ m # n /\ Peer(m) = n
  BY PeerIsNode
<1>2. node'[n] = e /\ node'[m] = node[m]
  BY <1>1 DEF Becomes, TypeOK
<1>3. \A k \in Nodes : k = n \/ k = m
  BY <1>1 DEF Nodes
<1>4. ExactSide(m, node[m], sent[m])
  BY <1>1 DEF Exact
<1>5. /\ sent'[m] = sent[m] /\ ExactLink(n, e, node[m], sent'[n])
      /\ ExactLink(m, node[m], e, sent[m])
  OBVIOUS
<1> HIDE DEF m
<1>6. ASSUME NEW k \in Nodes
      PROVE  /\ ExactSide(k, node'[k], sent'[k])
             /\ ExactLink(k, node'[k], node'[Peer(k)], sent'[k])
  <2>1. CASE k = n
    BY <1>2, <1>5, <2>1 DEF m
  <2>2. CASE k = m
    BY <1>1, <1>2, <1>4, <1>5, <2>2
  <2>3. QED
    BY <1>3, <2>1, <2>2
<1>7. QED
  BY <1>6 DEF Exact

LEMMA SameSides ==
  ASSUME NEW s, NEW t, Popped(s, t)
  PROVE  SameReceiver(s, s) /\ SameReceiver(s, t)
BY DEF Popped, SameReceiver

LEMMA OneSide ==
  ASSUME TypeOK, Exact, NEW n \in Nodes
  PROVE  /\ node[n] \in Connections /\ node[Peer(n)] \in Connections
         /\ Peer(n) \in Nodes /\ Peer(Peer(n)) = n
         /\ sent[n] \in Nat /\ sent[Peer(n)] \in Nat
         /\ ExactSide(n, node[n], sent[n])
         /\ ExactSide(Peer(n), node[Peer(n)], sent[Peer(n)])
         /\ ExactLink(n, node[n], node[Peer(n)], sent[n])
         /\ ExactLink(Peer(n), node[Peer(n)], node[n], sent[Peer(n)])
<1>1. Peer(n) \in Nodes /\ Peer(Peer(n)) = n
  BY PeerIsNode
<1>2. QED
  BY <1>1 DEF Exact, TypeOK

\* A handler closes its connection.
LEMMA ShuttingHandler ==
  ASSUME TypeOK, Exact, NEW n \in Nodes, NEW e \in Connections, Wire(n) # <<>>, Taken(n, e),
         node[n].listed, Shuts(node[n], e)
  PROVE  Exact'
<1> DEFINE c == node[n]
           m == Peer(n)
           d == node[m]
<1>1. /\ c \in Connections /\ d \in Connections /\ m \in Nodes /\ Peer(m) = n
      /\ sent[n] \in Nat /\ sent[m] \in Nat
      /\ ExactSide(n, c, sent[n]) /\ ExactSide(m, d, sent[m])
      /\ ExactLink(n, c, d, sent[n]) /\ ExactLink(m, d, c, sent[m])
  BY OneSide
<1>2. d.wire # <<>> /\ Head(d.wire) \in Pdus
  BY HeadOfWire DEF Wire
<1>3. ~MayTake(e) /\ ~Tracks(n, e) /\ ~Alive(e)
  BY DEF Shuts, MayTake, Tracks, Alive
<1>4. ExactSide(n, e, sent[n])
  BY <1>1, ShutSide
<1>5. ASSUME NEW t \in Connections, Popped(d, t)
      PROVE  ExactLink(m, t, e, sent[m]) /\ ExactLink(n, e, t, sent[n])
  <2>1. SameReceiver(d, t)
    BY <1>5, SameSides
  <2>2. ExactLink(n, e, t, sent[n])
    BY <1>1, <2>1, ShutLink
  <2>3. ExactLink(m, t, e, sent[m])
    BY <1>1, <1>2, <1>3, <1>5, TakeLink
  <2>4. QED
    BY <2>2, <2>3
<1>6. QED
  BY <1>4, <1>5, TakenKeepsExact

\* A thread or the user closes it.
LEMMA ShuttingStep ==
  ASSUME TypeOK, Exact, NEW n \in Nodes, NEW e \in Connections, Becomes(n, e), sent' = sent,
         node[n].listed, Shuts(node[n], e)
  PROVE  Exact'
<1> DEFINE c == node[n]
           m == Peer(n)
           d == node[m]
<1>1. /\ c \in Connections /\ d \in Connections /\ m \in Nodes /\ Peer(m) = n
      /\ sent[n] \in Nat /\ sent[m] \in Nat
      /\ ExactSide(n, c, sent[n])
      /\ ExactLink(n, c, d, sent[n]) /\ ExactLink(m, d, c, sent[m])
  BY OneSide
<1>2. ~MayTake(e) /\ ~Tracks(n, e) /\ ~Alive(e)
  BY DEF Shuts, MayTake, Tracks, Alive
<1>3. ExactSide(n, e, sent[n])
  BY <1>1, ShutSide
<1>4. ExactLink(n, e, d, sent[n])
  BY <1>1, ShutLink DEF SameReceiver
<1>5. ExactLink(m, d, e, sent[m])
  BY <1>1, <1>2, ReceiverLink
<1>6. QED
  BY <1>3, <1>4, <1>5, BecomesKeepsExact

\* A handler, or the code around it, drops a PDU.
LEMMA Dropping ==
  ASSUME TypeOK, Exact, NEW n \in Nodes, Wire(n) # <<>>, Taken(n, node[n]),
         MayTake(node[n]) => Head(Wire(n)).type # "DATA",
         Tracks(n, node[n]) => Head(Wire(n)).type = "DISCREQ"
  PROVE  Exact'
<1> DEFINE c == node[n]
           m == Peer(n)
           d == node[m]
           p == Head(d.wire)
<1>1. /\ c \in Connections /\ d \in Connections /\ m \in Nodes /\ Peer(m) = n
      /\ sent[n] \in Nat /\ sent[m] \in Nat
      /\ ExactSide(n, c, sent[n]) /\ ExactSide(m, d, sent[m])
      /\ ExactLink(n, c, d, sent[n]) /\ ExactLink(m, d, c, sent[m])
  BY OneSide
<1>2. d.wire # <<>> /\ p \in Pdus /\ p = Head(Wire(n))
  BY HeadOfWire DEF Wire
<1> HIDE DEF c, d, m, p
<1>3. ASSUME NEW t \in Connections, Popped(d, t)
      PROVE  ExactLink(m, t, c, sent[m]) /\ ExactLink(n, c, t, sent[n])
  <2>1. SameReceiver(d, t)
    BY <1>3, SameSides
  <2>2. /\ c.cs_t \in SequenceNumbers /\ c.sn_t \in SequenceNumbers /\ m \in Nodes
        /\ Num(m, c.cs_t) \in Nat /\ Num(n, c.sn_t) \in Nat
    BY <1>1, ConnectionFields, NumIs
  <2>3. ExactLink(n, c, t, sent[n])
    BY <1>1, <2>1, <2>2, SilentLink DEF m
  <2>4. /\ p = d.wire[1] /\ 1 \in 1..Len(d.wire) /\ Len(d.wire) = Len(t.wire) + 1
        /\ \A i \in 1..Len(t.wire) : i + 1 \in 1..Len(d.wire) /\ t.wire[i] = d.wire[i + 1]
        /\ Len(t.wire) \in Nat /\ t.wire \in Seq(Pdus)
    BY <1>1, <1>3, TailAt, ConnectionFields DEF p
  <2>5. ASSUME MayTake(c)
        PROVE  Len(c.fifo_app_msg) = Len(c.fifo_app_msg) + Len(p.msgs)
    <3>1. p.msgs = <<>>
      BY <1>1, <1>2, <2>4, <2>5 DEF ExactSide, ExactWire, c
    <3>2. Len(c.fifo_app_msg) \in Nat /\ Len(p.msgs) = 0
      BY <1>1, <3>1, ConnectionFields
    <3>3. QED
      BY <3>2
  <2>6. ASSUME Tracks(n, c)
        PROVE  t.wire = <<>> /\ ~Alive(d)
    <3>1. p.type = "DISCREQ"
      BY <1>2, <2>6 DEF c
    <3>2. 1 = Len(d.wire) /\ d.state = "CLOSED"
      BY <1>1, <2>4, <3>1 DEF ExactSide, ExactWire
    <3>3. QED
      BY <2>4, <3>2 DEF Alive
  <2>7. Tracks(n, c) /\ Tracks(m, d) => FALSE
    BY <2>6 DEF Tracks, Alive
  <2>8. \A i \in 1..Len(t.wire) : ~Tracks(n, c)
    BY <2>6
  <2>9. ExactLink(m, t, c, sent[m])
    <3>1. p = Head(d.wire) /\ Num(Peer(m), c.sn_t) <= Num(Peer(m), c.sn_t)
      BY <1>1, <2>2 DEF p
    <3>2. QED
      BY <1>1, <1>2, <1>3, <2>5, <2>6, <2>7, <2>8, <3>1, TakeLink
  <2>10. QED
    BY <2>3, <2>9
<1>4. QED
  BY <1>1, <1>3, TakenKeepsExact DEF c, d, m

\* The first PDU on the way to a side: where the side tracks the numbers, it is
\* the one expected, and its numbers are plausible.
LEMMA HeadIsNext ==
  ASSUME TypeOK, Exact, NEW n \in Nodes, Wire(n) # <<>>
  PROVE  LET c == node[n]
             p == Head(Wire(n))
         IN  /\ p.type \in {"DISCREQ", TypeAt(Peer(n), Num(Peer(n), p.sn))}
             /\ p.type # "DATA" => p.msgs = <<>>
             /\ p.type # "DISCREQ" => Num(Peer(n), p.sn) + 1 < Modulus
             /\ Tracks(n, c) =>
                  /\ p.sn = c.sn_r
                  /\ p.type \in {"DISCREQ", IF c.state = "START" THEN "HB" ELSE "DATA"}
                  /\ p.type \in Acks => Plausible(c, p) /\ Num(n, c.cs_r) <= Num(n, p.cs)
             /\ MayTake(c) => \A k \in 1..Len(p.msgs) : p.msgs[k] = Len(c.fifo_app_msg) + k
<1> DEFINE c == node[n]
           m == Peer(n)
           d == node[m]
           p == Head(Wire(n))
<1>1. /\ c \in Connections /\ d \in Connections /\ m \in Nodes /\ Peer(m) = n
      /\ ExactSide(n, c, sent[n]) /\ ExactSide(m, d, sent[m])
      /\ ExactLink(m, d, c, sent[m])
  BY OneSide
<1>2. p \in Pdus /\ d.wire \in Seq(Pdus) /\ d.wire # <<>> /\ p = Head(d.wire)
  BY HeadOfWire DEF Wire
<1>3. 1 \in 1..Len(d.wire) /\ p = d.wire[1]
  <2> HIDE DEF d, p
  <2>1. QED
    BY <1>2
<1>4. \A k : k = "client" \/ k = "server" => (Peer(k) = "client" <=> k = "server")
  BY DEF Peer
<1>5. n = "client" \/ n = "server"
  BY DEF Nodes
<1> HIDE DEF c, d, p, m
<1>6. /\ p.type \in {"DISCREQ", TypeAt(m, Num(m, p.sn))}
      /\ p.type # "DATA" => p.msgs = <<>>
      /\ p.type # "DISCREQ" => Num(m, p.sn) + 1 < Modulus
  BY <1>1, <1>3 DEF ExactSide, ExactWire
<1>7. PICK a \in Nat, f \in Messengers(d.wire) : ExactRoute(m, d, c, sent[m], a, f)
  BY <1>1 DEF ExactLink
<1>8. Num(m, p.sn) = a + (1 - 1)
  BY <1>3, <1>7 DEF ExactRoute
<1>9. /\ p.sn \in SequenceNumbers /\ c.sn_r \in SequenceNumbers /\ c.cs_r \in SequenceNumbers
      /\ p.cs \in SequenceNumbers /\ c.sn_t \in SequenceNumbers
  BY <1>1, <1>2, ConnectionFields, PduFields
<1>10. ASSUME Tracks(n, c)
       PROVE  /\ p.sn = c.sn_r
              /\ p.type \in {"DISCREQ", IF c.state = "START" THEN "HB" ELSE "DATA"}
              /\ p.type \in Acks => Plausible(c, p) /\ Num(n, c.cs_r) <= Num(n, p.cs)
  <2>1. Num(m, c.sn_r) = a
    BY <1>1, <1>7, <1>10 DEF ExactRoute
  <2>2. p.sn = c.sn_r
    BY <1>1, <1>8, <1>9, <2>1, NumsDiffer
  <2>3. /\ Num(m, c.sn_r) >= 2
        /\ n = "server" => (c.state = "START" <=> Num(m, c.sn_r) = 2)
        /\ n = "client" => c.state # "START"
    BY <1>1, <1>10 DEF ExactSide, ExactNumbers, Tracks, m
  <2>4. TypeAt(m, Num(m, c.sn_r)) = IF c.state = "START" THEN "HB" ELSE "DATA"
    BY <1>4, <1>5, <2>1, <2>3 DEF TypeAt, m
  <2>5. ASSUME p.type \in Acks
        PROVE  Plausible(c, p) /\ Num(n, c.cs_r) <= Num(n, p.cs)
    <3>1. Alive(c)
      BY <1>10 DEF Tracks, Alive
    <3>2. Num(n, c.cs_r) <= Num(n, p.cs) /\ Num(n, p.cs) < Num(n, c.sn_t)
      BY <1>1, <1>3, <1>10, <2>5, <3>1 DEF ExactLink, ExactAcks
    <3>3. Num(n, c.cs_r) \in Nat /\ Num(n, p.cs) \in Nat /\ Num(n, c.sn_t) \in Nat
      BY <1>9, NumIs
    <3>4. /\ Minus(p.cs, c.cs_r) = Num(n, p.cs) - Num(n, c.cs_r)
          /\ Minus(c.sn_t, c.cs_r) = Num(n, c.sn_t) - Num(n, c.cs_r)
      BY <1>9, <3>2, <3>3, NumsDiffer
    <3>5. Minus(p.sn, c.sn_r) = 0 /\ 0 <= SnRange
      <4>1. Num(m, p.sn) <= Num(m, c.sn_r) /\ Num(m, c.sn_r) - Num(m, p.sn) = 0
        BY <1>8, <2>1
      <4>2. Minus(c.sn_r, p.sn) = 0
        BY <1>1, <1>9, <4>1, NumsDiffer
      <4>3. QED
        BY <2>2, <4>2, RastaConnectionAssumption
    <3>6. QED
      BY <3>2, <3>3, <3>4, <3>5 DEF Plausible
  <2>6. QED
    BY <1>6, <2>2, <2>4, <2>5
<1>11. MayTake(c) => \A k \in 1..Len(p.msgs) : p.msgs[k] = Len(c.fifo_app_msg) + k
  BY <1>3, <1>7 DEF ExactRoute
<1>12. QED
  BY <1>6, <1>10, <1>11 DEF c, p, m

\* A side that tracks the numbers takes the PDU it expects, and is UP from then on.
TakesNext(c, p, e) ==
    /\ e.state = "UP" /\ e.listed /\ e.channel /\ c.listed
    /\ e.fifo_send = c.fifo_send /\ e.fifo_app_msg = c.fifo_app_msg \o p.msgs
    /\ e.wire = c.wire /\ e.sn_t = c.sn_t
    /\ e.cs_t = p.sn /\ e.sn_r = Plus(p.sn, 1) /\ e.cs_r = p.cs

LEMMA AcceptingSide ==
  ASSUME NEW n \in Nodes, NEW c \in Connections, NEW e \in Connections, NEW g \in Nat,
         NEW p \in Pdus, ExactSide(n, c, g), Tracks(n, c), TakesNext(c, p, e),
         p.sn = c.sn_r, Num(Peer(n), p.sn) + 1 < Modulus,
         \A k \in 1..Len(p.msgs) : p.msgs[k] = Len(c.fifo_app_msg) + k
  PROVE  /\ ExactSide(n, e, g)
         /\ Num(Peer(n), e.sn_r) = Num(Peer(n), p.sn) + 1
         /\ Num(Peer(n), c.cs_t) <= Num(Peer(n), e.cs_t)
         /\ Len(e.fifo_app_msg) = Len(c.fifo_app_msg) + Len(p.msgs)
<1> DEFINE m == Peer(n)
<1>1. /\ m \in Nodes /\ p.sn \in SequenceNumbers /\ c.cs_t \in SequenceNumbers
      /\ c.sn_r \in SequenceNumbers /\ c.sn_t \in SequenceNumbers
      /\ \A i \in 1..Len(c.wire) : c.wire[i].cs \in SequenceNumbers
  BY PeerIsNode, ConnectionFields, PduFields
<1>2. /\ Num(m, p.sn) \in Nat /\ Num(m, c.cs_t) \in Nat /\ Num(n, c.sn_t) \in Nat
      /\ \A i \in 1..Len(c.wire) : Num(m, c.wire[i].cs) \in Nat
  BY <1>1, NumIs
<1>3. Num(m, e.sn_r) = Num(m, p.sn) + 1
  BY <1>1, NextNum DEF TakesNext
<1>4. /\ Num(m, p.sn) = Num(m, c.cs_t) + 1 /\ Num(m, p.sn) >= 2
      /\ n = "server" => (c.state = "START" <=> Num(m, p.sn) = 2)
      /\ \A i \in 1..Len(c.wire) : c.wire[i].type \in Acks =>
           Num(m, c.wire[i].cs) <= Num(m, c.cs_t)
  BY DEF ExactSide, ExactNumbers
<1>5. /\ Alive(c) /\ (c.state = "START" => n = "server") /\ (c.state = "START" \/ c.state = "UP")
      /\ n = "client" \/ n = "server"
  BY DEF Tracks, Alive, Nodes
<1> HIDE DEF m
<1>6. ExactNumbers(n, e, g)
  <2>1. /\ Num(m, e.sn_r) = Num(m, e.cs_t) + 1 /\ Num(m, e.sn_r) >= 3
        /\ e.cs_t = p.sn
    BY <1>2, <1>3, <1>4 DEF TakesNext
  <2>2. \A i \in 1..Len(c.wire) : c.wire[i].type \in Acks =>
          Num(m, c.wire[i].cs) <= Num(m, p.sn)
    BY <1>2, <1>4
  <2>3. /\ Num(n, c.sn_t) >= IF n = "client" THEN 3 ELSE 2
        /\ Num(n, c.sn_t) <= 3 + (g - Len(c.fifo_send))
    BY <1>5 DEF ExactSide, ExactNumbers
  <2>4. e.state = "UP" /\ e.sn_t = c.sn_t /\ e.wire = c.wire /\ e.fifo_send = c.fifo_send
    BY DEF TakesNext
  <2>5. e.state # "START" /\ Num(m, e.sn_r) # 2 /\ Num(m, e.sn_r) >= 2
    BY <1>2, <1>3, <2>1, <2>4
  <2>6. QED
    BY <2>1, <2>2, <2>3, <2>4, <2>5 DEF ExactNumbers, m
<1>7. Len(e.fifo_app_msg) = Len(c.fifo_app_msg) + Len(p.msgs)
      /\ \A k \in 1..Len(e.fifo_app_msg) : e.fifo_app_msg[k] = k
  <2> DEFINE x == c.fifo_app_msg
             y == p.msgs
  <2>1. x \in Seq(Nat) /\ y \in Seq(Nat) /\ e.fifo_app_msg = x \o y
    BY ConnectionFields, PduFields DEF TakesNext
  <2>2. (\A k \in 1..Len(x) : x[k] = k) /\ (\A k \in 1..Len(y) : y[k] = Len(x) + k)
    BY DEF ExactSide, ExactMessages
  <2> HIDE DEF x, y
  <2>3. Len(x \o y) = Len(x) + Len(y) /\ Len(x) \in Nat /\ Len(y) \in Nat
    BY <2>1
  <2>4. ASSUME NEW k \in 1..Len(x \o y)
        PROVE  (x \o y)[k] = k
    <3>1. CASE k <= Len(x)
      <4>1. k \in 1..Len(x) /\ (x \o y)[k] = x[k]
        BY <2>1, <2>3, <3>1
      <4>2. QED
        BY <2>2, <4>1
    <3>2. CASE ~(k <= Len(x))
      <4>1. k - Len(x) \in 1..Len(y) /\ (x \o y)[k] = y[k - Len(x)]
        BY <2>1, <2>3, <3>2
      <4>2. y[k - Len(x)] = Len(x) + (k - Len(x))
        BY <2>2, <4>1
      <4>3. QED
        BY <2>3, <4>1, <4>2
    <3>3. QED
      BY <3>1, <3>2
  <2>5. QED
    BY <2>1, <2>3, <2>4 DEF x, y
<1>8. ExactMessages(n, e, g)
  BY <1>7 DEF ExactSide, ExactMessages, TakesNext
<1>9. ExactWire(n, e.wire) /\ \A i \in 1..Len(e.wire) : e.wire[i].type # "DISCREQ"
  BY <1>5 DEF ExactSide, TakesNext, Alive
<1>10. ExactSide(n, e, g)
  BY <1>6, <1>8, <1>9 DEF ExactSide, TakesNext
<1>11. Num(m, c.cs_t) <= Num(m, e.cs_t)
  BY <1>2, <1>4 DEF TakesNext
<1>12. QED
  BY <1>3, <1>7, <1>10, <1>11 DEF m

LEMMA AcceptingHandler ==
  ASSUME TypeOK, Exact, NEW n \in Nodes, NEW e \in Connections, Wire(n) # <<>>, Taken(n, e),
         Tracks(n, node[n]), Head(Wire(n)).type \in Acks,
         TakesNext(node[n], Head(Wire(n)), e)
  PROVE  Exact'
<1> DEFINE c == node[n]
           m == Peer(n)
           d == node[m]
           p == Head(Wire(n))
<1>1. /\ c \in Connections /\ d \in Connections /\ m \in Nodes /\ Peer(m) = n
      /\ sent[n] \in Nat /\ sent[m] \in Nat
      /\ ExactSide(n, c, sent[n]) /\ ExactSide(m, d, sent[m])
      /\ ExactLink(n, c, d, sent[n]) /\ ExactLink(m, d, c, sent[m])
  BY OneSide
<1>2. d.wire # <<>> /\ p \in Pdus /\ p = Head(d.wire)
  BY HeadOfWire DEF Wire
<1>3. /\ p.sn = c.sn_r /\ Num(m, p.sn) + 1 < Modulus /\ MayTake(c)
      /\ \A k \in 1..Len(p.msgs) : p.msgs[k] = Len(c.fifo_app_msg) + k
  <2>1. MayTake(c) /\ p.type # "DISCREQ"
    BY DEF MayTake, Tracks, Acks
  <2>2. QED
    BY <2>1, HeadIsNext
<1>4. /\ Tracks(n, c) /\ p.type \in Acks /\ TakesNext(c, p, e)
  OBVIOUS
<1> HIDE DEF c, m, d, p
<1>5. /\ ExactSide(n, e, sent[n])
      /\ Num(m, e.sn_r) = Num(m, p.sn) + 1
      /\ Num(m, c.cs_t) <= Num(m, e.cs_t)
      /\ Len(e.fifo_app_msg) = Len(c.fifo_app_msg) + Len(p.msgs)
  <2> DEFINE g == sent[n]
  <2>1. g \in Nat /\ c \in Connections /\ p \in Pdus /\ ExactSide(n, c, g)
    BY <1>1, <1>2
  <2> HIDE DEF g
  <2>2. /\ ExactSide(n, e, g)
        /\ Num(Peer(n), e.sn_r) = Num(Peer(n), p.sn) + 1
        /\ Num(Peer(n), c.cs_t) <= Num(Peer(n), e.cs_t)
        /\ Len(e.fifo_app_msg) = Len(c.fifo_app_msg) + Len(p.msgs)
    BY <1>3, <1>4, <2>1, AcceptingSide DEF m
  <2>3. QED
    BY <2>2 DEF g, m
<1>6. /\ e.wire = c.wire /\ e.fifo_send = c.fifo_send /\ e.sn_t = c.sn_t /\ e.cs_r = p.cs
      /\ Alive(c)
  BY <1>4 DEF TakesNext, Tracks, Alive
<1>7. Num(n, c.sn_t) \in Nat
  BY <1>1, ConnectionFields, NumIs
<1>8. ASSUME NEW t \in Connections, Popped(d, t)
      PROVE  ExactLink(m, t, e, sent[m]) /\ ExactLink(n, e, t, sent[n])
  <2>1. SameReceiver(d, t)
    BY <1>8, SameSides
  <2>2. ExactLink(n, e, t, sent[n])
    BY <1>1, <1>4, <1>5, <1>6, <2>1, SilentLink DEF m
  <2>3. /\ \A i \in 1..Len(t.wire) : t.wire[i].type \in Acks =>
             Num(n, e.cs_r) <= Num(n, t.wire[i].cs)
        /\ Tracks(m, d) => Num(n, e.cs_r) <= Num(n, d.cs_t)
    BY <1>1, <1>2, <1>4, <1>6, <1>8, LaterAcks
  <2>4. Num(n, c.sn_t) <= Num(n, e.sn_t)
    BY <1>6, <1>7
  <2>5. ExactLink(m, t, e, sent[m])
    BY <1>1, <1>2, <1>3, <1>5, <1>6, <1>8, <2>3, <2>4, TakeLink
  <2>6. QED
    BY <2>2, <2>5
<1>9. QED
  BY <1>1, <1>4, <1>5, <1>8, TakenKeepsExact DEF c, m, d, p

\* The client takes the ConnectionResponse: it is UP, and answers with a heartbeat.
LEMMA EstablishedIs ==
  ASSUME NEW c \in Connections, NEW p \in Pdus, c.channel
  PROVE  LET e == SendNumbered(Establish(c, p), "HB")
             q == Pdu(Establish(c, p), "HB", <<>>)
         IN  /\ e \in Connections /\ q \in Pdus
             /\ e.state = "UP" /\ e.listed = c.listed /\ e.channel
             /\ e.fifo_send = c.fifo_send /\ e.fifo_app_msg = c.fifo_app_msg
             /\ e.sn_t = Plus(c.sn_t, 1) /\ e.cs_t = p.sn
             /\ e.sn_r = Plus(p.sn, 1) /\ e.cs_r = p.cs
             /\ e.wire = Append(c.wire, q)
             /\ q.type = "HB" /\ q.sn = c.sn_t /\ q.cs = p.sn /\ q.msgs = <<>>
<1> DEFINE d == Establish(c, p)
           q == Pdu(d, "HB", <<>>)
           e == SendNumbered(d, "HB")
<1>1. /\ d \in Connections /\ "HB" \in PduTypes /\ <<>> \in Seq(Nat)
  BY EstablishType DEF PduTypes
<1>2. /\ d.state = "UP" /\ d.listed = c.listed /\ d.channel = c.channel /\ d.wire = c.wire
      /\ d.fifo_send = c.fifo_send /\ d.fifo_app_msg = c.fifo_app_msg
      /\ d.sn_t = c.sn_t /\ d.cs_t = p.sn /\ d.sn_r = Plus(p.sn, 1) /\ d.cs_r = p.cs
  BY DEF Establish, Accept, Connections
<1> HIDE DEF d
<1>3. q \in Pdus /\ e \in Connections
  BY <1>1, PduType, SendNumberedType
<1>4. q.type = "HB" /\ q.sn = c.sn_t /\ q.cs = p.sn /\ q.msgs = <<>>
  BY <1>2 DEF Pdu
<1>5. e = [d EXCEPT !.sn_t = Plus(d.sn_t, 1), !.wire = IF d.channel THEN Append(d.wire, q) ELSE d.wire]
  BY <1>1, SendNumberedIs
<1> HIDE DEF e, q
<1>6. /\ e.state = "UP" /\ e.listed = c.listed /\ e.channel
      /\ e.fifo_send = c.fifo_send /\ e.fifo_app_msg = c.fifo_app_msg
      /\ e.sn_t = Plus(c.sn_t, 1) /\ e.cs_t = p.sn
      /\ e.sn_r = Plus(p.sn, 1) /\ e.cs_r = p.cs
      /\ e.wire = Append(c.wire, q)
  BY <1>1, <1>2, <1>5 DEF Connections
<1>7. QED
  BY <1>3, <1>4, <1>6 DEF e, q, d

LEMMA EstablishedSide ==
  ASSUME MessagesFit, NEW c \in Connections, NEW e \in Connections, NEW g \in Nat,
         NEW p \in Pdus, NEW q \in Pdus,
         ExactSide("client", c, g), c.state = "START", c.listed,
         Only(c.wire, {"CONREQ", "DISCREQ"}), Num("server", p.sn) = 1,
         e.state = "UP", e.listed, e.channel,
         e.fifo_send = c.fifo_send, e.fifo_app_msg = c.fifo_app_msg,
         e.sn_t = Plus(c.sn_t, 1), e.cs_t = p.sn, e.sn_r = Plus(p.sn, 1),
         e.wire = Append(c.wire, q),
         q.type = "HB", q.sn = c.sn_t, q.cs = p.sn, q.msgs = <<>>
  PROVE  /\ ExactSide("client", e, g)
         /\ Num("client", c.sn_t) = 2 /\ Num("client", e.sn_t) = 3 /\ Num("server", e.sn_r) = 2
<1>1. /\ "client" \in Nodes /\ "server" \in Nodes
      /\ Peer("client") = "server" /\ Peer("server") = "client"
      /\ c.sn_t \in SequenceNumbers /\ p.sn \in SequenceNumbers /\ c.wire \in Seq(Pdus)
  BY ConnectionFields, PduFields DEF Nodes, Peer
<1>2. Modulus \in Nat /\ 3 < Modulus
  <2>1. Messages["client"] \in Nat /\ Messages["client"] + 4 <= Modulus /\ Modulus \in Nat
    BY <1>1, RastaConnectionAssumption DEF MessagesFit
  <2>2. QED
    BY <2>1
<1>3. Num("client", c.sn_t) = 2 /\ c.fifo_send = <<>>
  BY DEF ExactSide, ExactNumbers, ExactMessages
<1>4. Num("client", e.sn_t) = 3 /\ Num("server", e.sn_r) = 2
  <2>1. /\ Num("client", c.sn_t) + 1 < Modulus /\ Num("server", p.sn) + 1 < Modulus
        /\ Num("client", c.sn_t) + 1 = 3 /\ Num("server", p.sn) + 1 = 2
    BY <1>2, <1>3
  <2>2. Num("client", e.sn_t) = Num("client", c.sn_t) + 1
    BY <1>1, <2>1, NextNum
  <2>3. Num("server", e.sn_r) = Num("server", p.sn) + 1
    BY <1>1, <2>1, NextNum
  <2>4. QED
    BY <2>1, <2>2, <2>3
<1>5. \A i \in 1..Len(c.wire) : c.wire[i].type # "DISCREQ" /\ c.wire[i].type \notin Acks
  BY DEF ExactSide, Only, Acks
<1>6. TypeAt("client", 2) = "HB"
  BY DEF TypeAt
<1>7. ExactWire("client", e.wire)
  BY <1>1, <1>2, <1>3, <1>5, <1>6, AppendedWire DEF ExactSide
<1>8. /\ Len(e.wire) = Len(c.wire) + 1 /\ Len(c.wire) \in Nat
      /\ \A i \in 1..(Len(c.wire) + 1) : e.wire[i] = IF i <= Len(c.wire) THEN c.wire[i] ELSE q
  BY <1>1, AppendedAt
<1>9. \A i \in 1..Len(e.wire) :
        /\ e.wire[i].type # "DISCREQ"
        /\ e.wire[i].type \in Acks => e.wire[i].cs = p.sn
  <2> SUFFICES ASSUME NEW i \in 1..(Len(c.wire) + 1)
               PROVE  /\ e.wire[i].type # "DISCREQ"
                      /\ e.wire[i].type \in Acks => e.wire[i].cs = p.sn
    BY <1>8
  <2>1. CASE i <= Len(c.wire)
    <3>1. i \in 1..Len(c.wire) /\ e.wire[i] = c.wire[i]
      BY <1>8, <2>1
    <3>2. QED
      BY <1>5, <3>1
  <2>2. CASE ~(i <= Len(c.wire))
    BY <1>8, <2>2
  <2>3. QED
    BY <2>1, <2>2
<1>10. ExactNumbers("client", e, g)
  <2>1. Len(e.fifo_send) = 0
    BY <1>3
  <2>2. Num("client", e.sn_t) >= 3 /\ Num("client", e.sn_t) <= 3 + (g - Len(e.fifo_send))
    BY <1>4, <2>1
  <2>3. /\ Num("server", e.sn_r) = Num("server", e.cs_t) + 1 /\ Num("server", e.sn_r) >= 2
    BY <1>4
  <2>4. \A i \in 1..Len(e.wire) : e.wire[i].type \in Acks =>
          Num("server", e.wire[i].cs) <= Num("server", e.cs_t)
    BY <1>9
  <2>5. QED
    BY <1>1, <2>2, <2>3, <2>4 DEF ExactNumbers
<1>11. ExactMessages("client", e, g)
  BY DEF ExactSide, ExactMessages
<1>12. ExactSide("client", e, g)
  BY <1>7, <1>9, <1>10, <1>11 DEF ExactSide
<1>13. QED
  BY <1>3, <1>4, <1>12

LEMMA EstablishingHandler ==
  ASSUME MessagesFit, TypeOK, Exact, HandshakeInv, Wire("client") # <<>>,
         node["client"].state = "START", node["client"].listed, node["client"].channel,
         Head(Wire("client")).type = "CONRESP",
         Head(Wire("client")).cs = Minus(node["client"].sn_t, 1),
         Taken("client", SendNumbered(Establish(node["client"], Head(Wire("client"))), "HB"))
  PROVE  Exact'
<1> DEFINE c == node["client"]
           d == node["server"]
           p == Head(Wire("client"))
           e == SendNumbered(Establish(c, p), "HB")
           q == Pdu(Establish(c, p), "HB", <<>>)
<1>1. /\ "client" \in Nodes /\ "server" \in Nodes
      /\ Peer("client") = "server" /\ Peer("server") = "client"
  BY DEF Nodes, Peer
<1>2. /\ c \in Connections /\ d \in Connections
      /\ sent["client"] \in Nat /\ sent["server"] \in Nat
      /\ ExactSide("client", c, sent["client"]) /\ ExactSide("server", d, sent["server"])
      /\ ExactLink("client", c, d, sent["client"]) /\ ExactLink("server", d, c, sent["server"])
  BY <1>1, OneSide
<1>3. d.wire # <<>> /\ p \in Pdus /\ p = Head(d.wire)
  BY <1>1, HeadOfWire DEF Wire
<1>4. Waits(d) /\ Only(c.wire, {"CONREQ", "DISCREQ"})
  BY <1>1 DEF HandshakeInv, SideInv, ClientInv, Open
<1>5. Num("server", p.sn) = 1 /\ p.msgs = <<>>
  <2>1. p.type \in {"DISCREQ", TypeAt("server", Num("server", p.sn))} /\ p.msgs = <<>>
    BY <1>1, HeadIsNext
  <2>2. QED
    BY <2>1 DEF TypeAt
<1>6. /\ c.state = "START" /\ c.listed /\ c.channel /\ p.cs = Minus(c.sn_t, 1)
      /\ Taken("client", e) /\ p.type = "CONRESP"
  OBVIOUS
<1>7. /\ e \in Connections /\ q \in Pdus
      /\ e.state = "UP" /\ e.listed = c.listed /\ e.channel
      /\ e.fifo_send = c.fifo_send /\ e.fifo_app_msg = c.fifo_app_msg
      /\ e.sn_t = Plus(c.sn_t, 1) /\ e.cs_t = p.sn
      /\ e.sn_r = Plus(p.sn, 1) /\ e.cs_r = p.cs
      /\ e.wire = Append(c.wire, q)
      /\ q.type = "HB" /\ q.sn = c.sn_t /\ q.cs = p.sn /\ q.msgs = <<>>
  <2> HIDE DEF c, p
  <2>1. QED
    BY <1>2, <1>3, <1>6, EstablishedIs
<1> DEFINE g == sent["client"]
           h == sent["server"]
<1>8. g \in Nat /\ h \in Nat /\ ExactSide("client", c, g) /\ ExactSide("server", d, h)
      /\ ExactLink("client", c, d, g) /\ ExactLink("server", d, c, h)
  BY <1>2
<1> HIDE DEF c, d, p, e, q, g, h
<1>9. /\ ExactSide("client", e, g)
      /\ Num("client", c.sn_t) = 2 /\ Num("client", e.sn_t) = 3 /\ Num("server", e.sn_r) = 2
  BY <1>2, <1>3, <1>4, <1>5, <1>6, <1>7, <1>8, EstablishedSide
<1>10. /\ d.state \in {"START", "CLOSED"}
       /\ d.state = "START" => Num("server", d.sn_t) = 2 /\ Num("server", d.cs_r) = 0
  BY <1>4, <1>8 DEF Waits, ExactSide, ExactNumbers
<1>11. ASSUME NEW t \in Connections, Popped(d, t)
       PROVE  ExactLink("server", t, e, h) /\ ExactLink("client", e, t, g)
  <2>1. SameReceiver(d, t)
    BY <1>11, SameSides
  <2>2. ExactLink("client", e, t, g)
    <3>1. g - Len(c.fifo_send) \in Nat /\ g - Len(e.fifo_send) = (g - Len(c.fifo_send)) + Len(q.msgs)
          /\ Len(q.msgs) = 0
      <4>1. Len(c.fifo_send) \in Nat /\ Len(c.fifo_send) <= g
        BY <1>2, <1>8, ConnectionFields DEF ExactSide, ExactMessages
      <4>2. QED
        BY <1>7, <1>8, <4>1
    <3>2. \A k \in 1..Len(q.msgs) : q.msgs[k] = (g - Len(c.fifo_send)) + k
      BY <3>1
    <3>3. Tracks("server", d) => Num("server", d.cs_r) <= Num("server", q.cs)
      BY <1>5, <1>7, <1>10 DEF Tracks
    <3>4. Alive(d) => Num("server", q.cs) < Num("server", d.sn_t)
      BY <1>5, <1>7, <1>10 DEF Alive
    <3>5. Alive(c) /\ Tracks("client", e) /\ Num("client", e.sn_t) = Num("client", c.sn_t) + 1
          /\ e.cs_t = q.cs
      BY <1>6, <1>7, <1>9 DEF Alive, Tracks
    <3>6. QED
      BY <1>1, <1>2, <1>7, <1>8, <2>1, <3>1, <3>2, <3>3, <3>4, <3>5, SendLink
  <2>3. ExactLink("server", t, e, h)
    <3>1. /\ \A i \in 1..Len(t.wire) : t.wire[i].type \in Acks =>
               Num("client", p.cs) <= Num("client", t.wire[i].cs)
          /\ Tracks("server", d) => Num("client", p.cs) <= Num("client", d.cs_t)
      BY <1>1, <1>2, <1>3, <1>6, <1>8, <1>11, LaterAcks DEF Acks
    <3>2. Alive(c) /\ Num("client", c.sn_t) <= Num("client", e.sn_t)
          /\ Num("server", e.sn_r) = Num("server", p.sn) + 1
      BY <1>5, <1>6, <1>9 DEF Alive
    <3>3. MayTake(c) /\ Len(e.fifo_app_msg) = Len(c.fifo_app_msg) + Len(p.msgs)
      BY <1>2, <1>5, <1>6, <1>7, ConnectionFields DEF MayTake
    <3>4. QED
      BY <1>1, <1>2, <1>3, <1>7, <1>8, <1>11, <3>1, <3>2, <3>3, TakeLink
  <2>4. QED
    BY <2>2, <2>3
<1>12. Taken("client", e) /\ Wire("client") # <<>>
  BY <1>6
<1>13. QED
  BY <1>1, <1>7, <1>9, <1>11, <1>12, TakenKeepsExact DEF c, d, g, h

\* The first PDU of a side. Before it there was nothing on the way.
LEMMA FirstLink ==
  ASSUME NEW m \in Nodes, NEW c \in Connections, NEW e \in Connections,
         NEW r \in Connections, NEW t \in Connections, NEW g \in Nat, NEW q \in Pdus,
         ExactLink(m, c, r, g), c.wire = <<>>, c.fifo_send = <<>>,
         MayTake(t) => MayTake(r) /\ t.fifo_app_msg = r.fifo_app_msg,
         ~Tracks(Peer(m), t),
         e.wire = <<q>>, e.fifo_send = <<>>, Num(m, q.sn) = 1, Num(m, e.sn_t) = 2,
         q.msgs = <<>>,
         q.type \in Acks /\ Alive(t) => Num(Peer(m), q.cs) < Num(Peer(m), t.sn_t)
  PROVE  ExactLink(m, e, t, g)
<1>1. /\ Len(e.wire) = 1 /\ e.wire[1] = q /\ Len(q.msgs) = 0 /\ Len(c.wire) = 0
      /\ Len(c.fifo_send) = 0 /\ Len(e.fifo_send) = 0
      /\ \A i \in 1..1 : i = 1
  OBVIOUS
<1>2. PICK a \in Nat, f \in Messengers(c.wire) : ExactRoute(m, c, r, g, a, f)
  BY DEF ExactLink
<1>3. MayTake(t) => g = Len(t.fifo_app_msg)
  <2>1. f[0 + 1] = g - 0
    BY <1>1, <1>2 DEF ExactRoute
  <2>2. f[1] = g
    BY <2>1
  <2>3. MayTake(r) => f[1] = Len(r.fifo_app_msg)
    BY <1>2 DEF ExactRoute
  <2>4. QED
    BY <2>2, <2>3
<1> DEFINE F == [i \in 1..(1 + 1) |-> g]
<1>4. F \in Messengers(e.wire) /\ F[1] = g /\ F[1 + 1] = g
  BY <1>1 DEF Messengers
<1> HIDE DEF F
<1>5. ExactRoute(m, e, t, g, 1, F)
  <2>1. \A i \in 1..Len(e.wire) : Num(m, e.wire[i].sn) = 1 + (i - 1)
    BY <1>1
  <2>2. Alive(e) => Num(m, e.sn_t) = 1 + Len(e.wire)
    BY <1>1
  <2>3. F[Len(e.wire) + 1] = g - Len(e.fifo_send)
    BY <1>1, <1>4
  <2>4. \A i \in 1..Len(e.wire) :
          /\ F[i + 1] = F[i] + Len(e.wire[i].msgs)
          /\ \A k \in 1..Len(e.wire[i].msgs) : e.wire[i].msgs[k] = F[i] + k
    BY <1>1, <1>4
  <2>5. MayTake(t) => F[1] = Len(t.fifo_app_msg)
    BY <1>3, <1>4
  <2>6. QED
    BY <2>1, <2>2, <2>3, <2>4, <2>5 DEF ExactRoute
<1>6. ExactAcks(m, e, t)
  BY <1>1 DEF ExactAcks
<1>7. 1 \in Nat
  OBVIOUS
<1>8. QED
  BY <1>4, <1>5, <1>6, <1>7 DEF ExactLink

\* A side just after its first PDU.
LEMMA FirstSide ==
  ASSUME NEW m \in Nodes, NEW e \in Connections, NEW g \in Nat, NEW q \in Pdus,
         MessagesFit, g <= Messages[m],
         e.state = "START", e.wire = <<q>>, e.fifo_send = <<>>, e.fifo_app_msg = <<>>,
         Num(m, q.sn) = 1, Num(m, e.sn_t) = 2, q.msgs = <<>>,
         q.type = TypeAt(m, 1),
         m = "server" => /\ Num(m, e.cs_r) = 0 /\ e.cs_t = q.cs
                         /\ Num(Peer(m), e.cs_t) = 1 /\ Num(Peer(m), e.sn_r) = 2
  PROVE  ExactSide(m, e, g)
<1>1. /\ Len(e.wire) = 1 /\ e.wire[1] = q /\ Len(e.fifo_send) = 0 /\ Len(e.fifo_app_msg) = 0
      /\ \A i \in 1..1 : i = 1
  OBVIOUS
<1>2. Modulus \in Nat /\ Messages[m] \in Nat /\ Messages[m] + 4 <= Modulus
  BY RastaConnectionAssumption DEF MessagesFit
<1>3. Peer(m) \in Nodes /\ q.cs \in SequenceNumbers /\ Num(Peer(m), q.cs) \in Nat
  BY PeerIsNode, PduFields, NumIs
<1>4. q.type # "DISCREQ"
  BY DEF TypeAt
<1>5. ExactWire(m, e.wire)
  BY <1>1, <1>2, <1>3, <1>4 DEF ExactWire
<1>6. ExactNumbers(m, e, g)
  <2>1. Num(m, e.sn_t) <= 3 + (g - Len(e.fifo_send))
    BY <1>1
  <2>2. m = "server" =>
          /\ Num(Peer(m), e.sn_r) = Num(Peer(m), e.cs_t) + 1 /\ Num(Peer(m), e.sn_r) >= 2
          /\ \A i \in 1..Len(e.wire) : e.wire[i].type \in Acks =>
               Num(Peer(m), e.wire[i].cs) <= Num(Peer(m), e.cs_t)
    BY <1>1, <1>3
  <2>3. QED
    BY <2>1, <2>2 DEF ExactNumbers, Tracks
<1>7. ExactMessages(m, e, g)
  <2>1. \A k \in 1..0 : FALSE
    OBVIOUS
  <2>2. QED
    BY <1>1, <2>1 DEF ExactMessages
<1>8. QED
  BY <1>1, <1>4, <1>5, <1>6, <1>7 DEF ExactSide

\* The ConnectionRequest.
LEMMA ConnectKeepsExact ==
  ASSUME MessagesFit, TypeOK, Exact, HandshakeInv, Connect
  PROVE  Exact'
<1>1. /\ "client" \in Nodes /\ "server" \in Nodes
      /\ Peer("client") = "server" /\ Peer("server") = "client"
  BY DEF Nodes, Peer
<1> DEFINE c == node["client"]
           d == node["server"]
           g == sent["client"]
           h == sent["server"]
<1>2. /\ c \in Connections /\ d \in Connections /\ g \in Nat /\ h \in Nat
      /\ ExactSide("client", c, g) /\ ExactSide("server", d, h)
      /\ ExactLink("client", c, d, g) /\ ExactLink("server", d, c, h)
  BY <1>1, OneSide
<1>3. c = Unconnected /\ d = Unconnected
  <2>1. ~c.listed /\ c.state = "CLOSED"
    BY DEF Connect
  <2>2. QED
    BY <2>1 DEF HandshakeInv, UnlistedInv
<1>4. PICK sn_r \in Unset, cs_r \in Unset :
        Becomes("client",
           [SendNumbered([Unconnected EXCEPT !.sn_t = InitialSn["client"],
                            !.sn_r = sn_r, !.cs_r = cs_r, !.channel = TRUE], "CONREQ")
              EXCEPT !.state = "START"])
  BY DEF Connect
<1> DEFINE b == [Unconnected EXCEPT !.sn_t = InitialSn["client"],
                            !.sn_r = sn_r, !.cs_r = cs_r, !.channel = TRUE]
           q == Pdu(b, "CONREQ", <<>>)
           e == [SendNumbered(b, "CONREQ") EXCEPT !.state = "START"]
<1>5. /\ InitialSn["client"] \in SequenceNumbers /\ sn_r \in SequenceNumbers
      /\ cs_r \in SequenceNumbers /\ "CONREQ" \in PduTypes /\ <<>> \in Seq(Nat)
  BY <1>1, RastaConnectionAssumption DEF PduTypes
<1>6. /\ b \in Connections /\ b.sn_t = InitialSn["client"] /\ b.wire = <<>> /\ b.channel
      /\ b.fifo_send = <<>> /\ b.fifo_app_msg = <<>> /\ b.listed = FALSE
  BY <1>5, UnconnectedType DEF Unconnected, Connections
<1> HIDE DEF b
<1>7. q \in Pdus /\ q.type = "CONREQ" /\ q.sn = InitialSn["client"] /\ q.msgs = <<>>
  BY <1>5, <1>6, PduType DEF Pdu
<1>8. SendNumbered(b, "CONREQ") = [b EXCEPT !.sn_t = Plus(b.sn_t, 1),
                                            !.wire = IF b.channel THEN Append(b.wire, q) ELSE b.wire]
  BY <1>5, <1>6, SendNumberedIs
<1>9. SendNumbered(b, "CONREQ") \in Connections
  BY <1>5, <1>6, SendNumberedType
<1> HIDE DEF q
<1>10. /\ e \in Connections /\ e.state = "START" /\ e.wire = <<q>>
       /\ e.sn_t = Plus(InitialSn["client"], 1) /\ e.fifo_send = <<>> /\ e.fifo_app_msg = <<>>
  <2>1. Append(<<>>, q) = <<q>>
    OBVIOUS
  <2>2. e = [b EXCEPT !.sn_t = Plus(b.sn_t, 1), !.wire = <<q>>, !.state = "START"]
    BY <1>6, <1>8, <2>1 DEF Connections
  <2>3. e \in Connections
    BY <1>9 DEF Connections, States
  <2> HIDE DEF e
  <2>4. QED
    BY <1>6, <2>2, <2>3 DEF Connections
<1>11. Becomes("client", e)
  BY <1>4 DEF b
<1> HIDE DEF e
<1>12. Num("client", q.sn) = 1 /\ Num("client", e.sn_t) = 2
  <2>1. Num("client", InitialSn["client"]) = 1
    BY <1>1, NumOfInitial
  <2>2. Modulus \in Nat /\ Modulus > 2
    BY RastaConnectionAssumption
  <2>3. Num("client", InitialSn["client"]) + 1 < Modulus
    BY <2>1, <2>2
  <2>4. Num("client", Plus(InitialSn["client"], 1)) = 1 + 1
    BY <1>1, <1>5, <2>1, <2>3, NextNum
  <2>5. QED
    BY <1>7, <1>10, <2>1, <2>4
<1>13. g <= Messages["client"]
  BY <1>2 DEF ExactSide, ExactMessages
<1>14. ExactSide("client", e, g)
  <2>1. q.type = TypeAt("client", 1)
    BY <1>7 DEF TypeAt
  <2> HIDE DEF c, g
  <2>2. QED
    BY <1>1, <1>2, <1>7, <1>10, <1>12, <1>13, <2>1, FirstSide
<1>15. c.wire = <<>> /\ c.fifo_send = <<>> /\ c.fifo_app_msg = <<>> /\ ~c.listed
       /\ d.wire = <<>> /\ ~d.listed /\ d.state = "CLOSED"
  BY <1>3 DEF Unconnected
<1> HIDE DEF c, d, g, h
<1>16. ExactLink("client", e, d, g)
  <2>1. ~Tracks("server", d)
    BY <1>15 DEF Tracks
  <2>2. q.type \notin Acks
    BY <1>7 DEF Acks
  <2>3. QED
    BY <1>1, <1>2, <1>7, <1>10, <1>12, <1>15, <2>1, <2>2, FirstLink
<1>17. ExactLink("server", d, e, h)
  <2>1. MayTake(c) /\ ~Tracks("client", e)
    BY <1>10, <1>15 DEF MayTake, Tracks
  <2>2. \A i \in 1..Len(d.wire) : d.wire[i].type \notin Acks
    BY <1>15
  <2>3. QED
    BY <1>1, <1>2, <1>10, <1>15, <2>1, <2>2, ReceiverLink
<1>18. sent' = sent
  BY DEF Connect
<1>19. QED
  BY <1>1, <1>10, <1>11, <1>14, <1>16, <1>17, <1>18, BecomesKeepsExact DEF d, g, h

\* The server takes it, and answers with the ConnectionResponse.
LEMMA NewServerIs ==
  ASSUME NEW p \in Pdus
  PROVE  LET e == SendNumbered(NewServer(p), "CONRESP")
             q == Pdu(NewServer(p), "CONRESP", <<>>)
         IN  /\ e \in Connections /\ q \in Pdus
             /\ e.state = "START" /\ e.listed /\ e.wire = <<q>>
             /\ e.fifo_send = <<>> /\ e.fifo_app_msg = <<>>
             /\ e.sn_t = Plus(InitialSn["server"], 1) /\ e.cs_r = Origin("server")
             /\ e.cs_t = p.sn /\ e.sn_r = Plus(p.sn, 1)
             /\ q.type = "CONRESP" /\ q.sn = InitialSn["server"] /\ q.cs = p.sn
             /\ q.msgs = <<>>
<1> DEFINE d == NewServer(p)
           q == Pdu(d, "CONRESP", <<>>)
           e == SendNumbered(d, "CONRESP")
<1>1. d \in Connections /\ "CONRESP" \in PduTypes /\ <<>> \in Seq(Nat)
  BY NewServerType DEF PduTypes
<1>2. /\ d.state = "START" /\ d.listed /\ d.channel /\ d.wire = <<>>
      /\ d.fifo_send = <<>> /\ d.fifo_app_msg = <<>>
      /\ d.sn_t = InitialSn["server"] /\ d.cs_r = Origin("server")
      /\ d.cs_t = p.sn /\ d.sn_r = Plus(p.sn, 1)
  BY DEF NewServer, Accept, Unconnected, Origin
<1> HIDE DEF d
<1>3. q \in Pdus /\ e \in Connections
  BY <1>1, PduType, SendNumberedType
<1>4. q.type = "CONRESP" /\ q.sn = InitialSn["server"] /\ q.cs = p.sn /\ q.msgs = <<>>
  BY <1>2 DEF Pdu
<1>5. e = [d EXCEPT !.sn_t = Plus(d.sn_t, 1), !.wire = IF d.channel THEN Append(d.wire, q) ELSE d.wire]
  BY <1>1, SendNumberedIs
<1> HIDE DEF e, q
<1>6. Append(<<>>, q) = <<q>>
  OBVIOUS
<1>7. /\ e.state = "START" /\ e.listed /\ e.wire = <<q>>
      /\ e.fifo_send = <<>> /\ e.fifo_app_msg = <<>>
      /\ e.sn_t = Plus(InitialSn["server"], 1) /\ e.cs_r = Origin("server")
      /\ e.cs_t = p.sn /\ e.sn_r = Plus(p.sn, 1)
  BY <1>1, <1>2, <1>5, <1>6 DEF Connections
<1>8. QED
  BY <1>3, <1>4, <1>7 DEF e, q, d

LEMMA HandleConReqKeepsExact ==
  ASSUME MessagesFit, TypeOK, Exact, ExactRequest, HandshakeInv, HandleConReq
  PROVE  Exact'
<1>1. /\ "client" \in Nodes /\ "server" \in Nodes
      /\ Peer("client") = "server" /\ Peer("server") = "client"
  BY DEF Nodes, Peer
<1> DEFINE c == node["server"]
           d == node["client"]
           p == Head(Wire("server"))
           e == SendNumbered(NewServer(p), "CONRESP")
           q == Pdu(NewServer(p), "CONRESP", <<>>)
           g == sent["server"]
           h == sent["client"]
<1>2. /\ c \in Connections /\ d \in Connections /\ g \in Nat /\ h \in Nat
      /\ ExactSide("server", c, g) /\ ExactSide("client", d, h)
      /\ ExactLink("server", c, d, g) /\ ExactLink("client", d, c, h)
  BY <1>1, OneSide
<1>3. /\ Wire("server") # <<>> /\ p.type = "CONREQ" /\ Taken("server", e)
  BY DEF HandleConReq
<1>4. d.wire # <<>> /\ p \in Pdus /\ p = Head(d.wire) /\ d.wire \in Seq(Pdus)
  BY <1>1, <1>3, HeadOfWire DEF Wire
<1>5. ~c.listed /\ c = Unconnected
  <2>1. d.wire[1] = p /\ 1 \in 1..Len(d.wire)
    <3> HIDE DEF d, p
    <3>1. QED
      BY <1>4
  <2>2. ~c.listed
    BY <1>3, <2>1 DEF HandshakeInv, RequestInv
  <2>3. QED
    BY <2>2 DEF HandshakeInv, UnlistedInv
<1>6. c.wire = <<>> /\ c.fifo_send = <<>> /\ c.fifo_app_msg = <<>> /\ MayTake(c)
  BY <1>5 DEF Unconnected, MayTake
<1>7. d.state # "UP" /\ Only(d.wire, {"CONREQ", "DISCREQ"})
  BY <1>5 DEF ExactRequest
<1>8. Num("client", p.sn) = 1 /\ p.msgs = <<>>
  <2>1. p.type \in {"DISCREQ", TypeAt("client", Num("client", p.sn))} /\ p.msgs = <<>>
    BY <1>1, <1>3, HeadIsNext
  <2>2. QED
    BY <1>3, <2>1 DEF TypeAt
<1>9. /\ e \in Connections /\ q \in Pdus
      /\ e.state = "START" /\ e.listed /\ e.wire = <<q>>
      /\ e.fifo_send = <<>> /\ e.fifo_app_msg = <<>>
      /\ e.sn_t = Plus(InitialSn["server"], 1) /\ e.cs_r = Origin("server")
      /\ e.cs_t = p.sn /\ e.sn_r = Plus(p.sn, 1)
      /\ q.type = "CONRESP" /\ q.sn = InitialSn["server"] /\ q.cs = p.sn
      /\ q.msgs = <<>>
  <2> HIDE DEF p
  <2>1. QED
    BY <1>4, NewServerIs
<1> HIDE DEF c, d, p, e, q, g, h
<1>10. InitialSn["server"] \in SequenceNumbers /\ p.sn \in SequenceNumbers
  BY <1>1, <1>4, RastaConnectionAssumption, PduFields
<1>11. /\ Num("server", q.sn) = 1 /\ Num("server", e.sn_t) = 2 /\ Num("server", e.cs_r) = 0
       /\ Num("client", e.sn_r) = 2 /\ Num("client", e.cs_t) = 1
  <2>1. Num("server", InitialSn["server"]) = 1 /\ Num("server", Origin("server")) = 0
    BY <1>1, NumOfInitial
  <2>2. Modulus \in Nat /\ Modulus > 2
    BY RastaConnectionAssumption
  <2>3. Num("server", InitialSn["server"]) + 1 < Modulus /\ Num("client", p.sn) + 1 < Modulus
    BY <1>8, <2>1, <2>2
  <2>4. Num("server", Plus(InitialSn["server"], 1)) = 1 + 1
    BY <1>1, <1>10, <2>1, <2>3, NextNum
  <2>5. Num("client", Plus(p.sn, 1)) = 1 + 1
    BY <1>1, <1>8, <1>10, <2>3, NextNum
  <2>6. QED
    BY <1>8, <1>9, <2>1, <2>4, <2>5
<1>12. g <= Messages["server"]
  BY <1>2 DEF ExactSide, ExactMessages
<1>13. ExactSide("server", e, g)
  <2>1. q.type = TypeAt("server", 1)
    BY <1>9 DEF TypeAt
  <2>2. QED
    BY <1>1, <1>2, <1>9, <1>11, <1>12, <2>1, FirstSide
<1>14. ASSUME NEW t \in Connections, Popped(d, t)
       PROVE  ExactLink("client", t, e, h) /\ ExactLink("server", e, t, g)
  <2>1. SameReceiver(d, t) /\ t.state # "UP"
    BY <1>7, <1>14, SameSides DEF Popped
  <2>2. ExactLink("server", e, t, g)
    <3>1. (MayTake(t) => MayTake(d) /\ t.fifo_app_msg = d.fifo_app_msg) /\ ~Tracks("client", t)
      BY <2>1 DEF SameReceiver, MayTake, Tracks
    <3>2. Alive(t) => Num("client", q.cs) < Num("client", t.sn_t)
      <4>1. Alive(t) => d.state = "START" /\ t.sn_t = d.sn_t
        BY <2>1 DEF Alive, SameReceiver
      <4>2. d.state = "START" => Num("client", d.sn_t) = 2
        BY <1>2 DEF ExactSide, ExactNumbers
      <4>3. QED
        BY <1>8, <1>9, <4>1, <4>2
    <3>3. QED
      BY <1>1, <1>2, <1>6, <1>9, <1>11, <3>1, <3>2, FirstLink
  <2>3. ExactLink("client", t, e, h)
    <3>1. /\ \A i \in 1..Len(t.wire) : t.wire[i].type \notin Acks
          /\ ~Tracks("client", d)
      <4>1. \A i \in 1..Len(t.wire) : i + 1 \in 1..Len(d.wire) /\ t.wire[i] = d.wire[i + 1]
        BY <1>2, <1>14, TailAt
      <4>2. QED
        BY <1>7, <4>1 DEF Only, Acks, Tracks
    <3>2. Len(e.fifo_app_msg) = Len(c.fifo_app_msg) + Len(p.msgs)
          /\ Num("client", e.sn_r) = Num("client", p.sn) + 1
      BY <1>6, <1>8, <1>9, <1>11
    <3>3. QED
      BY <1>1, <1>2, <1>4, <1>6, <1>9, <1>14, <3>1, <3>2, TakeLink
  <2>4. QED
    BY <2>2, <2>3
<1>15. QED
  BY <1>1, <1>3, <1>9, <1>13, <1>14, TakenKeepsExact DEF d, g, h

\* A call that closes, or a timer.
LEMMA ClosingStep ==
  ASSUME TypeOK, Exact, NEW n \in Nodes, SrDisconnect(n) \/ TiExpires(n)
  PROVE  Exact'
<1> DEFINE c == node[n]
<1>1. c \in Connections /\ c.state \in {"START", "UP", "CLOSED"}
  BY OneSide DEF ExactSide
<1> HIDE DEF c
<1>2. Shuts(c, Close(c)) /\ Shuts(c, SendNumbered(Close(c), "HB"))
  BY <1>1, CloseShuts
<1>3. Close(c) \in Connections /\ SendNumbered(Close(c), "HB") \in Connections
  BY <1>1, CloseType, SendNumberedType DEF PduTypes
<1>4. CASE SrDisconnect(n)
  <2>1. Becomes(n, Close(c)) /\ sent' = sent /\ node[n].listed
    BY <1>4 DEF SrDisconnect, c
  <2>2. QED
    BY <1>2, <1>3, <2>1, ShuttingStep DEF c
<1>5. CASE TiExpires(n)
  <2>1. PICK due \in BOOLEAN :
          Becomes(n, IF due THEN SendNumbered(Close(c), "HB") ELSE Close(c))
    BY <1>5 DEF TiExpires, c
  <2>2. sent' = sent /\ node[n].listed
    BY <1>5 DEF TiExpires, Watched
  <2>3. QED
    BY <1>2, <1>3, <2>1, <2>2, ShuttingStep DEF c
<1>6. QED
  BY <1>4, <1>5

LEMMA SrSendKeepsExact ==
  ASSUME TypeOK, Exact, NEW n \in Nodes, SrSend(n)
  PROVE  Exact'
<1> DEFINE c == node[n]
           m == Peer(n)
           d == node[m]
           g == sent[n]
<1>1. /\ c \in Connections /\ d \in Connections /\ m \in Nodes /\ Peer(m) = n
      /\ g \in Nat /\ sent[m] \in Nat /\ ExactSide(n, c, g)
      /\ ExactLink(n, c, d, g) /\ ExactLink(m, d, c, sent[m])
  BY OneSide
<1>2. CASE /\ c.state = "UP" /\ sent' = [sent EXCEPT ![n] = g + 1]
           /\ Becomes(n, [c EXCEPT !.fifo_send = Append(c.fifo_send, g + 1)])
           /\ g < Messages[n]
  <2> DEFINE e == [c EXCEPT !.fifo_send = Append(c.fifo_send, g + 1)]
             F == Append(c.fifo_send, g + 1)
  <2>1. /\ sent'[n] = g + 1 /\ sent'[m] = sent[m] /\ Becomes(n, e)
    <3>1. m # n
      BY PeerIsNode
    <3>2. QED
      BY <1>1, <1>2, <3>1 DEF TypeOK
  <2>2. /\ c.fifo_send \in Seq(Nat) /\ Len(c.fifo_send) \in Nat /\ Messages[n] \in Nat
        /\ Num(n, c.sn_t) \in Nat /\ Num(m, c.cs_t) \in Nat
    BY <1>1, ConnectionFields, NumIs, RastaConnectionAssumption
  <2> HIDE DEF c, d, g, m
  <2>3. /\ F \in Seq(Nat) /\ Len(F) = Len(c.fifo_send) + 1
        /\ \A k \in 1..Len(F) : F[k] = IF k <= Len(c.fifo_send) THEN c.fifo_send[k] ELSE g + 1
    BY <1>1, <2>2
  <2> HIDE DEF F
  <2>4. /\ e \in Connections /\ e.state = "UP" /\ e.listed = c.listed /\ e.channel = c.channel
        /\ e.sn_t = c.sn_t /\ e.sn_r = c.sn_r /\ e.cs_t = c.cs_t /\ e.cs_r = c.cs_r
        /\ e.wire = c.wire /\ e.fifo_app_msg = c.fifo_app_msg /\ e.fifo_send = F
    BY <1>1, <1>2, <2>3 DEF Connections, F
  <2> HIDE DEF e
  <2>5. (g + 1) - Len(e.fifo_send) = g - Len(c.fifo_send) /\ g \in Nat
    <3>1. Len(e.fifo_send) = Len(c.fifo_send) + 1 /\ g \in Nat /\ Len(c.fifo_send) \in Nat
      BY <1>1, <2>2, <2>3, <2>4
    <3>2. QED
      BY <3>1
  <2>6. ExactMessages(n, e, g + 1)
    <3>1. /\ Len(c.fifo_send) <= g /\ \A k \in 1..Len(c.fifo_send) :
               c.fifo_send[k] = (g - Len(c.fifo_send)) + k
      BY <1>1 DEF ExactSide, ExactMessages
    <3>2. g + 1 <= Messages[n] /\ Len(F) <= g + 1
      BY <1>1, <1>2, <2>2, <2>3, <3>1
    <3>3. ASSUME NEW k \in 1..Len(F)
          PROVE  F[k] = ((g + 1) - Len(F)) + k
      <4>1. CASE k <= Len(c.fifo_send)
        <5>1. F[k] = c.fifo_send[k] /\ k \in 1..Len(c.fifo_send)
          BY <2>2, <2>3, <4>1
        <5>2. F[k] = (g - Len(c.fifo_send)) + k
          BY <3>1, <5>1
        <5>3. QED
          BY <1>1, <2>2, <2>3, <5>2
      <4>2. CASE ~(k <= Len(c.fifo_send))
        <5>1. F[k] = g + 1 /\ k = Len(F)
          BY <2>2, <2>3, <4>2
        <5>2. k \in Nat
          BY <2>2, <2>3
        <5>3. QED
          BY <2>5, <5>1, <5>2
      <4>3. QED
        BY <4>1, <4>2
    <3>4. \A k \in 1..Len(e.fifo_app_msg) : e.fifo_app_msg[k] = k
      BY <1>1, <2>4 DEF ExactSide, ExactMessages
    <3>5. QED
      BY <2>4, <3>2, <3>3, <3>4 DEF ExactMessages
  <2>7. ExactNumbers(n, e, g + 1)
    BY <1>1, <1>2, <2>4, <2>5 DEF ExactSide, ExactNumbers, Alive, Tracks
  <2>8. ExactSide(n, e, g + 1)
    BY <1>1, <1>2, <2>4, <2>6, <2>7 DEF ExactSide
  <2>9. g + 1 \in Nat /\ SameReceiver(d, d)
    BY <1>1 DEF SameReceiver
  <2>10. ExactLink(n, e, d, g + 1)
    <3>1. Alive(c) /\ Tracks(n, c) /\ Num(m, c.cs_t) <= Num(m, e.cs_t) /\ e.sn_t = c.sn_t
      BY <1>2, <2>2, <2>4 DEF Alive, Tracks
    <3>2. QED
      BY <1>1, <2>4, <2>5, <2>9, <3>1, SilentLink DEF m
  <2>11. ExactLink(m, d, e, sent[m])
    BY <1>1, <1>2, <2>2, <2>4, ReceiverLink DEF Alive, Tracks, MayTake
  <2>12. QED
    BY <2>1, <2>4, <2>8, <2>10, <2>11, BecomesKeepsExact DEF d, m
<1>3. CASE /\ c.listed /\ c.state = "START" /\ sent' = sent
           /\ Becomes(n, [Transmit(c, <<Pdu(c, "DISCREQ", <<>>)>>) EXCEPT !.state = "CLOSED"])
  <2> DEFINE q == Pdu(c, "DISCREQ", <<>>)
             e == [Transmit(c, <<q>>) EXCEPT !.state = "CLOSED"]
             w == IF c.channel THEN Append(c.wire, q) ELSE c.wire
  <2>0. Becomes(n, e) /\ node[n].listed
    BY <1>3
  <2> HIDE DEF c
  <2>1. q \in Pdus /\ q.type = "DISCREQ" /\ q.sn = c.sn_t /\ q.msgs = <<>>
    <3>1. <<>> \in Seq(Nat) /\ "DISCREQ" \in PduTypes
      BY DEF PduTypes
    <3>2. q \in Pdus
      BY <1>1, <3>1, PduType
    <3>3. QED
      BY <3>2 DEF Pdu
  <2> HIDE DEF q
  <2>2. c.wire \in Seq(Pdus) /\ c.wire \o <<q>> = Append(c.wire, q) /\ w \in Seq(Pdus)
    <3>1. c.wire \in Seq(Pdus)
      BY <1>1, ConnectionFields
    <3>2. QED
      BY <2>1, <3>1
  <2>3. e = [c EXCEPT !.state = "CLOSED", !.wire = w]
    BY <1>1, <2>2 DEF Transmit, Connections
  <2> HIDE DEF e, w
  <2>4. /\ e \in Connections /\ e.state = "CLOSED" /\ e.listed = c.listed
        /\ e.fifo_send = c.fifo_send /\ e.fifo_app_msg = c.fifo_app_msg /\ e.wire = w
    BY <1>1, <2>2, <2>3 DEF Connections, States
  <2>5. Alive(c)
    BY <1>3 DEF Alive, c
  <2>6. w = c.wire \/ w = Append(c.wire, q)
    BY DEF w
  <2>7. Shuts(c, e)
    BY <2>1, <2>4, <2>5, <2>6 DEF Shuts
  <2>8. QED
    BY <1>3, <2>0, <2>4, <2>7, ShuttingStep DEF c
<1>4. c.state \in {"START", "UP", "CLOSED"}
  BY <1>1 DEF ExactSide
<1>5. \/ /\ c.state = "UP" /\ sent' = [sent EXCEPT ![n] = g + 1]
         /\ Becomes(n, [c EXCEPT !.fifo_send = Append(c.fifo_send, g + 1)])
         /\ g < Messages[n]
      \/ /\ c.listed /\ c.state \in {"START", "RETRREQ", "RETRRUN"} /\ sent' = sent
         /\ Becomes(n, [Transmit(c, <<Pdu(c, "DISCREQ", <<>>)>>) EXCEPT !.state = "CLOSED"])
  BY DEF SrSend
<1>6. QED
  BY <1>2, <1>3, <1>4, <1>5

\* rastalist_addConnection.
LEMMA AddConnectionKeepsExact ==
  ASSUME TypeOK, Exact, AddConnection
  PROVE  Exact'
<1> DEFINE c == node["client"]
           d == node["server"]
           g == sent["client"]
           h == sent["server"]
           e == [c EXCEPT !.listed = TRUE]
<1>1. /\ "client" \in Nodes /\ "server" \in Nodes
      /\ Peer("client") = "server" /\ Peer("server") = "client"
  BY DEF Nodes, Peer
<1>2. /\ c \in Connections /\ d \in Connections /\ g \in Nat /\ h \in Nat
      /\ ExactSide("client", c, g)
      /\ ExactLink("client", c, d, g) /\ ExactLink("server", d, c, h)
  BY <1>1, OneSide
<1>3. /\ c.state = "START" /\ ~c.listed /\ Becomes("client", e) /\ sent' = sent
  BY DEF AddConnection
<1> HIDE DEF c, d, g, h
<1>4. /\ e \in Connections /\ e.state = c.state /\ e.listed /\ e.channel = c.channel
      /\ e.sn_t = c.sn_t /\ e.sn_r = c.sn_r /\ e.cs_t = c.cs_t /\ e.cs_r = c.cs_r
      /\ e.wire = c.wire /\ e.fifo_app_msg = c.fifo_app_msg /\ e.fifo_send = c.fifo_send
  BY <1>2 DEF Connections
<1> HIDE DEF e
<1>5. ExactNumbers("client", e, g) /\ ExactMessages("client", e, g)
  BY <1>2, <1>4 DEF ExactSide, ExactNumbers, ExactMessages, Alive, Tracks
<1>6. ExactSide("client", e, g)
  BY <1>2, <1>3, <1>4, <1>5 DEF ExactSide
<1>7. Alive(c) /\ ~Tracks("client", e) /\ MayTake(c) /\ SameReceiver(d, d)
      /\ Num("client", c.sn_t) \in Nat
  BY <1>1, <1>2, <1>3, <1>4, ConnectionFields, NumIs DEF Alive, Tracks, MayTake, SameReceiver
<1>8. ExactLink("client", e, d, g)
  BY <1>1, <1>2, <1>4, <1>7, SilentLink
<1>9. ExactLink("server", d, e, h)
  BY <1>1, <1>2, <1>4, <1>7, ReceiverLink
<1>10. QED
  BY <1>1, <1>3, <1>4, <1>6, <1>8, <1>9, BecomesKeepsExact DEF d, g, h

LEMMA SplitAt ==
  ASSUME NEW s \in Seq(Nat), NEW k \in Nat, k <= Len(s)
  PROVE  /\ SubSeq(s, 1, k) \in Seq(Nat) /\ Len(SubSeq(s, 1, k)) = k
         /\ \A j \in 1..k : SubSeq(s, 1, k)[j] = s[j]
         /\ SubSeq(s, k + 1, Len(s)) \in Seq(Nat) /\ Len(SubSeq(s, k + 1, Len(s))) = Len(s) - k
         /\ \A j \in 1..(Len(s) - k) : /\ SubSeq(s, k + 1, Len(s))[j] = s[k + j]
                                       /\ k + j \in 1..Len(s)
<1>1. SubSeq(s, 1, k) \in Seq(Nat) /\ Len(SubSeq(s, 1, k)) = k
  OBVIOUS
<1>2. SubSeq(s, k + 1, Len(s)) \in Seq(Nat) /\ Len(SubSeq(s, k + 1, Len(s))) = Len(s) - k
  OBVIOUS
<1>3. \A j \in 1..k : SubSeq(s, 1, k)[j] = s[j]
  OBVIOUS
<1>4. ASSUME NEW j \in 1..(Len(s) - k)
      PROVE  SubSeq(s, k + 1, Len(s))[j] = s[k + j] /\ k + j \in 1..Len(s)
  <2>1. k + j \in 1..Len(s) /\ (k + 1) + j - 1 = k + j
    OBVIOUS
  <2>2. QED
    BY <2>1
<1>5. QED
  BY <1>1, <1>2, <1>3, <1>4

\* send_thread: there are numbers left for the packet, and what it confirms is
\* among what the peer has sent.
LEMMA SendThreadKeepsExact ==
  ASSUME MessagesFit, TypeOK, Exact, NEW n \in Nodes, SendThread(n)
  PROVE  Exact'
<1> DEFINE c == node[n]
           m == Peer(n)
           d == node[m]
           g == sent[n]
           h == sent[m]
           k == Min({Len(c.fifo_send), MaxPacket})
           p == Pdu(c, "DATA", SubSeq(c.fifo_send, 1, k))
           b == SendData(c, p)
           rest == SubSeq(c.fifo_send, k + 1, Len(c.fifo_send))
           e == [b EXCEPT !.fifo_send = rest]
<1>1. /\ c \in Connections /\ d \in Connections /\ m \in Nodes /\ Peer(m) = n
      /\ g \in Nat /\ h \in Nat /\ ExactSide(n, c, g) /\ ExactSide(m, d, h)
      /\ ExactLink(n, c, d, g) /\ ExactLink(m, d, c, h)
  BY OneSide
<1>2. /\ k > 0 /\ c.state \notin {"CLOSED", "CRASHED"} /\ sent' = sent
      /\ Becomes(n, [b EXCEPT !.fifo_send = SubSeq(b.fifo_send, k + 1, Len(b.fifo_send))])
  BY DEF SendThread
<1>3. /\ MaxPacket \in Nat /\ Modulus \in Nat /\ Messages[n] \in Nat
      /\ Messages[n] + 4 <= Modulus
  BY RastaConnectionAssumption DEF MessagesFit
<1> HIDE DEF c, d, g, h, m
<1>4. /\ c.fifo_send \in Seq(Nat) /\ Len(c.fifo_send) \in Nat /\ c.sn_t \in SequenceNumbers
      /\ c.wire \in Seq(Pdus) /\ Len(c.wire) \in Nat
      /\ c.sn_r \in SequenceNumbers /\ c.cs_t \in SequenceNumbers
      /\ Num(n, c.sn_t) \in Nat /\ Num(m, c.sn_r) \in Nat /\ Num(m, c.cs_t) \in Nat
  BY <1>1, ConnectionFields, NumIs
<1>5. k \in Nat /\ k > 0 /\ k <= Len(c.fifo_send)
  <2>1. k \in Nat /\ k <= Len(c.fifo_send)
    BY <1>3, <1>4, MinOfTwo
  <2>2. QED
    BY <1>2, <2>1
<1> HIDE DEF k
<1>6. /\ SubSeq(c.fifo_send, 1, k) \in Seq(Nat) /\ Len(SubSeq(c.fifo_send, 1, k)) = k
      /\ \A j \in 1..k : SubSeq(c.fifo_send, 1, k)[j] = c.fifo_send[j]
      /\ rest \in Seq(Nat) /\ Len(rest) = Len(c.fifo_send) - k
      /\ \A j \in 1..Len(rest) : /\ rest[j] = c.fifo_send[k + j]
                                 /\ k + j \in 1..Len(c.fifo_send)
  <2>1. Len(rest) = Len(c.fifo_send) - k
    BY <1>4, <1>5, SplitAt
  <2>2. QED
    BY <1>4, <1>5, <2>1, SplitAt
<1>7. /\ p \in Pdus /\ p.type = "DATA" /\ p.sn = c.sn_t /\ p.cs = c.cs_t
      /\ p.msgs = SubSeq(c.fifo_send, 1, k)
  <2>1. "DATA" \in PduTypes
    BY DEF PduTypes
  <2>2. p \in Pdus
    BY <1>1, <1>6, <2>1, PduType
  <2>3. QED
    BY <2>2 DEF Pdu
<1> HIDE DEF rest, p
<1>8. c.state = "UP" /\ c.channel /\ c.listed
  <2>1. c.fifo_send # <<>>
    BY <1>4, <1>5
  <2>2. QED
    BY <1>1, <1>2, <2>1 DEF ExactSide, ExactMessages
<1>9. /\ b \in Connections
      /\ b = [c EXCEPT !.sn_t = Plus(c.sn_t, 1), !.wire = b.wire, !.fifo_retr = b.fifo_retr]
      /\ b.wire = IF c.channel THEN Append(c.wire, p) ELSE c.wire
  BY <1>1, <1>7, SendDataIs
<1> HIDE DEF b
<1>10. /\ e \in Connections /\ e.state = "UP" /\ e.listed /\ e.channel
       /\ e.sn_t = Plus(c.sn_t, 1) /\ e.sn_r = c.sn_r /\ e.cs_t = c.cs_t /\ e.cs_r = c.cs_r
       /\ e.wire = Append(c.wire, p) /\ e.fifo_app_msg = c.fifo_app_msg
       /\ e.fifo_send = rest /\ b.fifo_send = c.fifo_send
  <2>1. e = [c EXCEPT !.sn_t = Plus(c.sn_t, 1), !.wire = b.wire, !.fifo_retr = b.fifo_retr,
                      !.fifo_send = rest]
    BY <1>1, <1>9 DEF Connections
  <2>2. e \in Connections /\ b.fifo_send = c.fifo_send
    BY <1>1, <1>6, <1>9 DEF Connections
  <2> HIDE DEF e
  <2>3. QED
    BY <1>1, <1>8, <1>9, <2>1, <2>2 DEF Connections
<1>11. Becomes(n, e)
  BY <1>2, <1>10 DEF rest
<1> HIDE DEF e
<1>12. /\ Num(n, e.sn_t) = Num(n, c.sn_t) + 1 /\ Num(n, c.sn_t) + 1 < Modulus
       /\ Num(n, e.sn_t) <= 3 + (g - Len(e.fifo_send))
       /\ TypeAt(n, Num(n, c.sn_t)) = "DATA" /\ Num(n, c.sn_t) >= IF n = "client" THEN 3 ELSE 2
  <2>1. /\ Num(n, c.sn_t) <= 3 + (g - Len(c.fifo_send))
        /\ Num(n, c.sn_t) >= IF n = "client" THEN 3 ELSE 2
        /\ g <= Messages[n]
    BY <1>1, <1>8 DEF ExactSide, ExactNumbers, ExactMessages, Alive
  <2>2. Num(n, c.sn_t) + 1 < Modulus
    BY <1>1, <1>3, <1>4, <1>5, <2>1
  <2>3. Num(n, e.sn_t) = Num(n, c.sn_t) + 1
    BY <1>4, <1>10, <2>2, NextNum
  <2>4. Len(e.fifo_send) = Len(c.fifo_send) - k
    BY <1>6, <1>10
  <2>5. Num(n, e.sn_t) <= 3 + (g - Len(e.fifo_send))
    <3> DEFINE x == Num(n, c.sn_t)
               y == Len(c.fifo_send)
    <3>1. x \in Nat /\ y \in Nat /\ g \in Nat /\ k \in Nat /\ k > 0 /\ x <= 3 + (g - y)
      BY <1>1, <1>4, <1>5, <2>1
    <3>2. Num(n, e.sn_t) = x + 1 /\ Len(e.fifo_send) = y - k
      BY <2>3, <2>4
    <3> HIDE DEF x, y
    <3>3. x + 1 <= 3 + (g - (y - k))
      BY <3>1
    <3>4. QED
      BY <3>2, <3>3
  <2>6. TypeAt(n, Num(n, c.sn_t)) = "DATA"
    BY <1>4, <2>1 DEF TypeAt
  <2>7. QED
    BY <2>1, <2>2, <2>3, <2>5, <2>6
<1>13. /\ Tracks(n, c) /\ Alive(c) /\ Tracks(n, e) /\ Alive(e)
       /\ \A i \in 1..Len(c.wire) :
            /\ c.wire[i].type # "DISCREQ"
            /\ c.wire[i].type \in Acks => Num(m, c.wire[i].cs) <= Num(m, c.cs_t)
       /\ Num(m, c.sn_r) = Num(m, c.cs_t) + 1 /\ Num(m, c.sn_r) >= 2
       /\ n = "server" => Num(m, c.sn_r) # 2
  BY <1>1, <1>8, <1>10 DEF ExactSide, ExactNumbers, Tracks, Alive, m
<1>14. ExactWire(n, e.wire)
  <2>1. p.type \in {"DISCREQ", TypeAt(n, Num(n, p.sn))} /\ Num(n, p.sn) + 1 < Modulus
    BY <1>7, <1>12
  <2>2. \A i \in 1..Len(c.wire) : c.wire[i].type \in Acks =>
          Num(Peer(n), c.wire[i].cs) <= Num(Peer(n), p.cs)
    BY <1>7, <1>13 DEF m
  <2>3. ExactWire(n, c.wire)
    BY <1>1 DEF ExactSide
  <2>4. QED
    BY <1>4, <1>7, <1>10, <1>13, <2>1, <2>2, <2>3, AppendedWire
<1>15. /\ Len(e.wire) = Len(c.wire) + 1
       /\ \A i \in 1..Len(e.wire) :
            /\ e.wire[i].type # "DISCREQ"
            /\ e.wire[i].type \in Acks => Num(m, e.wire[i].cs) <= Num(m, c.cs_t)
  <2>1. /\ Len(e.wire) = Len(c.wire) + 1
        /\ \A i \in 1..(Len(c.wire) + 1) : e.wire[i] = IF i <= Len(c.wire) THEN c.wire[i] ELSE p
    BY <1>4, <1>7, <1>10, AppendedAt
  <2>2. ASSUME NEW i \in 1..(Len(c.wire) + 1)
        PROVE  /\ e.wire[i].type # "DISCREQ"
               /\ e.wire[i].type \in Acks => Num(m, e.wire[i].cs) <= Num(m, c.cs_t)
    <3>1. CASE i <= Len(c.wire)
      <4>1. i \in 1..Len(c.wire) /\ e.wire[i] = c.wire[i]
        BY <1>4, <2>1, <3>1
      <4>2. QED
        BY <1>13, <4>1
    <3>2. CASE ~(i <= Len(c.wire))
      <4>1. e.wire[i] = p
        BY <2>1, <3>2
      <4>2. QED
        BY <1>4, <1>7, <4>1
    <3>3. QED
      BY <3>1, <3>2
  <2>3. QED
    BY <2>1, <2>2
<1>16. ExactNumbers(n, e, g)
  <2>1. Num(n, e.sn_t) >= IF n = "client" THEN 3 ELSE 2
    BY <1>4, <1>12
  <2>2. e.state # "START"
    BY <1>10
  <2>3. QED
    BY <1>10, <1>12, <1>13, <1>15, <2>1, <2>2 DEF ExactNumbers, m
<1>17. /\ \A j \in 1..k : p.msgs[j] = (g - Len(c.fifo_send)) + j
       /\ Len(p.msgs) = k /\ g - Len(c.fifo_send) \in Nat
       /\ g - Len(e.fifo_send) = (g - Len(c.fifo_send)) + Len(p.msgs)
       /\ \A j \in 1..Len(rest) : rest[j] = (g - Len(rest)) + j
       /\ Len(rest) <= g /\ g <= Messages[n]
  <2>1. /\ Len(c.fifo_send) <= g /\ g <= Messages[n]
        /\ \A j \in 1..Len(c.fifo_send) : c.fifo_send[j] = (g - Len(c.fifo_send)) + j
    BY <1>1 DEF ExactSide, ExactMessages
  <2>2. /\ Len(p.msgs) = k /\ g - Len(c.fifo_send) \in Nat /\ Len(rest) <= g
        /\ g - Len(e.fifo_send) = (g - Len(c.fifo_send)) + Len(p.msgs)
    <3>1. /\ Len(p.msgs) = k /\ Len(rest) = Len(c.fifo_send) - k
          /\ Len(e.fifo_send) = Len(c.fifo_send) - k
      BY <1>6, <1>7, <1>10
    <3>2. g \in Nat /\ Len(c.fifo_send) <= g
      BY <1>1, <2>1
    <3>3. QED
      BY <1>4, <1>5, <3>1, <3>2
  <2>3. ASSUME NEW j \in 1..k
        PROVE  p.msgs[j] = (g - Len(c.fifo_send)) + j
    <3>1. j \in 1..Len(c.fifo_send) /\ p.msgs[j] = c.fifo_send[j]
      BY <1>4, <1>5, <1>6, <1>7
    <3>2. QED
      BY <2>1, <3>1
  <2>4. ASSUME NEW j \in 1..Len(rest)
        PROVE  rest[j] = (g - Len(rest)) + j
    <3>1. rest[j] = (g - Len(c.fifo_send)) + (k + j)
      BY <1>6, <2>1
    <3>2. Len(rest) = Len(c.fifo_send) - k /\ j \in Int
      BY <1>4, <1>5, <1>6
    <3>3. QED
      BY <1>1, <1>4, <1>5, <3>1, <3>2
  <2>5. QED
    BY <2>1, <2>2, <2>3, <2>4
<1>18. ExactMessages(n, e, g)
  <2>1. \A j \in 1..Len(e.fifo_app_msg) : e.fifo_app_msg[j] = j
    BY <1>1, <1>10 DEF ExactSide, ExactMessages
  <2>2. e.state # "START"
    BY <1>10
  <2>3. QED
    BY <1>10, <1>17, <2>1, <2>2 DEF ExactMessages
<1>19. ExactSide(n, e, g)
  BY <1>10, <1>14, <1>15, <1>16, <1>18 DEF ExactSide
<1>20. Alive(d) => Num(m, p.cs) < Num(m, d.sn_t)
  <2>1. PICK a \in Nat, f \in Messengers(d.wire) : ExactRoute(m, d, c, h, a, f)
    BY <1>1 DEF ExactLink
  <2>2. Num(m, c.sn_r) = a /\ (Alive(d) => Num(m, d.sn_t) = a + Len(d.wire))
    BY <1>1, <1>13, <2>1 DEF ExactRoute
  <2>3. Len(d.wire) \in Nat
    BY <1>1, ConnectionFields
  <2>4. QED
    BY <1>4, <1>7, <1>13, <2>2, <2>3
<1>21. Tracks(m, d) => Num(m, d.cs_r) <= Num(m, p.cs)
  BY <1>1, <1>7, <1>13 DEF ExactLink, ExactAcks, m
<1>22. ExactLink(n, e, d, g)
  <2>1. SameReceiver(d, d)
    BY DEF SameReceiver
  <2>2. \A j \in 1..Len(p.msgs) : p.msgs[j] = (g - Len(c.fifo_send)) + j
    BY <1>17
  <2>3. /\ p \in Pdus /\ p.sn = c.sn_t /\ e \in Connections /\ e.wire = Append(c.wire, p)
        /\ e.cs_t = p.cs /\ Num(n, e.sn_t) = Num(n, c.sn_t) + 1
        /\ g - Len(e.fifo_send) = (g - Len(c.fifo_send)) + Len(p.msgs)
        /\ g - Len(c.fifo_send) \in Nat
    BY <1>7, <1>10, <1>12, <1>17
  <2>4. c \in Connections /\ d \in Connections /\ ExactLink(n, c, d, g) /\ g \in Nat
    BY <1>1
  <2>5. QED
    BY <1>13, <1>20, <1>21, <2>1, <2>2, <2>3, <2>4, SendLink DEF m
<1>23. ExactLink(m, d, e, h)
  <2>1. Num(n, c.sn_t) <= Num(n, e.sn_t)
    BY <1>4, <1>12
  <2>2. MayTake(c)
    BY <1>8 DEF MayTake
  <2>3. QED
    BY <1>1, <1>10, <1>13, <2>1, <2>2, ReceiverLink
<1>24. QED
  BY <1>2, <1>10, <1>11, <1>19, <1>22, <1>23, BecomesKeepsExact DEF d, g, h, m

\* What a handler finds: retransmission is not asked for, and a client that
\* waits for the ConnectionResponse is not sent anything else first.
LEMMA HeadOfSession ==
  ASSUME TypeOK, Exact, ExactRequest, HandshakeInv, NEW n \in Nodes, Wire(n) # <<>>
  PROVE  LET c == node[n]
             p == Head(Wire(n))
         IN  /\ c.state \in {"START", "UP", "CLOSED"}
             /\ p.type \in {"DISCREQ", "CONREQ", "CONRESP", "HB", "DATA"}
             /\ n = "client" /\ c.state = "START" => p.type \in {"CONRESP", "DISCREQ"}
             /\ ~c.listed => p.type \in {"CONREQ", "CONRESP", "DISCREQ"}
             /\ c.state = "START" => c.channel
<1> DEFINE c == node[n]
           d == node[Peer(n)]
           p == Head(Wire(n))
<1>1. /\ c \in Connections /\ d \in Connections /\ ExactSide(n, c, sent[n])
      /\ n = "client" \/ n = "server"
      /\ n = "client" => d = node["server"] /\ c = node["client"]
      /\ n = "server" => d = node["client"] /\ c = node["server"]
  BY OneSide DEF Nodes, Peer
<1>2. 1 \in 1..Len(d.wire) /\ p = d.wire[1]
  <2>1. d.wire \in Seq(Pdus) /\ d.wire # <<>> /\ p = Head(d.wire)
    BY <1>1, HeadOfWire DEF Wire
  <2> HIDE DEF d, p
  <2>2. QED
    BY <2>1
<1>3. c.state \in {"START", "UP", "CLOSED"}
  BY <1>1 DEF ExactSide
<1>4. p.type \in {"DISCREQ", "CONREQ", "CONRESP", "HB", "DATA"}
  BY HeadIsNext DEF TypeAt
<1>5. c.state = "START" => c.channel /\ c.hb_locked
  BY DEF HandshakeInv, SideInv
<1>6. n = "client" /\ c.state = "START" => p.type \in {"CONRESP", "DISCREQ"}
  <2>1. n = "client" /\ c.state = "START" => Waits(d)
    BY <1>1, <1>5 DEF HandshakeInv, ClientInv, Open
  <2>2. QED
    BY <1>2, <2>1 DEF Waits, Only
<1>7. ~c.listed => p.type \in {"CONREQ", "CONRESP", "DISCREQ"}
  <2>1. CASE n = "server"
    BY <1>1, <1>2, <2>1 DEF ExactRequest, Only
  <2>2. CASE n = "client" /\ c.state # "START"
    <3>1. ~c.listed => d = Unconnected
      BY <1>1, <2>2 DEF HandshakeInv, UnlistedInv
    <3>2. Len(Unconnected.wire) = 0 /\ 1 \notin 1..0
      BY DEF Unconnected
    <3>3. QED
      BY <1>2, <3>1, <3>2
  <2>3. QED
    BY <1>1, <1>6, <2>1, <2>2
<1>8. QED
  BY <1>3, <1>4, <1>5, <1>6, <1>7

LEMMA DeliveredIs ==
  ASSUME NEW c \in Connections, NEW p \in Pdus, c.state = "UP", c.channel, c.listed
  PROVE  LET e == RemoveConfirmed([Accept(Deliver(c, p), p) EXCEPT !.cs_r = p.cs])
         IN  e \in Connections /\ TakesNext(c, p, e)
<1> DEFINE b == [Accept(Deliver(c, p), p) EXCEPT !.cs_r = p.cs]
           e == RemoveConfirmed(b)
<1>1. /\ p.sn \in SequenceNumbers /\ p.cs \in SequenceNumbers /\ Plus(p.sn, 1) \in SequenceNumbers
      /\ c.fifo_app_msg \o p.msgs \in Seq(Nat)
  <2>1. c.fifo_app_msg \in Seq(Nat) /\ p.msgs \in Seq(Nat)
    BY ConnectionFields, PduFields
  <2>2. QED
    BY <2>1, PduFields, SequenceNumbersWrap
<1>2. b = [c EXCEPT !.fifo_app_msg = c.fifo_app_msg \o p.msgs, !.sn_r = Plus(p.sn, 1),
                    !.cs_t = p.sn, !.cs_r = p.cs]
  BY DEF Accept, Deliver, Connections
<1> HIDE DEF b
<1>3. /\ b \in Connections /\ b.state = "UP" /\ b.listed /\ b.channel
      /\ b.fifo_send = c.fifo_send /\ b.fifo_app_msg = c.fifo_app_msg \o p.msgs
      /\ b.wire = c.wire /\ b.sn_t = c.sn_t
      /\ b.cs_t = p.sn /\ b.sn_r = Plus(p.sn, 1) /\ b.cs_r = p.cs
  BY <1>1, <1>2 DEF Connections
<1>4. PICK k \in 0..Len(b.fifo_retr) :
        e = [b EXCEPT !.fifo_retr = SubSeq(b.fifo_retr, k + 1, Len(b.fifo_retr))]
  BY <1>3, RemoveConfirmedIsSuffix
<1>5. e \in Connections
  BY <1>3, RemoveConfirmedType
<1> DEFINE rest == SubSeq(b.fifo_retr, k + 1, Len(b.fifo_retr))
<1>6. e = [b EXCEPT !.fifo_retr = rest]
  BY <1>4
<1> HIDE DEF e, rest
<1>7. TakesNext(c, p, e)
  BY <1>3, <1>6 DEF TakesNext, Connections
<1>8. QED
  BY <1>5, <1>7 DEF e, b

LEMMA HandlersKeepExact ==
  ASSUME MessagesFit, TypeOK, Exact, ExactRequest, HandshakeInv, NEW n \in Nodes, Handle(n)
  PROVE  Exact'
<1> DEFINE c == node[n]
           p == Head(Wire(n))
<1>1. Wire(n) # <<>>
  BY DEF Handle, HandleConResp, HandleDiscReq, HbCompletesHandshake, HbInSequence,
         HbAfterGap, DataInSequence, DataAfterGap, DataBeforeHandshake, HandleRetrReq,
         HandleRetrResp, RetrDataInSequence, RetrDataAfterGap, Ignore, Discard, Receives
<1>2. c \in Connections /\ p \in Pdus
  BY <1>1, HeadOfWire
<1>3. /\ c.state \in {"START", "UP", "CLOSED"}
      /\ p.type \in {"DISCREQ", "CONREQ", "CONRESP", "HB", "DATA"}
      /\ n = "client" /\ c.state = "START" => p.type \in {"CONRESP", "DISCREQ"}
      /\ ~c.listed => p.type \in {"CONREQ", "CONRESP", "DISCREQ"}
      /\ c.state = "START" => c.channel
  BY <1>1, HeadOfSession
<1>4. Tracks(n, c) =>
         /\ p.sn = c.sn_r
         /\ p.type \in {"DISCREQ", IF c.state = "START" THEN "HB" ELSE "DATA"}
         /\ p.type \in Acks => Plausible(c, p)
  BY <1>1, HeadIsNext
<1>5. /\ c.state = "UP" => c.channel /\ c.listed /\ Tracks(n, c)
      /\ c.state = "START" /\ n = "server" => Tracks(n, c)
      /\ n = "client" \/ n = "server"
  BY OneSide DEF ExactSide, Tracks, Nodes
<1>6. /\ \A type : Receives(n, type) => c.listed /\ c.channel /\ p.type = type
  BY DEF Receives
<1>7. /\ Close(c) \in Connections /\ Shuts(c, Close(c))
      /\ [Reset(c) EXCEPT !.channel = FALSE] \in Connections
      /\ Shuts(c, [Reset(c) EXCEPT !.channel = FALSE])
  <2> HIDE DEF c
  <2>1. [Reset(c) EXCEPT !.channel = FALSE] \in Connections
    BY <1>2 DEF Reset, Connections, States
  <2>2. Shuts(c, [Reset(c) EXCEPT !.channel = FALSE])
    BY <1>2 DEF Reset, Connections, Shuts
  <2>3. QED
    BY <1>2, <1>3, <2>1, <2>2, CloseType, CloseShuts
<1>8. ASSUME c.listed, Taken(n, Close(c)) \/ Taken(n, [Reset(c) EXCEPT !.channel = FALSE])
      PROVE  Exact'
  BY <1>1, <1>7, <1>8, ShuttingHandler
<1>9. ASSUME c.listed, c.state = "CLOSED", Taken(n, c)
      PROVE  Exact'
  <2>1. ~MayTake(c) /\ ~Tracks(n, c)
    BY <1>9 DEF MayTake, Tracks
  <2>2. QED
    BY <1>1, <1>9, <2>1, Dropping
<1>10. CASE HandleConResp(n)
  <2>1. c.listed /\ c.channel /\ p.type = "CONRESP"
    BY <1>6, <1>10 DEF HandleConResp
  <2>2. CASE p.cs # Minus(c.sn_t, 1) \/ (c.state # "CLOSED" /\ ~(c.state = "START" /\ n = "client"))
    <3>1. Taken(n, Close(c))
      BY <1>10, <2>2 DEF HandleConResp
    <3>2. QED
      BY <1>8, <2>1, <3>1
  <2>3. CASE p.cs = Minus(c.sn_t, 1) /\ c.state = "CLOSED"
    <3>1. Taken(n, c)
      BY <1>10, <2>3 DEF HandleConResp
    <3>2. QED
      BY <1>9, <2>1, <2>3, <3>1
  <2>4. CASE p.cs = Minus(c.sn_t, 1) /\ c.state = "START" /\ n = "client"
    <3>1. Taken(n, SendNumbered(Establish(c, p), "HB"))
      BY <1>10, <2>4 DEF HandleConResp
    <3>2. QED
      BY <1>1, <2>1, <2>4, <3>1, EstablishingHandler
  <2>5. QED
    BY <2>2, <2>3, <2>4
<1>11. CASE HandleDiscReq(n)
  BY <1>6, <1>8, <1>11 DEF HandleDiscReq
<1>12. CASE HbCompletesHandshake(n)
  <2>1. c.state = "START" /\ p.type = "HB" /\ c.listed /\ c.channel
    BY <1>6, <1>12 DEF HbCompletesHandshake
  <2>2. n = "server" /\ Tracks(n, c) /\ SnInSeq(c, p) /\ n # "client"
    BY <1>3, <1>4, <1>5, <2>1 DEF SnInSeq
  <2>3. Taken(n, Establish(c, p)) \/ Taken(n, Close(c))
    BY <1>12, <2>2 DEF HbCompletesHandshake
  <2>4. CASE Taken(n, Establish(c, p))
    <3>1. Establish(c, p) \in Connections
      BY <1>2, EstablishType
    <3>2. p.msgs = <<>> /\ c.fifo_app_msg \in Seq(Nat)
      BY <1>1, <1>2, <2>1, HeadIsNext, ConnectionFields
    <3>3. c.fifo_app_msg \o p.msgs = c.fifo_app_msg
      <4> DEFINE s == c.fifo_app_msg
      <4> HIDE DEF s
      <4>1. s \in Seq(Nat) => s \o <<>> = s
        OBVIOUS
      <4>2. QED
        BY <3>2, <4>1 DEF s
    <3>4. TakesNext(c, p, Establish(c, p))
      <4> HIDE DEF c, p
      <4>1. QED
        BY <1>2, <2>1, <3>3 DEF TakesNext, Establish, Accept, Connections
    <3>5. p.type \in Acks
      BY <2>1 DEF Acks
    <3>6. QED
      BY <1>1, <2>2, <2>4, <3>1, <3>4, <3>5, AcceptingHandler
  <2>5. QED
    BY <1>8, <2>1, <2>3, <2>4
<1>13. CASE HbInSequence(n) \/ HbAfterGap(n)
  <2>1. c.state = "UP" /\ p.type = "HB"
    BY <1>3, <1>6, <1>13 DEF HbInSequence, HbAfterGap
  <2>2. QED
    BY <1>4, <1>5, <2>1
<1>14. CASE DataInSequence(n)
  <2>1. c.state = "UP" /\ p.type = "DATA" /\ c.listed /\ c.channel
    BY <1>3, <1>6, <1>14 DEF DataInSequence
  <2> DEFINE e == RemoveConfirmed([Accept(Deliver(c, p), p) EXCEPT !.cs_r = p.cs])
  <2>2. Taken(n, e) \/ Taken(n, Close(c))
    BY <1>14, <2>1 DEF DataInSequence
  <2>3. e \in Connections /\ TakesNext(c, p, e)
    <3> HIDE DEF c, p
    <3>1. QED
      BY <1>2, <2>1, DeliveredIs
  <2>4. Tracks(n, c) /\ p.type \in Acks
    BY <1>5, <2>1 DEF Acks
  <2> HIDE DEF e
  <2>5. CASE Taken(n, e)
    BY <1>1, <2>3, <2>4, <2>5, AcceptingHandler
  <2>6. QED
    BY <1>8, <2>1, <2>2, <2>5
<1>15. CASE DataAfterGap(n)
  <2>1. c.state = "UP" /\ ~SnInSeq(c, p)
    BY <1>3, <1>15 DEF DataAfterGap
  <2>2. QED
    BY <1>4, <1>5, <2>1 DEF SnInSeq
<1>16. CASE DataBeforeHandshake(n)
  <2>1. c.state = "START" /\ p.type = "DATA"
    BY <1>6, <1>16 DEF DataBeforeHandshake
  <2>2. QED
    BY <1>3, <1>4, <1>5, <2>1
<1>17. CASE HandleRetrReq(n) \/ HandleRetrResp(n) \/ RetrDataInSequence(n) \/ RetrDataAfterGap(n)
  <2>1. p.type \in {"RETRREQ", "RETRRESP", "RETRDATA"}
    BY <1>6, <1>17 DEF HandleRetrReq, HandleRetrResp, RetrDataInSequence, RetrDataAfterGap
  <2>2. QED
    BY <1>3, <2>1
<1>18. CASE Ignore(n)
  <2>1. c.listed /\ Taken(n, c) /\ c.state = "CLOSED"
    BY <1>3, <1>6, <1>18 DEF Ignore
  <2>2. QED
    BY <1>9, <2>1
<1>19. CASE Discard(n)
  <2>1. /\ Taken(n, c) /\ p.type # "CONREQ"
        /\ \/ ~c.listed \/ ~c.channel
           \/ p.type # "CONRESP" /\ ~Plausible(c, p)
    BY <1>19 DEF Discard
  <2>2. ASSUME Tracks(n, c)
        PROVE  p.type = "DISCREQ"
    BY <1>3, <1>4, <1>5, <2>1, <2>2 DEF Tracks, Acks
  <2>3. ASSUME MayTake(c)
        PROVE  p.type # "DATA"
    BY <1>3, <1>5, <2>2, <2>3 DEF MayTake
  <2>4. QED
    BY <1>1, <2>1, <2>2, <2>3, Dropping
<1>20. QED
  BY <1>10, <1>11, <1>12, <1>13, <1>14, <1>15, <1>16, <1>17, <1>18, <1>19 DEF Handle

LEMMA RequestKept ==
  ASSUME TypeOK, Exact, ExactRequest, HandshakeInv, HandshakeInv',
         \/ Connect \/ AddConnection \/ HandleConReq
         \/ \E n \in Nodes : \/ SrSend(n) \/ SrDisconnect(n) \/ SendThread(n)
                             \/ TiExpires(n) \/ Handle(n)
  PROVE  ExactRequest'
<1> DEFINE c == node["client"]
           s == node["server"]
<1>1. /\ "client" \in Nodes /\ "server" \in Nodes /\ c \in Connections /\ s \in Connections
      /\ Peer("client") = "server" /\ Peer("server") = "client" /\ c.wire \in Seq(Pdus)
  BY DEF TypeOK, Nodes, Peer, Connections
<1>2. SUFFICES ASSUME ~node'["server"].listed
               PROVE  /\ node'["client"].state # "UP"
                      /\ Only(node'["client"].wire, {"CONREQ", "DISCREQ"})
  BY DEF ExactRequest, Only
<1>3. ASSUME node'["client"].state = "START"
      PROVE  Only(node'["client"].wire, {"CONREQ", "DISCREQ"})
  <2>1. node'["client"].hb_locked /\ node'["client"].channel
    BY <1>1, <1>3 DEF HandshakeInv, SideInv
  <2>2. QED
    BY <2>1 DEF HandshakeInv, ClientInv, Open, Only
<1>4. CASE Connect
  <2>1. node'["client"].state = "START"
    <3>1. PICK e : node' = [node EXCEPT !["client"] = [e EXCEPT !.state = "START"]]
                   /\ e \in Connections
      <4>1. PICK sn_r \in Unset, cs_r \in Unset :
              Becomes("client",
                 [SendNumbered([Unconnected EXCEPT !.sn_t = InitialSn["client"],
                                  !.sn_r = sn_r, !.cs_r = cs_r, !.channel = TRUE], "CONREQ")
                    EXCEPT !.state = "START"])
        BY <1>4 DEF Connect
      <4> DEFINE b == [Unconnected EXCEPT !.sn_t = InitialSn["client"],
                                  !.sn_r = sn_r, !.cs_r = cs_r, !.channel = TRUE]
      <4>2. b \in Connections
        BY <1>1, UnconnectedType, RastaConnectionAssumption DEF Connections
      <4>3. SendNumbered(b, "CONREQ") \in Connections
        <5> HIDE DEF b
        <5>1. QED
          BY <4>2, SendNumberedType DEF PduTypes
      <4>4. QED
        BY <4>1, <4>3 DEF Becomes
    <3>2. [e EXCEPT !.state = "START"].state = "START"
      BY <3>1 DEF Connections
    <3>3. QED
      BY <1>1, <3>1, <3>2 DEF TypeOK
  <2>2. QED
    BY <1>3, <2>1
<1>5. CASE AddConnection
  <2>1. node' = [node EXCEPT !["client"] = [c EXCEPT !.listed = TRUE]] /\ c.state = "START"
    BY <1>5 DEF AddConnection, Becomes
  <2>2. node'["client"].state = "START"
    BY <1>1, <2>1 DEF TypeOK, Connections
  <2>3. QED
    BY <1>3, <2>2
<1>6. CASE HandleConReq
  <2> DEFINE p == Head(Wire("server"))
  <2>1. Wire("server") # <<>> /\ Taken("server", SendNumbered(NewServer(p), "CONRESP"))
    BY <1>6 DEF HandleConReq
  <2>2. p \in Pdus
    BY <1>1, <2>1, HeadOfWire
  <2>3. SendNumbered(NewServer(p), "CONRESP").listed
    BY <2>2, NewServerIs
  <2>4. node'["server"].listed
    BY <1>1, <2>1, <2>3 DEF Taken
  <2>5. QED
    BY <1>2, <2>4
<1>7. ASSUME ~s.listed
      PROVE  /\ c.state # "UP" /\ Only(c.wire, {"CONREQ", "DISCREQ"})
             /\ s = Unconnected
  BY <1>7 DEF ExactRequest, HandshakeInv, UnlistedInv
<1>8. ASSUME NEW n \in Nodes, Handle(n)
      PROVE  /\ node'["client"].state # "UP"
             /\ Only(node'["client"].wire, {"CONREQ", "DISCREQ"})
  <2>1. PICK e \in Connections : Taken(n, e) /\ Progress(node[n], e)
    BY <1>8, HandlersAnswer
  <2>2. Wire(n) # <<>>
    BY <1>8, HandlersAnswer
  <2>3. CASE n = "client"
    <3>1. node'["server"] = [s EXCEPT !.wire = Tail(s.wire)] /\ s.wire # <<>>
      BY <1>1, <2>1, <2>2, <2>3 DEF Taken, Wire
    <3>2. node'["server"].listed = s.listed
      BY <1>1, <3>1 DEF Connections
    <3>3. s = Unconnected
      BY <1>2, <1>7, <3>2
    <3>4. QED
      BY <3>1, <3>3 DEF Unconnected
  <2>4. CASE n = "server"
    <3>1. /\ node'["server"] = e /\ e.listed = s.listed
          /\ node'["client"] = [c EXCEPT !.wire = Tail(c.wire)] /\ c.wire # <<>>
      BY <1>1, <2>1, <2>2, <2>4 DEF Taken, Wire, Progress
    <3>2. c.state # "UP" /\ Only(c.wire, {"CONREQ", "DISCREQ"})
      BY <1>2, <1>7, <3>1
    <3>3. node'["client"].state = c.state /\ node'["client"].wire = Tail(c.wire)
      BY <1>1, <3>1 DEF Connections
    <3> HIDE DEF c
    <3>4. \A i \in 1..Len(Tail(c.wire)) : /\ i + 1 \in 1..Len(c.wire)
                                          /\ Tail(c.wire)[i] = c.wire[i + 1]
      <4> DEFINE w == c.wire
      <4> HIDE DEF w
      <4>1. w \in Seq(Pdus) /\ w # <<>> => \A i \in 1..Len(Tail(w)) :
              i + 1 \in 1..Len(w) /\ Tail(w)[i] = w[i + 1]
        OBVIOUS
      <4>2. QED
        BY <1>1, <3>1, <4>1 DEF w
    <3>5. QED
      BY <3>2, <3>3, <3>4 DEF Only
  <2>5. QED
    BY <2>3, <2>4 DEF Nodes
<1>9. ASSUME NEW n \in Nodes, SrSend(n) \/ SrDisconnect(n) \/ SendThread(n) \/ TiExpires(n)
      PROVE  /\ node'["client"].state # "UP"
             /\ Only(node'["client"].wire, {"CONREQ", "DISCREQ"})
  <2>1. PICK e : Becomes(n, e) /\ Own(node[n], e)
    BY <1>9, ThreadsAndUserAreOwn
  <2>2. n = "client"
    <3>1. ASSUME n = "server"
          PROVE  FALSE
      <4>1. node'["server"] = e /\ e.listed
        BY <1>1, <2>1, <3>1 DEF Becomes, Own, Progress, TypeOK
      <4>2. QED
        BY <1>2, <4>1
    <3>2. QED
      BY <3>1 DEF Nodes
  <2>3. node'["client"] = e /\ node'["server"] = s
    BY <1>1, <2>1, <2>2 DEF Becomes, TypeOK
  <2>4. c.state # "UP" /\ Only(c.wire, {"CONREQ", "DISCREQ"}) /\ e.state # "UP"
        /\ Own(c, e)
    BY <1>2, <1>7, <2>1, <2>2, <2>3 DEF Own
  <2>5. CASE c.state = "START"
    <3>1. c.hb_locked /\ c.fifo_send = <<>>
      BY <1>1, <2>5 DEF HandshakeInv, SideInv, Exact, ExactSide, ExactMessages
    <3>2. Adds(c.wire, e.wire, {"DISCREQ"})
      BY <2>4, <2>5, <3>1 DEF Own
    <3>3. Only(e.wire, {"CONREQ", "DISCREQ"})
      <4> HIDE DEF c
      <4>1. ASSUME NEW i \in 1..Len(e.wire)
            PROVE  e.wire[i].type \in {"CONREQ", "DISCREQ"}
        <5>1. CASE i <= Len(c.wire)
          <6>1. i \in 1..Len(c.wire) /\ e.wire[i] = c.wire[i]
            BY <1>1, <3>2, <5>1 DEF Adds
          <6>2. QED
            BY <2>4, <6>1 DEF Only
        <5>2. CASE ~(i <= Len(c.wire))
          BY <3>2, <5>2 DEF Adds
        <5>3. QED
          BY <5>1, <5>2
      <4>2. QED
        BY <4>1 DEF Only
    <3>4. QED
      BY <2>3, <2>4, <3>3
  <2>6. CASE c.state # "START"
    <3>1. c.state = "CLOSED"
      BY <1>1, <2>4, <2>6 DEF Exact, ExactSide
    <3>2. Becomes("client", Close(c))
      BY <1>9, <2>2, <3>1
      DEF SrSend, SrDisconnect, SendThread, TiExpires, Watched, Supervised
    <3>3. node'["client"] = Close(c)
      BY <1>1, <3>2 DEF Becomes, TypeOK
    <3>4. Close(c) = [c EXCEPT !.state = "CLOSED", !.hb_locked = TRUE, !.channel = FALSE,
                               !.wire = IF c.channel /\ c.state # "CLOSED"
                                        THEN Append(c.wire, Pdu(c, "DISCREQ", <<>>)) ELSE c.wire]
      BY <1>1, CloseIs
    <3>5. node'["client"].wire = c.wire
      BY <1>1, <3>1, <3>3, <3>4 DEF Connections
    <3>6. QED
      BY <2>3, <2>4, <3>5
  <2>7. QED
    BY <2>5, <2>6
<1>10. QED
  BY <1>3, <1>4, <1>5, <1>6, <1>8, <1>9

LEMMA ExactAtFirst ==
  ASSUME Init
  PROVE  Exact /\ ExactRequest
<1>1. \A n \in Nodes : node[n] = Unconnected /\ sent[n] = 0 /\ Peer(n) \in Nodes
  BY PeerIsNode DEF Init
<1> DEFINE u == Unconnected
<1>2. /\ u.wire = <<>> /\ u.fifo_send = <<>> /\ u.fifo_app_msg = <<>>
      /\ u.state = "CLOSED" /\ ~u.listed
      /\ Len(u.wire) = 0 /\ Len(u.fifo_send) = 0 /\ Len(u.fifo_app_msg) = 0
  BY DEF Unconnected
<1>3. Unconnected = u
  OBVIOUS
<1> HIDE DEF u
<1>4. ~Alive(u) /\ (\A n \in Nodes : ~Tracks(n, u)) /\ \A i \in 1..0 : FALSE
  BY <1>2 DEF Alive, Tracks
<1>5. ASSUME NEW n \in Nodes
      PROVE  ExactSide(n, u, 0) /\ ExactLink(n, u, u, 0)
  <2>1. Peer(n) \in Nodes /\ Messages[n] \in Nat /\ 0 <= Messages[n]
    <3>1. Peer(n) \in Nodes /\ Messages[n] \in Nat
      BY PeerIsNode, RastaConnectionAssumption
    <3>2. QED
      BY <3>1
  <2>2. ExactWire(n, u.wire) /\ ExactNumbers(n, u, 0) /\ ExactMessages(n, u, 0)
    BY <1>2, <1>4, <2>1 DEF ExactWire, ExactNumbers, ExactMessages
  <2>3. ExactSide(n, u, 0)
    BY <1>2, <1>4, <2>2 DEF ExactSide
  <2>4. ExactAcks(n, u, u)
    BY <1>2, <1>4, <2>1 DEF ExactAcks
  <2> DEFINE f == [i \in 1..(0 + 1) |-> 0]
  <2>5. f \in [1..(0 + 1) -> Nat] /\ f[1] = 0 /\ f[0 + 1] = 0 /\ 0 - 0 = 0
    OBVIOUS
  <2> HIDE DEF f
  <2>6. f \in Messengers(u.wire)
    BY <1>2, <2>5 DEF Messengers
  <2>7. ExactRoute(n, u, u, 0, 0, f)
    BY <1>2, <1>4, <2>1, <2>5 DEF ExactRoute
  <2>8. 0 \in Nat
    OBVIOUS
  <2>9. QED
    BY <2>3, <2>4, <2>6, <2>7, <2>8 DEF ExactLink
<1>6. Exact
  BY <1>1, <1>3, <1>5 DEF Exact
<1>7. ExactRequest
  <2>1. node["client"] = u
    BY <1>1, <1>3 DEF Nodes
  <2>2. QED
    BY <1>2, <1>4, <2>1 DEF ExactRequest, Only
<1>8. QED
  BY <1>6, <1>7

\* A step after which nothing is lost and no heartbeat is sent is one of the others.
LEMMA QuietBefore ==
  ASSUME TypeOK, Next, Quiet'
  PROVE  /\ Quiet
         /\ \/ Connect \/ AddConnection \/ HandleConReq
            \/ \E n \in Nodes : \/ SrSend(n) \/ SrDisconnect(n) \/ SendThread(n)
                                \/ TiExpires(n) \/ Handle(n)
<1>1. ASSUME NEW n \in Nodes PROVE ~Heartbeat(n)
  <2>1. beats[n] \in Nat /\ beats[n] + 1 # 0
    BY DEF TypeOK
  <2>2. Heartbeat(n) => beats'[n] = beats[n] + 1
    BY DEF Heartbeat, TypeOK
  <2>3. QED
    BY <2>1, <2>2 DEF Quiet
<1>2. ASSUME NEW n \in Nodes PROVE ~Lose(n)
  BY DEF Lose, Quiet, TypeOK
<1>3. \/ Connect \/ AddConnection \/ HandleConReq
      \/ \E n \in Nodes : \/ SrSend(n) \/ SrDisconnect(n) \/ SendThread(n)
                          \/ TiExpires(n) \/ Handle(n)
  BY <1>1, <1>2 DEF Next
<1>4. lost' = lost /\ beats' = beats
  <2>1. CASE Connect \/ AddConnection \/ HandleConReq
    BY <2>1 DEF Connect, AddConnection, HandleConReq, Taken
  <2>2. ASSUME NEW n \in Nodes, SrSend(n) \/ SrDisconnect(n) \/ SendThread(n) \/ TiExpires(n)
        PROVE  lost' = lost /\ beats' = beats
    BY <2>2 DEF SrSend, SrDisconnect, SendThread, TiExpires
  <2>3. ASSUME NEW n \in Nodes, Handle(n)
        PROVE  lost' = lost /\ beats' = beats
    BY <2>3, HandlersAnswer DEF Taken
  <2>4. QED
    BY <1>3, <2>1, <2>2, <2>3
<1>5. QED
  BY <1>3, <1>4 DEF Quiet

ExactWhenQuiet == Quiet => Exact /\ ExactRequest

\* As long as nothing is lost and no heartbeat is sent, both sides agree exactly
\* on the numbers while they are UP, and no message is skipped: whatever the first
\* numbers are, wherever they wrap, and in every order of the threads, the
\* timers and the closes.
THEOREM LosslessSessionIsExact ==
  ASSUME MessagesFit
  PROVE  Spec => []LosslessIsExact
<1>1. Init => ExactWhenQuiet
  BY ExactAtFirst DEF ExactWhenQuiet
<1>2. TypeOK /\ HandshakeInv /\ HandshakeInv' /\ ExactWhenQuiet /\ [Next]_vars
        => ExactWhenQuiet'
  <2> SUFFICES ASSUME TypeOK, HandshakeInv, HandshakeInv', ExactWhenQuiet, [Next]_vars, Quiet'
               PROVE  Exact' /\ ExactRequest'
    BY DEF ExactWhenQuiet
  <2>1. CASE UNCHANGED vars
    <3>1. node' = node /\ sent' = sent /\ Quiet
      BY <2>1 DEF vars, Quiet
    <3>2. Exact /\ ExactRequest
      BY <3>1 DEF ExactWhenQuiet
    <3>3. QED
      BY <3>1, <3>2 DEF Exact, ExactRequest
  <2>2. CASE Next
    <3>1. Exact /\ ExactRequest
      BY <2>2, QuietBefore DEF ExactWhenQuiet
    <3>2. \/ Connect \/ AddConnection \/ HandleConReq
          \/ \E n \in Nodes : \/ SrSend(n) \/ SrDisconnect(n) \/ SendThread(n)
                              \/ TiExpires(n) \/ Handle(n)
      BY <2>2, QuietBefore
    <3>3. ExactRequest'
      BY <3>1, <3>2, RequestKept
    <3>4. Exact'
      BY <3>1, <3>2, ConnectKeepsExact, AddConnectionKeepsExact, HandleConReqKeepsExact,
         SrSendKeepsExact, ClosingStep, SendThreadKeepsExact, HandlersKeepExact
    <3>5. QED
      BY <3>3, <3>4
  <2>3. QED
    BY <2>1, <2>2
<1>3. TypeOK /\ ExactWhenQuiet => LosslessIsExact
  BY ExactIsLossless DEF ExactWhenQuiet, LosslessIsExact
<1>4. QED
  BY <1>1, <1>2, <1>3, TypeCorrect, HandshakeIsKept, PTL DEF Spec

===============================================================================
