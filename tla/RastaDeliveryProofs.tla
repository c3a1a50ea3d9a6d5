-------------------------- MODULE RastaDeliveryProofs --------------------------
(***************************************************************************)
(* RastaConnection implements InOrderDelivery: proof for every width of    *)
(* the numbers, size of the fifos, and number of messages, heartbeats,     *)
(* losses and closes.                                                      *)
(*                                                                         *)
(* Everything is said of one direction: s is the connection of the side    *)
(* that sends, c that of the side that is given the messages, d what it    *)
(* has been given, k the number of messages sr_send has taken at s.        *)
(***************************************************************************)
EXTENDS RastaConnectionProofs

-------------------------------------------------------------------------------
(* Messages, which are numbers, in order.                                   *)

Rising(a) == \A i \in 1..Len(a), j \in 1..Len(a) : i < j => a[i] < a[j]
Below(a, b) == \A i \in 1..Len(a), j \in 1..Len(b) : a[i] < b[j]
Within(a, k) == \A i \in 1..Len(a) : a[i] \in 1..k

-------------------------------------------------------------------------------
(* The invariant.                                                           *)

\* Messages of s in the order in which it was given them, all before those
\* that still wait in its fifo_send.
Sound(a, s, k) == Within(a, k) /\ Rising(a) /\ Below(a, s.fifo_send)

\* The places of a wire with no RetrResp behind them.
Current(w) == {x \in 1..Len(w) : \A j \in 1..Len(w) : x < j => w[j].type # "RETRRESP"}

Has(w, type) == \E i \in 1..Len(w) : w[i].type = type

\* Whoever asks from this number on is not sent a message of a, or one before
\* them, again: they are before what follows the number in fifo_retr.
FollowersAbove(s, number, a) ==
    \A i \in 1..Len(s.fifo_retr), j \in 1..Len(s.fifo_retr) :
        i < j /\ s.fifo_retr[i].sn = number => Below(a, s.fifo_retr[j].msgs)

\* The sending side by itself: what it keeps and what it has sent is in order.
Sender(s, k) ==
    /\ Within(s.fifo_send, k) /\ Rising(s.fifo_send)
    /\ \A i \in 1..Len(s.wire) : Sound(s.wire[i].msgs, s, k)
    /\ \A i \in 1..Len(s.fifo_retr) : Sound(s.fifo_retr[i].msgs, s, k)
    /\ \A i \in 1..Len(s.fifo_retr), j \in 1..Len(s.fifo_retr) :
         i < j => Below(s.fifo_retr[i].msgs, s.fifo_retr[j].msgs)
    /\ \A x \in Current(s.wire), y \in Current(s.wire) :
         x < y => Below(s.wire[x].msgs, s.wire[y].msgs)
    /\ Len(s.fifo_retr) <= RetrCapacity

\* c may come to take the messages that are on the wire.
Live(s, c) == Has(s.wire, "RETRRESP") \/ ~c.listed \/ c.state \in {"START", "UP", "RETRRUN"}

\* They are new to it then, and if it asks from one of their numbers on, it is
\* sent nothing again of what it has taken by then.
Upcoming(s, d) ==
    \A x \in Current(s.wire) :
        /\ Below(d, s.wire[x].msgs)
        /\ s.wire[x].type # "DISCREQ" =>
             /\ FollowersAbove(s, s.wire[x].sn, d)
             /\ \A y \in Current(s.wire) :
                  y <= x => FollowersAbove(s, s.wire[x].sn, s.wire[y].msgs)

\* The same for a RetrReq that is under way, which is the only one; the answer
\* is not.
Requested(s, c) ==
    \A i \in 1..Len(c.wire) : c.wire[i].type = "RETRREQ" =>
        /\ FollowersAbove(s, c.wire[i].cs, c.fifo_app_msg)
        /\ ~Has(s.wire, "RETRRESP")
        /\ \A j \in 1..Len(c.wire) : c.wire[j].type = "RETRREQ" => j = i

\* While a request or its answer is under way, c takes no messages.
Suspended(s, c) ==
    /\ \A i \in 1..Len(s.wire), j \in 1..Len(s.wire) :
         s.wire[i].type = "RETRRESP" /\ s.wire[j].type = "RETRRESP" => i = j
    /\ Has(s.wire, "RETRRESP") \/ Has(c.wire, "RETRREQ") =>
         c.listed /\ c.state \in {"RETRREQ", "CLOSED", "CRASHED"}

\* The two sides together.
Link(s, c, k) ==
    /\ Sound(c.fifo_app_msg, s, k)
    /\ c.state = "START" \/ ~c.listed => c.fifo_app_msg = <<>>
    /\ Live(s, c) => Upcoming(s, c.fifo_app_msg)
    /\ c.state \in {"UP", "RETRRUN"} => FollowersAbove(s, c.cs_t, c.fifo_app_msg)
    /\ Requested(s, c)
    /\ Suspended(s, c)

DeliveryInv ==
    \A n \in Nodes : /\ Sender(node[n], sent[n])
                     /\ Link(node[Peer(n)], node[n], sent[Peer(n)])

-------------------------------------------------------------------------------
(* Lemmas about messages in order.                                          *)

LEMMA NoMessages ==
  ASSUME NEW a, NEW k
  PROVE  Rising(<<>>) /\ Within(<<>>, k) /\ Below(<<>>, a) /\ Below(a, <<>>)
BY DEF Rising, Within, Below

LEMMA ConcatIndex ==
  ASSUME NEW a \in Seq(Nat), NEW b \in Seq(Nat)
  PROVE  \A i \in 1..Len(a \o b) :
           \/ i \in 1..Len(a) /\ (a \o b)[i] = a[i]
           \/ i - Len(a) \in 1..Len(b) /\ (a \o b)[i] = b[i - Len(a)] /\ i > Len(a)
OBVIOUS

LEMMA BelowConcat ==
  ASSUME NEW a \in Seq(Nat), NEW b \in Seq(Nat), NEW x \in Seq(Nat),
         Below(a, x), Below(b, x)
  PROVE  Below(a \o b, x)
<1>1. ASSUME NEW i \in 1..Len(a \o b), NEW j \in 1..Len(x)
      PROVE  (a \o b)[i] < x[j]
  BY ConcatIndex DEF Below
<1>2. QED
  BY <1>1 DEF Below

LEMMA ConcatInOrder ==
  ASSUME NEW a \in Seq(Nat), NEW b \in Seq(Nat), NEW k \in Nat,
         Rising(a), Rising(b), Below(a, b), Within(a, k), Within(b, k)
  PROVE  Rising(a \o b) /\ Within(a \o b, k)
<1> DEFINE c == a \o b
<1>1. \A i \in 1..Len(c) :
        \/ i \in 1..Len(a) /\ c[i] = a[i]
        \/ i - Len(a) \in 1..Len(b) /\ c[i] = b[i - Len(a)] /\ i > Len(a)
  BY ConcatIndex
<1>2. Len(a) \in Nat /\ Len(c) \in Nat
  OBVIOUS
<1> HIDE DEF c
<1>3. ASSUME NEW i \in 1..Len(c), NEW j \in 1..Len(c), i < j
      PROVE  c[i] < c[j]
  <2>1. CASE j \in 1..Len(a) /\ c[j] = a[j]
    <3>1. i \in 1..Len(a) /\ c[i] = a[i]
      BY <1>1, <1>2, <1>3, <2>1
    <3>2. QED
      BY <1>3, <2>1, <3>1 DEF Rising
  <2>2. CASE j - Len(a) \in 1..Len(b) /\ c[j] = b[j - Len(a)] /\ j > Len(a)
    <3>1. CASE i \in 1..Len(a) /\ c[i] = a[i]
      BY <2>2, <3>1 DEF Below
    <3>2. CASE i - Len(a) \in 1..Len(b) /\ c[i] = b[i - Len(a)] /\ i > Len(a)
      <4>1. i - Len(a) < j - Len(a)
        BY <1>2, <1>3
      <4>2. b[i - Len(a)] < b[j - Len(a)]
        BY <2>2, <3>2, <4>1 DEF Rising
      <4>3. QED
        BY <2>2, <3>2, <4>2
    <3>3. QED
      BY <1>1, <3>1, <3>2
  <2>3. QED
    BY <1>1, <2>1, <2>2
<1>4. Within(c, k)
  BY <1>1 DEF Within
<1>5. Rising(c)
  BY <1>3 DEF Rising
<1>6. QED
  BY <1>4, <1>5 DEF c

LEMMA SplitInOrder ==
  ASSUME NEW a \in Seq(Nat), NEW k \in Nat, NEW h \in 0..Len(a), Rising(a), Within(a, k)
  PROVE  LET b == SubSeq(a, 1, h)
             r == SubSeq(a, h + 1, Len(a))
         IN  /\ b \in Seq(Nat) /\ r \in Seq(Nat)
             /\ Rising(b) /\ Within(b, k) /\ Rising(r) /\ Within(r, k) /\ Below(b, r)
             /\ \A x \in Seq(Nat) : Below(x, a) => Below(x, b) /\ Below(x, r)
<1> DEFINE b == SubSeq(a, 1, h)
           r == SubSeq(a, h + 1, Len(a))
<1>1. Len(a) \in Nat /\ h \in Nat /\ h <= Len(a)
  OBVIOUS
<1>2. b \in Seq(Nat) /\ r \in Seq(Nat)
  BY <1>1
<1>3. Len(b) = h /\ \A i \in 1..h : b[i] = a[i]
  BY <1>1
<1>4. Len(r) = Len(a) - h /\ \A i \in 1..(Len(a) - h) : r[i] = a[h + i]
  BY <1>1
<1> HIDE DEF b, r
<1>5. \A i \in 1..Len(b) : i \in 1..Len(a) /\ i <= h /\ b[i] = a[i]
  BY <1>1, <1>3
<1>6. \A i \in 1..Len(r) : h + i \in 1..Len(a) /\ r[i] = a[h + i]
  BY <1>1, <1>4
<1>7. Rising(b) /\ Within(b, k)
  BY <1>5 DEF Rising, Within
<1>8. Within(r, k)
  BY <1>6 DEF Within
<1>9. Rising(r)
  <2>1. ASSUME NEW i \in 1..Len(r), NEW j \in 1..Len(r), i < j
        PROVE  r[i] < r[j]
    <3>1. h + i < h + j
      <4>1. i \in Nat /\ j \in Nat
        BY <1>2, <2>1
      <4>2. QED
        BY <1>1, <2>1, <4>1
    <3>2. a[h + i] < a[h + j]
      BY <1>6, <3>1 DEF Rising
    <3>3. QED
      BY <1>6, <3>2
  <2>2. QED
    BY <2>1 DEF Rising
<1>10. Below(b, r)
  <2>1. ASSUME NEW i \in 1..Len(b), NEW j \in 1..Len(r)
        PROVE  b[i] < r[j]
    <3>1. i < h + j
      <4>1. i \in Nat /\ i <= h /\ j \in Nat /\ j > 0
        BY <1>2, <1>5, <2>1
      <4>2. QED
        BY <1>1, <4>1
    <3>2. a[i] < a[h + j]
      BY <1>5, <1>6, <3>1 DEF Rising
    <3>3. QED
      BY <1>5, <1>6, <3>2
  <2>2. QED
    BY <2>1 DEF Below
<1>11. ASSUME NEW x \in Seq(Nat), Below(x, a)
       PROVE  Below(x, b) /\ Below(x, r)
  BY <1>5, <1>6, <1>11 DEF Below
<1>12. QED
  BY <1>2, <1>7, <1>8, <1>9, <1>10, <1>11 DEF b, r

LEMMA AppendInOrder ==
  ASSUME NEW a \in Seq(Nat), NEW k \in Nat, Rising(a), Within(a, k)
  PROVE  Rising(Append(a, k + 1)) /\ Within(Append(a, k + 1), k + 1)
<1> DEFINE c == Append(a, k + 1)
<1>1. /\ Len(a) \in Nat /\ Len(c) = Len(a) + 1 /\ c[Len(a) + 1] = k + 1
      /\ \A i \in 1..Len(a) : c[i] = a[i]
  OBVIOUS
<1> HIDE DEF c
<1>2. ASSUME NEW i \in 1..Len(c)
      PROVE  \/ i \in 1..Len(a) /\ c[i] = a[i]
             \/ i = Len(a) + 1 /\ c[i] = k + 1
  <2>1. i \in 1..Len(a) \/ i = Len(a) + 1
    BY <1>1
  <2>2. QED
    BY <1>1, <2>1
<1>3. \A i \in 1..Len(a) : a[i] \in 1..k
  BY DEF Within
<1>4. Within(c, k + 1)
  BY <1>2, <1>3 DEF Within
<1>5. Rising(c)
  <2>1. ASSUME NEW i \in 1..Len(c), NEW j \in 1..Len(c), i < j
        PROVE  c[i] < c[j]
    BY <1>1, <1>2, <1>3, <2>1 DEF Rising
  <2>2. QED
    BY <2>1 DEF Rising
<1>6. QED
  BY <1>4, <1>5 DEF c

LEMMA BelowAppend ==
  ASSUME NEW a \in Seq(Nat), NEW x \in Seq(Nat), NEW k \in Nat, Below(x, a), Within(x, k)
  PROVE  Below(x, Append(a, k + 1)) /\ Within(x, k + 1)
<1> DEFINE c == Append(a, k + 1)
<1>1. \A i \in 1..Len(c) : \/ i \in 1..Len(a) /\ c[i] = a[i]
                         \/ c[i] = k + 1
  OBVIOUS
<1> HIDE DEF c
<1>2. \A i \in 1..Len(x) : x[i] \in 1..k
  BY DEF Within
<1>3. Below(x, c)
  BY <1>1, <1>2 DEF Below
<1>4. Within(x, k + 1)
  BY <1>2 DEF Within
<1>5. QED
  BY <1>3, <1>4 DEF c

-------------------------------------------------------------------------------
(* Lemmas about wires.                                                      *)

LEMMA MessagesType ==
  ASSUME NEW s \in Connections
  PROVE  /\ s.wire \in Seq(Pdus) /\ s.fifo_retr \in Seq(Pdus)
         /\ s.fifo_send \in Seq(Nat) /\ s.fifo_app_msg \in Seq(Nat)
         /\ \A i \in 1..Len(s.wire) : s.wire[i] \in Pdus /\ s.wire[i].msgs \in Seq(Nat)
         /\ \A i \in 1..Len(s.fifo_retr) :
              s.fifo_retr[i] \in Pdus /\ s.fifo_retr[i].msgs \in Seq(Nat)
<1>1. s.wire \in Seq(Pdus) /\ s.fifo_retr \in Seq(Pdus)
  BY DEF Connections
<1>2. s.fifo_send \in Seq(Nat) /\ s.fifo_app_msg \in Seq(Nat)
  BY DEF Connections
<1>3. \A i \in 1..Len(s.wire) : s.wire[i] \in Pdus
  BY <1>1
<1>4. \A i \in 1..Len(s.fifo_retr) : s.fifo_retr[i] \in Pdus
  BY <1>1
<1>5. \A p \in Pdus : p.msgs \in Seq(Nat)
  BY DEF Pdus
<1>6. QED
  BY <1>1, <1>2, <1>3, <1>4, <1>5

LEMMA PopWire ==
  ASSUME NEW w \in Seq(Pdus), w # <<>>
  PROVE  /\ Tail(w) \in Seq(Pdus) /\ Len(Tail(w)) = Len(w) - 1
         /\ \A i \in 1..Len(Tail(w)) : i + 1 \in 1..Len(w) /\ Tail(w)[i] = w[i + 1]
         /\ \A x \in Current(Tail(w)) : x \in 1..Len(Tail(w)) /\ x + 1 \in Current(w)
         /\ \A type \in PduTypes : Has(Tail(w), type) => Has(w, type)
<1> DEFINE v == Tail(w)
<1>1. /\ v \in Seq(Pdus) /\ Len(w) \in Nat /\ Len(v) = Len(w) - 1
      /\ \A i \in 1..Len(v) : i + 1 \in 1..Len(w) /\ v[i] = w[i + 1]
  OBVIOUS
<1> HIDE DEF v
<1>2. ASSUME NEW x \in Current(v)
      PROVE  x \in 1..Len(v) /\ x + 1 \in Current(w)
  <2>1. x \in 1..Len(v) /\ \A j \in 1..Len(v) : x < j => v[j].type # "RETRRESP"
    BY DEF Current
  <2>2. ASSUME NEW j \in 1..Len(w), x + 1 < j
        PROVE  w[j].type # "RETRRESP"
    <3>1. j - 1 \in 1..Len(v) /\ x < j - 1 /\ (j - 1) + 1 = j
      BY <1>1, <2>1, <2>2
    <3>2. v[j - 1].type # "RETRRESP"
      BY <2>1, <3>1
    <3>3. v[j - 1] = w[j]
      BY <1>1, <3>1
    <3>4. QED
      BY <3>2, <3>3
  <2>3. x + 1 \in 1..Len(w)
    BY <1>1, <2>1
  <2>4. QED
    BY <2>1, <2>2, <2>3 DEF Current
<1>3. ASSUME NEW type \in PduTypes, Has(v, type)
      PROVE  Has(w, type)
  BY <1>1, <1>3 DEF Has
<1>4. QED
  BY <1>1, <1>2, <1>3 DEF v

LEMMA AppendWire ==
  ASSUME NEW w \in Seq(Pdus), NEW q \in Pdus
  PROVE  LET v == Append(w, q)
         IN  /\ v \in Seq(Pdus) /\ Len(v) = Len(w) + 1 /\ v[Len(w) + 1] = q
             /\ \A i \in 1..Len(w) : v[i] = w[i] /\ i # Len(w) + 1
             /\ \A i \in 1..Len(v) : i \in 1..Len(w) \/ i = Len(w) + 1
             /\ q.type # "RETRRESP" =>
                  \A x \in Current(v) : x \in Current(w) \/ x = Len(w) + 1
             /\ \A type \in PduTypes : Has(v, type) => Has(w, type) \/ q.type = type
<1> DEFINE v == Append(w, q)
<1>1. /\ v \in Seq(Pdus) /\ Len(w) \in Nat /\ Len(v) = Len(w) + 1 /\ v[Len(w) + 1] = q
      /\ \A i \in 1..Len(w) : v[i] = w[i] /\ i # Len(w) + 1
  OBVIOUS
<1> HIDE DEF v
<1>2. \A i \in 1..Len(v) : i \in 1..Len(w) \/ i = Len(w) + 1
  BY <1>1
<1>3. ASSUME NEW x \in Current(v), x # Len(w) + 1
      PROVE  x \in Current(w)
  <2>1. x \in 1..Len(w)
    BY <1>2, <1>3 DEF Current
  <2>2. ASSUME NEW j \in 1..Len(w), x < j
        PROVE  w[j].type # "RETRRESP"
    <3>1. j \in 1..Len(v) /\ v[j] = w[j]
      BY <1>1
    <3>2. v[j].type # "RETRRESP"
      BY <2>2, <3>1 DEF Current
    <3>3. QED
      BY <3>1, <3>2
  <2>3. QED
    BY <2>1, <2>2 DEF Current
<1>4. ASSUME NEW type \in PduTypes, Has(v, type)
      PROVE  Has(w, type) \/ q.type = type
  <2>1. PICK i \in 1..Len(v) : v[i].type = type
    BY <1>4 DEF Has
  <2>2. QED
    BY <1>1, <1>2, <2>1 DEF Has
<1>5. QED
  BY <1>1, <1>2, <1>3, <1>4 DEF v

LEMMA CurrentIsPlace ==
  ASSUME NEW w, NEW x \in Current(w)
  PROVE  x \in 1..Len(w)
BY DEF Current

LEMMA AllCurrent ==
  ASSUME NEW w, ~Has(w, "RETRRESP")
  PROVE  Current(w) = 1..Len(w)
BY DEF Current, Has

-------------------------------------------------------------------------------
(* The first PDU of a wire is taken or lost.                                *)

LEMMA PopUpcoming ==
  ASSUME NEW s \in Connections, NEW e \in Connections, NEW d, Upcoming(s, d),
         s.wire # <<>>, e.wire = Tail(s.wire), e.fifo_retr = s.fifo_retr
  PROVE  Upcoming(e, d)
<1>1. /\ \A i \in 1..Len(e.wire) : i + 1 \in 1..Len(s.wire) /\ e.wire[i] = s.wire[i + 1]
      /\ \A x \in Current(e.wire) : x \in 1..Len(e.wire) /\ x + 1 \in Current(s.wire)
  BY MessagesType, PopWire
<1>2. \A number, a : FollowersAbove(e, number, a) = FollowersAbove(s, number, a)
  BY DEF FollowersAbove
<1>3. ASSUME NEW x \in Current(e.wire)
      PROVE  /\ Below(d, e.wire[x].msgs)
             /\ e.wire[x].type # "DISCREQ" =>
                  /\ FollowersAbove(s, e.wire[x].sn, d)
                  /\ \A y \in Current(e.wire) :
                       y <= x => FollowersAbove(s, e.wire[x].sn, e.wire[y].msgs)
  <2>1. x + 1 \in Current(s.wire) /\ e.wire[x] = s.wire[x + 1]
    BY <1>1
  <2>2. ASSUME NEW y \in Current(e.wire), y <= x
        PROVE  /\ y + 1 \in Current(s.wire) /\ e.wire[y] = s.wire[y + 1]
               /\ y + 1 <= x + 1
    BY <1>1, <2>2
  <2>3. QED
    BY <2>1, <2>2 DEF Upcoming
<1>4. QED
  BY <1>2, <1>3 DEF Upcoming

LEMMA PopSender ==
  ASSUME NEW s \in Connections, NEW c \in Connections, NEW e \in Connections, NEW k \in Nat,
         Sender(s, k), Link(s, c, k), s.wire # <<>>,
         e.wire = Tail(s.wire), e.fifo_send = s.fifo_send, e.fifo_retr = s.fifo_retr
  PROVE  Sender(e, k) /\ Link(e, c, k)
<1> DEFINE d == c.fifo_app_msg
<1>1. /\ Len(s.wire) \in Nat /\ Len(e.wire) = Len(s.wire) - 1
      /\ \A i \in 1..Len(e.wire) : i + 1 \in 1..Len(s.wire) /\ e.wire[i] = s.wire[i + 1]
      /\ \A x \in Current(e.wire) : x \in 1..Len(e.wire) /\ x + 1 \in Current(s.wire)
      /\ Has(e.wire, "RETRRESP") => Has(s.wire, "RETRRESP")
  BY MessagesType, PopWire DEF PduTypes
<1>2. \A a : Sound(a, e, k) = Sound(a, s, k)
  BY DEF Sound
<1>3. \A number, a : FollowersAbove(e, number, a) = FollowersAbove(s, number, a)
  BY DEF FollowersAbove
<1>4. \A i \in 1..Len(e.wire) : Sound(e.wire[i].msgs, e, k)
  BY <1>1, <1>2 DEF Sender
<1>5. ASSUME NEW x \in Current(e.wire), NEW y \in Current(e.wire), x < y
      PROVE  Below(e.wire[x].msgs, e.wire[y].msgs)
  <2>1. x + 1 \in Current(s.wire) /\ y + 1 \in Current(s.wire) /\ x + 1 < y + 1
    BY <1>1, <1>5
  <2>2. Below(s.wire[x + 1].msgs, s.wire[y + 1].msgs)
    BY <2>1 DEF Sender
  <2>3. QED
    BY <1>1, <2>2
<1>6. Sender(e, k)
  BY <1>2, <1>4, <1>5 DEF Sender
<1>7. Upcoming(s, d) => Upcoming(e, d)
  BY PopUpcoming
<1>8. Live(e, c) => Live(s, c)
  BY <1>1 DEF Live
<1>9. Requested(e, c)
  BY <1>1, <1>3 DEF Link, Requested
<1>10. Suspended(e, c)
  <2>1. ASSUME NEW i \in 1..Len(e.wire), NEW j \in 1..Len(e.wire),
               e.wire[i].type = "RETRRESP", e.wire[j].type = "RETRRESP"
        PROVE  i = j
    <3>1. i + 1 = j + 1
      BY <1>1, <2>1 DEF Link, Suspended
    <3>2. QED
      BY <3>1
  <2>2. QED
    BY <1>1, <2>1 DEF Link, Suspended
<1>11. Sound(d, e, k) /\ (Live(e, c) => Upcoming(e, d))
  BY <1>2, <1>7, <1>8 DEF Link
<1>12. QED
  BY <1>3, <1>6, <1>9, <1>10, <1>11 DEF Link

LEMMA PopReceiver ==
  ASSUME NEW s \in Connections, NEW c \in Connections, NEW e \in Connections, NEW k \in Nat,
         Link(s, c, k), c.wire # <<>>, e = [c EXCEPT !.wire = Tail(c.wire)]
  PROVE  Link(s, e, k)
<1>1. /\ Len(c.wire) \in Nat /\ Len(e.wire) = Len(c.wire) - 1
      /\ \A i \in 1..Len(e.wire) : i + 1 \in 1..Len(c.wire) /\ e.wire[i] = c.wire[i + 1]
      /\ Has(e.wire, "RETRREQ") => Has(c.wire, "RETRREQ")
  <2>1. e.wire = Tail(c.wire) /\ c.wire \in Seq(Pdus)
    BY DEF Connections
  <2>2. QED
    BY <2>1, PopWire DEF PduTypes
<1>2. /\ e.state = c.state /\ e.listed = c.listed /\ e.cs_t = c.cs_t
      /\ e.fifo_app_msg = c.fifo_app_msg
  BY DEF Connections
<1>3. Requested(s, e)
  <2>1. ASSUME NEW i \in 1..Len(e.wire), e.wire[i].type = "RETRREQ"
        PROVE  /\ FollowersAbove(s, e.wire[i].cs, c.fifo_app_msg)
               /\ ~Has(s.wire, "RETRRESP")
               /\ \A j \in 1..Len(e.wire) : e.wire[j].type = "RETRREQ" => j = i
    <3>1. /\ FollowersAbove(s, e.wire[i].cs, c.fifo_app_msg)
          /\ ~Has(s.wire, "RETRRESP")
          /\ \A j \in 1..Len(c.wire) : c.wire[j].type = "RETRREQ" => j = i + 1
      BY <1>1, <2>1 DEF Link, Requested
    <3>2. ASSUME NEW j \in 1..Len(e.wire), e.wire[j].type = "RETRREQ"
          PROVE  j = i
      <4>1. j + 1 = i + 1
        BY <1>1, <3>1, <3>2
      <4>2. QED
        BY <4>1
    <3>3. QED
      BY <3>1, <3>2
  <2>2. QED
    BY <1>2, <2>1 DEF Requested
<1>4. Suspended(s, e)
  BY <1>1, <1>2 DEF Link, Suspended
<1>5. Live(s, e) = Live(s, c)
  BY <1>2 DEF Live
<1>6. QED
  BY <1>2, <1>3, <1>4, <1>5 DEF Link

-------------------------------------------------------------------------------
(* What the steps of the sending side do.                                   *)

\* Confirmed packets leave fifo_retr.
LEMMA Forget ==
  ASSUME NEW s \in Connections, NEW c \in Connections, NEW e \in Connections, NEW k \in Nat,
         NEW h \in 0..Len(s.fifo_retr),
         Sender(s, k), Link(s, c, k),
         e.wire = s.wire, e.fifo_send = s.fifo_send,
         e.fifo_retr = SubSeq(s.fifo_retr, h + 1, Len(s.fifo_retr))
  PROVE  Sender(e, k) /\ Link(e, c, k)
<1> DEFINE d == c.fifo_app_msg
<1>1. /\ Len(s.fifo_retr) \in Nat /\ Len(e.fifo_retr) = Len(s.fifo_retr) - h
      /\ \A i \in 1..Len(e.fifo_retr) :
           h + i \in 1..Len(s.fifo_retr) /\ e.fifo_retr[i] = s.fifo_retr[h + i]
  <2>1. s.fifo_retr \in Seq(Pdus)
    BY MessagesType
  <2>2. QED
    BY <2>1
<1>2. \A a : Sound(a, e, k) = Sound(a, s, k)
  BY DEF Sound
<1>3. ASSUME NEW number, NEW a, FollowersAbove(s, number, a)
      PROVE  FollowersAbove(e, number, a)
  <2>1. ASSUME NEW i \in 1..Len(e.fifo_retr), NEW j \in 1..Len(e.fifo_retr),
               i < j, e.fifo_retr[i].sn = number
        PROVE  Below(a, e.fifo_retr[j].msgs)
    <3>1. h + i < h + j
      BY <1>1, <2>1
    <3>2. QED
      BY <1>1, <1>3, <2>1, <3>1 DEF FollowersAbove
  <2>2. QED
    BY <2>1 DEF FollowersAbove
<1>4. \A i \in 1..Len(e.fifo_retr) : Sound(e.fifo_retr[i].msgs, e, k)
  BY <1>1, <1>2 DEF Sender
<1>5. ASSUME NEW i \in 1..Len(e.fifo_retr), NEW j \in 1..Len(e.fifo_retr), i < j
      PROVE  Below(e.fifo_retr[i].msgs, e.fifo_retr[j].msgs)
  <2>1. h + i < h + j
    BY <1>1, <1>5
  <2>2. QED
    BY <1>1, <2>1 DEF Sender
<1>6. Len(e.fifo_retr) <= RetrCapacity
  <2>1. Len(s.fifo_retr) <= RetrCapacity /\ h \in Nat /\ RetrCapacity \in Nat
    BY <1>1, RastaConnectionAssumption DEF Sender
  <2>2. QED
    BY <1>1, <2>1
<1>7. Sender(e, k)
  BY <1>2, <1>4, <1>5, <1>6 DEF Sender
<1>8. Upcoming(s, d) => Upcoming(e, d)
  BY <1>3 DEF Upcoming
<1>9. Live(e, c) = Live(s, c)
  BY DEF Live
<1>10. Requested(e, c) /\ Suspended(e, c)
  BY <1>3 DEF Link, Requested, Suspended
<1>11. QED
  BY <1>2, <1>3, <1>7, <1>8, <1>9, <1>10 DEF Link

\* A PDU without messages is sent; its number is not one that fifo_retr holds.
LEMMA Announce ==
  ASSUME NEW s \in Connections, NEW c \in Connections, NEW e \in Connections, NEW k \in Nat,
         NEW q \in Pdus,
         Sender(s, k), Link(s, c, k), q.msgs = <<>>, q.type # "RETRRESP",
         \/ q.type = "DISCREQ"
         \/ \A i \in 1..Len(s.fifo_retr) : s.fifo_retr[i].sn # q.sn,
         e.wire = Append(s.wire, q), e.fifo_send = s.fifo_send, e.fifo_retr = s.fifo_retr
  PROVE  Sender(e, k) /\ Link(e, c, k)
<1> DEFINE d == c.fifo_app_msg
           n == Len(s.wire) + 1
<1>1. /\ e.wire[n] = q /\ Len(s.wire) \in Nat /\ Len(e.wire) = n
      /\ \A i \in 1..Len(s.wire) : e.wire[i] = s.wire[i] /\ i # n
      /\ \A i \in 1..Len(e.wire) : i \in 1..Len(s.wire) \/ i = n
      /\ \A x \in Current(e.wire) : x \in Current(s.wire) \/ x = n
      /\ Has(e.wire, "RETRRESP") => Has(s.wire, "RETRRESP")
  BY MessagesType, AppendWire DEF PduTypes
<1>2. \A a : Sound(a, e, k) = Sound(a, s, k)
  BY DEF Sound
<1>3. \A number, a : FollowersAbove(e, number, a) = FollowersAbove(s, number, a)
  BY DEF FollowersAbove
<1>4. /\ \A a : Below(a, e.wire[n].msgs) /\ Below(e.wire[n].msgs, a)
      /\ Sound(e.wire[n].msgs, e, k)
  BY <1>1, NoMessages DEF Sound
<1>5. \A i \in 1..Len(e.wire) : Sound(e.wire[i].msgs, e, k)
  BY <1>1, <1>2, <1>4 DEF Sender
<1>6. ASSUME NEW x \in Current(e.wire), NEW y \in Current(e.wire), x < y
      PROVE  Below(e.wire[x].msgs, e.wire[y].msgs)
  <2>1. CASE x = n \/ y = n
    BY <1>4, <2>1
  <2>2. CASE x \in Current(s.wire) /\ y \in Current(s.wire)
    BY <1>1, <1>6, <2>2, CurrentIsPlace DEF Sender
  <2>3. QED
    BY <1>1, <2>1, <2>2
<1>7. Sender(e, k)
  BY <1>2, <1>5, <1>6 DEF Sender
<1>8. ASSUME Upcoming(s, d)
      PROVE  Upcoming(e, d)
  <2>1. ASSUME NEW x \in Current(e.wire), x = n
        PROVE  /\ Below(d, e.wire[x].msgs)
               /\ e.wire[x].type # "DISCREQ" =>
                    \A a : FollowersAbove(e, e.wire[x].sn, a)
    <3>1. e.wire[x] = q
      BY <1>1, <2>1
    <3>2. QED
      BY <1>4, <2>1, <3>1 DEF FollowersAbove
  <2>2. ASSUME NEW x \in Current(e.wire), x \in Current(s.wire)
        PROVE  /\ Below(d, e.wire[x].msgs)
               /\ e.wire[x].type # "DISCREQ" =>
                    /\ FollowersAbove(e, e.wire[x].sn, d)
                    /\ \A y \in Current(e.wire) :
                         y <= x => FollowersAbove(e, e.wire[x].sn, e.wire[y].msgs)
    <3>1. e.wire[x] = s.wire[x] /\ x <= Len(s.wire) /\ x \in Nat
      BY <1>1, <2>2, CurrentIsPlace
    <3>2. ASSUME NEW y \in Current(e.wire), y <= x
          PROVE  y \in Current(s.wire) /\ e.wire[y] = s.wire[y]
      BY <1>1, <3>1, <3>2, CurrentIsPlace
    <3>3. /\ Below(d, s.wire[x].msgs)
          /\ s.wire[x].type # "DISCREQ" =>
               /\ FollowersAbove(s, s.wire[x].sn, d)
               /\ \A y \in Current(s.wire) :
                    y <= x => FollowersAbove(s, s.wire[x].sn, s.wire[y].msgs)
      BY <1>8, <2>2 DEF Upcoming
    <3>4. QED
      BY <1>3, <3>1, <3>2, <3>3
  <2>3. QED
    BY <1>1, <2>1, <2>2 DEF Upcoming
<1>9. Live(e, c) => Live(s, c)
  BY <1>1 DEF Live
<1>10. Requested(e, c) /\ Suspended(e, c)
  BY <1>1, <1>3 DEF Link, Requested, Suspended
<1>11. QED
  BY <1>2, <1>3, <1>7, <1>8, <1>9, <1>10 DEF Link

\* sr_send: one more message waits.
LEMMA Enqueue ==
  ASSUME NEW s \in Connections, NEW c \in Connections, NEW e \in Connections, NEW k \in Nat,
         Sender(s, k), Link(s, c, k),
         e.wire = s.wire, e.fifo_retr = s.fifo_retr, e.fifo_send = Append(s.fifo_send, k + 1)
  PROVE  Sender(e, k + 1) /\ Link(e, c, k + 1)
<1> DEFINE d == c.fifo_app_msg
<1>1. ASSUME NEW a \in Seq(Nat), Sound(a, s, k)
      PROVE  Sound(a, e, k + 1)
  BY <1>1, MessagesType, BelowAppend DEF Sound
<1>2. Within(e.fifo_send, k + 1) /\ Rising(e.fifo_send)
  BY MessagesType, AppendInOrder DEF Sender
<1>3. \A i \in 1..Len(e.wire) : Sound(e.wire[i].msgs, e, k + 1)
  BY <1>1, MessagesType DEF Sender
<1>4. \A i \in 1..Len(e.fifo_retr) : Sound(e.fifo_retr[i].msgs, e, k + 1)
  BY <1>1, MessagesType DEF Sender
<1>5. Sender(e, k + 1)
  BY <1>2, <1>3, <1>4 DEF Sender
<1>6. \A number, a : FollowersAbove(e, number, a) = FollowersAbove(s, number, a)
  BY DEF FollowersAbove
<1>7. Upcoming(s, d) => Upcoming(e, d)
  BY <1>6 DEF Upcoming
<1>8. Live(e, c) = Live(s, c)
  BY DEF Live
<1>9. Requested(e, c) /\ Suspended(e, c)
  BY <1>6 DEF Link, Requested, Suspended
<1>10. Sound(d, e, k + 1)
  BY <1>1, MessagesType DEF Link
<1>11. QED
  BY <1>5, <1>6, <1>7, <1>8, <1>9, <1>10 DEF Link

\* send_thread: the first messages of fifo_send are sent, and kept if there is
\* room in fifo_retr.
LEMMA Dispatch ==
  ASSUME NEW s \in Connections, NEW c \in Connections, NEW e \in Connections, NEW k \in Nat,
         NEW h \in 0..Len(s.fifo_send), NEW q \in Pdus,
         Sender(s, k), Link(s, c, k),
         q.type = "DATA", q.msgs = SubSeq(s.fifo_send, 1, h),
         \A i \in 1..Len(s.fifo_retr) : s.fifo_retr[i].sn # q.sn,
         e.fifo_send = SubSeq(s.fifo_send, h + 1, Len(s.fifo_send)),
         e.wire = s.wire \/ e.wire = Append(s.wire, q),
         \/ e.fifo_retr = s.fifo_retr
         \/ Len(s.fifo_retr) < RetrCapacity /\ e.fifo_retr = Append(s.fifo_retr, q)
  PROVE  Sender(e, k) /\ Link(e, c, k)
<1> DEFINE d == c.fifo_app_msg
           b == q.msgs
<1>1. /\ b \in Seq(Nat) /\ e.fifo_send \in Seq(Nat)
      /\ Rising(b) /\ Within(b, k) /\ Rising(e.fifo_send) /\ Within(e.fifo_send, k)
      /\ Below(b, e.fifo_send)
      /\ \A a \in Seq(Nat) : Below(a, s.fifo_send) => Below(a, b) /\ Below(a, e.fifo_send)
  BY MessagesType, SplitInOrder DEF Sender
<1>2. ASSUME NEW a \in Seq(Nat), Sound(a, s, k)
      PROVE  Sound(a, e, k) /\ Below(a, b)
  BY <1>1, <1>2 DEF Sound
<1>3. Sound(b, e, k)
  BY <1>1 DEF Sound
<1>4. /\ \A i \in 1..Len(e.wire) :
           \/ i \in 1..Len(s.wire) /\ e.wire[i] = s.wire[i]
           \/ i > Len(s.wire) /\ e.wire[i] = q
      /\ \A x \in Current(e.wire) :
           \/ x \in Current(s.wire) /\ x \in 1..Len(s.wire) /\ e.wire[x] = s.wire[x]
           \/ x = Len(s.wire) + 1 /\ e.wire[x] = q
      /\ \A type \in {"RETRRESP", "RETRREQ"} : Has(e.wire, type) => Has(s.wire, type)
      /\ \A i \in 1..Len(e.wire) : e.wire[i].type = "RETRRESP" =>
           i \in 1..Len(s.wire) /\ e.wire[i] = s.wire[i]
  <2>1. s.wire \in Seq(Pdus) /\ Len(s.wire) \in Nat
    BY MessagesType
  <2>2. CASE e.wire = s.wire
    BY <2>2, CurrentIsPlace
  <2>3. CASE e.wire = Append(s.wire, q)
    <3> DEFINE v == Append(s.wire, q)
    <3>1. /\ v \in Seq(Pdus) /\ Len(v) = Len(s.wire) + 1 /\ v[Len(s.wire) + 1] = q
          /\ \A i \in 1..Len(s.wire) : v[i] = s.wire[i] /\ i # Len(s.wire) + 1
          /\ \A i \in 1..Len(v) : i \in 1..Len(s.wire) \/ i = Len(s.wire) + 1
          /\ \A x \in Current(v) : x \in Current(s.wire) \/ x = Len(s.wire) + 1
          /\ \A type \in PduTypes : Has(v, type) => Has(s.wire, type) \/ q.type = type
      BY <2>1, AppendWire
    <3> HIDE DEF v
    <3>2. e.wire = v
      BY <2>3 DEF v
    <3>3. QED
      BY <2>1, <3>1, <3>2, CurrentIsPlace DEF PduTypes
  <2>4. QED
    BY <2>2, <2>3
<1>5. /\ \A i \in 1..Len(e.fifo_retr) :
           \/ i \in 1..Len(s.fifo_retr) /\ e.fifo_retr[i] = s.fifo_retr[i]
           \/ i = Len(s.fifo_retr) + 1 /\ e.fifo_retr[i] = q
      /\ Len(e.fifo_retr) \in Nat /\ Len(e.fifo_retr) <= RetrCapacity
      /\ Len(e.fifo_retr) <= Len(s.fifo_retr) + 1 /\ Len(s.fifo_retr) \in Nat
  <2>1. s.fifo_retr \in Seq(Pdus) /\ Len(s.fifo_retr) \in Nat
    BY MessagesType
  <2>2. CASE e.fifo_retr = s.fifo_retr
    BY <2>1, <2>2 DEF Sender
  <2>3. CASE Len(s.fifo_retr) < RetrCapacity /\ e.fifo_retr = Append(s.fifo_retr, q)
    <3> DEFINE v == Append(s.fifo_retr, q)
    <3>1. /\ Len(v) = Len(s.fifo_retr) + 1 /\ v[Len(s.fifo_retr) + 1] = q
          /\ \A i \in 1..Len(s.fifo_retr) : v[i] = s.fifo_retr[i]
          /\ \A i \in 1..Len(v) : i \in 1..Len(s.fifo_retr) \/ i = Len(s.fifo_retr) + 1
      BY <2>1, AppendWire
    <3> HIDE DEF v
    <3>2. e.fifo_retr = v /\ Len(s.fifo_retr) < RetrCapacity /\ RetrCapacity \in Nat
      BY <2>3, RastaConnectionAssumption DEF v
    <3>3. QED
      BY <2>1, <3>1, <3>2
  <2>4. QED
    BY <2>2, <2>3
<1> HIDE DEF b, d
<1>6. /\ \A i \in 1..Len(s.wire) :
           s.wire[i].msgs \in Seq(Nat) /\ Sound(s.wire[i].msgs, e, k) /\ Below(s.wire[i].msgs, b)
      /\ \A i \in 1..Len(s.fifo_retr) :
           Sound(s.fifo_retr[i].msgs, e, k) /\ Below(s.fifo_retr[i].msgs, b)
      /\ d \in Seq(Nat) /\ Sound(d, e, k) /\ Below(d, b)
  BY <1>2, MessagesType DEF Sender, Link, d
<1>7. q.msgs = b
  BY DEF b
<1>8. \A i \in 1..Len(e.wire) : Sound(e.wire[i].msgs, e, k)
  BY <1>3, <1>4, <1>6, <1>7
<1>9. \A i \in 1..Len(e.fifo_retr) : Sound(e.fifo_retr[i].msgs, e, k)
  BY <1>3, <1>5, <1>6, <1>7
<1>10. ASSUME NEW i \in 1..Len(e.fifo_retr), NEW j \in 1..Len(e.fifo_retr), i < j
       PROVE  Below(e.fifo_retr[i].msgs, e.fifo_retr[j].msgs)
  <2>1. i \in 1..Len(s.fifo_retr) /\ e.fifo_retr[i] = s.fifo_retr[i]
    BY <1>5, <1>10
  <2>2. CASE j \in 1..Len(s.fifo_retr) /\ e.fifo_retr[j] = s.fifo_retr[j]
    BY <1>10, <2>1, <2>2 DEF Sender
  <2>3. CASE e.fifo_retr[j] = q
    BY <1>6, <1>7, <2>1, <2>3
  <2>4. QED
    BY <1>5, <2>2, <2>3
<1>11. ASSUME NEW x \in Current(e.wire), NEW y \in Current(e.wire), x < y
       PROVE  Below(e.wire[x].msgs, e.wire[y].msgs)
  <2>1. x \in Current(s.wire) /\ x \in 1..Len(s.wire) /\ e.wire[x] = s.wire[x]
    <3>1. y \in Int /\ y <= Len(s.wire) + 1 /\ Len(s.wire) \in Nat
      BY <1>4, MessagesType
    <3>2. QED
      BY <1>4, <1>11, <3>1
  <2>2. CASE y \in Current(s.wire) /\ y \in 1..Len(s.wire) /\ e.wire[y] = s.wire[y]
    BY <1>11, <2>1, <2>2 DEF Sender
  <2>3. CASE e.wire[y] = q
    BY <1>6, <1>7, <2>1, <2>3
  <2>4. QED
    BY <1>4, <2>2, <2>3
<1>12. Sender(e, k)
  BY <1>1, <1>5, <1>8, <1>9, <1>10, <1>11 DEF Sender
<1>13. ASSUME NEW number, NEW a, Below(a, b), FollowersAbove(s, number, a)
       PROVE  FollowersAbove(e, number, a)
  <2>1. ASSUME NEW i \in 1..Len(e.fifo_retr), NEW j \in 1..Len(e.fifo_retr),
               i < j, e.fifo_retr[i].sn = number
        PROVE  Below(a, e.fifo_retr[j].msgs)
    <3>1. i \in 1..Len(s.fifo_retr) /\ e.fifo_retr[i] = s.fifo_retr[i]
      BY <1>5, <2>1
    <3>2. CASE j \in 1..Len(s.fifo_retr) /\ e.fifo_retr[j] = s.fifo_retr[j]
      BY <1>13, <2>1, <3>1, <3>2 DEF FollowersAbove
    <3>3. CASE e.fifo_retr[j] = q
      BY <1>7, <1>13, <3>3
    <3>4. QED
      BY <1>5, <3>2, <3>3
  <2>2. QED
    BY <2>1 DEF FollowersAbove
<1>14. ASSUME NEW a
       PROVE  FollowersAbove(e, q.sn, a)
  <2>1. ASSUME NEW i \in 1..Len(e.fifo_retr), NEW j \in 1..Len(e.fifo_retr),
               i < j, e.fifo_retr[i].sn = q.sn
        PROVE  FALSE
    <3>1. i \in 1..Len(s.fifo_retr) /\ e.fifo_retr[i] = s.fifo_retr[i]
      BY <1>5, <2>1
    <3>2. QED
      BY <2>1, <3>1
  <2>2. QED
    BY <2>1 DEF FollowersAbove
<1>15. ASSUME Upcoming(s, d)
       PROVE  Upcoming(e, d)
  <2>1. ASSUME NEW x \in Current(e.wire), e.wire[x] = q
        PROVE  /\ Below(d, e.wire[x].msgs)
               /\ \A a : FollowersAbove(e, e.wire[x].sn, a)
    BY <1>6, <1>7, <1>14, <2>1
  <2>2. ASSUME NEW x \in Current(e.wire),
               x \in Current(s.wire), x \in 1..Len(s.wire), e.wire[x] = s.wire[x]
        PROVE  /\ Below(d, e.wire[x].msgs)
               /\ e.wire[x].type # "DISCREQ" =>
                    /\ FollowersAbove(e, e.wire[x].sn, d)
                    /\ \A y \in Current(e.wire) :
                         y <= x => FollowersAbove(e, e.wire[x].sn, e.wire[y].msgs)
    <3>1. ASSUME NEW y \in Current(e.wire), y <= x
          PROVE  y \in Current(s.wire) /\ y \in 1..Len(s.wire) /\ e.wire[y] = s.wire[y]
      BY <1>4, <2>2, <3>1, MessagesType
    <3>2. Below(d, s.wire[x].msgs)
      BY <1>15, <2>2 DEF Upcoming
    <3>3. ASSUME s.wire[x].type # "DISCREQ"
          PROVE  FollowersAbove(e, s.wire[x].sn, d)
      BY <1>6, <1>13, <1>15, <2>2, <3>3 DEF Upcoming
    <3>4. ASSUME s.wire[x].type # "DISCREQ", NEW y \in Current(e.wire), y <= x
          PROVE  FollowersAbove(e, s.wire[x].sn, e.wire[y].msgs)
      BY <1>6, <1>13, <1>15, <2>2, <3>1, <3>4 DEF Upcoming
    <3>5. QED
      BY <2>2, <3>2, <3>3, <3>4
  <2>3. QED
    BY <1>4, <2>1, <2>2 DEF Upcoming
<1>16. Live(e, c) => Live(s, c)
  BY <1>4 DEF Live
<1>17. Suspended(e, c)
  BY <1>4 DEF Link, Suspended
<1>18. Requested(e, c)
  BY <1>4, <1>6, <1>13 DEF Link, Requested, d
<1>19. c.state \in {"UP", "RETRRUN"} => FollowersAbove(e, c.cs_t, d)
  BY <1>6, <1>13 DEF Link, d
<1>20. QED
  BY <1>6, <1>12, <1>15, <1>16, <1>17, <1>18, <1>19 DEF Link, d

\* Fewer than Modulus numbers in a row are different.
LEMMA NumbersDiffer ==
  ASSUME NEW a \in Nat, NEW x \in Nat, NEW y \in Nat, Modulus \in Nat,
         a < Modulus, x < Modulus, y < Modulus, Plus(a, x) = Plus(a, y)
  PROVE  x = y
<1>1. ASSUME NEW z \in Nat, z < Modulus
      PROVE  Plus(a, z) = IF a + z < Modulus THEN a + z ELSE a + z - Modulus
  BY <1>1 DEF Plus
<1>2. QED
  BY <1>1

\* v is an answer to a RetrReq of a side that has been given d: a RetrResp, and
\* then messages after d, in order and under consecutive numbers. retr holds the
\* first of the packets with these messages.
Resends(v, retr, first, s, d, k) ==
    /\ Len(v) \in 1..(RetrCapacity + 3)
    /\ \A t \in 1..Len(v) :
         /\ v[t].sn = Plus(first, t - 1)
         /\ (v[t].type = "RETRRESP") <=> (t = 1)
         /\ Sound(v[t].msgs, s, k) /\ Below(d, v[t].msgs)
         /\ \A u \in 1..Len(v) : t < u => Below(v[t].msgs, v[u].msgs)
    /\ Len(retr) < Len(v) /\ Len(retr) <= RetrCapacity
    /\ \A i \in 1..Len(retr) : retr[i].sn = v[i + 1].sn /\ retr[i].msgs = v[i + 1].msgs

\* handle_retrreq on an open channel: the RetrResp, the packets of fifo_retr
\* under new numbers, and a heartbeat.
LEMMA Resend ==
  ASSUME NEW s \in Connections, NEW c \in Connections, NEW e \in Connections, NEW k \in Nat,
         NEW v \in Seq(Pdus), NEW first \in SequenceNumbers,
         Sender(s, k), Link(s, c, k), e.fifo_send = s.fifo_send, e.wire = s.wire \o v,
         Resends(v, e.fifo_retr, first, s, c.fifo_app_msg, k),
         c.listed, c.state \in {"RETRREQ", "CLOSED", "CRASHED"},
         ~Has(s.wire, "RETRRESP"), ~Has(c.wire, "RETRREQ")
  PROVE  Sender(e, k) /\ Link(e, c, k)
<1> DEFINE d == c.fifo_app_msg
           l == Len(s.wire)
           m == Len(v)
           retr == e.fifo_retr
<1>1. /\ l \in Nat /\ m \in Nat /\ m > 0 /\ Len(e.wire) = l + m /\ Len(retr) \in Nat
      /\ Len(retr) < m /\ Len(retr) <= RetrCapacity /\ m <= RetrCapacity + 3
  <2>1. s.wire \in Seq(Pdus) /\ retr \in Seq(Pdus)
    BY MessagesType
  <2>2. QED
    BY <2>1 DEF Resends
<1>2. \A a : Sound(a, e, k) = Sound(a, s, k)
  BY DEF Sound
<1>3. /\ \A i \in 1..l : e.wire[i] = s.wire[i]
      /\ \A i \in 1..Len(e.wire) : i \notin 1..l => i - l \in 1..m /\ v[i - l] = e.wire[i]
      /\ l + 1 \in 1..Len(e.wire) /\ e.wire[l + 1] = v[1]
  <2>1. s.wire \in Seq(Pdus)
    BY MessagesType
  <2> HIDE DEF retr
  <2>2. QED
    BY <1>1, <2>1
<1> HIDE DEF l, m, d, retr
<1>4. \A i \in 1..Len(retr) : /\ i + 1 \in 1..m /\ retr[i].sn = v[i + 1].sn
                              /\ retr[i].msgs = v[i + 1].msgs
  BY <1>1 DEF Resends, m, retr
<1>5. \A t \in 1..m : /\ v[t].sn = Plus(first, t - 1)
                      /\ (v[t].type = "RETRRESP") <=> (t = 1)
                      /\ Sound(v[t].msgs, s, k) /\ Below(d, v[t].msgs)
                      /\ \A u \in 1..m : t < u => Below(v[t].msgs, v[u].msgs)
  BY DEF Resends, m, d
<1>6. \A i \in 1..Len(e.wire) : Sound(e.wire[i].msgs, e, k)
  <2>1. ASSUME NEW i \in 1..Len(e.wire)
        PROVE  Sound(e.wire[i].msgs, e, k)
    <3>1. CASE i \in 1..l
      BY <1>2, <3>1 DEF Sender, l
    <3>2. CASE i \notin 1..l
      <4>1. i - l \in 1..m /\ v[i - l] = e.wire[i]
        BY <1>3, <3>2
      <4>2. Sound(v[i - l].msgs, s, k)
        BY <1>5, <4>1
      <4>3. QED
        BY <1>2, <4>1, <4>2
    <3>3. QED
      BY <3>1, <3>2
  <2>2. QED
    BY <2>1
<1>7. ASSUME NEW x \in Current(e.wire)
      PROVE  x - l \in 1..m /\ v[x - l] = e.wire[x] /\ x \in Int
  <2>1. x \in 1..Len(e.wire)
    BY CurrentIsPlace
  <2>2. x \notin 1..l
    <3>1. 1 \in 1..m /\ l + 1 \in 1..Len(e.wire) /\ e.wire[l + 1].type = "RETRRESP"
      BY <1>1, <1>3, <1>5
    <3>2. ~(x < l + 1)
      BY <3>1 DEF Current
    <3>3. QED
      BY <1>1, <3>2
  <2>3. QED
    BY <1>3, <2>1, <2>2
<1>8. ASSUME NEW x \in Current(e.wire), NEW y \in Current(e.wire), x < y
      PROVE  Below(e.wire[x].msgs, e.wire[y].msgs)
  <2>1. x - l < y - l
    BY <1>1, <1>7, <1>8
  <2>2. QED
    BY <1>5, <1>7, <2>1
<1>9. /\ \A i \in 1..Len(retr) : Sound(retr[i].msgs, e, k)
      /\ \A i \in 1..Len(retr), j \in 1..Len(retr) :
           i < j => Below(retr[i].msgs, retr[j].msgs)
  <2>1. \A i \in 1..Len(retr), j \in 1..Len(retr) : i < j => i + 1 < j + 1
    BY <1>1
  <2>2. QED
    BY <1>2, <1>4, <1>5, <2>1
<1>10. Sender(e, k)
  BY <1>1, <1>6, <1>8, <1>9 DEF Sender, retr
<1>11. ASSUME NEW t \in 1..m, NEW a, \A u \in 1..m : t < u => Below(a, v[u].msgs)
       PROVE  FollowersAbove(e, v[t].sn, a)
  <2>1. ASSUME NEW i \in 1..Len(retr), NEW j \in 1..Len(retr),
               i < j, retr[i].sn = v[t].sn
        PROVE  Below(a, retr[j].msgs)
    <3>1. Plus(first, i) = Plus(first, t - 1)
      <4>1. v[i + 1].sn = Plus(first, (i + 1) - 1) /\ (i + 1) - 1 = i
        <5>1. i + 1 \in 1..m /\ (i + 1) - 1 = i
          BY <1>1, <1>4
        <5>2. QED
          BY <1>5, <5>1
      <4>2. retr[i].sn = v[i + 1].sn /\ v[t].sn = Plus(first, t - 1)
        BY <1>4, <1>5
      <4>3. QED
        BY <2>1, <4>1, <4>2
    <3>2. i = t - 1
      <4>1. /\ i \in Nat /\ t - 1 \in Nat /\ Modulus \in Nat /\ first \in Nat
            /\ i < Modulus /\ t - 1 < Modulus /\ first < Modulus
        BY <1>1, RastaConnectionAssumption DEF SequenceNumbers
      <4>2. QED
        BY <3>1, <4>1, NumbersDiffer
    <3>3. t < j + 1
      BY <1>1, <2>1, <3>2
    <3>4. QED
      BY <1>4, <1>11, <3>3
  <2>2. QED
    BY <2>1 DEF FollowersAbove, retr
<1>12. Upcoming(e, d)
  <2>1. ASSUME NEW x \in Current(e.wire)
        PROVE  /\ Below(d, e.wire[x].msgs)
               /\ FollowersAbove(e, e.wire[x].sn, d)
               /\ \A y \in Current(e.wire) :
                    y <= x => FollowersAbove(e, e.wire[x].sn, e.wire[y].msgs)
    <3>1. x - l \in 1..m /\ v[x - l] = e.wire[x]
      BY <1>7
    <3>2. Below(d, e.wire[x].msgs) /\ FollowersAbove(e, e.wire[x].sn, d)
      BY <1>5, <1>11, <3>1
    <3>3. ASSUME NEW y \in Current(e.wire), y <= x
          PROVE  FollowersAbove(e, e.wire[x].sn, e.wire[y].msgs)
      <4>1. y - l \in 1..m /\ v[y - l] = e.wire[y]
        BY <1>7
      <4>2. ASSUME NEW u \in 1..m, x - l < u
            PROVE  y - l < u
        BY <1>1, <1>7, <3>3, <4>2
      <4>3. \A u \in 1..m : x - l < u => Below(e.wire[y].msgs, v[u].msgs)
        BY <1>5, <4>1, <4>2
      <4>4. QED
        BY <1>11, <3>1, <4>3
    <3>4. QED
      BY <3>2, <3>3
  <2>2. QED
    BY <2>1 DEF Upcoming
<1>13. Requested(e, c)
  BY DEF Requested, Has
<1>14. Suspended(e, c)
  <2>1. ASSUME NEW i \in 1..Len(e.wire), e.wire[i].type = "RETRRESP"
        PROVE  i = l + 1
    <3>1. CASE i \in 1..l
      BY <2>1, <3>1 DEF Has, l
    <3>2. CASE i \notin 1..l
      <4>1. i - l \in 1..m /\ v[i - l] = e.wire[i] /\ i \in Int
        BY <1>1, <1>3, <3>2
      <4>2. i - l = 1
        BY <1>5, <2>1, <4>1
      <4>3. QED
        BY <1>1, <4>1, <4>2
    <3>3. QED
      BY <3>1, <3>2
  <2>2. QED
    BY <2>1 DEF Suspended
<1>15. Sound(d, e, k) /\ ~(c.state \in {"UP", "RETRRUN"}) /\ c.state # "START"
  BY <1>2 DEF Link, d
<1>16. QED
  BY <1>10, <1>12, <1>13, <1>14, <1>15 DEF Link, d

\* The same when the channel has just been closed: the packets of fifo_retr are
\* numbered anew, and nothing is sent.
LEMMA Rearrange ==
  ASSUME NEW s \in Connections, NEW c \in Connections, NEW e \in Connections, NEW k \in Nat,
         Sender(s, k), Link(s, c, k), e.fifo_send = s.fifo_send, e.wire = s.wire,
         c.listed, c.state \in {"RETRREQ", "CLOSED", "CRASHED"},
         ~Has(s.wire, "RETRRESP"), ~Has(c.wire, "RETRREQ"),
         Len(e.fifo_retr) <= RetrCapacity,
         \A i \in 1..Len(e.fifo_retr) : Sound(e.fifo_retr[i].msgs, s, k),
         \A i \in 1..Len(e.fifo_retr), j \in 1..Len(e.fifo_retr) :
           i < j => Below(e.fifo_retr[i].msgs, e.fifo_retr[j].msgs)
  PROVE  Sender(e, k) /\ Link(e, c, k)
<1>1. \A a : Sound(a, e, k) = Sound(a, s, k)
  BY DEF Sound
<1>2. Sender(e, k)
  BY <1>1 DEF Sender
<1>3. ~Live(e, c) /\ Requested(e, c) /\ Suspended(e, c)
  BY DEF Live, Requested, Suspended, Has
<1>4. QED
  BY <1>1, <1>2, <1>3 DEF Link

-------------------------------------------------------------------------------
(* What the steps of the receiving side do. p is the PDU it takes, if any.  *)

AddsNoRequest(c, e) == Adds(c.wire, e.wire, PduTypes \ {"RETRREQ"})

\* Nothing is taken: the state is as it was, or one that takes no messages.
Falls(c, e) ==
    /\ e.fifo_app_msg = c.fifo_app_msg /\ e.listed = c.listed /\ AddsNoRequest(c, e)
    /\ \/ e.state \in {"RETRREQ", "CLOSED", "CRASHED"}
       \/ /\ e.state = c.state
          /\ e.cs_t = c.cs_t \/ e.state = "START"

\* The number is taken, with or without the messages.
Accepts(c, p, e) ==
    /\ c.state \in {"UP", "RETRRUN"} /\ e.state \in {"UP", "RETRRUN"}
    /\ p.type # "DISCREQ" /\ e.cs_t = p.sn
    /\ c.listed /\ e.listed = c.listed /\ AddsNoRequest(c, e)
    /\ \/ e.fifo_app_msg = c.fifo_app_msg
       \/ e.fifo_app_msg = c.fifo_app_msg \o p.msgs

\* The handshake ends.
Establishes(c, e) ==
    /\ c.state = "START" /\ e.state = "UP"
    /\ e.fifo_app_msg = c.fifo_app_msg /\ e.listed = c.listed /\ AddsNoRequest(c, e)

\* The answer to a RetrReq.
Resumes(c, p, e) ==
    /\ c.state = "RETRREQ" /\ e.state = "RETRRUN"
    /\ p.type = "RETRRESP" /\ e.cs_t = p.sn
    /\ e.fifo_app_msg = c.fifo_app_msg /\ e.listed = c.listed /\ AddsNoRequest(c, e)

\* A RetrReq from the last number taken on.
Asks(c, e) ==
    /\ c.state \in {"UP", "RETRRUN"} /\ e.state = "RETRREQ" /\ c.listed
    /\ e.fifo_app_msg = c.fifo_app_msg /\ e.listed = c.listed
    /\ \E q \in Pdus : q.cs = c.cs_t /\ e.wire \in {c.wire, Append(c.wire, q)}

\* A connection begins.
Joins(c, e) ==
    /\ ~c.listed /\ e.state = "START" /\ e.fifo_app_msg = <<>> /\ AddsNoRequest(c, e)

LEMMA NoNewRequest ==
  ASSUME NEW c \in Connections, NEW e \in Connections, AddsNoRequest(c, e)
  PROVE  /\ \A i \in 1..Len(e.wire) : e.wire[i].type = "RETRREQ" =>
              i \in 1..Len(c.wire) /\ e.wire[i] = c.wire[i]
         /\ Has(e.wire, "RETRREQ") => Has(c.wire, "RETRREQ")
<1>1. ASSUME NEW i \in 1..Len(e.wire), e.wire[i].type = "RETRREQ"
      PROVE  i \in 1..Len(c.wire) /\ e.wire[i] = c.wire[i]
  <2>1. Len(c.wire) \in Nat /\ Len(e.wire) \in Nat
    BY MessagesType
  <2>2. i <= Len(c.wire) /\ e.wire[i] = c.wire[i]
    BY <1>1, <2>1 DEF AddsNoRequest, Adds
  <2>3. QED
    BY <2>1, <2>2
<1>2. QED
  BY <1>1 DEF Has

LEMMA RequestsRemain ==
  ASSUME NEW s, NEW c \in Connections, NEW e \in Connections,
         AddsNoRequest(c, e), Requested(s, c), e.fifo_app_msg = c.fifo_app_msg
  PROVE  Requested(s, e)
BY NoNewRequest DEF Requested

LEMMA FallsKeepsLink ==
  ASSUME NEW s \in Connections, NEW c \in Connections, NEW e \in Connections, NEW k \in Nat,
         Link(s, c, k), Falls(c, e)
  PROVE  Link(s, e, k)
<1>1. Requested(s, e)
  BY RequestsRemain DEF Link, Falls
<1>2. Suspended(s, e)
  BY NoNewRequest DEF Link, Suspended, Falls
<1>3. Live(s, e) => Live(s, c)
  BY DEF Live, Falls
<1>4. QED
  BY <1>1, <1>2, <1>3 DEF Link, Falls

LEMMA EstablishesKeepsLink ==
  ASSUME NEW s \in Connections, NEW c \in Connections, NEW e \in Connections, NEW k \in Nat,
         Link(s, c, k), Establishes(c, e)
  PROVE  Link(s, e, k)
<1>1. Requested(s, e)
  BY RequestsRemain DEF Link, Establishes
<1>2. Suspended(s, e)
  BY NoNewRequest DEF Link, Suspended, Establishes
<1>3. Live(s, c)
  BY DEF Live, Establishes
<1>4. e.fifo_app_msg = <<>> /\ \A number : FollowersAbove(s, number, <<>>)
  BY NoMessages DEF Link, Establishes, FollowersAbove
<1>5. QED
  BY <1>1, <1>2, <1>3, <1>4 DEF Link, Establishes

LEMMA JoinsKeepsLink ==
  ASSUME NEW s \in Connections, NEW c \in Connections, NEW e \in Connections, NEW k \in Nat,
         Link(s, c, k), Joins(c, e)
  PROVE  Link(s, e, k)
<1>1. /\ ~Has(s.wire, "RETRRESP") /\ ~Has(c.wire, "RETRREQ")
      /\ c.fifo_app_msg = <<>> /\ Live(s, c)
  BY DEF Link, Joins, Suspended, Live
<1>2. Requested(s, e)
  BY <1>1, RequestsRemain DEF Link, Joins
<1>3. Suspended(s, e)
  BY <1>1, NoNewRequest DEF Link, Suspended, Joins
<1>4. QED
  BY <1>1, <1>2, <1>3 DEF Link, Joins

LEMMA AsksKeepsLink ==
  ASSUME NEW s \in Connections, NEW c \in Connections, NEW e \in Connections, NEW k \in Nat,
         Link(s, c, k), Asks(c, e)
  PROVE  Link(s, e, k)
<1>1. ~Has(s.wire, "RETRRESP") /\ ~Has(c.wire, "RETRREQ")
  BY DEF Link, Suspended, Asks
<1>2. PICK q \in Pdus : q.cs = c.cs_t /\ e.wire \in {c.wire, Append(c.wire, q)}
  BY DEF Asks
<1>3. \A i \in 1..Len(e.wire) : e.wire[i].type = "RETRREQ" =>
        i = Len(c.wire) + 1 /\ e.wire[i] = q
  <2>1. CASE e.wire = c.wire
    BY <1>1, <2>1 DEF Has
  <2>2. CASE e.wire = Append(c.wire, q)
    <3> DEFINE v == Append(c.wire, q)
    <3>1. /\ v[Len(c.wire) + 1] = q
          /\ \A i \in 1..Len(c.wire) : v[i] = c.wire[i]
          /\ \A i \in 1..Len(v) : i \in 1..Len(c.wire) \/ i = Len(c.wire) + 1
      BY MessagesType, AppendWire
    <3> HIDE DEF v
    <3>2. QED
      BY <1>1, <2>2, <3>1 DEF v, Has
  <2>3. QED
    BY <1>2, <2>1, <2>2
<1>4. FollowersAbove(s, q.cs, e.fifo_app_msg)
  BY <1>2 DEF Link, Asks
<1>5. Requested(s, e)
  BY <1>1, <1>3, <1>4 DEF Requested
<1>6. Suspended(s, e)
  BY <1>1 DEF Link, Suspended, Asks
<1>7. Live(s, c)
  BY DEF Live, Asks
<1>8. QED
  BY <1>5, <1>6, <1>7 DEF Link, Asks

LEMMA FollowersConcat ==
  ASSUME NEW s \in Connections, NEW number, NEW a \in Seq(Nat), NEW b \in Seq(Nat),
         FollowersAbove(s, number, a), FollowersAbove(s, number, b)
  PROVE  FollowersAbove(s, number, a \o b)
BY MessagesType, BelowConcat DEF FollowersAbove

LEMMA ResumesKeepsLink ==
  ASSUME NEW s \in Connections, NEW t \in Connections, NEW c \in Connections,
         NEW e \in Connections, NEW k \in Nat,
         s.wire # <<>>, t.wire = Tail(s.wire),
         t.fifo_send = s.fifo_send, t.fifo_retr = s.fifo_retr,
         Link(s, c, k), Resumes(c, Head(s.wire), e)
  PROVE  Link(t, e, k)
<1> DEFINE d == c.fifo_app_msg
           p == Head(s.wire)
<1>1. /\ s.wire \in Seq(Pdus) /\ Len(s.wire) \in Nat /\ 1 \in 1..Len(s.wire) /\ p = s.wire[1]
      /\ \A i \in 1..Len(t.wire) : i + 1 \in 1..Len(s.wire) /\ t.wire[i] = s.wire[i + 1]
      /\ Has(t.wire, "RETRRESP") => Has(s.wire, "RETRRESP")
  <2>1. s.wire \in Seq(Pdus)
    BY MessagesType
  <2>2. Len(s.wire) \in Nat /\ 1 \in 1..Len(s.wire) /\ p = s.wire[1]
    BY <2>1
  <2>3. QED
    BY <2>1, <2>2, PopWire DEF PduTypes
<1> HIDE DEF p
<1>2. p.type = "RETRRESP" /\ Has(s.wire, "RETRRESP")
  BY <1>1 DEF Resumes, Has, p
<1>3. \A j \in 1..Len(s.wire) : s.wire[j].type = "RETRRESP" => j = 1
  BY <1>1, <1>2 DEF Link, Suspended
<1>4. 1 \in Current(s.wire)
  BY <1>1, <1>3 DEF Current
<1>5. ~Has(t.wire, "RETRRESP")
  <2>1. ASSUME NEW i \in 1..Len(t.wire), t.wire[i].type = "RETRRESP"
        PROVE  FALSE
    <3>1. i + 1 = 1 /\ i \in 1..Len(t.wire)
      BY <1>1, <1>3, <2>1
    <3>2. QED
      BY <3>1
  <2>2. QED
    BY <2>1 DEF Has
<1>6. Upcoming(s, d) /\ FollowersAbove(s, p.sn, d)
  <2>1. Upcoming(s, d)
    BY <1>2 DEF Link, Live
  <2>2. QED
    BY <1>1, <1>2, <1>4, <2>1 DEF Upcoming
<1>7. Upcoming(t, d)
  BY <1>6, PopUpcoming
<1>8. FollowersAbove(t, p.sn, d)
  BY <1>6 DEF FollowersAbove
<1>9. ~Has(c.wire, "RETRREQ") /\ ~Has(e.wire, "RETRREQ")
  BY <1>2, NoNewRequest DEF Link, Requested, Has, Resumes
<1>10. Requested(t, e) /\ Suspended(t, e)
  BY <1>5, <1>9 DEF Requested, Suspended, Has
<1>11. Sound(d, t, k) /\ c.listed
  BY <1>2 DEF Link, Sound, Suspended
<1>12. QED
  BY <1>7, <1>8, <1>10, <1>11 DEF Link, Resumes, p

LEMMA AcceptsKeepsLink ==
  ASSUME NEW s \in Connections, NEW t \in Connections, NEW c \in Connections,
         NEW e \in Connections, NEW k \in Nat,
         s.wire # <<>>, t.wire = Tail(s.wire),
         t.fifo_send = s.fifo_send, t.fifo_retr = s.fifo_retr,
         Sender(s, k), Link(s, c, k), Accepts(c, Head(s.wire), e)
  PROVE  Link(t, e, k)
<1> DEFINE d == c.fifo_app_msg
           f == e.fifo_app_msg
           p == Head(s.wire)
<1>1. /\ s.wire \in Seq(Pdus) /\ Len(s.wire) \in Nat /\ 1 \in 1..Len(s.wire) /\ p = s.wire[1]
      /\ \A i \in 1..Len(t.wire) : i + 1 \in 1..Len(s.wire) /\ t.wire[i] = s.wire[i + 1]
      /\ \A x \in Current(t.wire) : x \in 1..Len(t.wire) /\ x + 1 \in Current(s.wire)
      /\ Has(t.wire, "RETRRESP") => Has(s.wire, "RETRRESP")
  <2>1. s.wire \in Seq(Pdus)
    BY MessagesType
  <2>2. Len(s.wire) \in Nat /\ 1 \in 1..Len(s.wire) /\ p = s.wire[1]
    BY <2>1
  <2>3. QED
    BY <2>1, <2>2, PopWire DEF PduTypes
<1>2. p \in Pdus /\ p.msgs \in Seq(Nat) /\ d \in Seq(Nat) /\ t.fifo_send \in Seq(Nat)
  BY <1>1, MessagesType
<1>3. \A i \in 1..Len(t.wire) : t.wire[i].msgs \in Seq(Nat)
  BY MessagesType
<1> HIDE DEF p, d, f
<1>4. f = d \/ f = d \o p.msgs
  BY DEF Accepts, f, d, p
<1>5. ~Has(s.wire, "RETRRESP") /\ ~Has(c.wire, "RETRREQ")
  BY DEF Link, Suspended, Accepts
<1>6. Current(s.wire) = 1..Len(s.wire)
  BY <1>5, AllCurrent
<1>7. Upcoming(s, d) /\ p.type # "DISCREQ"
  BY DEF Link, Live, Accepts, d, p
<1>8. /\ Sound(d, t, k) /\ Sound(p.msgs, t, k) /\ Below(d, p.msgs)
      /\ FollowersAbove(s, p.sn, d) /\ FollowersAbove(s, p.sn, p.msgs)
  <2>1. Sound(d, t, k) /\ Sound(p.msgs, t, k)
    BY <1>1 DEF Link, Sender, Sound, d
  <2>2. QED
    BY <1>1, <1>6, <1>7, <2>1 DEF Upcoming
<1>9. \A number : FollowersAbove(s, number, d) /\ FollowersAbove(s, number, p.msgs) =>
                  FollowersAbove(t, number, f)
  <2>1. ASSUME NEW number, FollowersAbove(s, number, d), FollowersAbove(s, number, p.msgs)
        PROVE  FollowersAbove(s, number, f)
    BY <1>2, <1>4, <2>1, FollowersConcat
  <2>2. QED
    BY <2>1 DEF FollowersAbove
<1>10. Sound(f, t, k)
  <2>1. CASE f = d
    BY <1>8, <2>1
  <2>2. CASE f = d \o p.msgs
    BY <1>2, <1>8, <2>2, ConcatInOrder, BelowConcat DEF Sound
  <2>3. QED
    BY <1>4, <2>1, <2>2
<1>11. Upcoming(t, f)
  <2>1. ASSUME NEW x \in Current(t.wire)
        PROVE  /\ Below(f, t.wire[x].msgs)
               /\ t.wire[x].type # "DISCREQ" => FollowersAbove(t, t.wire[x].sn, f)
    <3>1. /\ x \in 1..Len(t.wire) /\ x + 1 \in Current(s.wire) /\ t.wire[x] = s.wire[x + 1]
          /\ 1 < x + 1 /\ 1 <= x + 1 /\ 1 \in Current(s.wire)
      BY <1>1, <1>6
    <3>2. Below(d, t.wire[x].msgs) /\ Below(p.msgs, t.wire[x].msgs)
      BY <1>1, <1>7, <3>1 DEF Upcoming, Sender
    <3>3. Below(f, t.wire[x].msgs)
      BY <1>2, <1>3, <1>4, <3>1, <3>2, BelowConcat
    <3>4. t.wire[x].type # "DISCREQ" =>
            FollowersAbove(s, t.wire[x].sn, d) /\ FollowersAbove(s, t.wire[x].sn, p.msgs)
      BY <1>1, <1>7, <3>1 DEF Upcoming
    <3>5. QED
      BY <1>9, <3>3, <3>4
  <2>2. Upcoming(t, d)
    BY <1>7, PopUpcoming
  <2>3. QED
    BY <2>1, <2>2 DEF Upcoming
<1>12. ~Has(t.wire, "RETRRESP") /\ ~Has(e.wire, "RETRREQ")
  BY <1>1, <1>5, NoNewRequest DEF Accepts
<1>13. Requested(t, e) /\ Suspended(t, e)
  BY <1>12 DEF Requested, Suspended, Has
<1>14. FollowersAbove(t, p.sn, f)
  BY <1>8, <1>9
<1>15. QED
  BY <1>10, <1>11, <1>13, <1>14 DEF Link, Accepts, f, p

-------------------------------------------------------------------------------
(* The steps of the sending side, in two classes.                           *)

\* Packets are confirmed, and a PDU without messages is sent.
Quietly(s, e) ==
    /\ e.fifo_send = s.fifo_send
    /\ \E h \in 0..Len(s.fifo_retr) :
         e.fifo_retr = SubSeq(s.fifo_retr, h + 1, Len(s.fifo_retr))
    /\ \/ e.wire = s.wire
       \/ \E q \in Pdus : /\ q.msgs = <<>> /\ q.type # "RETRRESP"
                          /\ q.type = "DISCREQ" \/ q.sn = s.sn_t
                          /\ e.wire = Append(s.wire, q)

\* The i-th packet behind the h confirmed ones; then come empty ones.
Repeated(s, h, i) == IF h + i <= Len(s.fifo_retr) THEN s.fifo_retr[h + i].msgs ELSE <<>>

\* v repeats them behind a RetrResp, under numbers that start with first.
Repetition(v, first, s, h) ==
    \A t \in 1..Len(v) :
        /\ v[t].sn = Plus(first, t - 1)
        /\ (v[t].type = "RETRRESP") <=> (t = 1)
        /\ v[t].msgs = IF t = 1 THEN <<>> ELSE Repeated(s, h, t - 1)

\* What handle_retrreq does upon p, on an open or a closed channel.
Repeats(s, p, e) ==
    /\ p.type = "RETRREQ" /\ e.fifo_send = s.fifo_send
    /\ \E h \in 0..Len(s.fifo_retr) :
         /\ h = Len(s.fifo_retr) \/ (h > 0 /\ s.fifo_retr[h].sn = p.cs)
         /\ Len(e.fifo_retr) <= RetrCapacity
         /\ \A i \in 1..Len(e.fifo_retr) : e.fifo_retr[i].msgs = Repeated(s, h, i)
         /\ \/ e.wire = s.wire
            \/ \E q \in Pdus : /\ q.type = "DISCREQ" /\ q.msgs = <<>>
                               /\ e.wire = Append(s.wire, q)
            \/ \E v \in Seq(Pdus), first \in SequenceNumbers :
                 /\ e.wire = s.wire \o v
                 /\ Len(v) \in 1..(Len(s.fifo_retr) + 3) /\ Len(e.fifo_retr) < Len(v)
                 /\ Repetition(v, first, s, h)
                 /\ \A i \in 1..Len(e.fifo_retr) : e.fifo_retr[i].sn = Plus(first, i)

NumberFresh(s) == \A i \in 1..Len(s.fifo_retr) : s.fifo_retr[i].sn # s.sn_t

LEMMA QuietlyKeepsLink ==
  ASSUME NEW s \in Connections, NEW c \in Connections, NEW e \in Connections, NEW k \in Nat,
         NumberFresh(s), Sender(s, k), Link(s, c, k), Quietly(s, e)
  PROVE  Sender(e, k) /\ Link(e, c, k)
<1>1. PICK h \in 0..Len(s.fifo_retr) :
        e.fifo_retr = SubSeq(s.fifo_retr, h + 1, Len(s.fifo_retr))
  BY DEF Quietly
<1> DEFINE f == [s EXCEPT !.fifo_retr = e.fifo_retr]
<1>2. /\ f \in Connections /\ f.fifo_send = e.fifo_send /\ f.wire = s.wire
      /\ f.fifo_retr = e.fifo_retr /\ f.fifo_send = s.fifo_send
  BY MessagesType DEF Quietly, Connections
<1> HIDE DEF f
<1>3. Sender(f, k) /\ Link(f, c, k)
  BY <1>1, <1>2, Forget
<1>4. \A i \in 1..Len(f.fifo_retr) : f.fifo_retr[i].sn # s.sn_t
  <2>1. s.fifo_retr \in Seq(Pdus)
    BY MessagesType
  <2>2. \A i \in 1..Len(f.fifo_retr) :
          h + i \in 1..Len(s.fifo_retr) /\ f.fifo_retr[i] = s.fifo_retr[h + i]
    BY <1>1, <1>2, <2>1
  <2>3. QED
    BY <2>2 DEF NumberFresh
<1>5. CASE e.wire = s.wire
  <2>1. 0 \in 0..Len(f.fifo_retr) /\ e.fifo_retr = SubSeq(f.fifo_retr, 0 + 1, Len(f.fifo_retr))
    <3>1. f.fifo_retr \in Seq(Pdus)
      BY <1>2, MessagesType
    <3>2. QED
      BY <1>2, <3>1
  <2>2. QED
    BY <1>2, <1>3, <1>5, <2>1, Forget
<1>6. ASSUME NEW q \in Pdus, q.msgs = <<>>, q.type # "RETRRESP",
             q.type = "DISCREQ" \/ q.sn = s.sn_t, e.wire = Append(s.wire, q)
      PROVE  Sender(e, k) /\ Link(e, c, k)
  <2>1. q.type = "DISCREQ" \/ \A i \in 1..Len(f.fifo_retr) : f.fifo_retr[i].sn # q.sn
    BY <1>4, <1>6
  <2>2. /\ e.wire = Append(f.wire, q) /\ e.fifo_send = f.fifo_send
        /\ e.fifo_retr = f.fifo_retr /\ f \in Connections
    BY <1>2, <1>6
  <2>3. QED
    BY <1>3, <1>6, <2>1, <2>2, Announce
<1>7. QED
  BY <1>5, <1>6 DEF Quietly

LEMMA RepeatsKeepsLink ==
  ASSUME NEW s \in Connections, NEW c \in Connections, NEW g \in Connections,
         NEW e \in Connections, NEW k \in Nat,
         Sender(s, k), Link(s, c, k), c.wire # <<>>,
         g = [c EXCEPT !.wire = Tail(c.wire)], Repeats(s, Head(c.wire), e)
  PROVE  Sender(e, k) /\ Link(e, g, k)
<1> DEFINE d == c.fifo_app_msg
           p == Head(c.wire)
           n == Len(s.fifo_retr)
<1>1. /\ Len(c.wire) \in Nat /\ 1 \in 1..Len(c.wire) /\ p = c.wire[1]
      /\ g.wire = Tail(c.wire) /\ g.fifo_app_msg = d /\ g.state = c.state
      /\ g.listed = c.listed
      /\ \A i \in 1..Len(g.wire) : i + 1 \in 1..Len(c.wire) /\ g.wire[i] = c.wire[i + 1]
  <2>1. c.wire \in Seq(Pdus) /\ g.wire = Tail(c.wire)
    BY MessagesType DEF Connections
  <2>2. Len(c.wire) \in Nat /\ 1 \in 1..Len(c.wire) /\ p = c.wire[1]
    BY <2>1
  <2>3. QED
    BY <2>1, <2>2, PopWire DEF Connections
<1> HIDE DEF p, n, d
<1>2. p.type = "RETRREQ" /\ Has(c.wire, "RETRREQ")
  BY <1>1 DEF Repeats, Has, p
<1>3. /\ FollowersAbove(s, p.cs, d) /\ ~Has(s.wire, "RETRRESP")
      /\ \A j \in 1..Len(c.wire) : c.wire[j].type = "RETRREQ" => j = 1
  BY <1>1, <1>2 DEF Link, Requested, d
<1>4. c.listed /\ c.state \in {"RETRREQ", "CLOSED", "CRASHED"}
  BY <1>2 DEF Link, Suspended
<1>5. ~Has(g.wire, "RETRREQ")
  <2>1. ASSUME NEW i \in 1..Len(g.wire), g.wire[i].type = "RETRREQ"
        PROVE  FALSE
    <3>1. i + 1 = 1
      BY <1>1, <1>3, <2>1
    <3>2. QED
      BY <3>1
  <2>2. QED
    BY <2>1 DEF Has
<1>6. Link(s, g, k)
  BY PopReceiver
<1>7. PICK h \in 0..n :
         /\ h = n \/ (h > 0 /\ s.fifo_retr[h].sn = p.cs)
         /\ Len(e.fifo_retr) <= RetrCapacity
         /\ \A i \in 1..Len(e.fifo_retr) : e.fifo_retr[i].msgs = Repeated(s, h, i)
         /\ \/ e.wire = s.wire
            \/ \E q \in Pdus : /\ q.type = "DISCREQ" /\ q.msgs = <<>>
                               /\ e.wire = Append(s.wire, q)
            \/ \E v \in Seq(Pdus), first \in SequenceNumbers :
                 /\ e.wire = s.wire \o v
                 /\ Len(v) \in 1..(n + 3) /\ Len(e.fifo_retr) < Len(v)
                 /\ Repetition(v, first, s, h)
                 /\ \A i \in 1..Len(e.fifo_retr) : e.fifo_retr[i].sn = Plus(first, i)
  BY DEF Repeats, n, p
<1>8. n \in Nat /\ h \in Nat /\ h <= n /\ n <= RetrCapacity /\ RetrCapacity \in Nat
  BY <1>7, MessagesType, RastaConnectionAssumption DEF n, Sender
<1> DEFINE r(i) == Repeated(s, h, i)
<1>9. ASSUME NEW i \in Nat, i > 0
      PROVE  /\ r(i) = <<>> \/ (h + i \in 1..n /\ r(i) = s.fifo_retr[h + i].msgs)
  <2>1. CASE h + i <= n
    BY <1>8, <1>9, <2>1 DEF Repeated, n
  <2>2. CASE ~(h + i <= n)
    BY <2>2 DEF Repeated, n
  <2>3. QED
    BY <2>1, <2>2
<1>10. Sound(<<>>, s, k) /\ \A a : Below(<<>>, a) /\ Below(a, <<>>)
  BY NoMessages DEF Sound
<1>11. ASSUME NEW i \in Nat, i > 0
       PROVE  Sound(r(i), s, k) /\ Below(d, r(i))
  <2>1. CASE r(i) = <<>>
    BY <1>10, <2>1
  <2>2. CASE h + i \in 1..n /\ r(i) = s.fifo_retr[h + i].msgs
    <3>1. Sound(s.fifo_retr[h + i].msgs, s, k)
      BY <2>2 DEF Sender, n
    <3>2. h > 0 /\ s.fifo_retr[h].sn = p.cs
      BY <1>7, <1>8, <1>11, <2>2
    <3>3. h \in 1..n /\ h < h + i
      BY <1>8, <1>11, <3>2
    <3>4. Below(d, s.fifo_retr[h + i].msgs)
      BY <1>3, <2>2, <3>2, <3>3 DEF FollowersAbove, n
    <3>5. QED
      BY <2>2, <3>1, <3>4
  <2>3. QED
    BY <1>9, <1>11, <2>1, <2>2
<1>12. ASSUME NEW i \in Nat, NEW j \in Nat, i > 0, i < j
       PROVE  Below(r(i), r(j))
  <2>1. CASE r(i) = <<>> \/ r(j) = <<>>
    BY <1>10, <2>1
  <2>2. CASE /\ h + i \in 1..n /\ r(i) = s.fifo_retr[h + i].msgs
             /\ h + j \in 1..n /\ r(j) = s.fifo_retr[h + j].msgs
    <3>1. h + i < h + j
      BY <1>8, <1>12
    <3>2. QED
      BY <2>2, <3>1 DEF Sender, n
  <2>3. j > 0
    BY <1>12
  <2>4. QED
    BY <1>9, <1>12, <2>1, <2>2, <2>3
<1> HIDE DEF r
<1>13. \A i \in 1..Len(e.fifo_retr) : e.fifo_retr[i].msgs = r(i) /\ i \in Nat /\ i > 0
  BY <1>7 DEF r
<1> DEFINE f == [e EXCEPT !.wire = s.wire]
<1>14. /\ f \in Connections /\ f.wire = s.wire /\ f.fifo_retr = e.fifo_retr
       /\ f.fifo_send = e.fifo_send /\ e.fifo_send = s.fifo_send
  BY DEF Connections, Repeats
<1> HIDE DEF f
<1>15. Sender(f, k) /\ Link(f, g, k)
  <2>1. /\ \A i \in 1..Len(f.fifo_retr) : Sound(f.fifo_retr[i].msgs, s, k)
        /\ \A i \in 1..Len(f.fifo_retr), j \in 1..Len(f.fifo_retr) :
             i < j => Below(f.fifo_retr[i].msgs, f.fifo_retr[j].msgs)
    BY <1>11, <1>12, <1>13, <1>14
  <2>2. /\ g \in Connections /\ Len(f.fifo_retr) <= RetrCapacity
        /\ g.listed /\ g.state \in {"RETRREQ", "CLOSED", "CRASHED"}
        /\ f.fifo_send = s.fifo_send
    BY <1>1, <1>4, <1>7, <1>14
  <2>3. QED
    BY <1>3, <1>5, <1>6, <1>14, <2>1, <2>2, Rearrange
<1>16. CASE e.wire = s.wire
  <2>1. f = e
    BY <1>16 DEF f, Connections
  <2>2. QED
    BY <1>15, <2>1
<1>17. ASSUME NEW q \in Pdus, q.type = "DISCREQ", q.msgs = <<>>, e.wire = Append(s.wire, q)
       PROVE  Sender(e, k) /\ Link(e, g, k)
  <2>1. /\ e.wire = Append(f.wire, q) /\ e.fifo_send = f.fifo_send
        /\ e.fifo_retr = f.fifo_retr /\ f \in Connections
    BY <1>14, <1>17
  <2>2. QED
    BY <1>15, <1>17, <2>1, Announce
<1>18. ASSUME NEW v \in Seq(Pdus), NEW first \in SequenceNumbers,
              e.wire = s.wire \o v,
              Len(v) \in 1..(n + 3), Len(e.fifo_retr) < Len(v),
              Repetition(v, first, s, h),
              \A i \in 1..Len(e.fifo_retr) : e.fifo_retr[i].sn = Plus(first, i)
       PROVE  Sender(e, k) /\ Link(e, g, k)
  <2>1. ASSUME NEW t \in 1..Len(v)
        PROVE  /\ t = 1 => v[t].msgs = <<>>
               /\ t # 1 => v[t].msgs = r(t - 1) /\ t - 1 \in Nat /\ t - 1 > 0
    BY <1>18 DEF r, Repetition
  <2>2. ASSUME NEW t \in 1..Len(v)
        PROVE  Sound(v[t].msgs, s, k) /\ Below(d, v[t].msgs)
    BY <1>10, <1>11, <2>1
  <2>3. ASSUME NEW t \in 1..Len(v), NEW u \in 1..Len(v), t < u
        PROVE  Below(v[t].msgs, v[u].msgs)
    <3>1. CASE t = 1
      BY <1>10, <2>1, <3>1
    <3>2. CASE t # 1
      <4>1. u # 1 /\ t - 1 < u - 1
        BY <2>3, <3>2
      <4>2. QED
        BY <1>12, <2>1, <3>2, <4>1
    <3>3. QED
      BY <3>1, <3>2
  <2>4. ASSUME NEW i \in 1..Len(e.fifo_retr)
        PROVE  e.fifo_retr[i].sn = v[i + 1].sn /\ e.fifo_retr[i].msgs = v[i + 1].msgs
    <3>1. i + 1 \in 1..Len(v) /\ i + 1 # 1 /\ (i + 1) - 1 = i
      BY <1>18, MessagesType
    <3>2. v[i + 1].sn = Plus(first, (i + 1) - 1)
      BY <1>18, <3>1 DEF Repetition
    <3>3. QED
      BY <1>13, <1>18, <2>1, <3>1, <3>2
  <2>5. Len(v) \in 1..(RetrCapacity + 3)
    BY <1>8, <1>18
  <2>6. Resends(v, e.fifo_retr, first, s, d, k)
    BY <1>7, <1>18, <2>2, <2>3, <2>4, <2>5 DEF Resends, Repetition
  <2>7. /\ Resends(v, e.fifo_retr, first, s, g.fifo_app_msg, k)
        /\ e.fifo_send = s.fifo_send /\ e.wire = s.wire \o v
        /\ g.listed /\ g.state \in {"RETRREQ", "CLOSED", "CRASHED"}
        /\ ~Has(s.wire, "RETRRESP") /\ ~Has(g.wire, "RETRREQ")
    BY <1>1, <1>3, <1>4, <1>5, <1>14, <1>18, <2>6
  <2>8. QED
    BY <1>6, <1>18, <2>7, Resend
<1>19. QED
  BY <1>7, <1>16, <1>17, <1>18

-------------------------------------------------------------------------------
(* What sr_retransmit_data makes of a connection.                           *)

LEMMA PlusInTurn ==
  ASSUME NEW a \in SequenceNumbers, NEW i \in Nat, i < Modulus
  PROVE  Plus(Plus(a, 1), i) = Plus(a, i + 1)
<1>1. Modulus \in Nat /\ Modulus > 2 /\ a \in Nat /\ a < Modulus
  BY RastaConnectionAssumption DEF SequenceNumbers
<1>2. CASE a + 1 < Modulus
  <2>1. Plus(a, 1) = a + 1
    BY <1>1, <1>2 DEF Plus
  <2>2. QED
    BY <1>1, <2>1 DEF Plus
<1>3. CASE a + 1 = Modulus
  <2>1. Plus(a, 1) = 0
    BY <1>1, <1>3 DEF Plus
  <2>2. Plus(0, i) = i
    BY <1>1 DEF Plus
  <2>3. a + (i + 1) = Modulus + i
    BY <1>1, <1>3
  <2>4. Plus(a, i + 1) = i
    BY <1>1, <2>3 DEF Plus
  <2>5. QED
    BY <2>1, <2>2, <2>4
<1>4. QED
  BY <1>1, <1>2, <1>3

LEMMA AppendConcat ==
  ASSUME NEW w \in Seq(Pdus), NEW u \in Seq(Pdus), NEW q \in Pdus
  PROVE  Append(w, q) \o u = w \o (<<q>> \o u)
<1> DEFINE a == Append(w, q) \o u
           b == w \o (<<q>> \o u)
<1>1. a \in Seq(Pdus) /\ b \in Seq(Pdus) /\ Len(a) = Len(b)
  OBVIOUS
<1>2. \A i \in 1..Len(a) : a[i] = b[i]
  OBVIOUS
<1> HIDE DEF a, b
<1>3. a = b
  BY <1>1, <1>2
<1>4. QED
  BY <1>3 DEF a, b

LEMMA RenumberRepeats ==
  ASSUME NEW c \in Connections, NEW payloads \in Seq(Seq(Nat)),
         Len(payloads) <= RetrCapacity + 1,
         \A i \in 1..Len(payloads) : payloads[i] = Repeated(c, 0, i)
  PROVE  LET d == Renumber(SendNumbered(c, "RETRRESP"), payloads)
         IN  /\ d \in Connections /\ d.channel = c.channel /\ d.fifo_send = c.fifo_send
             /\ d.sn_t = Plus(c.sn_t, Len(payloads) + 1)
             /\ Len(d.fifo_retr) <= RetrCapacity /\ Len(d.fifo_retr) <= Len(payloads)
             /\ \A i \in 1..Len(d.fifo_retr) :
                  /\ d.fifo_retr[i].msgs = Repeated(c, 0, i)
                  /\ d.fifo_retr[i].sn = Plus(c.sn_t, i)
             /\ ~c.channel => d.wire = c.wire
             /\ c.channel => \E v \in Seq(Pdus) :
                  /\ d.wire = c.wire \o v /\ Len(v) = Len(payloads) + 1
                  /\ Repetition(v, c.sn_t, c, 0)
<1> DEFINE s == SendNumbered(c, "RETRRESP")
           d == Renumber(s, payloads)
           pdus == Renumbered(s, payloads)
           resp == Pdu(c, "RETRRESP", <<>>)
           n == Len(payloads)
<1>1. /\ resp \in Pdus /\ resp.type = "RETRRESP" /\ resp.msgs = <<>> /\ resp.sn = c.sn_t
      /\ "RETRRESP" \in PduTypes
  <2>1. <<>> \in Seq(Nat) /\ "RETRRESP" \in PduTypes
    BY DEF PduTypes
  <2>2. QED
    BY <2>1, PduType DEF Pdu
<1>2. n \in Nat /\ n + 1 < Modulus /\ Modulus \in Nat /\ RetrCapacity \in Nat
  BY RastaConnectionAssumption
<1>3. c.sn_t \in SequenceNumbers /\ c.wire \in Seq(Pdus)
  BY DEF Connections
<1>4. /\ s \in Connections /\ s.channel = c.channel /\ s.fifo_send = c.fifo_send
      /\ s.sn_t = Plus(c.sn_t, 1)
      /\ s.wire = IF c.channel THEN Append(c.wire, resp) ELSE c.wire
  <2>1. /\ s \in Connections /\ s.channel = c.channel /\ s.fifo_send = c.fifo_send
        /\ s.sn_t = Plus(c.sn_t, 1)
    BY <1>1, SendNumberedFields
  <2>2. s = [c EXCEPT !.sn_t = Plus(c.sn_t, 1),
                      !.wire = IF c.channel THEN Append(c.wire, resp) ELSE c.wire]
    BY <1>1, SendNumberedIs
  <2> HIDE DEF s, resp
  <2>3. s.wire = IF c.channel THEN Append(c.wire, resp) ELSE c.wire
    BY <2>2 DEF Connections
  <2>4. QED
    BY <2>1, <2>3
<1> HIDE DEF s, resp
<1>5. /\ pdus \in Seq(Pdus) /\ Len(pdus) = n
      /\ \A i \in 1..n : /\ pdus[i].type = "RETRDATA" /\ pdus[i].msgs = payloads[i]
                         /\ pdus[i].sn = Plus(s.sn_t, i - 1)
  <2>1. pdus \in Seq(Pdus) /\ Len(pdus) = n
    BY <1>4, RenumberIs
  <2>2. QED
    BY <2>1 DEF Renumbered
<1>6. PICK kept \in 0..n :
        /\ kept <= RetrCapacity
        /\ d = [s EXCEPT !.sn_t = Plus(s.sn_t, n),
                         !.wire = IF s.channel THEN s.wire \o pdus ELSE s.wire,
                         !.fifo_retr = SubSeq(pdus, 1, kept)]
  BY <1>4, RenumberIs
<1>7. d \in Connections
  BY <1>4, RenumberType
<1> HIDE DEF d, pdus
<1>8. /\ d.channel = c.channel /\ d.fifo_send = c.fifo_send
      /\ d.sn_t = Plus(s.sn_t, n) /\ d.fifo_retr = SubSeq(pdus, 1, kept)
      /\ d.wire = IF c.channel THEN s.wire \o pdus ELSE s.wire
  BY <1>4, <1>6 DEF Connections
<1>9. d.sn_t = Plus(c.sn_t, n + 1)
  BY <1>2, <1>3, <1>4, <1>8, PlusInTurn
<1>10. \A i \in 1..n : pdus[i].sn = Plus(c.sn_t, i) /\ pdus[i].msgs = Repeated(c, 0, i)
  <2>1. ASSUME NEW i \in 1..n
        PROVE  Plus(s.sn_t, i - 1) = Plus(c.sn_t, i)
    <3>1. i - 1 \in Nat /\ i - 1 < Modulus /\ (i - 1) + 1 = i
      BY <1>2
    <3>2. QED
      BY <1>3, <1>4, <3>1, PlusInTurn
  <2>2. QED
    BY <1>5, <2>1
<1>11. /\ Len(d.fifo_retr) = kept /\ \A i \in 1..kept : d.fifo_retr[i] = pdus[i] /\ i \in 1..n
  BY <1>2, <1>5, <1>6, <1>8
<1>12. ASSUME c.channel
       PROVE  \E v \in Seq(Pdus) : /\ d.wire = c.wire \o v /\ Len(v) = n + 1
                                   /\ Repetition(v, c.sn_t, c, 0)
  <2> DEFINE v == <<resp>> \o pdus
  <2>1. /\ v \in Seq(Pdus) /\ Len(v) = n + 1 /\ v[1] = resp
        /\ \A t \in 1..(n + 1) : t # 1 => t - 1 \in 1..n /\ v[t] = pdus[t - 1]
    BY <1>1, <1>2, <1>5
  <2>2. d.wire = c.wire \o v
    <3>1. d.wire = s.wire \o pdus /\ s.wire = Append(c.wire, resp)
      BY <1>3, <1>4, <1>8, <1>12
    <3>2. c.wire \in Seq(Pdus)
      BY MessagesType
    <3>3. QED
      BY <1>1, <1>5, <3>1, <3>2, AppendConcat
  <2> HIDE DEF v
  <2>3. Plus(c.sn_t, 1 - 1) = c.sn_t
    BY <1>2, <1>3 DEF Plus, SequenceNumbers
  <2>4. ASSUME NEW t \in 1..Len(v)
        PROVE  /\ v[t].sn = Plus(c.sn_t, t - 1)
               /\ (v[t].type = "RETRRESP") <=> (t = 1)
               /\ v[t].msgs = IF t = 1 THEN <<>> ELSE Repeated(c, 0, t - 1)
    <3>1. CASE t = 1
      BY <1>1, <2>1, <2>3, <3>1
    <3>2. CASE t # 1
      <4>1. t - 1 \in 1..n /\ v[t] = pdus[t - 1]
        BY <2>1, <3>2
      <4>2. QED
        BY <1>5, <1>10, <3>2, <4>1
    <3>3. QED
      BY <3>1, <3>2
  <2>5. Repetition(v, c.sn_t, c, 0)
    BY <2>4 DEF Repetition
  <2>6. QED
    BY <2>1, <2>2, <2>5
<1>13. ~c.channel => d.wire = c.wire
  BY <1>4, <1>8
<1>14. /\ Len(d.fifo_retr) <= RetrCapacity /\ Len(d.fifo_retr) <= n
       /\ \A i \in 1..Len(d.fifo_retr) :
            /\ d.fifo_retr[i].msgs = Repeated(c, 0, i)
            /\ d.fifo_retr[i].sn = Plus(c.sn_t, i)
  BY <1>2, <1>6, <1>10, <1>11
<1>15. QED
  BY <1>7, <1>8, <1>9, <1>12, <1>13, <1>14 DEF d, s

LEMMA ConcatAppend ==
  ASSUME NEW w \in Seq(Pdus), NEW u \in Seq(Pdus), NEW q \in Pdus
  PROVE  Append(w \o u, q) = w \o Append(u, q)
<1> DEFINE a == Append(w \o u, q)
           b == w \o Append(u, q)
<1>1. a \in Seq(Pdus) /\ b \in Seq(Pdus) /\ Len(a) = Len(b)
  OBVIOUS
<1>2. \A i \in 1..Len(a) : a[i] = b[i]
  OBVIOUS
<1> HIDE DEF a, b
<1>3. a = b
  BY <1>1, <1>2
<1>4. QED
  BY <1>3 DEF a, b

\* Without leftovers in the packet that was never initialised, what is sent
\* again is what fifo_retr holds.
LEMMA RetransmissionRepeats ==
  ASSUME NEW c \in Connections, Len(c.fifo_retr) <= RetrCapacity, Leftovers \subseteq {<<>>},
         NEW r \in Retransmitted(SendNumbered(c, "RETRRESP"))
  PROVE  /\ r.fifo_send = c.fifo_send /\ Len(r.fifo_retr) <= RetrCapacity
         /\ \A i \in 1..Len(r.fifo_retr) : r.fifo_retr[i].msgs = Repeated(c, 0, i)
         /\ \/ r.wire = c.wire
            \/ \E v \in Seq(Pdus) :
                 /\ c.channel /\ r.wire = c.wire \o v
                 /\ Len(v) \in 1..(Len(c.fifo_retr) + 3) /\ Len(r.fifo_retr) < Len(v)
                 /\ Repetition(v, c.sn_t, c, 0)
                 /\ \A i \in 1..Len(r.fifo_retr) : r.fifo_retr[i].sn = Plus(c.sn_t, i)
<1> DEFINE s == SendNumbered(c, "RETRRESP")
           n == Len(c.fifo_retr)
<1>1. s \in Connections /\ s.fifo_retr = c.fifo_retr
  <2>1. "RETRRESP" \in PduTypes
    BY DEF PduTypes
  <2>2. QED
    BY <2>1, SendNumberedFields
<1> HIDE DEF s
<1>2. /\ Payloads(s) \in Seq(Seq(Nat)) /\ Len(Payloads(s)) = n /\ n \in Nat
      /\ \A i \in 1..n : Payloads(s)[i] = Repeated(c, 0, i)
  <2>1. Payloads(s) \in Seq(Seq(Nat)) /\ Len(Payloads(s)) = n
    BY <1>1, PayloadsType
  <2>2. n \in Nat
    BY MessagesType
  <2>3. ASSUME NEW i \in 1..n
        PROVE  Payloads(s)[i] = Repeated(c, 0, i)
    <3>1. Payloads(s)[i] = c.fifo_retr[i].msgs
      BY <1>1 DEF Payloads
    <3>2. 0 + i = i /\ i <= n
      BY <2>2
    <3>3. QED
      BY <3>1, <3>2 DEF Repeated
  <2>4. QED
    BY <2>1, <2>2, <2>3
<1>3. /\ n <= RetrCapacity + 1 /\ n + 1 <= RetrCapacity + 1 /\ (n + 1) + 1 = n + 2
      /\ n \in Nat /\ RetrCapacity \in Nat
  <2>1. n \in Nat /\ n <= RetrCapacity
    BY MessagesType
  <2> HIDE DEF n
  <2>2. QED
    BY <2>1, RastaConnectionAssumption
<1>4. CASE \E junk \in Leftovers :
             r = SendNumbered(Renumber(s, Append(Payloads(s), junk)), "HB")
  <2> DEFINE all == Append(Payloads(s), <<>>)
             d == Renumber(s, all)
             hb == Pdu(d, "HB", <<>>)
  <2>1. r = SendNumbered(d, "HB")
    BY <1>4
  <2>2. /\ all \in Seq(Seq(Nat)) /\ Len(all) = n + 1 /\ all[n + 1] = <<>>
        /\ \A i \in 1..n : all[i] = Payloads(s)[i]
    <3>1. <<>> \in Seq(Nat)
      OBVIOUS
    <3>2. QED
      BY <1>2, <3>1
  <2> HIDE DEF all
  <2>3. Repeated(c, 0, n + 1) = <<>> /\ Repeated(c, 0, n + 2) = <<>>
    BY <1>2 DEF Repeated
  <2>4. \A i \in 1..Len(all) : all[i] = Repeated(c, 0, i)
    <3>1. \A i \in 1..(n + 1) : i \in 1..n \/ i = n + 1
      BY <1>2
    <3>2. QED
      BY <1>2, <2>2, <2>3, <3>1
  <2>5. /\ d \in Connections /\ d.channel = c.channel /\ d.fifo_send = c.fifo_send
        /\ d.sn_t = Plus(c.sn_t, n + 2)
        /\ Len(d.fifo_retr) <= RetrCapacity /\ Len(d.fifo_retr) <= n + 1
        /\ \A i \in 1..Len(d.fifo_retr) :
             /\ d.fifo_retr[i].msgs = Repeated(c, 0, i)
             /\ d.fifo_retr[i].sn = Plus(c.sn_t, i)
        /\ ~c.channel => d.wire = c.wire
        /\ c.channel => \E v \in Seq(Pdus) :
             /\ d.wire = c.wire \o v /\ Len(v) = n + 2
             /\ Repetition(v, c.sn_t, c, 0)
    <3>1. Len(all) <= RetrCapacity + 1 /\ Len(all) + 1 = n + 2
      BY <1>3, <2>2
    <3>2. all \in Seq(Seq(Nat)) /\ Len(all) <= RetrCapacity + 1
      BY <2>2, <3>1
    <3>3. /\ d \in Connections /\ d.channel = c.channel /\ d.fifo_send = c.fifo_send
          /\ d.sn_t = Plus(c.sn_t, Len(all) + 1)
          /\ Len(d.fifo_retr) <= RetrCapacity /\ Len(d.fifo_retr) <= Len(all)
          /\ \A i \in 1..Len(d.fifo_retr) :
               /\ d.fifo_retr[i].msgs = Repeated(c, 0, i)
               /\ d.fifo_retr[i].sn = Plus(c.sn_t, i)
          /\ ~c.channel => d.wire = c.wire
          /\ c.channel => \E v \in Seq(Pdus) :
               /\ d.wire = c.wire \o v /\ Len(v) = Len(all) + 1
               /\ Repetition(v, c.sn_t, c, 0)
      BY <2>4, <3>2, RenumberRepeats DEF s
    <3> HIDE DEF d
    <3>4. QED
      BY <2>2, <3>1, <3>3
  <2> HIDE DEF d
  <2>6. hb \in Pdus /\ hb.type = "HB" /\ hb.msgs = <<>> /\ hb.sn = d.sn_t /\ "HB" \in PduTypes
    <3>1. <<>> \in Seq(Nat) /\ "HB" \in PduTypes
      BY DEF PduTypes
    <3>2. QED
      BY <2>5, <3>1, PduType DEF Pdu
  <2>7. /\ r.fifo_send = c.fifo_send /\ r.fifo_retr = d.fifo_retr
        /\ r.wire = IF c.channel THEN Append(d.wire, hb) ELSE d.wire
    <3>1. r = [d EXCEPT !.sn_t = Plus(d.sn_t, 1),
                        !.wire = IF d.channel THEN Append(d.wire, hb) ELSE d.wire]
      BY <2>1, <2>5, <2>6, SendNumberedIs
    <3> HIDE DEF hb
    <3>2. QED
      BY <2>5, <3>1 DEF Connections
  <2> HIDE DEF hb
  <2>8. CASE c.channel
    <3>1. PICK u \in Seq(Pdus) : /\ d.wire = c.wire \o u /\ Len(u) = n + 2
                                 /\ Repetition(u, c.sn_t, c, 0)
      BY <2>5, <2>8
    <3> DEFINE v == Append(u, hb)
    <3>2. /\ v \in Seq(Pdus) /\ Len(v) = n + 3 /\ v[n + 3] = hb
          /\ \A t \in 1..Len(v) : t = n + 3 \/ (t \in 1..Len(u) /\ v[t] = u[t])
      <4>1. n + 2 \in Nat /\ (n + 2) + 1 = n + 3
        BY <1>2
      <4>2. /\ v \in Seq(Pdus) /\ Len(v) = Len(u) + 1 /\ v[Len(u) + 1] = hb
            /\ \A t \in 1..Len(u) : v[t] = u[t]
            /\ \A t \in 1..Len(v) : t \in 1..Len(u) \/ t = Len(u) + 1
        BY <2>6, AppendWire
      <4> HIDE DEF v
      <4>3. QED
        BY <3>1, <4>1, <4>2
    <3>3. r.wire = c.wire \o v
      <4>1. c.wire \in Seq(Pdus)
        BY MessagesType
      <4>2. QED
        BY <2>6, <2>7, <2>8, <3>1, <4>1, ConcatAppend
    <3> HIDE DEF v
    <3>4. ASSUME NEW t \in 1..Len(v)
          PROVE  /\ v[t].sn = Plus(c.sn_t, t - 1)
                 /\ (v[t].type = "RETRRESP") <=> (t = 1)
                 /\ v[t].msgs = IF t = 1 THEN <<>> ELSE Repeated(c, 0, t - 1)
      <4>1. CASE v[t] = u[t] /\ t \in 1..Len(u)
        BY <3>1, <4>1 DEF Repetition
      <4>2. CASE t = n + 3
        <5>1. t - 1 = n + 2 /\ t # 1
          BY <1>2, <4>2
        <5>2. QED
          BY <2>3, <2>5, <2>6, <3>2, <4>2, <5>1
      <4>3. QED
        BY <3>2, <4>1, <4>2
    <3>5. Repetition(v, c.sn_t, c, 0)
      BY <3>4 DEF Repetition
    <3>6. Len(v) \in 1..(n + 3) /\ Len(r.fifo_retr) < Len(v)
      <4>1. Len(d.fifo_retr) \in Nat
        BY <2>5, MessagesType
      <4>2. QED
        BY <1>2, <2>5, <2>7, <3>2, <4>1
    <3>7. QED
      BY <2>5, <2>7, <2>8, <3>2, <3>3, <3>5, <3>6
  <2>9. CASE ~c.channel
    BY <2>5, <2>7, <2>9
  <2>10. QED
    BY <2>8, <2>9
<1>5. CASE r = [Renumber(s, Payloads(s)) EXCEPT !.state = "CRASHED"]
  <2> DEFINE d == Renumber(s, Payloads(s))
  <2>1. /\ d \in Connections /\ d.channel = c.channel /\ d.fifo_send = c.fifo_send
        /\ Len(d.fifo_retr) <= RetrCapacity /\ Len(d.fifo_retr) <= n
        /\ \A i \in 1..Len(d.fifo_retr) :
             /\ d.fifo_retr[i].msgs = Repeated(c, 0, i)
             /\ d.fifo_retr[i].sn = Plus(c.sn_t, i)
        /\ ~c.channel => d.wire = c.wire
        /\ c.channel => \E v \in Seq(Pdus) :
             /\ d.wire = c.wire \o v /\ Len(v) = n + 1
             /\ Repetition(v, c.sn_t, c, 0)
    <3> DEFINE a == Payloads(s)
    <3>1. /\ a \in Seq(Seq(Nat)) /\ Len(a) <= RetrCapacity + 1 /\ Len(a) = n
          /\ \A i \in 1..Len(a) : a[i] = Repeated(c, 0, i)
      BY <1>2, <1>3
    <3> HIDE DEF a
    <3>2. d = Renumber(SendNumbered(c, "RETRRESP"), a)
      BY DEF a, s
    <3> HIDE DEF d
    <3>3. QED
      BY <3>1, <3>2, RenumberRepeats
  <2> HIDE DEF d
  <2>2. r.fifo_send = d.fifo_send /\ r.fifo_retr = d.fifo_retr /\ r.wire = d.wire
    <3>1. r = [d EXCEPT !.state = "CRASHED"]
      BY <1>5 DEF d
    <3>2. QED
      BY <2>1, <3>1 DEF Connections
  <2>3. CASE c.channel
    <3>1. PICK v \in Seq(Pdus) : /\ d.wire = c.wire \o v /\ Len(v) = n + 1
                                 /\ Repetition(v, c.sn_t, c, 0)
      BY <2>1, <2>3
    <3>2. Len(v) \in 1..(n + 3) /\ Len(r.fifo_retr) < Len(v)
      <4>1. Len(d.fifo_retr) \in Nat
        BY <2>1, MessagesType
      <4>2. QED
        BY <1>2, <2>1, <2>2, <3>1, <4>1
    <3>3. QED
      BY <2>1, <2>2, <2>3, <3>1, <3>2
  <2>4. CASE ~c.channel
    BY <2>1, <2>2, <2>4
  <2>5. QED
    BY <2>3, <2>4
<1>6. QED
  BY <1>4, <1>5 DEF Retransmitted, s

-------------------------------------------------------------------------------
(* The handlers belong to these classes.                                    *)

Heard(c, p, e) ==
    Falls(c, e) \/ Accepts(c, p, e) \/ Establishes(c, e) \/ Resumes(c, p, e) \/ Asks(c, e)

LEMMA StillQuiet ==
  ASSUME NEW c \in Connections, NEW e \in Connections,
         e.fifo_send = c.fifo_send, e.fifo_retr = c.fifo_retr, e.wire = c.wire
  PROVE  Quietly(c, e) /\ AddsNoRequest(c, e)
<1>1. 0 \in 0..Len(c.fifo_retr) /\ c.fifo_retr = SubSeq(c.fifo_retr, 0 + 1, Len(c.fifo_retr))
  <2>1. c.fifo_retr \in Seq(Pdus)
    BY MessagesType
  <2>2. QED
    BY <2>1
<1>2. Adds(c.wire, c.wire, PduTypes \ {"RETRREQ"})
  BY MessagesType, SameAdds
<1>3. QED
  BY <1>1, <1>2 DEF Quietly, AddsNoRequest

LEMMA SendsQuietly ==
  ASSUME NEW c \in Connections, NEW e \in Connections, NEW q \in Pdus,
         e.fifo_send = c.fifo_send, e.fifo_retr = c.fifo_retr,
         e.wire \in {c.wire, Append(c.wire, q)},
         q.msgs = <<>>, q.type # "RETRRESP", q.type = "DISCREQ" \/ q.sn = c.sn_t
  PROVE  Quietly(c, e) /\ (q.type # "RETRREQ" => AddsNoRequest(c, e))
<1>1. 0 \in 0..Len(c.fifo_retr) /\ c.fifo_retr = SubSeq(c.fifo_retr, 0 + 1, Len(c.fifo_retr))
  <2>1. c.fifo_retr \in Seq(Pdus)
    BY MessagesType
  <2>2. QED
    BY <2>1
<1>2. q.type \in PduTypes
  BY DEF Pdus
<1>3. q.type # "RETRREQ" => Adds(c.wire, e.wire, PduTypes \ {"RETRREQ"})
  <2>1. /\ Adds(c.wire, c.wire, PduTypes \ {"RETRREQ"})
        /\ Adds(c.wire, Append(c.wire, q), {q.type})
    BY MessagesType, SameAdds, AppendAdds
  <2>2. QED
    BY <1>2, <2>1, AddsFewer
<1>4. QED
  BY <1>1, <1>3 DEF Quietly, AddsNoRequest

\* Closing, and whatever is done after it without a channel.
LEMMA ClosingIsQuiet ==
  ASSUME NEW c \in Connections, NEW e \in Connections,
         e.fifo_send = c.fifo_send, e.fifo_retr = c.fifo_retr, e.wire = Close(c).wire
  PROVE  Quietly(c, e) /\ AddsNoRequest(c, e)
<1> DEFINE q == Pdu(c, "DISCREQ", <<>>)
<1>1. q \in Pdus /\ q.msgs = <<>> /\ q.type = "DISCREQ"
  <2>1. <<>> \in Seq(Nat) /\ "DISCREQ" \in PduTypes
    BY DEF PduTypes
  <2>2. QED
    BY <2>1, PduType DEF Pdu
<1>2. Close(c).wire \in {c.wire, Append(c.wire, q)}
  BY CloseIs DEF Connections
<1> HIDE DEF q
<1>3. QED
  BY <1>1, <1>2, SendsQuietly

LEMMA CloseIsHeard ==
  ASSUME NEW c \in Connections
  PROVE  Falls(c, Close(c)) /\ Quietly(c, Close(c)) /\ Close(c) \in Connections
<1>1. /\ Close(c) \in Connections /\ Close(c).state = "CLOSED"
      /\ Close(c).listed = c.listed /\ Close(c).fifo_app_msg = c.fifo_app_msg
      /\ Close(c).fifo_send = c.fifo_send /\ Close(c).fifo_retr = c.fifo_retr
  BY CloseFields
<1>2. QED
  BY <1>1, ClosingIsQuiet DEF Falls

LEMMA NumberedIsQuiet ==
  ASSUME NEW c \in Connections, NEW type \in PduTypes, NEW e \in Connections,
         type # "RETRRESP", e.fifo_send = c.fifo_send, e.fifo_retr = c.fifo_retr,
         e.wire = SendNumbered(c, type).wire
  PROVE  Quietly(c, e) /\ (type # "RETRREQ" => AddsNoRequest(c, e))
<1> DEFINE q == Pdu(c, type, <<>>)
<1>1. q \in Pdus /\ q.msgs = <<>> /\ q.type = type /\ q.sn = c.sn_t
  <2>1. <<>> \in Seq(Nat)
    OBVIOUS
  <2>2. QED
    BY <2>1, PduType DEF Pdu
<1>2. SendNumbered(c, type).wire \in {c.wire, Append(c.wire, q)}
  <2> DEFINE f == SendNumbered(c, type)
  <2>1. f = [c EXCEPT !.sn_t = Plus(c.sn_t, 1),
                      !.wire = IF c.channel THEN Append(c.wire, q) ELSE c.wire]
    BY SendNumberedIs
  <2> HIDE DEF f, q
  <2>2. f.wire = IF c.channel THEN Append(c.wire, q) ELSE c.wire
    BY <2>1 DEF Connections
  <2>3. QED
    BY <2>2 DEF f
<1> HIDE DEF q
<1>3. QED
  BY <1>1, <1>2, SendsQuietly

LEMMA AskingIsHeard ==
  ASSUME NEW c \in Connections, c.listed, c.state \in {"UP", "RETRRUN"}
  PROVE  Asks(c, AskAgain(c)) /\ Quietly(c, AskAgain(c)) /\ AskAgain(c) \in Connections
<1> DEFINE s == SendNumbered(c, "RETRREQ")
           e == AskAgain(c)
           q == Pdu(c, "RETRREQ", <<>>)
<1>1. /\ s \in Connections /\ s.listed = c.listed /\ s.fifo_app_msg = c.fifo_app_msg
      /\ s.fifo_send = c.fifo_send /\ s.fifo_retr = c.fifo_retr /\ "RETRREQ" \in PduTypes
  BY SendNumberedFields DEF PduTypes
<1>2. q \in Pdus /\ q.cs = c.cs_t
  <2>1. <<>> \in Seq(Nat)
    OBVIOUS
  <2>2. QED
    BY <1>1, <2>1, PduType DEF Pdu
<1>3. s.wire \in {c.wire, Append(c.wire, q)}
  <2>1. s = [c EXCEPT !.sn_t = Plus(c.sn_t, 1),
                      !.wire = IF c.channel THEN Append(c.wire, q) ELSE c.wire]
    BY <1>1, SendNumberedIs
  <2> HIDE DEF s, q
  <2>2. QED
    BY <2>1 DEF Connections
<1>4. e = [s EXCEPT !.state = "RETRREQ"]
  BY DEF AskAgain
<1>5. s = SendNumbered(c, "RETRREQ")
  OBVIOUS
<1> HIDE DEF s, q, e
<1>6. /\ e \in Connections /\ e.state = "RETRREQ" /\ e.wire = s.wire /\ e.listed = c.listed
      /\ e.fifo_app_msg = c.fifo_app_msg /\ e.fifo_send = c.fifo_send
      /\ e.fifo_retr = c.fifo_retr
  BY <1>1, <1>4 DEF Connections, States
<1>7. Quietly(c, e)
  BY <1>1, <1>5, <1>6, NumberedIsQuiet
<1>8. Asks(c, e)
  BY <1>2, <1>3, <1>6 DEF Asks
<1>9. QED
  BY <1>6, <1>7, <1>8 DEF e

\* What handle_retrreq may make of c upon p; known says whether p is in sequence.
RetrReqAnswers(c, p, known) ==
    LET c1 == IF ~known THEN c
              ELSE Accept(IF c.state = "RETRRUN" THEN Close(c) ELSE c, p)
        c2 == RemoveConfirmed([c1 EXCEPT !.cs_r = p.cs])
    IN  {IF known \/ r.state = "CRASHED" THEN r ELSE [r EXCEPT !.state = "RETRREQ"] :
           r \in Retransmitted(SendNumbered(c2, "RETRRESP"))}

\* It is heard, and what it sends repeats fifo_retr.
LEMMA RepeatingIsHeard ==
  ASSUME NEW c \in Connections, NEW p \in Pdus, NEW b \in BOOLEAN,
         p.type = "RETRREQ", c.listed, Len(c.fifo_retr) <= RetrCapacity,
         Leftovers \subseteq {<<>>},
         c.state # "CRASHED", NEW e \in RetrReqAnswers(c, p, b)
  PROVE  e \in Connections /\ Heard(c, p, e) /\ Repeats(c, p, e)
<1> DEFINE a == IF c.state = "RETRRUN" THEN Close(c) ELSE c
           c1 == IF ~b THEN c ELSE Accept(a, p)
           d1 == [c1 EXCEPT !.cs_r = p.cs]
           c2 == RemoveConfirmed(d1)
           c3 == SendNumbered(c2, "RETRRESP")
           disc == Pdu(c, "DISCREQ", <<>>)
           n == Len(c.fifo_retr)
<1>1. disc \in Pdus /\ disc.msgs = <<>> /\ disc.type = "DISCREQ"
  <2>1. <<>> \in Seq(Nat) /\ "DISCREQ" \in PduTypes
    BY DEF PduTypes
  <2>2. QED
    BY <2>1, PduType DEF Pdu
<1>2. /\ a \in Connections /\ a.listed = c.listed /\ a.fifo_app_msg = c.fifo_app_msg
      /\ a.fifo_send = c.fifo_send /\ a.fifo_retr = c.fifo_retr
      /\ \/ a.wire = c.wire
         \/ ~a.channel /\ a.wire = Append(c.wire, disc)
      /\ IF c.state = "RETRRUN" THEN a.state = "CLOSED" ELSE a.state = c.state
  <2>1. CASE c.state = "RETRRUN"
    <3>1. /\ Close(c) \in Connections /\ Close(c).state = "CLOSED" /\ ~Close(c).channel
          /\ Close(c).listed = c.listed /\ Close(c).fifo_app_msg = c.fifo_app_msg
          /\ Close(c).fifo_send = c.fifo_send /\ Close(c).fifo_retr = c.fifo_retr
      BY CloseFields
    <3>2. Close(c).wire \in {c.wire, Append(c.wire, disc)}
      BY CloseIs DEF Connections
    <3>3. QED
      BY <2>1, <3>1, <3>2
  <2>2. CASE c.state # "RETRRUN"
    BY <2>2
  <2>3. QED
    BY <2>1, <2>2
<1>3. PICK r \in Retransmitted(c3) :
        e = IF b \/ r.state = "CRASHED" THEN r ELSE [r EXCEPT !.state = "RETRREQ"]
  BY DEF RetrReqAnswers
<1> HIDE DEF a, disc
<1>4. /\ c1 \in Connections /\ c1.listed = c.listed /\ c1.fifo_app_msg = c.fifo_app_msg
      /\ c1.fifo_send = c.fifo_send /\ c1.fifo_retr = c.fifo_retr
      /\ \/ c1.wire = c.wire
         \/ ~c1.channel /\ c1.wire = Append(c.wire, disc)
      /\ \/ ~b /\ c1 = c
         \/ b /\ c1.state = "CLOSED"
         \/ b /\ c1.state = c.state /\ c1.cs_t = p.sn /\ c.state # "RETRRUN"
  <2>1. /\ Accept(a, p) \in Connections /\ Accept(a, p).listed = a.listed
        /\ Accept(a, p).fifo_app_msg = a.fifo_app_msg
        /\ Accept(a, p).fifo_send = a.fifo_send /\ Accept(a, p).fifo_retr = a.fifo_retr
        /\ Accept(a, p).wire = a.wire /\ Accept(a, p).channel = a.channel
        /\ Accept(a, p).state = a.state /\ Accept(a, p).cs_t = p.sn
    BY <1>2, AcceptType DEF Accept, Connections
  <2>2. QED
    BY <1>2, <2>1
<1> HIDE DEF c1
<1>5. /\ d1 \in Connections /\ d1.cs_r = p.cs /\ d1.fifo_retr = c.fifo_retr
      /\ d1.listed = c1.listed /\ d1.fifo_app_msg = c1.fifo_app_msg
      /\ d1.fifo_send = c1.fifo_send /\ d1.wire = c1.wire /\ d1.channel = c1.channel
      /\ d1.state = c1.state /\ d1.cs_t = c1.cs_t
  BY <1>4 DEF Connections, Pdus
<1> HIDE DEF d1
<1>6. PICK h \in 0..n :
        /\ c2 = [d1 EXCEPT !.fifo_retr = SubSeq(d1.fifo_retr, h + 1, n)]
        /\ h = n \/ (h > 0 /\ c.fifo_retr[h].sn = p.cs)
  <2>1. Len(d1.fifo_retr) = n
    BY <1>5
  <2>2. \E h \in 0..Len(d1.fifo_retr) :
          /\ c2 = [d1 EXCEPT !.fifo_retr = SubSeq(d1.fifo_retr, h + 1, Len(d1.fifo_retr))]
          /\ h = Len(d1.fifo_retr) \/ (h > 0 /\ d1.fifo_retr[h].sn = d1.cs_r)
    BY <1>5, RemoveConfirmedIsSuffix
  <2> HIDE DEF c2, n
  <2>3. QED
    BY <1>5, <2>1, <2>2
<1>7. c2 \in Connections
  BY <1>5, RemoveConfirmedType
<1> HIDE DEF c2
<1>8. /\ c2.fifo_retr = SubSeq(c.fifo_retr, h + 1, n)
      /\ c2.listed = c.listed /\ c2.fifo_app_msg = c.fifo_app_msg
      /\ c2.fifo_send = c.fifo_send /\ c2.wire = c1.wire /\ c2.channel = c1.channel
      /\ c2.state = c1.state /\ c2.cs_t = c1.cs_t
  BY <1>4, <1>5, <1>6 DEF Connections
<1>9. /\ n \in Nat /\ h \in Nat /\ h <= n /\ Len(c2.fifo_retr) = n - h
      /\ Len(c2.fifo_retr) <= RetrCapacity /\ RetrCapacity \in Nat
      /\ \A i \in 1..(n - h) : c2.fifo_retr[i] = c.fifo_retr[h + i]
  <2>1. c.fifo_retr \in Seq(Pdus) /\ RetrCapacity \in Nat
    BY MessagesType, RastaConnectionAssumption
  <2>2. /\ n \in Nat /\ h \in Nat /\ h <= n
        /\ Len(SubSeq(c.fifo_retr, h + 1, n)) = n - h
        /\ \A i \in 1..(n - h) : SubSeq(c.fifo_retr, h + 1, n)[i] = c.fifo_retr[h + i]
    BY <1>6, <2>1
  <2> HIDE DEF n
  <2>3. n <= RetrCapacity
    BY DEF n
  <2>4. QED
    BY <1>8, <2>1, <2>2, <2>3
<1>10. ASSUME NEW i \in Nat, i > 0
       PROVE  Repeated(c2, 0, i) = Repeated(c, h, i)
  <2>1. 0 + i = i /\ (i <= n - h <=> h + i <= n)
    BY <1>9
  <2>2. i <= n - h => i \in 1..(n - h)
    BY <1>9, <1>10
  <2>3. QED
    BY <1>9, <2>1, <2>2 DEF Repeated
<1>11. /\ r.fifo_send = c2.fifo_send /\ Len(r.fifo_retr) <= RetrCapacity
       /\ \A i \in 1..Len(r.fifo_retr) : r.fifo_retr[i].msgs = Repeated(c2, 0, i)
       /\ \/ r.wire = c2.wire
          \/ \E v \in Seq(Pdus) :
               /\ c2.channel /\ r.wire = c2.wire \o v
               /\ Len(v) \in 1..(Len(c2.fifo_retr) + 3) /\ Len(r.fifo_retr) < Len(v)
               /\ Repetition(v, c2.sn_t, c2, 0)
               /\ \A i \in 1..Len(r.fifo_retr) : r.fifo_retr[i].sn = Plus(c2.sn_t, i)
  BY <1>3, <1>7, <1>9, RetransmissionRepeats DEF c3
<1>12. /\ c3 \in Connections /\ c3.listed = c2.listed /\ c3.state = c2.state
       /\ c3.fifo_app_msg = c2.fifo_app_msg /\ c3.cs_t = c2.cs_t
       /\ Adds(c2.wire, c3.wire, {"RETRRESP"})
  <2>1. "RETRRESP" \in PduTypes
    BY DEF PduTypes
  <2>2. QED
    BY <1>7, <2>1, SendNumberedFields
<1>13. r \in Retransmitted(c3)
  BY <1>3
<1> HIDE DEF c3
<1>14. /\ r \in Connections /\ r.listed = c.listed /\ r.fifo_app_msg = c.fifo_app_msg
       /\ r.cs_t = c1.cs_t /\ r.state \in {c1.state, "CRASHED"}
       /\ Adds(c3.wire, r.wire, {"RETRDATA", "HB"})
  <2>1. /\ r = [c3 EXCEPT !.sn_t = r.sn_t, !.wire = r.wire, !.fifo_retr = r.fifo_retr,
                          !.state = r.state]
        /\ r.state \in {c3.state, "CRASHED"}
        /\ Adds(c3.wire, r.wire, {"RETRDATA", "HB"})
    BY <1>12, <1>13, RetransmissionAdds
  <2>2. r.listed = c3.listed /\ r.fifo_app_msg = c3.fifo_app_msg /\ r.cs_t = c3.cs_t
    BY <1>12, <2>1 DEF Connections
  <2>3. QED
    BY <1>8, <1>12, <1>13, <2>1, <2>2, RetransmittedType
<1>15. /\ e \in Connections /\ e.listed = c.listed /\ e.fifo_app_msg = c.fifo_app_msg
       /\ e.cs_t = c1.cs_t /\ e.wire = r.wire /\ e.fifo_send = r.fifo_send
       /\ e.fifo_retr = r.fifo_retr
       /\ e.state = r.state \/ e.state = "RETRREQ"
       /\ ~b => e.state \in {"RETRREQ", "CRASHED"}
  BY <1>3, <1>14 DEF Connections, States
<1>16. AddsNoRequest(c, e)
  <2>1. Adds(c.wire, c1.wire, {"DISCREQ"})
    <3>1. /\ Adds(c.wire, c.wire, {"DISCREQ"})
          /\ Adds(c.wire, Append(c.wire, disc), {"DISCREQ"})
      BY <1>1, MessagesType, SameAdds, AppendAdds
    <3>2. QED
      BY <1>4, <3>1
  <2>2. /\ c.wire \in Seq(Pdus) /\ c1.wire \in Seq(Pdus)
        /\ c3.wire \in Seq(Pdus) /\ r.wire \in Seq(Pdus)
    BY <1>4, <1>12, <1>14, MessagesType
  <2>3. Adds(c.wire, c3.wire, {"DISCREQ"} \cup {"RETRRESP"})
    BY <1>8, <1>12, <2>1, <2>2, AddsInTurn
  <2>4. Adds(c.wire, r.wire, ({"DISCREQ"} \cup {"RETRRESP"}) \cup {"RETRDATA", "HB"})
    BY <1>14, <2>2, <2>3, AddsInTurn
  <2>5. Adds(c.wire, r.wire, PduTypes \ {"RETRREQ"})
    BY <2>4, AddsFewer DEF PduTypes
  <2>6. QED
    BY <1>15, <2>5 DEF AddsNoRequest
<1>17. Heard(c, p, e)
  <2>1. CASE e.state \in {"RETRREQ", "CLOSED", "CRASHED"}
    BY <1>15, <1>16, <2>1 DEF Heard, Falls
  <2>2. CASE e.state \notin {"RETRREQ", "CLOSED", "CRASHED"}
    <3>1. b /\ e.state = c1.state /\ c1.state = c.state /\ c1.cs_t = p.sn /\ c.state # "RETRRUN"
      BY <1>4, <1>14, <1>15, <2>2
    <3>2. CASE c.state = "START"
      BY <1>15, <1>16, <3>1, <3>2 DEF Heard, Falls
    <3>3. CASE c.state = "UP"
      BY <1>15, <1>16, <3>1, <3>3 DEF Heard, Accepts
    <3>4. QED
      BY <2>2, <3>1, <3>2, <3>3 DEF Connections, States
  <2>3. QED
    BY <2>1, <2>2
<1>18. /\ h \in 0..Len(c.fifo_retr)
       /\ h = Len(c.fifo_retr) \/ (h > 0 /\ c.fifo_retr[h].sn = p.cs)
       /\ Len(e.fifo_retr) <= RetrCapacity /\ e.fifo_send = c.fifo_send
  BY <1>6, <1>8, <1>11, <1>15
<1>19. \A i \in 1..Len(e.fifo_retr) : e.fifo_retr[i].msgs = Repeated(c, h, i)
  <2>1. Len(r.fifo_retr) \in Nat
    BY <1>14, MessagesType
  <2>2. QED
    BY <1>10, <1>11, <1>15, <2>1
<1> HIDE DEF n
<1>20. ASSUME e.wire = c2.wire
       PROVE  Repeats(c, p, e)
  <2>1. \/ e.wire = c.wire
        \/ \E q \in Pdus : q.type = "DISCREQ" /\ q.msgs = <<>> /\ e.wire = Append(c.wire, q)
    BY <1>1, <1>4, <1>8, <1>20
  <2>2. CASE e.wire = c.wire
    BY <1>18, <1>19, <2>2 DEF Repeats
  <2>3. ASSUME NEW q \in Pdus, q.type = "DISCREQ", q.msgs = <<>>, e.wire = Append(c.wire, q)
        PROVE  Repeats(c, p, e)
    BY <1>18, <1>19, <2>3 DEF Repeats
  <2>4. QED
    BY <2>1, <2>2, <2>3
<1>21. ASSUME NEW v \in Seq(Pdus), c2.channel, e.wire = c2.wire \o v,
              Len(v) \in 1..(Len(c2.fifo_retr) + 3), Len(r.fifo_retr) < Len(v),
              Repetition(v, c2.sn_t, c2, 0),
              \A i \in 1..Len(r.fifo_retr) : r.fifo_retr[i].sn = Plus(c2.sn_t, i)
       PROVE  Repeats(c, p, e)
  <2>1. e.wire = c.wire \o v
    BY <1>4, <1>8, <1>21
  <2>2. Len(v) \in 1..(Len(c.fifo_retr) + 3) /\ Len(e.fifo_retr) < Len(v)
    BY <1>9, <1>15, <1>21 DEF n
  <2>3. c2.sn_t \in SequenceNumbers
    BY <1>7 DEF Connections
  <2>4. ASSUME NEW t \in 1..Len(v), t # 1
        PROVE  Repeated(c2, 0, t - 1) = Repeated(c, h, t - 1)
    <3>1. t - 1 \in Nat /\ t - 1 > 0
      BY <1>21, <2>4
    <3>2. QED
      BY <1>10, <3>1
  <2>5. Repetition(v, c2.sn_t, c, h)
    BY <1>21, <2>4 DEF Repetition
  <2>6. \A i \in 1..Len(e.fifo_retr) : e.fifo_retr[i].sn = Plus(c2.sn_t, i)
    BY <1>15, <1>21
  <2>7. QED
    BY <1>18, <1>19, <2>1, <2>2, <2>3, <2>5, <2>6 DEF Repeats
<1>22. Repeats(c, p, e)
  BY <1>11, <1>15, <1>20, <1>21
<1>23. QED
  BY <1>15, <1>17, <1>22

LEMMA SameIsHeard ==
  ASSUME NEW c \in Connections, NEW p
  PROVE  Heard(c, p, c) /\ Quietly(c, c)
<1>1. Quietly(c, c) /\ AddsNoRequest(c, c)
  BY StillQuiet
<1>2. Falls(c, c)
  BY <1>1 DEF Falls
<1>3. QED
  BY <1>1, <1>2 DEF Heard

\* Every handler does one of these to what it is given, and is quiet or repeats
\* in what it sends.
LEMMA HandlersHear ==
  ASSUME TypeOK, Leftovers \subseteq {<<>>}, NEW n \in Nodes,
         Len(node[n].fifo_retr) <= RetrCapacity, Handle(n)
  PROVE  /\ Wire(n) # <<>>
         /\ \E e \in Connections :
              /\ Taken(n, e)
              /\ Heard(node[n], Head(Wire(n)), e)
              /\ \/ Quietly(node[n], e)
                 \/ Repeats(node[n], Head(Wire(n)), e)
<1> DEFINE c == node[n]
           p == Head(Wire(n))
           Does(e) == /\ e \in Connections /\ Taken(n, e) /\ Heard(c, p, e)
                      /\ Quietly(c, e) \/ Repeats(c, p, e)
<1>1. Wire(n) # <<>>
  BY DEF Handle, HandleConResp, HandleDiscReq, HbCompletesHandshake, HbInSequence,
         HbAfterGap, DataInSequence, DataAfterGap, DataBeforeHandshake, HandleRetrReq,
         HandleRetrResp, RetrDataInSequence, RetrDataAfterGap, Ignore, Discard, Receives
<1>2. c \in Connections /\ p \in Pdus
  BY <1>1, HeadOfWire
<1>3. Len(c.fifo_retr) <= RetrCapacity
  OBVIOUS
<1> HIDE DEF c, p
<1>4. SUFFICES \E e : Does(e)
  BY <1>1 DEF c, p
<1>5. /\ Accept(c, p) \in Connections /\ Deliver(c, p) \in Connections
      /\ Accept(Deliver(c, p), p) \in Connections
      /\ Minus(c.sn_t, 1) \in SequenceNumbers /\ p.cs \in SequenceNumbers
      /\ p.sn \in SequenceNumbers
  <2>1. c.sn_t \in SequenceNumbers /\ p.cs \in SequenceNumbers /\ p.sn \in SequenceNumbers
    BY <1>2 DEF Connections, Pdus
  <2>2. Deliver(c, p) \in Connections
    BY <1>2, DeliverType
  <2>3. QED
    BY <1>2, <2>1, <2>2, AcceptType, SequenceNumbersWrap
<1>6. Taken(n, c) => Does(c)
  BY <1>2, SameIsHeard
<1>7. Taken(n, Close(c)) => Does(Close(c))
  BY <1>2, CloseIsHeard DEF Heard
<1>8. c.listed /\ c.state \in {"UP", "RETRRUN"} /\ Taken(n, AskAgain(c)) => Does(AskAgain(c))
  BY <1>2, AskingIsHeard DEF Heard
<1>9. ASSUME NEW e \in Connections, Taken(n, e), e.wire = c.wire,
             e.fifo_send = c.fifo_send, e.fifo_retr = c.fifo_retr, e.listed = c.listed,
             \/ e.state \in {"RETRREQ", "CLOSED", "CRASHED"} /\ e.fifo_app_msg = c.fifo_app_msg
             \/ /\ c.state \in {"UP", "RETRRUN"} /\ e.state \in {"UP", "RETRRUN"} /\ c.listed
                /\ p.type # "DISCREQ" /\ e.cs_t = p.sn
                /\ \/ e.fifo_app_msg = c.fifo_app_msg
                   \/ e.fifo_app_msg = c.fifo_app_msg \o p.msgs
             \/ /\ c.state = "RETRREQ" /\ e.state = "RETRRUN" /\ p.type = "RETRRESP"
                /\ e.cs_t = p.sn /\ e.fifo_app_msg = c.fifo_app_msg
      PROVE  Does(e)
  <2>1. Quietly(c, e) /\ AddsNoRequest(c, e)
    BY <1>2, <1>9, StillQuiet
  <2>2. Falls(c, e) \/ Accepts(c, p, e) \/ Resumes(c, p, e)
    BY <1>9, <2>1 DEF Falls, Accepts, Resumes
  <2>3. QED
    BY <1>9, <2>1, <2>2 DEF Heard
<1>10. /\ Accept(c, p).wire = c.wire /\ Accept(c, p).fifo_send = c.fifo_send
       /\ Accept(c, p).fifo_retr = c.fifo_retr /\ Accept(c, p).listed = c.listed
       /\ Accept(c, p).fifo_app_msg = c.fifo_app_msg /\ Accept(c, p).cs_t = p.sn
       /\ Accept(c, p).state = c.state
  BY <1>2, <1>5 DEF Accept, Connections
<1> DEFINE d == Accept(Deliver(c, p), p)
<1>11. /\ d \in Connections /\ d.wire = c.wire /\ d.fifo_send = c.fifo_send
       /\ d.fifo_retr = c.fifo_retr /\ d.listed = c.listed
       /\ d.fifo_app_msg = c.fifo_app_msg \o p.msgs /\ d.cs_t = p.sn /\ d.state = c.state
  BY <1>2, <1>5 DEF Accept, Deliver, Connections
<1> HIDE DEF d
<1>12. CASE Ignore(n) \/ Discard(n)
  <2>1. Taken(n, c)
    BY <1>12 DEF Ignore, Discard, c
  <2>2. QED
    BY <1>6, <2>1
<1>13. CASE HandleConResp(n)
  <2>1. CASE c.state = "START" /\ Taken(n, SendNumbered(Establish(c, p), "HB"))
    <3> DEFINE f == Establish(c, p)
               e == SendNumbered(f, "HB")
               q == Pdu(f, "HB", <<>>)
    <3>1. /\ f \in Connections /\ f.wire = c.wire /\ f.listed = c.listed /\ f.state = "UP"
          /\ f.fifo_send = c.fifo_send /\ f.fifo_retr = c.fifo_retr
          /\ f.fifo_app_msg = c.fifo_app_msg /\ f.sn_t = c.sn_t
      BY <1>2, EstablishType DEF Establish, Accept, Connections
    <3> HIDE DEF f
    <3>2. "HB" \in PduTypes /\ <<>> \in Seq(Nat)
      BY DEF PduTypes
    <3>3. /\ e \in Connections /\ e.listed = c.listed /\ e.state = "UP"
          /\ e.fifo_send = c.fifo_send /\ e.fifo_retr = c.fifo_retr
          /\ e.fifo_app_msg = c.fifo_app_msg
      BY <3>1, <3>2, SendNumberedFields
    <3>4. q \in Pdus /\ q.type = "HB" /\ q.msgs = <<>> /\ q.sn = c.sn_t
      BY <3>1, <3>2, PduType DEF Pdu
    <3>5. e = [f EXCEPT !.sn_t = Plus(f.sn_t, 1),
                        !.wire = IF f.channel THEN Append(f.wire, q) ELSE f.wire]
      BY <3>1, <3>2, SendNumberedIs
    <3>6. Taken(n, e)
      BY <2>1 DEF f
    <3> HIDE DEF e, q
    <3>7. e.wire \in {c.wire, Append(c.wire, q)}
      BY <3>1, <3>5 DEF Connections
    <3>8. Quietly(c, e) /\ AddsNoRequest(c, e)
      BY <1>2, <3>3, <3>4, <3>7, SendsQuietly
    <3>9. Establishes(c, e)
      BY <2>1, <3>3, <3>8 DEF Establishes
    <3>10. Does(e)
      BY <3>3, <3>6, <3>8, <3>9 DEF Heard
    <3>11. QED
      BY <3>10
  <2>2. QED
    BY <1>6, <1>7, <1>13, <2>1 DEF HandleConResp, c, p
<1>14. CASE HandleDiscReq(n)
  <2> DEFINE e == [Reset(c) EXCEPT !.channel = FALSE]
  <2>1. /\ e \in Connections /\ e.wire = c.wire /\ e.listed = c.listed
        /\ e.state = "CLOSED" /\ e.fifo_send = c.fifo_send /\ e.fifo_retr = c.fifo_retr
        /\ e.fifo_app_msg = c.fifo_app_msg
    BY <1>2 DEF Reset, Connections, States
  <2>2. Taken(n, e)
    BY <1>14 DEF HandleDiscReq, c
  <2> HIDE DEF e
  <2>3. QED
    BY <1>9, <2>1, <2>2
<1>15. CASE HbCompletesHandshake(n)
  <2> DEFINE c1 == IF SnInSeq(c, p) THEN c ELSE Close(c)
             c2 == IF n = "client" THEN Close(c1) ELSE c1
             disc == Pdu(c, "DISCREQ", <<>>)
             Like(x) == /\ x \in Connections /\ x.listed = c.listed
                        /\ x.fifo_send = c.fifo_send /\ x.fifo_retr = c.fifo_retr
                        /\ x.fifo_app_msg = c.fifo_app_msg
                        /\ \/ x = c
                           \/ ~x.channel /\ x.wire = Close(c).wire
  <2>1. c.state = "START"
    BY <1>15 DEF HbCompletesHandshake, c
  <2>2. ASSUME NEW x, Like(x)
        PROVE  Like(Close(x)) /\ Close(x).state = "CLOSED"
    <3>1. /\ Close(x) \in Connections /\ Close(x).listed = x.listed
          /\ Close(x).fifo_send = x.fifo_send /\ Close(x).fifo_retr = x.fifo_retr
          /\ Close(x).fifo_app_msg = x.fifo_app_msg /\ ~Close(x).channel
          /\ Close(x).state = "CLOSED"
      BY <2>2, CloseFields
    <3>2. ~x.channel => Close(x).wire = x.wire
      <4> DEFINE y == Close(x)
      <4>1. y = [x EXCEPT !.state = "CLOSED", !.hb_locked = TRUE, !.channel = FALSE,
                          !.wire = IF x.channel /\ x.state # "CLOSED"
                                   THEN Append(x.wire, Pdu(x, "DISCREQ", <<>>)) ELSE x.wire]
        BY <2>2, CloseIs
      <4> HIDE DEF y
      <4>2. ~x.channel => y.wire = x.wire
        BY <2>2, <4>1 DEF Connections
      <4>3. QED
        BY <4>2 DEF y
    <3>3. QED
      BY <2>2, <3>1, <3>2
  <2>3. Like(c)
    BY <1>2
  <2>4. ASSUME NEW x, Like(x)
        PROVE  Quietly(c, x) /\ AddsNoRequest(c, x)
    BY <1>2, <2>4, StillQuiet, ClosingIsQuiet
  <2>5. ASSUME NEW x, Like(x)
        PROVE  /\ Establish(x, p) \in Connections /\ Establish(x, p).state = "UP"
               /\ Establish(x, p).listed = x.listed /\ Establish(x, p).wire = x.wire
               /\ Establish(x, p).fifo_send = x.fifo_send
               /\ Establish(x, p).fifo_retr = x.fifo_retr
               /\ Establish(x, p).fifo_app_msg = x.fifo_app_msg
    BY <1>2, <2>5, EstablishType DEF Establish, Accept, Connections
  <2>6. ASSUME NEW x, Like(x), Taken(n, Establish(x, p))
        PROVE  Does(Establish(x, p))
    <3> DEFINE e == Establish(x, p)
    <3>1. /\ e \in Connections /\ e.state = "UP" /\ e.listed = c.listed /\ Taken(n, e)
          /\ e.fifo_send = c.fifo_send /\ e.fifo_retr = c.fifo_retr
          /\ e.fifo_app_msg = c.fifo_app_msg /\ e.wire \in {c.wire, Close(c).wire}
      BY <2>5, <2>6
    <3> HIDE DEF e
    <3>2. Quietly(c, e) /\ AddsNoRequest(c, e)
      BY <1>2, <3>1, StillQuiet, ClosingIsQuiet
    <3>3. Establishes(c, e)
      BY <2>1, <3>1, <3>2 DEF Establishes
    <3>4. Does(e)
      BY <3>1, <3>2, <3>3 DEF Heard
    <3>5. QED
      BY <3>4 DEF e
  <2>7. ASSUME NEW x, Like(x), Taken(n, Close(x))
        PROVE  Does(Close(x))
    <3>1. Like(Close(x)) /\ Close(x).state = "CLOSED"
      BY <2>2, <2>7
    <3>2. Quietly(c, Close(x)) /\ AddsNoRequest(c, Close(x))
      BY <2>4, <3>1
    <3>3. Falls(c, Close(x))
      BY <3>1, <3>2 DEF Falls
    <3>4. QED
      BY <2>7, <3>1, <3>2, <3>3 DEF Heard
  <2> HIDE DEF Like
  <2>8. Like(c2)
    BY <2>2, <2>3
  <2>9. Taken(n, Establish(c2, p)) \/ Taken(n, Close(c2))
    BY <1>15 DEF HbCompletesHandshake, c, p
  <2> HIDE DEF c2, Does
  <2>10. QED
    BY <2>6, <2>7, <2>8, <2>9
<1>16. CASE HbInSequence(n)
  <2> DEFINE e == [Accept(c, p) EXCEPT !.cs_r = Minus(c.sn_t, 1), !.state = "UP"]
  <2>1. /\ p.type = "HB" /\ c.listed /\ c.state \in {"UP", "RETRRUN"}
        /\ Taken(n, e) \/ Taken(n, Close(c))
    BY <1>16 DEF HbInSequence, Receives, c, p
  <2>2. /\ e \in Connections /\ e.wire = c.wire /\ e.listed = c.listed /\ e.state = "UP"
        /\ e.fifo_send = c.fifo_send /\ e.fifo_retr = c.fifo_retr /\ e.cs_t = p.sn
        /\ e.fifo_app_msg = c.fifo_app_msg
    BY <1>2, <1>5 DEF Accept, Connections, States
  <2> HIDE DEF e
  <2>3. CASE Taken(n, e)
    <3>1. Does(e)
      BY <1>9, <2>1, <2>2, <2>3
    <3>2. QED
      BY <3>1
  <2>4. QED
    BY <1>7, <2>1, <2>3
<1>17. CASE HbAfterGap(n)
  <2> DEFINE e == [c EXCEPT !.state = "RETRREQ"]
  <2>1. Taken(n, e)
    BY <1>17 DEF HbAfterGap, c
  <2>2. /\ e \in Connections /\ e.wire = c.wire /\ e.listed = c.listed /\ e.state = "RETRREQ"
        /\ e.fifo_send = c.fifo_send /\ e.fifo_retr = c.fifo_retr
        /\ e.fifo_app_msg = c.fifo_app_msg
    BY <1>2 DEF Connections, States
  <2> HIDE DEF e
  <2>3. Does(e)
    BY <1>9, <2>1, <2>2
  <2>4. QED
    BY <2>3
<1>18. CASE DataInSequence(n)
  <2> DEFINE f == [d EXCEPT !.cs_r = p.cs]
             e == RemoveConfirmed(f)
  <2>1. /\ p.type = "DATA" /\ c.listed /\ c.state \in {"UP", "RETRRUN"}
        /\ Taken(n, Close(c)) \/ Taken(n, e) \/ Taken(n, Accept(c, p))
    BY <1>18 DEF DataInSequence, Receives, c, p, d
  <2>2. /\ f \in Connections /\ f.wire = c.wire /\ f.listed = c.listed /\ f.state = c.state
        /\ f.fifo_send = c.fifo_send /\ f.fifo_retr = c.fifo_retr /\ f.cs_t = p.sn
        /\ f.fifo_app_msg = c.fifo_app_msg \o p.msgs
    BY <1>5, <1>11 DEF Connections
  <2> HIDE DEF f
  <2>3. PICK h \in 0..Len(f.fifo_retr) :
          e = [f EXCEPT !.fifo_retr = SubSeq(f.fifo_retr, h + 1, Len(f.fifo_retr))]
    BY <2>2, RemoveConfirmedIsSuffix
  <2>4. e \in Connections
    BY <2>2, RemoveConfirmedType
  <2> HIDE DEF e
  <2>5. /\ e.wire = c.wire /\ e.listed = c.listed /\ e.state = c.state
        /\ e.fifo_send = c.fifo_send /\ e.cs_t = p.sn
        /\ e.fifo_app_msg = c.fifo_app_msg \o p.msgs
        /\ e.fifo_retr = SubSeq(c.fifo_retr, h + 1, Len(c.fifo_retr))
    BY <2>2, <2>3 DEF Connections
  <2>6. CASE Taken(n, e)
    <3>1. Quietly(c, e)
      BY <2>2, <2>5 DEF Quietly
    <3>2. AddsNoRequest(c, e)
      BY <1>2, <2>5, MessagesType, SameAdds DEF AddsNoRequest
    <3>3. Accepts(c, p, e)
      BY <2>1, <2>5, <3>2 DEF Accepts
    <3>4. Does(e)
      BY <2>4, <2>6, <3>1, <3>3 DEF Heard
    <3>5. QED
      BY <3>4
  <2>7. CASE Taken(n, Accept(c, p))
    <3>1. Does(Accept(c, p))
      BY <1>5, <1>9, <1>10, <2>1, <2>7
    <3>2. QED
      BY <3>1
  <2>8. QED
    BY <1>7, <2>1, <2>6, <2>7
<1>19. CASE DataAfterGap(n) \/ RetrDataAfterGap(n)
  <2>1. /\ c.listed /\ c.state \in {"UP", "RETRRUN"}
        /\ Taken(n, AskAgain(c)) \/ Taken(n, Close(c))
    BY <1>19 DEF DataAfterGap, RetrDataAfterGap, Receives, c, p
  <2>2. QED
    BY <1>7, <1>8, <2>1
<1>20. CASE DataBeforeHandshake(n)
  <2>1. Taken(n, Close(c))
    BY <1>20 DEF DataBeforeHandshake, c
  <2>2. QED
    BY <1>7, <2>1
<1>21. CASE HandleRetrReq(n)
  <2>1. PICK e \in RetrReqAnswers(c, p, SnInSeq(c, p)) : Taken(n, e)
    BY <1>21 DEF HandleRetrReq, RetrReqAnswers, c, p
  <2>2. p.type = "RETRREQ" /\ c.listed /\ c.state # "CRASHED"
    BY <1>21 DEF HandleRetrReq, Receives, c, p
  <2>3. SnInSeq(c, p) \in BOOLEAN
    BY DEF SnInSeq
  <2>4. e \in Connections /\ Heard(c, p, e) /\ Repeats(c, p, e)
    BY <1>2, <1>3, <2>1, <2>2, <2>3, RepeatingIsHeard
  <2>5. QED
    BY <2>1, <2>4
<1>22. CASE HandleRetrResp(n)
  <2> DEFINE e == [Accept(c, p) EXCEPT !.cs_r = Minus(c.sn_t, 1), !.state = "RETRRUN"]
  <2>1. p.type = "RETRRESP" /\ Taken(n, IF c.state = "RETRREQ" THEN e ELSE Close(c))
    BY <1>22 DEF HandleRetrResp, Receives, c, p
  <2>2. /\ e \in Connections /\ e.wire = c.wire /\ e.listed = c.listed /\ e.state = "RETRRUN"
        /\ e.fifo_send = c.fifo_send /\ e.fifo_retr = c.fifo_retr /\ e.cs_t = p.sn
        /\ e.fifo_app_msg = c.fifo_app_msg
    BY <1>2, <1>5 DEF Accept, Connections, States
  <2> HIDE DEF e
  <2>3. CASE c.state = "RETRREQ" /\ Taken(n, e)
    <3>1. Does(e)
      BY <1>9, <2>1, <2>2, <2>3
    <3>2. QED
      BY <3>1
  <2>4. QED
    BY <1>7, <2>1, <2>3
<1>23. CASE RetrDataInSequence(n)
  <2> DEFINE e == [d EXCEPT !.cs_r = p.cs]
  <2>1. /\ p.type = "RETRDATA" /\ c.listed /\ c.state \in {"UP", "RETRRUN"}
        /\ Taken(n, Close(c)) \/ Taken(n, e)
    BY <1>23 DEF RetrDataInSequence, Receives, c, p, d
  <2>2. /\ e \in Connections /\ e.wire = c.wire /\ e.listed = c.listed /\ e.state = c.state
        /\ e.fifo_send = c.fifo_send /\ e.fifo_retr = c.fifo_retr /\ e.cs_t = p.sn
        /\ e.fifo_app_msg = c.fifo_app_msg \o p.msgs
    BY <1>5, <1>11 DEF Connections
  <2> HIDE DEF e
  <2>3. CASE Taken(n, e)
    <3>1. Does(e)
      BY <1>9, <2>1, <2>2, <2>3
    <3>2. QED
      BY <3>1
  <2>4. QED
    BY <1>7, <2>1, <2>3
<1>24. QED
  BY <1>12, <1>13, <1>14, <1>15, <1>16, <1>17, <1>18, <1>19, <1>20, <1>21, <1>22, <1>23
     DEF Handle

-------------------------------------------------------------------------------
(* The steps keep the invariant, and give the users what Delivery lets them. *)

LEMMA BothDirections ==
  ASSUME NEW n \in Nodes,
         Sender(node'[n], sent'[n]), Sender(node'[Peer(n)], sent'[Peer(n)]),
         Link(node'[Peer(n)], node'[n], sent'[Peer(n)]),
         Link(node'[n], node'[Peer(n)], sent'[n])
  PROVE  DeliveryInv'
<1>1. ASSUME NEW m \in Nodes
      PROVE  (m = n \/ m = Peer(n)) /\ Peer(Peer(n)) = n
  BY DEF Nodes, Peer
<1>2. ASSUME NEW m \in Nodes
      PROVE  Sender(node'[m], sent'[m]) /\ Link(node'[Peer(m)], node'[m], sent'[Peer(m)])
  <2>1. CASE m = n
    BY <2>1
  <2>2. CASE m = Peer(n)
    BY <1>1, <2>2
  <2>3. QED
    BY <1>1, <2>1, <2>2
<1>3. QED
  BY <1>2 DEF DeliveryInv

\* Only n's user is given anything, and it is given it after what it has.
Gives(n) ==
    /\ UNCHANGED sent
    /\ node'[Peer(n)].fifo_app_msg = node[Peer(n)].fifo_app_msg
    /\ \/ node'[n].fifo_app_msg = node[n].fifo_app_msg
       \/ \E more \in Seq(Nat) : node'[n].fifo_app_msg = node[n].fifo_app_msg \o more

LEMMA HandlersDeliver ==
  ASSUME TypeOK, DeliveryInv, NumbersFresh, Leftovers \subseteq {<<>>},
         NEW n \in Nodes, Handle(n)
  PROVE  DeliveryInv' /\ Gives(n)
<1> DEFINE d == Peer(n)
           c == node[n]
           s == node[d]
           t == [s EXCEPT !.wire = Tail(s.wire)]
           p == Head(s.wire)
           k == sent[d]
           l == sent[n]
<1>1. d \in Nodes /\ d # n /\ Peer(d) = n
  BY PeerIsNode
<1>2. /\ c \in Connections /\ s \in Connections /\ k \in Nat /\ l \in Nat
  BY <1>1 DEF TypeOK
<1>3. Sender(c, l) /\ Sender(s, k) /\ Link(s, c, k) /\ Link(c, s, l)
  BY <1>1 DEF DeliveryInv
<1>4. Len(c.fifo_retr) <= RetrCapacity
  BY <1>3 DEF Sender
<1>5. NumberFresh(c)
  BY DEF NumbersFresh, NumberFresh
<1>6. PICK e \in Connections :
        /\ Taken(n, e) /\ Heard(c, p, e)
        /\ Quietly(c, e) \/ Repeats(c, p, e)
  BY <1>4, HandlersHear DEF Wire
<1>7. s.wire # <<>>
  BY <1>4, HandlersHear DEF Wire
<1>8. node'[n] = e /\ node'[d] = t /\ sent' = sent
  BY <1>1, <1>6 DEF Taken
<1> HIDE DEF c, s, p, d, k, l
<1>9. /\ t \in Connections /\ t.wire = Tail(s.wire) /\ t.fifo_send = s.fifo_send
      /\ t.fifo_retr = s.fifo_retr /\ t.fifo_app_msg = s.fifo_app_msg
  <2>1. s.wire \in Seq(Pdus) /\ Tail(s.wire) \in Seq(Pdus)
    BY <1>2, <1>7, MessagesType
  <2>2. QED
    BY <1>2, <2>1 DEF Connections
<1>10. Sender(t, k) /\ Link(t, c, k)
  BY <1>2, <1>3, <1>7, <1>9, PopSender
<1>11. Link(t, e, k)
  <2>1. CASE Falls(c, e)
    BY <1>2, <1>9, <1>10, <2>1, FallsKeepsLink
  <2>2. CASE Establishes(c, e)
    BY <1>2, <1>9, <1>10, <2>2, EstablishesKeepsLink
  <2>3. CASE Asks(c, e)
    BY <1>2, <1>9, <1>10, <2>3, AsksKeepsLink
  <2>4. CASE Accepts(c, p, e)
    BY <1>2, <1>3, <1>7, <1>9, <2>4, AcceptsKeepsLink DEF p
  <2>5. CASE Resumes(c, p, e)
    BY <1>2, <1>3, <1>7, <1>9, <2>5, ResumesKeepsLink DEF p
  <2>6. QED
    BY <1>6, <2>1, <2>2, <2>3, <2>4, <2>5 DEF Heard
<1>12. Sender(e, l) /\ Link(e, t, l)
  <2>1. CASE Quietly(c, e)
    <3>1. Link(c, t, l)
      BY <1>2, <1>3, <1>7, <1>9, PopReceiver
    <3>2. QED
      BY <1>2, <1>3, <1>5, <1>9, <2>1, <3>1, QuietlyKeepsLink
  <2>2. CASE Repeats(c, p, e)
    BY <1>2, <1>3, <1>7, <1>9, <2>2, RepeatsKeepsLink DEF p
  <2>3. QED
    BY <1>6, <2>1, <2>2
<1>13. DeliveryInv'
  BY <1>8, <1>10, <1>11, <1>12, BothDirections DEF d, k, l
<1>14. \/ e.fifo_app_msg = c.fifo_app_msg
       \/ \E more \in Seq(Nat) : e.fifo_app_msg = c.fifo_app_msg \o more
  <2>1. p.msgs \in Seq(Nat)
    <3>1. s.wire \in Seq(Pdus)
      BY <1>2, MessagesType
    <3>2. p \in Pdus
      BY <1>7, <3>1 DEF p
    <3>3. QED
      BY <3>2 DEF Pdus
  <2>2. QED
    BY <1>6, <2>1 DEF Heard, Falls, Accepts, Establishes, Resumes, Asks
<1>15. Gives(n)
  BY <1>8, <1>9, <1>14 DEF Gives, c, d, s
<1>16. QED
  BY <1>13, <1>15

\* A step of one side's threads or user, which is not given anything.
LEMMA OwnStepsDeliver ==
  ASSUME TypeOK, DeliveryInv, NumbersFresh, NEW n \in Nodes, NEW e \in Connections,
         Becomes(n, e), UNCHANGED sent, Falls(node[n], e), Quietly(node[n], e)
  PROVE  DeliveryInv' /\ Gives(n)
<1> DEFINE d == Peer(n)
           c == node[n]
           s == node[d]
<1>1. d \in Nodes /\ d # n /\ Peer(d) = n
  BY PeerIsNode
<1>2. c \in Connections /\ s \in Connections /\ sent[n] \in Nat /\ sent[d] \in Nat
  BY <1>1 DEF TypeOK
<1>3. Sender(c, sent[n]) /\ Sender(s, sent[d]) /\ Link(s, c, sent[d]) /\ Link(c, s, sent[n])
  BY <1>1 DEF DeliveryInv
<1>4. NumberFresh(c)
  BY DEF NumbersFresh, NumberFresh
<1>5. node'[n] = e /\ node'[d] = s
  BY <1>1 DEF Becomes, TypeOK
<1>6. e.fifo_app_msg = c.fifo_app_msg
  BY DEF Falls
<1>7. Falls(c, e) /\ Quietly(c, e)
  OBVIOUS
<1> HIDE DEF c, s
<1>8. Link(s, e, sent[d])
  BY <1>2, <1>3, <1>7, FallsKeepsLink
<1>9. Sender(e, sent[n]) /\ Link(e, s, sent[n])
  BY <1>2, <1>3, <1>4, <1>7, QuietlyKeepsLink
<1>10. DeliveryInv'
  BY <1>3, <1>5, <1>8, <1>9, BothDirections
<1>11. Gives(n)
  BY <1>5, <1>6 DEF Gives, c, s
<1>12. QED
  BY <1>10, <1>11

\* A connection begins, with a ConReq or a ConResp on its wire.
Begins(c, e) ==
    /\ ~c.listed /\ c.fifo_send = <<>> /\ c.fifo_retr = <<>>
    /\ e.state = "START" /\ e.fifo_app_msg = <<>>
    /\ e.fifo_send = <<>> /\ e.fifo_retr = <<>>
    /\ \E q \in Pdus : /\ q.type \in {"CONREQ", "CONRESP"} /\ q.msgs = <<>>
                       /\ e.wire = Append(c.wire, q)

LEMMA BeginningKeepsLinks ==
  ASSUME NEW s \in Connections, NEW c \in Connections, NEW e \in Connections,
         NEW k \in Nat, NEW l \in Nat,
         Sender(c, l), Link(s, c, k), Link(c, s, l), Begins(c, e)
  PROVE  Link(s, e, k) /\ Sender(e, l) /\ Link(e, s, l) /\ c.fifo_app_msg = <<>>
<1>1. PICK q \in Pdus : /\ q.type \in {"CONREQ", "CONRESP"} /\ q.msgs = <<>>
                        /\ e.wire = Append(c.wire, q)
  BY DEF Begins
<1>2. AddsNoRequest(c, e)
  <2>1. Adds(c.wire, e.wire, {q.type})
    BY <1>1, MessagesType, AppendAdds
  <2>2. Adds(c.wire, e.wire, PduTypes \ {"RETRREQ"})
    BY <1>1, <2>1, AddsFewer DEF PduTypes
  <2>3. QED
    BY <2>2 DEF AddsNoRequest
<1>3. Link(s, e, k)
  <2>1. Joins(c, e)
    BY <1>2 DEF Begins, Joins
  <2>2. QED
    BY <2>1, JoinsKeepsLink
<1>4. Sender(e, l) /\ Link(e, s, l)
  <2>1. c.fifo_retr = <<>> /\ e.fifo_retr = c.fifo_retr /\ e.fifo_send = c.fifo_send
    BY DEF Begins
  <2>2. \A i \in 1..Len(c.fifo_retr) : c.fifo_retr[i].sn # q.sn
    BY <2>1
  <2>3. QED
    BY <1>1, <2>1, <2>2, Announce
<1>5. c.fifo_app_msg = <<>>
  BY DEF Link, Begins
<1>6. QED
  BY <1>3, <1>4, <1>5

LEMMA ConnectDelivers ==
  ASSUME TypeOK, HandshakeInv, DeliveryInv, Connect
  PROVE  DeliveryInv' /\ Gives("client")
<1> DEFINE c == node["client"]
           s == node["server"]
<1>1. /\ "client" \in Nodes /\ "server" \in Nodes /\ Peer("client") = "server"
      /\ c \in Connections /\ s \in Connections
      /\ sent["client"] \in Nat /\ sent["server"] \in Nat
  BY DEF Nodes, Peer, TypeOK
<1>2. /\ Sender(c, sent["client"]) /\ Sender(s, sent["server"])
      /\ Link(s, c, sent["server"]) /\ Link(c, s, sent["client"])
  BY DEF DeliveryInv, Nodes, Peer
<1>3. c = Unconnected
  BY DEF HandshakeInv, UnlistedInv, Connect
<1> HIDE DEF c, s
<1> DEFINE new(sn_r, cs_r) == [Unconnected EXCEPT !.sn_t = InitialSn["client"],
                                  !.sn_r = sn_r, !.cs_r = cs_r, !.channel = TRUE]
<1>4. PICK sn_r \in Unset, cs_r \in Unset :
        Becomes("client",
          [SendNumbered(new(sn_r, cs_r), "CONREQ") EXCEPT !.state = "START"])
  BY DEF Connect
<1> DEFINE b == new(sn_r, cs_r)
           d == SendNumbered(b, "CONREQ")
           e == [d EXCEPT !.state = "START"]
           q == Pdu(b, "CONREQ", <<>>)
<1>5. b \in Connections
  <2>1. sn_r \in SequenceNumbers /\ cs_r \in SequenceNumbers
    BY RastaConnectionAssumption
  <2>2. InitialSn["client"] \in SequenceNumbers
    BY RastaConnectionAssumption, <1>1
  <2>3. QED
    BY <2>1, <2>2, UnconnectedType DEF Connections
<1>6. /\ b.wire = <<>> /\ b.channel
      /\ b.fifo_send = <<>> /\ b.fifo_retr = <<>> /\ b.fifo_app_msg = <<>>
  BY DEF Unconnected
<1> HIDE DEF b
<1>7. "CONREQ" \in PduTypes /\ "START" \in States /\ <<>> \in Seq(Nat)
  BY DEF PduTypes, States
<1>8. q \in Pdus /\ q.type = "CONREQ" /\ q.msgs = <<>>
  BY <1>5, <1>7, PduType DEF Pdu
<1>9. d = [b EXCEPT !.sn_t = Plus(b.sn_t, 1),
                    !.wire = IF b.channel THEN Append(b.wire, q) ELSE b.wire]
  BY <1>5, <1>7, SendNumberedIs
<1>10. d \in Connections
  BY <1>5, <1>7, SendNumberedType
<1> HIDE DEF d, q
<1>11. /\ e \in Connections /\ e.state = "START" /\ e.wire = Append(<<>>, q)
       /\ e.fifo_send = <<>> /\ e.fifo_retr = <<>> /\ e.fifo_app_msg = <<>>
  BY <1>5, <1>6, <1>7, <1>9, <1>10 DEF Connections
<1>12. Becomes("client", e)
  BY <1>4 DEF d, b
<1> HIDE DEF e
<1>13. Begins(c, e)
  <2>1. ~c.listed /\ c.fifo_send = <<>> /\ c.fifo_retr = <<>> /\ c.wire = <<>>
    BY <1>3 DEF Unconnected
  <2>2. QED
    BY <1>8, <1>11, <2>1 DEF Begins
<1>14. /\ Link(s, e, sent["server"]) /\ Sender(e, sent["client"])
       /\ Link(e, s, sent["client"]) /\ c.fifo_app_msg = <<>>
  BY <1>1, <1>2, <1>11, <1>13, BeginningKeepsLinks
<1>15. node'["client"] = e /\ node'["server"] = s /\ sent' = sent
  BY <1>12 DEF Becomes, TypeOK, Nodes, Connect, s
<1>16. DeliveryInv'
  BY <1>1, <1>2, <1>14, <1>15, BothDirections
<1>17. Gives("client")
  BY <1>1, <1>11, <1>14, <1>15 DEF Gives, c, s
<1>18. QED
  BY <1>16, <1>17

LEMMA AddConnectionDelivers ==
  ASSUME TypeOK, DeliveryInv, NumbersFresh, AddConnection
  PROVE  DeliveryInv' /\ Gives("client")
<1> DEFINE c == node["client"]
           s == node["server"]
           e == [c EXCEPT !.listed = TRUE]
<1>1. /\ "client" \in Nodes /\ "server" \in Nodes /\ Peer("client") = "server"
      /\ c \in Connections /\ s \in Connections
      /\ sent["client"] \in Nat /\ sent["server"] \in Nat
  BY DEF Nodes, Peer, TypeOK
<1>2. /\ Sender(c, sent["client"]) /\ Sender(s, sent["server"])
      /\ Link(s, c, sent["server"]) /\ Link(c, s, sent["client"]) /\ NumberFresh(c)
  BY DEF DeliveryInv, Nodes, Peer, NumbersFresh, NumberFresh
<1>3. node'["client"] = e /\ node'["server"] = s /\ sent' = sent
  BY DEF Becomes, TypeOK, Nodes, AddConnection
<1>4. c.state = "START" /\ ~c.listed
  BY DEF AddConnection
<1> HIDE DEF c, s
<1>5. /\ e \in Connections /\ e.wire = c.wire /\ e.fifo_send = c.fifo_send
      /\ e.fifo_retr = c.fifo_retr /\ e.fifo_app_msg = c.fifo_app_msg /\ e.state = c.state
  BY <1>1 DEF Connections
<1> HIDE DEF e
<1>6. Quietly(c, e) /\ AddsNoRequest(c, e)
  BY <1>1, <1>5, StillQuiet
<1>7. Joins(c, e)
  BY <1>2, <1>4, <1>5, <1>6 DEF Joins, Link
<1>8. Link(s, e, sent["server"])
  BY <1>1, <1>2, <1>5, <1>7, JoinsKeepsLink
<1>9. Sender(e, sent["client"]) /\ Link(e, s, sent["client"])
  BY <1>1, <1>2, <1>5, <1>6, QuietlyKeepsLink
<1>10. DeliveryInv'
  BY <1>1, <1>2, <1>3, <1>8, <1>9, BothDirections
<1>11. Gives("client")
  BY <1>1, <1>3, <1>5 DEF Gives, c, s
<1>12. QED
  BY <1>10, <1>11

LEMMA HandleConReqDelivers ==
  ASSUME TypeOK, HandshakeInv, DeliveryInv, HandleConReq
  PROVE  DeliveryInv' /\ Gives("server")
<1> DEFINE c == node["server"]
           s == node["client"]
           t == [s EXCEPT !.wire = Tail(s.wire)]
           p == Head(s.wire)
           f == NewServer(p)
           e == SendNumbered(f, "CONRESP")
           q == Pdu(f, "CONRESP", <<>>)
           k == sent["client"]
           l == sent["server"]
<1>1. /\ "client" \in Nodes /\ "server" \in Nodes /\ Peer("server") = "client"
      /\ c \in Connections /\ s \in Connections /\ k \in Nat /\ l \in Nat
  BY DEF Nodes, Peer, TypeOK
<1>2. Sender(c, l) /\ Sender(s, k) /\ Link(s, c, k) /\ Link(c, s, l)
  BY DEF DeliveryInv, Nodes, Peer
<1>3. s.wire # <<>> /\ p.type = "CONREQ" /\ Taken("server", e)
  BY <1>1 DEF HandleConReq, Wire
<1>4. s.wire \in Seq(Pdus) /\ p \in Pdus /\ 1 \in 1..Len(s.wire) /\ p = s.wire[1]
  <2>1. s.wire \in Seq(Pdus)
    BY <1>1, MessagesType
  <2>2. QED
    BY <1>3, <2>1
<1>5. c = Unconnected
  BY <1>3, <1>4 DEF HandshakeInv, RequestInv, UnlistedInv
<1>6. node'["server"] = e /\ node'["client"] = t /\ sent' = sent
  BY <1>3 DEF Taken, Nodes
<1> HIDE DEF c, s, p, k, l
<1>7. /\ t \in Connections /\ t.wire = Tail(s.wire) /\ t.fifo_send = s.fifo_send
      /\ t.fifo_retr = s.fifo_retr /\ t.fifo_app_msg = s.fifo_app_msg
  <2>1. Tail(s.wire) \in Seq(Pdus)
    BY <1>3, <1>4
  <2>2. QED
    BY <1>1, <2>1 DEF Connections
<1>8. Sender(t, k) /\ Link(t, c, k)
  BY <1>1, <1>2, <1>3, <1>7, PopSender
<1>9. Link(c, t, l)
  BY <1>1, <1>2, <1>3, <1>7, PopReceiver
<1>10. /\ f \in Connections /\ f.wire = <<>> /\ f.channel /\ f.state = "START"
       /\ f.fifo_send = <<>> /\ f.fifo_retr = <<>> /\ f.fifo_app_msg = <<>>
  BY <1>4, NewServerType DEF NewServer, Accept, Unconnected
<1> HIDE DEF f
<1>11. "CONRESP" \in PduTypes /\ <<>> \in Seq(Nat)
  BY DEF PduTypes
<1>12. q \in Pdus /\ q.type = "CONRESP" /\ q.msgs = <<>>
  BY <1>10, <1>11, PduType DEF Pdu
<1>13. e = [f EXCEPT !.sn_t = Plus(f.sn_t, 1),
                     !.wire = IF f.channel THEN Append(f.wire, q) ELSE f.wire]
  BY <1>10, <1>11, SendNumberedIs
<1>14. e \in Connections
  BY <1>10, <1>11, SendNumberedType
<1> HIDE DEF e, q, t
<1>15. /\ e.state = "START" /\ e.wire = Append(<<>>, q)
       /\ e.fifo_send = <<>> /\ e.fifo_retr = <<>> /\ e.fifo_app_msg = <<>>
  BY <1>10, <1>13 DEF Connections
<1>16. Begins(c, e)
  <2>1. ~c.listed /\ c.fifo_send = <<>> /\ c.fifo_retr = <<>> /\ c.wire = <<>>
    BY <1>5 DEF Unconnected
  <2>2. QED
    BY <1>12, <1>15, <2>1 DEF Begins
<1>17. Link(t, e, k) /\ Sender(e, l) /\ Link(e, t, l) /\ c.fifo_app_msg = <<>>
  BY <1>1, <1>2, <1>7, <1>8, <1>9, <1>14, <1>16, BeginningKeepsLinks
<1>18. DeliveryInv'
  BY <1>1, <1>6, <1>8, <1>17, BothDirections DEF k, l
<1>19. Gives("server")
  BY <1>1, <1>6, <1>7, <1>15, <1>17 DEF Gives, c, s
<1>20. QED
  BY <1>18, <1>19

LEMMA LosingDelivers ==
  ASSUME TypeOK, DeliveryInv, NEW n \in Nodes, Lose(n)
  PROVE  DeliveryInv' /\ Gives(n)
<1> DEFINE d == Peer(n)
           c == node[n]
           s == node[d]
           t == [s EXCEPT !.wire = Tail(s.wire)]
<1>1. d \in Nodes /\ d # n /\ Peer(d) = n
  BY PeerIsNode
<1>2. /\ c \in Connections /\ s \in Connections /\ sent[n] \in Nat /\ sent[d] \in Nat
      /\ s.wire # <<>>
  BY <1>1 DEF TypeOK, Lose, Wire
<1>3. Sender(c, sent[n]) /\ Sender(s, sent[d]) /\ Link(s, c, sent[d]) /\ Link(c, s, sent[n])
  BY <1>1 DEF DeliveryInv
<1>4. node'[n] = c /\ node'[d] = t /\ sent' = sent
  BY <1>1 DEF Lose, TypeOK
<1> HIDE DEF c, s
<1>5. /\ t \in Connections /\ t.wire = Tail(s.wire) /\ t.fifo_send = s.fifo_send
      /\ t.fifo_retr = s.fifo_retr /\ t.fifo_app_msg = s.fifo_app_msg
  <2>1. s.wire \in Seq(Pdus) /\ Tail(s.wire) \in Seq(Pdus)
    BY <1>2, MessagesType
  <2>2. QED
    BY <1>2, <2>1 DEF Connections
<1>6. Sender(t, sent[d]) /\ Link(t, c, sent[d])
  BY <1>2, <1>3, <1>5, PopSender
<1>7. Link(c, t, sent[n])
  BY <1>2, <1>3, <1>5, PopReceiver
<1>8. DeliveryInv'
  BY <1>3, <1>4, <1>6, <1>7, BothDirections
<1>9. Gives(n)
  BY <1>4, <1>5 DEF Gives, c, s
<1>10. QED
  BY <1>8, <1>9

LEMMA ThreadsDeliver ==
  ASSUME TypeOK, DeliveryInv, NumbersFresh, NEW n \in Nodes,
         SrDisconnect(n) \/ Heartbeat(n) \/ TiExpires(n)
  PROVE  DeliveryInv' /\ Gives(n)
<1> DEFINE c == node[n]
<1>1. c \in Connections /\ "HB" \in PduTypes
  BY DEF TypeOK, PduTypes
<1> HIDE DEF c
<1>2. SUFFICES \E e \in Connections :
                 Becomes(n, e) /\ UNCHANGED sent /\ Falls(c, e) /\ Quietly(c, e)
  BY OwnStepsDeliver DEF c
<1>3. CASE Becomes(n, Close(c))
  <2>1. UNCHANGED sent
    BY DEF SrDisconnect, Heartbeat, TiExpires
  <2>2. QED
    BY <1>1, <1>3, <2>1, CloseIsHeard
<1>4. CASE Becomes(n, SendNumbered(Close(c), "HB"))
  <2> DEFINE d == Close(c)
             e == SendNumbered(d, "HB")
  <2>1. /\ d \in Connections /\ d.state = "CLOSED" /\ ~d.channel /\ d.listed = c.listed
        /\ d.fifo_send = c.fifo_send /\ d.fifo_retr = c.fifo_retr
        /\ d.fifo_app_msg = c.fifo_app_msg
    BY <1>1, CloseFields
  <2>2. e = [d EXCEPT !.sn_t = Plus(d.sn_t, 1),
                      !.wire = IF d.channel THEN Append(d.wire, Pdu(d, "HB", <<>>))
                               ELSE d.wire]
    BY <1>1, <2>1, SendNumberedIs
  <2>3. e \in Connections
    BY <1>1, <2>1, SendNumberedType
  <2>4. Becomes(n, e) /\ UNCHANGED sent /\ d.wire = Close(c).wire
    BY <1>4 DEF SrDisconnect, Heartbeat, TiExpires
  <2> HIDE DEF d, e
  <2>5. /\ e.state = "CLOSED" /\ e.listed = c.listed /\ e.wire = Close(c).wire
        /\ e.fifo_send = c.fifo_send /\ e.fifo_retr = c.fifo_retr
        /\ e.fifo_app_msg = c.fifo_app_msg
    BY <2>1, <2>2, <2>4 DEF Connections
  <2>6. Quietly(c, e) /\ AddsNoRequest(c, e)
    BY <1>1, <2>3, <2>5, ClosingIsQuiet
  <2>7. Falls(c, e)
    BY <2>5, <2>6 DEF Falls
  <2>8. QED
    BY <2>3, <2>4, <2>6, <2>7
<1>5. CASE Becomes(n, SendNumbered(c, "HB"))
  <2> DEFINE e == SendNumbered(c, "HB")
  <2>1. /\ e \in Connections /\ e.state = c.state /\ e.listed = c.listed /\ e.cs_t = c.cs_t
        /\ e.fifo_send = c.fifo_send /\ e.fifo_retr = c.fifo_retr
        /\ e.fifo_app_msg = c.fifo_app_msg
    BY <1>1, SendNumberedFields
  <2>2. Quietly(c, e) /\ AddsNoRequest(c, e)
    BY <1>1, <2>1, NumberedIsQuiet
  <2>3. Becomes(n, e) /\ UNCHANGED sent
    BY <1>5 DEF SrDisconnect, Heartbeat, TiExpires
  <2> HIDE DEF e
  <2>4. Falls(c, e)
    BY <2>1, <2>2 DEF Falls
  <2>5. QED
    BY <2>1, <2>2, <2>3, <2>4
<1>6. QED
  BY <1>3, <1>4, <1>5 DEF SrDisconnect, Heartbeat, TiExpires, c

\* sr_send takes a message, or closes the connection.
LEMMA SrSendDelivers ==
  ASSUME TypeOK, DeliveryInv, NumbersFresh, NEW n \in Nodes, SrSend(n)
  PROVE  /\ DeliveryInv'
         /\ \/ Gives(n)
            \/ /\ sent' = [sent EXCEPT ![n] = sent[n] + 1]
               /\ \A m \in Nodes : node'[m].fifo_app_msg = node[m].fifo_app_msg
<1> DEFINE d == Peer(n)
           c == node[n]
           s == node[d]
<1>1. d \in Nodes /\ d # n /\ Peer(d) = n /\ \A m \in Nodes : m = n \/ m = d
  BY DEF Nodes, Peer
<1>2. c \in Connections /\ s \in Connections /\ sent[n] \in Nat /\ sent[d] \in Nat
  BY <1>1 DEF TypeOK
<1>3. Sender(c, sent[n]) /\ Sender(s, sent[d]) /\ Link(s, c, sent[d]) /\ Link(c, s, sent[n])
  BY <1>1 DEF DeliveryInv
<1>4. CASE /\ sent' = [sent EXCEPT ![n] = sent[n] + 1]
           /\ Becomes(n, [c EXCEPT !.fifo_send = Append(@, sent[n] + 1)])
  <2> DEFINE e == [c EXCEPT !.fifo_send = Append(@, sent[n] + 1)]
  <2>1. node'[n] = e /\ node'[d] = s /\ sent'[n] = sent[n] + 1 /\ sent'[d] = sent[d]
    BY <1>1, <1>4 DEF Becomes, TypeOK
  <2>2. /\ e \in Connections /\ e.wire = c.wire /\ e.fifo_retr = c.fifo_retr
        /\ e.fifo_send = Append(c.fifo_send, sent[n] + 1)
        /\ e.fifo_app_msg = c.fifo_app_msg /\ e.listed = c.listed /\ e.state = c.state
        /\ e.cs_t = c.cs_t
    <3>1. Append(c.fifo_send, sent[n] + 1) \in Seq(Nat)
      BY <1>2, MessagesType
    <3> HIDE DEF c
    <3>2. QED
      BY <1>2, <3>1 DEF Connections
  <2> HIDE DEF e, c, s
  <2>3. Sender(e, sent[n] + 1) /\ Link(e, s, sent[n] + 1)
    BY <1>2, <1>3, <2>2, Enqueue
  <2>4. AddsNoRequest(c, e)
    BY <1>2, <2>2, MessagesType, SameAdds DEF AddsNoRequest
  <2>5. Falls(c, e)
    BY <2>2, <2>4 DEF Falls
  <2>6. Link(s, e, sent[d])
    BY <1>2, <1>3, <2>2, <2>5, FallsKeepsLink
  <2>7. DeliveryInv'
    BY <1>3, <2>1, <2>3, <2>6, BothDirections
  <2>8. \A m \in Nodes : node'[m].fifo_app_msg = node[m].fifo_app_msg
    BY <1>1, <2>1, <2>2 DEF c, s
  <2>9. QED
    BY <1>4, <2>7, <2>8
<1>5. CASE /\ UNCHANGED sent
           /\ Becomes(n, [Transmit(c, <<Pdu(c, "DISCREQ", <<>>)>>) EXCEPT !.state = "CLOSED"])
  <2> DEFINE q == Pdu(c, "DISCREQ", <<>>)
             t == Transmit(c, <<q>>)
             e == [t EXCEPT !.state = "CLOSED"]
  <2>1. q \in Pdus /\ q.type = "DISCREQ" /\ q.msgs = <<>>
    <3>1. <<>> \in Seq(Nat) /\ "DISCREQ" \in PduTypes
      BY DEF PduTypes
    <3>2. QED
      BY <1>2, <3>1, PduType DEF Pdu
  <2>2. Becomes(n, e)
    BY <1>5
  <2> HIDE DEF q, c
  <2>3. /\ t \in Connections /\ t.wire \in {c.wire, Append(c.wire, q)}
        /\ t.fifo_send = c.fifo_send /\ t.fifo_retr = c.fifo_retr
        /\ t.fifo_app_msg = c.fifo_app_msg /\ t.listed = c.listed
    <3>1. <<q>> \in Seq(Pdus) /\ c.wire \in Seq(Pdus) /\ c.wire \o <<q>> = Append(c.wire, q)
      <4>1. c.wire \in Seq(Pdus)
        BY <1>2, MessagesType
      <4>2. QED
        BY <2>1, <4>1
    <3>2. t \in Connections
      BY <1>2, <3>1, TransmitType
    <3>3. t = IF c.channel THEN [c EXCEPT !.wire = Append(c.wire, q)] ELSE c
      BY <3>1 DEF Transmit
    <3> HIDE DEF t
    <3>4. QED
      BY <1>2, <3>2, <3>3 DEF Connections
  <2> HIDE DEF t
  <2>4. /\ e \in Connections /\ e.wire \in {c.wire, Append(c.wire, q)}
        /\ e.fifo_send = c.fifo_send /\ e.fifo_retr = c.fifo_retr
        /\ e.fifo_app_msg = c.fifo_app_msg /\ e.listed = c.listed /\ e.state = "CLOSED"
    BY <2>3 DEF Connections, States
  <2> HIDE DEF e
  <2>5. Quietly(c, e) /\ AddsNoRequest(c, e)
    BY <1>2, <2>1, <2>4, SendsQuietly
  <2>6. Falls(c, e)
    BY <2>4, <2>5 DEF Falls
  <2>7. QED
    BY <1>5, <2>2, <2>4, <2>5, <2>6, OwnStepsDeliver DEF c
<1>6. QED
  BY <1>4, <1>5 DEF SrSend

LEMMA SendThreadDelivers ==
  ASSUME TypeOK, DeliveryInv, NumbersFresh, NEW n \in Nodes, SendThread(n)
  PROVE  DeliveryInv' /\ Gives(n)
<1> DEFINE d == Peer(n)
           c == node[n]
           s == node[d]
           h == Min({Len(c.fifo_send), MaxPacket})
           q == Pdu(c, "DATA", SubSeq(c.fifo_send, 1, h))
           f == SendData(c, q)
           e == [f EXCEPT !.fifo_send = SubSeq(@, h + 1, Len(@))]
<1>1. d \in Nodes /\ d # n /\ Peer(d) = n
  BY PeerIsNode
<1>2. c \in Connections /\ s \in Connections /\ sent[n] \in Nat /\ sent[d] \in Nat
  BY <1>1 DEF TypeOK
<1>3. Sender(c, sent[n]) /\ Sender(s, sent[d]) /\ Link(s, c, sent[d]) /\ Link(c, s, sent[n])
  BY <1>1 DEF DeliveryInv
<1>4. NumberFresh(c)
  BY DEF NumbersFresh, NumberFresh
<1>5. node'[n] = e /\ node'[d] = s /\ sent' = sent
  BY <1>1 DEF SendThread, Becomes, TypeOK
<1> HIDE DEF c, s
<1>6. h \in 0..Len(c.fifo_send)
  <2>1. Len(c.fifo_send) \in Nat /\ MaxPacket \in Nat
    BY <1>2, MessagesType, RastaConnectionAssumption
  <2>2. QED
    BY <2>1, MinOfTwo
<1> HIDE DEF h
<1>7. /\ q \in Pdus /\ q.type = "DATA" /\ q.sn = c.sn_t
      /\ q.msgs = SubSeq(c.fifo_send, 1, h)
  <2>1. c.fifo_send \in Seq(Nat)
    BY <1>2, MessagesType
  <2>2. SubSeq(c.fifo_send, 1, h) \in Seq(Nat) /\ "DATA" \in PduTypes
    BY <1>6, <2>1 DEF PduTypes
  <2>3. QED
    BY <1>2, <2>2, PduType DEF Pdu
<1> HIDE DEF q
<1>8. /\ f \in Connections
      /\ f = [c EXCEPT !.sn_t = Plus(c.sn_t, 1), !.wire = f.wire, !.fifo_retr = f.fifo_retr]
      /\ f.wire = IF c.channel THEN Append(c.wire, q) ELSE c.wire
      /\ f.fifo_retr = IF Len(c.fifo_retr) < RetrCapacity THEN Append(c.fifo_retr, q)
                       ELSE c.fifo_retr
  BY <1>2, <1>7, SendDataIs
<1> HIDE DEF f
<1>9. /\ f.fifo_send = c.fifo_send /\ f.fifo_app_msg = c.fifo_app_msg
      /\ f.listed = c.listed /\ f.state = c.state /\ f.cs_t = c.cs_t
  BY <1>2, <1>8 DEF Connections
<1>10. /\ e \in Connections /\ e.wire = f.wire /\ e.fifo_retr = f.fifo_retr
       /\ e.fifo_send = SubSeq(c.fifo_send, h + 1, Len(c.fifo_send))
       /\ e.fifo_app_msg = c.fifo_app_msg /\ e.listed = c.listed /\ e.state = c.state
       /\ e.cs_t = c.cs_t
  <2>1. SubSeq(c.fifo_send, h + 1, Len(c.fifo_send)) \in Seq(Nat)
    <3>1. c.fifo_send \in Seq(Nat)
      BY <1>2, MessagesType
    <3>2. QED
      BY <1>6, <3>1
  <2>2. QED
    BY <1>8, <1>9, <2>1 DEF Connections
<1> HIDE DEF e
<1>11. Sender(e, sent[n]) /\ Link(e, s, sent[n])
  <2>1. \A i \in 1..Len(c.fifo_retr) : c.fifo_retr[i].sn # q.sn
    BY <1>4, <1>7 DEF NumberFresh
  <2>2. e.wire = c.wire \/ e.wire = Append(c.wire, q)
    BY <1>8, <1>10
  <2>3. \/ e.fifo_retr = c.fifo_retr
        \/ Len(c.fifo_retr) < RetrCapacity /\ e.fifo_retr = Append(c.fifo_retr, q)
    BY <1>8, <1>10
  <2>4. QED
    BY <1>2, <1>3, <1>6, <1>7, <1>10, <2>1, <2>2, <2>3, Dispatch
<1>12. Falls(c, e)
  <2>1. /\ Adds(c.wire, c.wire, PduTypes \ {"RETRREQ"})
        /\ Adds(c.wire, Append(c.wire, q), {q.type})
    BY <1>2, <1>7, MessagesType, SameAdds, AppendAdds
  <2>2. Adds(c.wire, Append(c.wire, q), PduTypes \ {"RETRREQ"})
    BY <1>7, <2>1, AddsFewer DEF PduTypes
  <2>3. AddsNoRequest(c, e)
    BY <1>8, <1>10, <2>1, <2>2 DEF AddsNoRequest
  <2>4. QED
    BY <1>10, <2>3 DEF Falls
<1>13. Link(s, e, sent[d])
  BY <1>2, <1>3, <1>10, <1>12, FallsKeepsLink
<1>14. DeliveryInv'
  BY <1>3, <1>5, <1>11, <1>13, BothDirections
<1>15. Gives(n)
  BY <1>5, <1>10 DEF Gives, c, s
<1>16. QED
  BY <1>14, <1>15

-------------------------------------------------------------------------------
(* The theorem.                                                             *)

LEMMA InitDelivers == Init => DeliveryInv
<1> SUFFICES ASSUME Init
             PROVE  DeliveryInv
  OBVIOUS
<1> DEFINE u == Unconnected
<1>1. \A n \in Nodes : node[n] = u /\ sent[n] = 0 /\ Peer(n) \in Nodes
  BY PeerIsNode DEF Init
<1>2. /\ u.wire = <<>> /\ u.fifo_send = <<>> /\ u.fifo_retr = <<>>
      /\ u.fifo_app_msg = <<>> /\ u.state = "CLOSED" /\ ~u.listed
  BY DEF Unconnected
<1> HIDE DEF u
<1>3. /\ Within(<<>>, 0) /\ Rising(<<>>) /\ Below(<<>>, <<>>) /\ Current(<<>>) = {}
      /\ \A type : ~Has(<<>>, type)
  BY DEF Within, Rising, Below, Current, Has
<1>4. Sender(u, 0)
  BY <1>2, <1>3, RastaConnectionAssumption DEF Sender
<1>5. Link(u, u, 0)
  BY <1>2, <1>3 DEF Link, Sound, Upcoming, Requested, Suspended
<1>6. QED
  BY <1>1, <1>4, <1>5 DEF DeliveryInv

\* A step keeps the invariant, and is one of Delivery's, or a stutter of it.
LEMMA StepDelivers ==
  ASSUME TypeOK, HandshakeInv, DeliveryInv, NumbersFresh, Leftovers \subseteq {<<>>},
         [Next]_vars
  PROVE  /\ DeliveryInv'
         /\ \/ \E n \in Nodes : Gives(n)
            \/ /\ \E n \in Nodes : sent' = [sent EXCEPT ![n] = sent[n] + 1]
               /\ \A m \in Nodes : node'[m].fifo_app_msg = node[m].fifo_app_msg
<1>1. CASE Connect \/ AddConnection \/ HandleConReq
  <2>1. "client" \in Nodes /\ "server" \in Nodes
    BY DEF Nodes
  <2>2. QED
    BY <1>1, <2>1, ConnectDelivers, AddConnectionDelivers, HandleConReqDelivers
<1>2. CASE \E n \in Nodes : Handle(n)
  BY <1>2, HandlersDeliver
<1>3. CASE \E n \in Nodes : SrSend(n)
  BY <1>3, SrSendDelivers
<1>4. CASE \E n \in Nodes : SendThread(n)
  BY <1>4, SendThreadDelivers
<1>5. CASE \E n \in Nodes : SrDisconnect(n) \/ Heartbeat(n) \/ TiExpires(n)
  BY <1>5, ThreadsDeliver
<1>6. CASE \E n \in Nodes : Lose(n)
  BY <1>6, LosingDelivers
<1>7. CASE UNCHANGED vars
  <2>1. UNCHANGED <<node, sent>>
    BY <1>7 DEF vars
  <2>2. DeliveryInv'
    BY <2>1 DEF DeliveryInv
  <2>3. "client" \in Nodes /\ Gives("client")
    BY <2>1 DEF Nodes, Gives
  <2>4. QED
    BY <2>2, <2>3
<1>8. QED
  BY <1>1, <1>2, <1>3, <1>4, <1>5, <1>6, <1>7 DEF Next

\* sr_send is Delivery's Submit, a handler that gives something its Deliver.
LEMMA StepIsDelivery ==
  ASSUME TypeOK, TypeOK', DeliveryInv',
         \/ \E n \in Nodes : Gives(n)
         \/ /\ \E n \in Nodes : sent' = [sent EXCEPT ![n] = sent[n] + 1]
            /\ \A m \in Nodes : node'[m].fifo_app_msg = node[m].fifo_app_msg
  PROVE  [Delivery!Next]_(Delivery!promise)
<1> DEFINE given == [m \in Nodes |-> node[m].fifo_app_msg]
<1>1. CASE \E n \in Nodes : Gives(n)
  <2>1. PICK n \in Nodes : Gives(n)
    BY <1>1
  <2>2. sent' = sent /\ \A m \in Nodes \ {n} : given'[m] = given[m]
    BY <2>1 DEF Gives, Nodes, Peer
  <2>3. CASE given'[n] = given[n]
    <3>1. given' = given
      BY <2>2, <2>3
    <3>2. QED
      BY <2>2, <3>1 DEF Delivery!promise
  <2>4. CASE \E more \in Seq(Nat) : given'[n] = given[n] \o more
    <3>1. given[n] \in Seq(Nat)
      BY DEF TypeOK, Connections
    <3>2. Delivery!Extends(given[n], given'[n])
      BY <2>4, <3>1 DEF Delivery!Extends
    <3>3. /\ Delivery!Increasing(given'[n])
          /\ \A i \in 1..Len(given'[n]) : given'[n][i] \in 1..sent[Peer(n)]
      <4>1. Sound(node'[n].fifo_app_msg, node'[Peer(n)], sent'[Peer(n)])
        BY DEF DeliveryInv, Link
      <4>2. QED
        BY <2>2, <4>1 DEF Sound, Rising, Within, Delivery!Increasing
    <3>4. given' = [given EXCEPT ![n] = given'[n]]
      BY <2>2
    <3>5. Delivery!Deliver(n)
      BY <2>2, <3>2, <3>3, <3>4 DEF Delivery!Deliver
    <3>6. QED
      BY <3>5 DEF Delivery!Next
  <2>5. QED
    BY <2>1, <2>3, <2>4 DEF Gives
<1>2. CASE /\ \E n \in Nodes : sent' = [sent EXCEPT ![n] = sent[n] + 1]
           /\ \A m \in Nodes : node'[m].fifo_app_msg = node[m].fifo_app_msg
  <2>1. given' = given
    BY <1>2
  <2>2. \E n \in Nodes : Delivery!Submit(n)
    BY <1>2, <2>1 DEF Delivery!Submit
  <2>3. QED
    BY <2>2 DEF Delivery!Next
<1>3. QED
  BY <1>1, <1>2

\* As long as no number is used again while it waits, and what the last packet of
\* a retransmission was left with are no messages, each side's user is given
\* what the other side's sr_send took, in that order and nothing twice, whatever
\* is lost, late, closed or retransmitted in between.
THEOREM DeliveryImplemented ==
  ASSUME Leftovers \subseteq {<<>>}
  PROVE  Spec /\ []NumbersFresh => DeliversInOrder
<1>1. Init => DeliveryInv
  BY InitDelivers
<1>2. TypeOK /\ HandshakeInv /\ DeliveryInv /\ NumbersFresh /\ [Next]_vars => DeliveryInv'
  BY StepDelivers
<1>3. Init => Delivery!Init
  BY DEF Init, Unconnected, Delivery!Init
<1>4. TypeOK /\ TypeOK' /\ HandshakeInv /\ DeliveryInv /\ NumbersFresh /\ [Next]_vars
        => [Delivery!Next]_(Delivery!promise)
  <2> SUFFICES ASSUME TypeOK, TypeOK', HandshakeInv, DeliveryInv, NumbersFresh, [Next]_vars
               PROVE  [Delivery!Next]_(Delivery!promise)
    OBVIOUS
  <2>1. /\ DeliveryInv'
        /\ \/ \E n \in Nodes : Gives(n)
           \/ /\ \E n \in Nodes : sent' = [sent EXCEPT ![n] = sent[n] + 1]
              /\ \A m \in Nodes : node'[m].fifo_app_msg = node[m].fifo_app_msg
    BY StepDelivers
  <2>2. QED
    BY <2>1, StepIsDelivery
<1>5. QED
  BY <1>1, <1>2, <1>3, <1>4, TypeCorrect, HandshakeIsKept, PTL
     DEF Spec, DeliversInOrder, Delivery!Spec
===============================================================================
