---------------------- MODULE CloudIxlConfirmationProofs ----------------------
(***************************************************************************)
(* Proofs about CloudIxl: a confirmation is the answer to the command that *)
(* waits for it, so a route is given up only behind a signal at stop, and  *)
(* a signal shows proceed only over a reserved route. For every route      *)
(* table, every number of commands and every fault of the link; of the     *)
(* Object Controller's faults all but one, an execution error in answer to *)
(* a luminosity command (run stale_feedback shows what that one does).     *)
(* And, where nothing deviates, that the session never fails.              *)
(***************************************************************************)
EXTENDS CloudIxlProofs

-------------------------------------------------------------------------------
(* Queues: whether a telegram of some type is in one, whether there is at   *)
(* most one, whether one can only be the last, and what statuses report.    *)

AtMostOne(q, types) ==
    \A i, j \in DOMAIN q : q[i].type \in types /\ q[j].type \in types => i = j

OnlyLast(q, type) == \A i \in DOMAIN q : q[i].type = type => i = Len(q)

Reports(q, aspect) ==
    \A i \in DOMAIN q : q[i].type = "SIGNAL_ASPECT_STATUS" => q[i].aspect = aspect

LEMMA EmptyQueue ==
  ASSUME NEW T, NEW a
  PROVE  ~Carries(<<>>, T) /\ AtMostOne(<<>>, T) /\ OnlyLast(<<>>, a) /\ Reports(<<>>, a)
BY DEF Carries, AtMostOne, OnlyLast, Reports

LEMMA AppendedQueue ==
  ASSUME NEW S, NEW q \in Seq(S), NEW m \in S, NEW T, NEW a
  PROVE  /\ Carries(Append(q, m), T) <=> Carries(q, T) \/ m.type \in T
         /\ AtMostOne(q, T) /\ (m.type \in T => ~Carries(q, T))
                => AtMostOne(Append(q, m), T)
         /\ ~Carries(q, {a}) => OnlyLast(Append(q, m), a)
         /\ Reports(q, a) /\ (m.type = "SIGNAL_ASPECT_STATUS" => m.aspect = a)
                => Reports(Append(q, m), a)
<1> DEFINE r == Append(q, m)
<1>1. /\ DOMAIN r = 1 .. Len(q) + 1 /\ DOMAIN q = 1 .. Len(q) /\ Len(q) \in Nat
      /\ Len(r) = Len(q) + 1 /\ r[Len(q) + 1] = m
      /\ \A i \in 1 .. Len(q) : r[i] = q[i]
  OBVIOUS
<1> HIDE DEF r
<1>2. Carries(r, T) <=> Carries(q, T) \/ m.type \in T
  BY <1>1 DEF Carries
<1>3. AtMostOne(q, T) /\ (m.type \in T => ~Carries(q, T)) => AtMostOne(r, T)
  BY <1>1 DEF AtMostOne, Carries
<1>4. ~Carries(q, {a}) => OnlyLast(r, a)
  BY <1>1 DEF OnlyLast, Carries
<1>5. Reports(q, a) /\ (m.type = "SIGNAL_ASPECT_STATUS" => m.aspect = a) => Reports(r, a)
  BY <1>1 DEF Reports
<1>6. QED
  BY <1>2, <1>3, <1>4, <1>5 DEF r

LEMMA TailOfQueue ==
  ASSUME NEW S, NEW q \in Seq(S), q # <<>>, NEW T, NEW a
  PROVE  /\ Carries(q, T) <=> Carries(Tail(q), T) \/ Head(q).type \in T
         /\ AtMostOne(q, T)
                => AtMostOne(Tail(q), T) /\ (Head(q).type \in T => ~Carries(Tail(q), T))
         /\ OnlyLast(q, a) => OnlyLast(Tail(q), a) /\ (Head(q).type = a => Tail(q) = <<>>)
         /\ Reports(q, a)
                => /\ Reports(Tail(q), a)
                   /\ Head(q).type = "SIGNAL_ASPECT_STATUS" => Head(q).aspect = a
<1> DEFINE r == Tail(q)
<1>1. /\ DOMAIN r = 1 .. Len(q) - 1 /\ DOMAIN q = 1 .. Len(q) /\ Len(q) \in Nat /\ Len(q) > 0
      /\ Len(r) = Len(q) - 1 /\ Head(q) = q[1] /\ r \in Seq(S)
      /\ \A i \in 1 .. Len(q) - 1 : r[i] = q[i + 1]
  OBVIOUS
<1> HIDE DEF r
<1>2. Carries(q, T) <=> Carries(r, T) \/ Head(q).type \in T
  <2>1. ASSUME NEW i \in DOMAIN q, q[i].type \in T PROVE Carries(r, T) \/ Head(q).type \in T
    <3>1. CASE i = 1
      BY <1>1, <2>1, <3>1
    <3>2. CASE i # 1
      <4>1. i - 1 \in DOMAIN r /\ r[i - 1] = q[i]
        BY <1>1, <3>2
      <4>2. QED
        BY <2>1, <4>1 DEF Carries
    <3>3. QED
      BY <3>1, <3>2
  <2>2. QED
    BY <1>1, <2>1 DEF Carries
<1>3. AtMostOne(q, T) => AtMostOne(r, T) /\ (Head(q).type \in T => ~Carries(r, T))
  <2> SUFFICES ASSUME AtMostOne(q, T)
               PROVE  AtMostOne(r, T) /\ (Head(q).type \in T => ~Carries(r, T))
    OBVIOUS
  <2>1. \A i \in DOMAIN r : i + 1 \in DOMAIN q /\ r[i] = q[i + 1] /\ i + 1 # 1
    BY <1>1
  <2>2. 1 \in DOMAIN q /\ DOMAIN r \subseteq Nat
    BY <1>1
  <2>3. AtMostOne(r, T)
    BY <2>1, <2>2 DEF AtMostOne
  <2>4. QED
    BY <1>1, <2>1, <2>2, <2>3 DEF AtMostOne, Carries
<1>4. OnlyLast(q, a) => OnlyLast(r, a) /\ (Head(q).type = a => r = <<>>)
  <2> SUFFICES ASSUME OnlyLast(q, a)
               PROVE  OnlyLast(r, a) /\ (Head(q).type = a => r = <<>>)
    OBVIOUS
  <2>1. ASSUME NEW i \in DOMAIN r, r[i].type = a PROVE i = Len(r)
    <3>1. i \in Nat /\ i + 1 \in DOMAIN q /\ q[i + 1].type = a
      BY <1>1, <2>1
    <3>2. i + 1 = Len(q)
      BY <3>1 DEF OnlyLast
    <3>3. QED
      BY <1>1, <3>1, <3>2
  <2>2. ASSUME Head(q).type = a PROVE r = <<>>
    <3>1. 1 = Len(q)
      BY <1>1, <2>2 DEF OnlyLast
    <3>2. QED
      BY <1>1, <3>1
  <2>3. QED
    BY <2>1, <2>2 DEF OnlyLast
<1>5. Reports(q, a)
          => /\ Reports(r, a)
             /\ Head(q).type = "SIGNAL_ASPECT_STATUS" => Head(q).aspect = a
  BY <1>1 DEF Reports
<1>6. QED
  BY <1>2, <1>3, <1>4, <1>5 DEF r

LEMMA NoneIsAtMostOne ==
  ASSUME NEW q, NEW T, NEW a, ~Carries(q, T)
  PROVE  /\ AtMostOne(q, T)
         /\ "SIGNAL_ASPECT_STATUS" \in T => Reports(q, a)
BY DEF Carries, AtMostOne, Reports

-------------------------------------------------------------------------------
(* The end of the initialisation. While the main thread waits for it, the   *)
(* end of the status report is the last telegram there is: whoever takes it *)
(* and makes the session ESTABLISHED leaves nothing behind, in particular   *)
(* no initial status that a later command could take for its feedback.      *)

Opening == {"STATUS_BEGIN", "STATUS_FINISH"}
Finish  == {"STATUS_FINISH"}

Taken(types) == rcv.step = "dispatch" /\ rcv.msg.type \in types

InFlight(types) == Carries(toIXL, types) \/ Carries(rx, types) \/ Taken(types)

FinishInv ==
    ocPhase = "initialised" /\ pc \in Before =>
        /\ toOC = <<>>
        /\ OnlyLast(toIXL, "STATUS_FINISH") /\ OnlyLast(rx, "STATUS_FINISH")
        /\ Carries(rx, Finish) => toIXL = <<>>
        /\ Taken(Finish) => rx = <<>> /\ toIXL = <<>>

PastInv == pc \notin Before \cup Ended \/ pdi_state \in InSession => ~InFlight(Opening)

OpeningInv == FinishInv /\ PastInv

(* A step that takes nothing out of order and sends nothing.                *)
LEMMA OpeningKept ==
  ASSUME OpeningInv, ocPhase' = ocPhase, pc' \in Before => pc \in Before,
         toOC' = toOC \/ pc' \notin Before \/ ocPhase # "initialised",
         \/ UNCHANGED <<toIXL, rx>>
         \/ toIXL' = <<>> /\ UNCHANGED rx,
         \/ UNCHANGED rcv
         \/ rcv'.step # "dispatch",
         pc' \notin Before \cup Ended \/ pdi_state' \in InSession
             => pc \notin Before \cup Ended \/ pdi_state \in InSession \/ ~InFlight(Opening)
  PROVE  OpeningInv'
<1>1. ~Carries(<<>>, Opening) /\ OnlyLast(<<>>, "STATUS_FINISH")
  BY EmptyQueue
<1>2. \A T : Taken(T)' => Taken(T)
  BY DEF Taken
<1>3. FinishInv'
  BY <1>1, <1>2 DEF OpeningInv, FinishInv
<1>4. PastInv'
  BY <1>1, <1>2 DEF OpeningInv, PastInv, InFlight
<1>5. QED
  BY <1>3, <1>4 DEF OpeningInv

LEMMA AppendIsConcatenation ==
  ASSUME NEW S, NEW q \in Seq(S), NEW x \in S
  PROVE  q \o <<x>> = Append(q, x)
OBVIOUS

(* Once initialised, the Object Controller answers a telegram with one      *)
(* telegram, and a status it sends reports what its signal shows then.      *)
LEMMA OcAnswersOnce ==
  ASSUME TypeOK, StageInv, ocPhase = "initialised", OcObey \/ OcDisobey
  PROVE  /\ toOC # <<>> /\ toOC' = Tail(toOC)
         /\ UNCHANGED <<ixlVars, pdi_state, mainVars, conn, notices, handshake, recvVars>>
         /\ ocPhase' = "initialised"
         /\ ocAspect' = ocAspect \/ ocAspect' = Head(toOC).aspect
         /\ Head(toOC).type # "SHOW_SIGNAL_ASPECT" => ocAspect' = ocAspect
         /\ \E x \in Replies :
              /\ toIXL' = <<>> \/ toIXL' = Append(toIXL, x)
              /\ x.type \notin Opening
              /\ x.type = "SIGNAL_ASPECT_STATUS" => x.aspect = ocAspect'
              /\ x.type \in AspectAnswers /\ "luminosity_error" \notin OcFaults
                     => Head(toOC).type = "SHOW_SIGNAL_ASPECT"
<1> DEFINE Answers(x) ==
      /\ x.type \notin Opening
      /\ x.type = "SIGNAL_ASPECT_STATUS" => x.aspect = ocAspect'
      /\ x.type \in AspectAnswers /\ "luminosity_error" \notin OcFaults
             => Head(toOC).type = "SHOW_SIGNAL_ASPECT"
<1>1. /\ toOC # <<>> /\ toOC' = Tail(toOC)
      /\ UNCHANGED <<ixlVars, pdi_state, mainVars, conn, notices, handshake, recvVars>>
  BY DEF OcObey, OcDisobey
<1>2. /\ Head(toOC).type \in {"LUMINOSITY", "SHOW_SIGNAL_ASPECT"}
      /\ Head(toOC).aspect \in Aspects
  BY <1>1, OcHead DEF Out, Commands
<1>3. /\ ocPhase' = "initialised"
      /\ ocAspect' = ocAspect \/ ocAspect' = Head(toOC).aspect
      /\ Head(toOC).type # "SHOW_SIGNAL_ASPECT" => ocAspect' = ocAspect
  BY <1>2 DEF OcObey, OcDisobey, OcPhaseAfter, ocVars
<1>4. \E x \in Replies : Reply(<<x>>) /\ Answers(x)
  <2>1. /\ Plain("LUMINOSITY_STATUS") \in Replies /\ Plain("EXECUTION_ERROR") \in Replies
        /\ Plain("INVALID") \in Replies /\ Plain("UNKNOWN") \in Replies
        /\ Status(ocAspect) \in Replies /\ Status(Head(toOC).aspect) \in Replies
    BY <1>2, PlainType DEF ReplyTypes, TypeOK
  <2>2. CASE OcObey /\ Head(toOC).type = "LUMINOSITY"
    <3>1. PICK ms \in OcReplies(Head(toOC)) : Reply(ms)
      BY <2>2 DEF OcObey
    <3>2. \/ ms = <<Plain("LUMINOSITY_STATUS")>>
          \/ ms = <<Plain("EXECUTION_ERROR")>> /\ "luminosity_error" \in OcFaults
      BY <2>2 DEF OcReplies, If
    <3>3. Answers(Plain("LUMINOSITY_STATUS"))
      BY DEF Plain, Opening, AspectAnswers
    <3>4. "luminosity_error" \in OcFaults => Answers(Plain("EXECUTION_ERROR"))
      BY DEF Plain, Opening, AspectAnswers
    <3>5. QED
      BY <2>1, <3>1, <3>2, <3>3, <3>4
  <2>3. CASE OcObey /\ Head(toOC).type = "SHOW_SIGNAL_ASPECT"
    <3>1. PICK ms \in OcReplies(Head(toOC)) : Reply(ms)
      BY <2>3 DEF OcObey
    <3>2. ms = <<Status(Head(toOC).aspect)>>
      BY <2>3, <3>1 DEF OcReplies
    <3>3. Answers(Status(Head(toOC).aspect))
      BY <2>3 DEF OcObey, Status, Opening
    <3>4. QED
      BY <2>1, <3>1, <3>2, <3>3
  <2>4. CASE OcDisobey
    <3>1. PICK ms \in OcRefusals : Reply(ms)
      BY <2>4 DEF OcDisobey
    <3>2. \/ ms = <<Plain("EXECUTION_ERROR")>> \/ ms = <<Status(ocAspect)>>
          \/ ms = <<Plain("INVALID")>> \/ ms = <<Plain("UNKNOWN")>>
      BY <3>1 DEF OcRefusals, If
    <3>3. /\ Answers(Plain("EXECUTION_ERROR")) /\ Answers(Plain("INVALID"))
          /\ Answers(Plain("UNKNOWN")) /\ Answers(Status(ocAspect))
      BY <2>4 DEF OcDisobey, ocVars, Plain, Status, Opening
    <3>4. QED
      BY <2>1, <3>1, <3>2, <3>3
  <2>5. QED
    BY <1>2, <2>2, <2>3, <2>4
<1>5. ASSUME NEW x \in Replies, Reply(<<x>>)
      PROVE  toIXL' = <<>> \/ toIXL' = Append(toIXL, x)
  BY <1>5, AppendIsConcatenation DEF Reply, TypeOK
<1>6. QED
  BY <1>1, <1>3, <1>4, <1>5

LEMMA OpeningEnvironment == TypeOK /\ StageInv /\ OpeningInv /\ Environment => OpeningInv'
<1> SUFFICES ASSUME TypeOK, StageInv, OpeningInv, Environment PROVE OpeningInv'
  OBVIOUS
<1> USE DEF mainVars, recvVars, ocVars
<1>1. CASE RastaUp \/ RastaClose \/ RastaTimeout
  BY <1>1, OpeningKept DEF RastaUp, RastaClose, RastaTimeout, Disconnect
<1>2. CASE RastaRetransmission
  <2>1. CASE UNCHANGED toIXL
    BY <1>2, <2>1, OpeningKept DEF RastaRetransmission
  <2>2. CASE toIXL # <<>> /\ toIXL' = Tail(toIXL)
    <3>1. toIXL \in Seq(Replies)
      BY DEF TypeOK
    <3>2. OnlyLast(toIXL, "STATUS_FINISH") => OnlyLast(toIXL', "STATUS_FINISH")
      BY <2>2, <3>1, TailOfQueue
    <3>3. Carries(toIXL', Opening) => Carries(toIXL, Opening)
      BY <2>2, <3>1, TailOfQueue
    <3>4. UNCHANGED <<pc, pdi_state, toOC, rx, rcv, ocPhase>>
      BY <1>2 DEF RastaRetransmission
    <3>5. FinishInv'
      BY <2>2, <3>1, <3>2, <3>4, EmptySeq DEF OpeningInv, FinishInv, Taken
    <3>6. PastInv'
      BY <3>3, <3>4 DEF OpeningInv, PastInv, InFlight, Taken
    <3>7. QED
      BY <3>5, <3>6 DEF OpeningInv
  <2>3. QED
    BY <1>2, <2>1, <2>2 DEF RastaRetransmission
<1>3. CASE RastaDeliver
  <2>1. /\ toIXL # <<>> /\ toIXL' = Tail(toIXL)
        /\ rx' = Append(rx, Head(toIXL)) \/ rx' = rx
        /\ UNCHANGED <<pc, pdi_state, toOC, rcv, ocPhase>>
    BY <1>3 DEF RastaDeliver
  <2>2. toIXL \in Seq(Replies) /\ rx \in Seq(Replies) /\ Head(toIXL) \in Replies
    BY <2>1 DEF TypeOK
  <2>3. /\ OnlyLast(toIXL, "STATUS_FINISH")
               => /\ OnlyLast(toIXL', "STATUS_FINISH")
                  /\ Head(toIXL).type \in Finish => toIXL' = <<>>
        /\ Carries(toIXL, Opening) <=> Carries(toIXL', Opening) \/ Head(toIXL).type \in Opening
    BY <2>1, <2>2, TailOfQueue DEF Finish
  <2>4. /\ ~Carries(rx, Finish) => OnlyLast(rx', "STATUS_FINISH") \/ rx' = rx
        /\ Carries(rx', Finish) => Carries(rx, Finish) \/ Head(toIXL).type \in Finish
        /\ Carries(rx', Opening) => Carries(rx, Opening) \/ Head(toIXL).type \in Opening
    <3>1. CASE rx' = Append(rx, Head(toIXL))
      BY <2>2, <3>1, AppendedQueue DEF Finish
    <3>2. CASE rx' = rx
      BY <3>2
    <3>3. QED
      BY <2>1, <3>1, <3>2
  <2>5. FinishInv'
    BY <2>1, <2>3, <2>4 DEF OpeningInv, FinishInv, Taken
  <2>6. PastInv'
    BY <2>1, <2>3, <2>4 DEF OpeningInv, PastInv, InFlight, Taken
  <2>7. QED
    BY <2>5, <2>6 DEF OpeningInv
<1>4. CASE OcObey \/ OcDisobey
  <2>1. /\ toOC # <<>> /\ toOC' = Tail(toOC)
        /\ UNCHANGED <<pc, pdi_state, rx, rcv>>
    BY <1>4 DEF OcObey, OcDisobey
  <2>2. CASE ocPhase # "initialised"
    <3>1. /\ toOC' = <<>> /\ toIXL = <<>> /\ rx = <<>> /\ rcv.step = "idle"
          /\ pc \in Before \cup Ended /\ pdi_state \notin InSession
      <4>1. toOC = <<Head(toOC)>> /\ toIXL = <<>> /\ rx = <<>> /\ rcv.step = "idle"
        BY <2>1, <2>2, OcHead
      <4>2. QED
        BY <2>1, <2>2, <4>1 DEF StageInv
    <3>2. PastInv'
      BY <2>1, <3>1 DEF PastInv
    <3>3. OnlyLast(toIXL', "STATUS_FINISH") \/ ocPhase' # "initialised"
      <4>1. CASE OcDisobey
        BY <2>2, <4>1 DEF OcDisobey
      <4>2. CASE OcObey /\ Head(toOC).type # "STATUS_REQUEST"
        BY <2>2, <4>2 DEF OcObey, OcPhaseAfter
      <4>3. CASE OcObey /\ Head(toOC).type = "STATUS_REQUEST"
        <5>1. PICK ms \in OcReplies(Head(toOC)) : Reply(ms)
          BY <4>3 DEF OcObey
        <5>2. ms = <<Plain("STATUS_BEGIN"), Status(ocAspect),
                     Plain("LUMINOSITY_STATUS"), Plain("STATUS_FINISH")>>
          BY <4>3 DEF OcReplies
        <5>3. toIXL' = <<>> \/ toIXL' = ms
          <6>1. ms \in Seq(Replies)
            BY <2>1, OcHead, OcRepliesType DEF TypeOK
          <6>2. QED
            BY <3>1, <5>1, <6>1 DEF Reply
        <5>4. OnlyLast(ms, "STATUS_FINISH")
          BY <5>2 DEF OnlyLast, Plain, Status
        <5>5. QED
          BY <5>3, <5>4, EmptyQueue
      <4>4. QED
        BY <1>4, <4>1, <4>2, <4>3
    <3>4. ~Carries(<<>>, Finish) /\ OnlyLast(<<>>, "STATUS_FINISH")
      BY EmptyQueue
    <3>5. FinishInv'
      BY <2>1, <3>1, <3>3, <3>4 DEF FinishInv, Taken
    <3>6. QED
      BY <3>2, <3>5 DEF OpeningInv
  <2>3. CASE ocPhase = "initialised"
    <3>1. ocPhase' = "initialised" /\ pc \notin Before
      <4>1. Head(toOC).type \in {"LUMINOSITY", "SHOW_SIGNAL_ASPECT"}
        BY <2>1, <2>3, OcHead DEF Out
      <4>2. QED
        BY <1>4, <2>1, <2>3, <4>1 DEF OcObey, OcDisobey, OcPhaseAfter, OpeningInv, FinishInv
    <3>2. PICK x \in Replies : /\ x.type \notin Opening
                               /\ toIXL' = <<>> \/ toIXL' = Append(toIXL, x)
      BY <1>4, <2>3, OcAnswersOnce
    <3>3. Carries(toIXL', Opening) => Carries(toIXL, Opening)
      <4>1. toIXL \in Seq(Replies)
        BY DEF TypeOK
      <4>2. ~Carries(<<>>, Opening)
        BY EmptyQueue
      <4>3. Carries(Append(toIXL, x), Opening) <=> Carries(toIXL, Opening) \/ x.type \in Opening
        BY <4>1, AppendedQueue
      <4>4. QED
        BY <3>2, <4>2, <4>3
    <3>4. QED
      BY <2>1, <3>1, <3>3 DEF OpeningInv, FinishInv, PastInv, InFlight, Taken
  <2>4. QED
    BY <2>2, <2>3
<1>5. QED
  BY <1>1, <1>2, <1>3, <1>4 DEF Environment

LEMMA SrSendLinks ==
  ASSUME TypeOK, NEW m \in Commands, SrSend(m)
  PROVE  toIXL' = toIXL \/ toIXL' = <<>>
BY SrSendEffect DEF TypeOK, LinkTypeOK

LEMMA OpeningNotification == TypeOK /\ StageInv /\ OpeningInv /\ Notification => OpeningInv'
<1> SUFFICES ASSUME TypeOK, StageInv, OpeningInv, Notification PROVE OpeningInv'
  OBVIOUS
<1> USE DEF mainVars, recvVars, ocVars
<1>1. CASE OnClosed \/ OnStart \/ OnTimeout \/ OnHandshake
  BY <1>1, OpeningKept DEF OnClosed, OnStart, OnTimeout, OnHandshake, Start, Fail,
                           InSession, CommandResults
<1>2. CASE SendVersionRequest
  <2>1. Early # 0
    BY <1>2, CountsAreNatural DEF SendVersionRequest, Early, One
  <2>2. ocPhase # "initialised"
    BY <2>1 DEF StageInv
  <2>3. Plain("VERSION_REQUEST") \in Commands
    BY PlainType DEF CommandTypes
  <2>4. QED
    BY <1>2, <2>2, <2>3, SrSendLinks, OpeningKept DEF SendVersionRequest
<1>3. QED
  BY <1>1, <1>2 DEF Notification

LEMMA OpeningReceiver == TypeOK /\ StageInv /\ OpeningInv /\ Receiver => OpeningInv'
<1> SUFFICES ASSUME TypeOK, StageInv, OpeningInv, Receiver PROVE OpeningInv'
  OBVIOUS
<1>1. CASE Receive
  <2>1. /\ rx # <<>> /\ rx' = Tail(rx) /\ rcv.step = "idle"
        /\ rcv'.step = "dispatch" /\ rcv'.msg = Head(rx)
        /\ UNCHANGED <<pdi_state, pc, toOC, toIXL, ocPhase>>
    BY <1>1 DEF Receive, mainVars, linkVars, ocVars
  <2>2. rx \in Seq(Replies)
    BY DEF TypeOK
  <2>3. /\ Carries(rx, Finish) <=> Carries(rx', Finish) \/ Head(rx).type \in Finish
        /\ Carries(rx, Opening) <=> Carries(rx', Opening) \/ Head(rx).type \in Opening
        /\ OnlyLast(rx, "STATUS_FINISH")
               => /\ OnlyLast(rx', "STATUS_FINISH")
                  /\ Head(rx).type \in Finish => rx' = <<>>
    BY <2>1, <2>2, TailOfQueue DEF Finish
  <2>4. FinishInv'
    BY <2>1, <2>3 DEF OpeningInv, FinishInv, Taken
  <2>5. PastInv'
    BY <2>1, <2>3 DEF OpeningInv, PastInv, InFlight, Taken
  <2>6. QED
    BY <2>4, <2>5 DEF OpeningInv
<1>2. CASE ReceiveNothing
  BY <1>2, OpeningKept DEF ReceiveNothing, recvVars, ocVars, linkVars, Before, Ended
<1>3. CASE OnInitialisationCompleted
  <2>1. /\ Running /\ Taken(Finish) /\ rcv'.step = "idle"
        /\ UNCHANGED <<pc, toOC, toIXL, rx, ocPhase>>
        /\ pdi_state' = "ESTABLISHED" => pdi_state = "RECEIVING_INITIAL_STATUS"
        /\ pdi_state' \in {"ESTABLISHED", "FAILED"}
    BY <1>3 DEF OnInitialisationCompleted, Dispatching, Transition, Taken, Finish, Idle,
                mainVars, linkVars, ocVars
  <2>2. CASE pdi_state' = "FAILED"
    BY <2>1, <2>2, OpeningKept DEF InSession, CommandResults
  <2>3. CASE pdi_state' = "ESTABLISHED"
    <3>1. pc \in Before /\ ocPhase = "initialised"
      BY <2>1, <2>3 DEF OpeningInv, PastInv, InFlight, Taken, Finish, Opening, Running,
                        Ended, StageInv
    <3>2. toIXL = <<>> /\ rx = <<>>
      BY <2>1, <3>1 DEF OpeningInv, FinishInv
    <3>3. ~InFlight(Opening)'
      BY <2>1, <3>2, EmptyQueue DEF InFlight, Taken
    <3>4. QED
      BY <2>1, <3>3 DEF OpeningInv, FinishInv, PastInv, Taken
  <2>4. QED
    BY <2>1, <2>2, <2>3
<1>4. CASE OnInvalid \/ OnUnknown \/ OnVersionResponse \/ AcceptVersion
  BY <1>4, OpeningKept
     DEF OnInvalid, OnUnknown, OnVersionResponse, AcceptVersion, Dispatching, Fail, Idle,
         mainVars, linkVars, ocVars, InSession, CommandResults, TypeOK
<1>5. CASE SendStatusRequest
  <2>1. ocPhase # "initialised"
    BY <1>5 DEF SendStatusRequest, StageInv
  <2>2. Plain("STATUS_REQUEST") \in Commands
    BY PlainType DEF CommandTypes
  <2>3. QED
    BY <1>5, <2>1, <2>2, SrSendLinks, OpeningKept
       DEF SendStatusRequest, Idle, mainVars, ocVars
<1>6. CASE \/ OnInitialisationStart \/ OnInitialAspectStatus \/ OnAspectFeedback
           \/ OnExecutionError \/ OnBrightnessStatus
  <2>1. /\ rcv'.step = "idle" /\ UNCHANGED <<pc, toOC, toIXL, rx, ocPhase>>
        /\ pdi_state' \in InSession => pdi_state \in InSession
    BY <1>6 DEF OnInitialisationStart, OnInitialAspectStatus, OnAspectFeedback,
                OnExecutionError, OnBrightnessStatus, Dispatching, Transition, Complete,
                Idle, mainVars, linkVars, ocVars, InSession, CommandResults
  <2>2. QED
    BY <2>1, OpeningKept
<1>7. QED
  BY <1>1, <1>2, <1>3, <1>4, <1>5, <1>6 DEF Receiver

LEMMA OpeningMain == TypeOK /\ OpeningInv /\ MainThread => OpeningInv'
<1> SUFFICES ASSUME TypeOK, OpeningInv, MainThread PROVE OpeningInv'
  OBVIOUS
<1> USE DEF Main, Before, Ended, recvVars, ocVars, linkVars
<1>1. CASE Connect \/ FireStart
  BY <1>1, OpeningKept DEF Connect, FireStart, InSession, CommandResults
<1>2. CASE Established
  BY <1>2, OpeningKept DEF Established, InSession
<1>3. CASE PdiTimeout \/ Quit \/ CommandFailed
  BY <1>3, OpeningKept DEF PdiTimeout, Quit, CommandFailed, Fail, InSession, CommandResults
<1>4. CASE SendDay \/ OrderLuminosity
  <2>1. Plain("LUMINOSITY") \in Commands
    BY PlainType DEF CommandTypes
  <2>2. QED
    BY <1>4, <2>1, SrSendLinks, OpeningKept DEF SendDay, OrderLuminosity
<1>5. ASSUME NEW c, Order(c) PROVE OpeningInv'
  BY <1>5, OpeningKept DEF Order
<1>6. CASE Operator
  BY <1>3, <1>4, <1>5, <1>6 DEF Operator, OrderAspect, OrderRoute, OrderRelease
<1>7. CASE BeginConfirmation \/ CommandDone
  BY <1>7, OpeningKept DEF BeginConfirmation, CommandDone
<1>8. CASE SendAspect
  <2>1. Show(cmd.aspect) \in Commands
    BY PlainType DEF TypeOK
  <2>2. QED
    BY <1>8, <2>1, SrSendLinks, OpeningKept DEF SendAspect
<1>9. QED
  BY <1>1, <1>2, <1>3, <1>4, <1>6, <1>7, <1>8 DEF MainThread, Establishment, Command

LEMMA OpeningAlways == Spec => [](TypeOK /\ StageInv /\ OpeningInv)
<1>1. Init => OpeningInv
  <2>1. ASSUME Init PROVE ~InFlight(Opening) /\ ~Carries(rx, Finish) /\ ocPhase = "idle"
    BY <2>1, EmptyQueue DEF Init, InFlight, Taken, Idle
  <2>2. QED
    BY <2>1 DEF OpeningInv, FinishInv, PastInv
<1>2. TypeOK /\ StageInv /\ OpeningInv /\ [Next]_vars => OpeningInv'
  <2>1. OpeningInv /\ UNCHANGED vars => OpeningInv'
    BY OpeningKept DEF vars, mainVars, linkVars, recvVars, ocVars
  <2>2. QED
    BY <2>1, OpeningEnvironment, OpeningNotification, OpeningReceiver, OpeningMain DEF Next
<1>3. QED
  BY <1>1, <1>2, StageAlways, PTL DEF Spec

-------------------------------------------------------------------------------
(* One order at a time. No order and no answer is under way when a command  *)
(* begins and when its result stands; in between there is at most one of    *)
(* the two, and a status on its way reports what the signal shows.          *)

NoOrder == ~AspectOrdered /\ ~InFlight(AspectAnswers)

OneOrder ==
    /\ AtMostOne(toOC, {"SHOW_SIGNAL_ASPECT"})
    /\ AtMostOne(toIXL, AspectAnswers) /\ AtMostOne(rx, AspectAnswers)
    /\ AspectOrdered => ~InFlight(AspectAnswers)
    /\ Carries(toIXL, AspectAnswers) => ~Carries(rx, AspectAnswers) /\ ~Taken(AspectAnswers)
    /\ Carries(rx, AspectAnswers) => ~Taken(AspectAnswers)

Reported ==
    /\ Reports(toIXL, ocAspect) /\ Reports(rx, ocAspect)
    /\ Taken({"SIGNAL_ASPECT_STATUS"}) => rcv.msg.aspect = ocAspect

OrderInv ==
    /\ pdi_state = "ESTABLISHED" => pc \notin {"send", "awaiting"}
    /\ pdi_state \in CommandResults => pc \in {"awaiting"} \cup Ended
    /\ pdi_state \in {"ESTABLISHED"} \cup CommandResults => NoOrder
    /\ pdi_state = "WAIT_CONFIRMATION" => IF pc = "send" THEN NoOrder
                                                         ELSE OneOrder /\ Reported
    /\ pdi_state = "COMMAND_CONFIRMED" => ocAspect = cmd.aspect

LEMMA NoOrderIsOne == NoOrder => OneOrder /\ Reported
BY NoneIsAtMostOne DEF NoOrder, OneOrder, Reported, AspectOrdered, InFlight, Taken,
                       AspectAnswers

(* What a step does to the telegrams under way decides the rest.            *)
Orderly ==
    /\ NoOrder => NoOrder' /\ ocAspect' = ocAspect
    /\ OneOrder /\ Reported => OneOrder' /\ Reported'

LEMMA OrderFromQueues ==
  ASSUME OrderInv, Orderly, pdi_state' = pdi_state, cmd' = cmd, pc' = pc \/ pc' \in Ended
  PROVE  OrderInv'
BY NoOrderIsOne DEF OrderInv, Orderly, Ended, CommandResults

LEMMA OutsideSession ==
  ASSUME pdi_state' \notin InSession
  PROVE  OrderInv'
BY DEF OrderInv, InSession, CommandResults

LEMMA QueuesKeptIsOrderly ==
  ASSUME UNCHANGED <<toOC, rx, rcv, ocAspect>>, toIXL' = toIXL \/ toIXL' = <<>>
  PROVE  Orderly
<1>1. ~Carries(<<>>, AspectAnswers) /\ AtMostOne(<<>>, AspectAnswers) /\ Reports(<<>>, ocAspect)
  BY EmptyQueue
<1>2. QED
  BY <1>1 DEF Orderly, NoOrder, OneOrder, Reported, AspectOrdered, InFlight, Taken

LEMMA LossIsOrderly ==
  ASSUME TypeOK, toIXL # <<>>, toIXL' = Tail(toIXL), UNCHANGED <<toOC, rx, rcv, ocAspect>>
  PROVE  Orderly
<1>1. /\ Carries(toIXL', AspectAnswers) => Carries(toIXL, AspectAnswers)
      /\ AtMostOne(toIXL, AspectAnswers) => AtMostOne(toIXL', AspectAnswers)
      /\ Reports(toIXL, ocAspect) => Reports(toIXL', ocAspect)
  BY TailOfQueue DEF TypeOK
<1>2. QED
  BY <1>1 DEF Orderly, NoOrder, OneOrder, Reported, AspectOrdered, InFlight, Taken

LEMMA DeliveryIsOrderly ==
  ASSUME TypeOK, toIXL # <<>>, toIXL' = Tail(toIXL),
         rx' = Append(rx, Head(toIXL)) \/ rx' = rx,
         UNCHANGED <<toOC, rcv, ocAspect>>
  PROVE  Orderly
<1>1. toIXL \in Seq(Replies) /\ rx \in Seq(Replies) /\ Head(toIXL) \in Replies
  BY DEF TypeOK
<1>2. /\ Carries(toIXL, AspectAnswers)
             <=> Carries(toIXL', AspectAnswers) \/ Head(toIXL).type \in AspectAnswers
      /\ AtMostOne(toIXL, AspectAnswers)
             => /\ AtMostOne(toIXL', AspectAnswers)
                /\ Head(toIXL).type \in AspectAnswers => ~Carries(toIXL', AspectAnswers)
      /\ Reports(toIXL, ocAspect)
             => /\ Reports(toIXL', ocAspect)
                /\ Head(toIXL).type = "SIGNAL_ASPECT_STATUS" => Head(toIXL).aspect = ocAspect
  BY <1>1, TailOfQueue
<1>3. /\ Carries(rx', AspectAnswers)
             => Carries(rx, AspectAnswers) \/ Head(toIXL).type \in AspectAnswers
      /\ AtMostOne(rx, AspectAnswers)
             /\ (Head(toIXL).type \in AspectAnswers => ~Carries(rx, AspectAnswers))
             => AtMostOne(rx', AspectAnswers)
      /\ Reports(rx, ocAspect)
             /\ (Head(toIXL).type = "SIGNAL_ASPECT_STATUS" => Head(toIXL).aspect = ocAspect)
             => Reports(rx', ocAspect)
  <2>1. CASE rx' = rx
    BY <2>1
  <2>2. CASE rx' = Append(rx, Head(toIXL))
    BY <1>1, <2>2, AppendedQueue
  <2>3. QED
    BY <2>1, <2>2
<1>4. NoOrder => NoOrder' /\ ocAspect' = ocAspect
  BY <1>2, <1>3 DEF NoOrder, AspectOrdered, InFlight, Taken
<1>5. OneOrder => OneOrder'
  BY <1>2, <1>3 DEF OneOrder, AspectOrdered, InFlight, Taken
<1>6. Reported => Reported'
  BY <1>2, <1>3 DEF Reported, Taken
<1>7. QED
  BY <1>4, <1>5, <1>6 DEF Orderly

LEMMA TakingIsOrderly ==
  ASSUME TypeOK, Receive
  PROVE  Orderly
<1>1. /\ rx # <<>> /\ rx' = Tail(rx) /\ rcv.step = "idle"
      /\ rcv'.step = "dispatch" /\ rcv'.msg = Head(rx)
      /\ UNCHANGED <<toOC, toIXL, ocAspect>>
  BY DEF Receive, linkVars, ocVars
<1>2. /\ Carries(rx, AspectAnswers)
             <=> Carries(rx', AspectAnswers) \/ Head(rx).type \in AspectAnswers
      /\ AtMostOne(rx, AspectAnswers)
             => /\ AtMostOne(rx', AspectAnswers)
                /\ Head(rx).type \in AspectAnswers => ~Carries(rx', AspectAnswers)
      /\ Reports(rx, ocAspect)
             => /\ Reports(rx', ocAspect)
                /\ Head(rx).type = "SIGNAL_ASPECT_STATUS" => Head(rx).aspect = ocAspect
  BY <1>1, TailOfQueue DEF TypeOK
<1>3. NoOrder => NoOrder' /\ ocAspect' = ocAspect
  BY <1>1, <1>2 DEF NoOrder, AspectOrdered, InFlight, Taken
<1>4. OneOrder => OneOrder'
  BY <1>1, <1>2 DEF OneOrder, AspectOrdered, InFlight, Taken
<1>5. Reported => Reported'
  BY <1>1, <1>2 DEF Reported, Taken
<1>6. QED
  BY <1>3, <1>4, <1>5 DEF Orderly

LEMMA ConsumptionIsOrderly ==
  ASSUME rcv'.step = "idle", UNCHANGED <<toOC, toIXL, rx, ocAspect>>
  PROVE  Orderly
BY DEF Orderly, NoOrder, OneOrder, Reported, AspectOrdered, InFlight, Taken

(* The Object Controller turns the one order into the one answer.           *)
LEMMA AnswerIsOrderly ==
  ASSUME TypeOK, StageInv, ocPhase = "initialised", OcObey \/ OcDisobey,
         "luminosity_error" \notin OcFaults
  PROVE  Orderly
<1> DEFINE Shows == {"SHOW_SIGNAL_ASPECT"}
<1>1. /\ toOC # <<>> /\ toOC' = Tail(toOC)
      /\ UNCHANGED <<rx, rcv>>
      /\ Head(toOC).type # "SHOW_SIGNAL_ASPECT" => ocAspect' = ocAspect
  BY OcAnswersOnce DEF recvVars
<1>2. PICK x \in Replies :
         /\ toIXL' = <<>> \/ toIXL' = Append(toIXL, x)
         /\ x.type = "SIGNAL_ASPECT_STATUS" => x.aspect = ocAspect'
         /\ x.type \in AspectAnswers => Head(toOC).type = "SHOW_SIGNAL_ASPECT"
  BY OcAnswersOnce
<1>3. /\ Carries(toOC, Shows) <=> Carries(toOC', Shows) \/ Head(toOC).type \in Shows
      /\ AtMostOne(toOC, Shows)
             => /\ AtMostOne(toOC', Shows)
                /\ Head(toOC).type \in Shows => ~Carries(toOC', Shows)
  BY <1>1, TailOfQueue DEF TypeOK
<1>4. /\ Carries(toIXL', AspectAnswers)
             => Carries(toIXL, AspectAnswers) \/ x.type \in AspectAnswers
      /\ AtMostOne(toIXL, AspectAnswers)
             /\ (x.type \in AspectAnswers => ~Carries(toIXL, AspectAnswers))
             => AtMostOne(toIXL', AspectAnswers)
      /\ Reports(toIXL, ocAspect') => Reports(toIXL', ocAspect')
  <2>1. CASE toIXL' = <<>>
    BY <2>1, EmptyQueue
  <2>2. CASE toIXL' = Append(toIXL, x)
    <3>1. toIXL \in Seq(Replies)
      BY DEF TypeOK
    <3>2. QED
      BY <1>2, <2>2, <3>1, AppendedQueue
  <2>3. QED
    BY <1>2, <2>1, <2>2
<1>5. NoOrder => NoOrder' /\ ocAspect' = ocAspect
  BY <1>1, <1>2, <1>3, <1>4 DEF NoOrder, AspectOrdered, InFlight, Taken
<1>6. OneOrder => OneOrder'
  BY <1>1, <1>2, <1>3, <1>4 DEF OneOrder, AspectOrdered, InFlight, Taken
<1>7. OneOrder /\ Reported => Reported'
  <2> SUFFICES ASSUME OneOrder, Reported PROVE Reported'
    OBVIOUS
  <2>1. CASE ocAspect' = ocAspect
    BY <1>1, <1>4, <2>1 DEF Reported, Taken
  <2>2. CASE ocAspect' # ocAspect
    <3>1. ~InFlight(AspectAnswers)
      BY <1>1, <1>3, <2>2 DEF OneOrder, AspectOrdered
    <3>2. Reports(toIXL, ocAspect') /\ Reports(rx, ocAspect')
      BY <3>1, NoneIsAtMostOne DEF InFlight, AspectAnswers
    <3>3. ~Taken({"SIGNAL_ASPECT_STATUS"})
      BY <3>1 DEF InFlight, Taken, AspectAnswers
    <3>4. QED
      BY <1>1, <1>4, <3>2, <3>3 DEF Reported, Taken
  <2>3. QED
    BY <2>1, <2>2
<1>8. QED
  BY <1>5, <1>6, <1>7 DEF Orderly

(* A telegram that is no order for the signal.                              *)
LEMMA OtherSendIsOrderly ==
  ASSUME TypeOK, NEW m \in Commands, m.type # "SHOW_SIGNAL_ASPECT", SrSend(m),
         UNCHANGED <<rx, rcv, ocAspect>>
  PROVE  Orderly
<1>1. /\ toOC' = Append(toOC, m) \/ toOC' = toOC
      /\ toIXL' = toIXL \/ toIXL' = <<>>
  BY SrSendEffect DEF LinkTypeOK, TypeOK
<1>2. /\ Carries(toOC', {"SHOW_SIGNAL_ASPECT"}) => Carries(toOC, {"SHOW_SIGNAL_ASPECT"})
      /\ AtMostOne(toOC, {"SHOW_SIGNAL_ASPECT"}) => AtMostOne(toOC', {"SHOW_SIGNAL_ASPECT"})
  <2>1. CASE toOC' = toOC
    BY <2>1
  <2>2. CASE toOC' = Append(toOC, m)
    <3>1. toOC \in Seq(Commands)
      BY DEF TypeOK
    <3>2. \A a : /\ Carries(toOC', {"SHOW_SIGNAL_ASPECT"})
                       <=> \/ Carries(toOC, {"SHOW_SIGNAL_ASPECT"})
                           \/ m.type \in {"SHOW_SIGNAL_ASPECT"}
                 /\ AtMostOne(toOC, {"SHOW_SIGNAL_ASPECT"})
                       /\ (m.type \in {"SHOW_SIGNAL_ASPECT"}
                               => ~Carries(toOC, {"SHOW_SIGNAL_ASPECT"}))
                       => AtMostOne(toOC', {"SHOW_SIGNAL_ASPECT"})
      BY <2>2, <3>1, AppendedQueue
    <3>3. QED
      BY <3>2
  <2>3. QED
    BY <1>1, <2>1, <2>2
<1>3. ~Carries(<<>>, AspectAnswers) /\ AtMostOne(<<>>, AspectAnswers) /\ Reports(<<>>, ocAspect)
  BY EmptyQueue
<1>4. QED
  BY <1>1, <1>2, <1>3
     DEF Orderly, NoOrder, OneOrder, Reported, AspectOrdered, InFlight, Taken

LEMMA OrderEnvironment ==
  ASSUME "luminosity_error" \notin OcFaults, TypeOK, StageInv, OrderInv, Environment
  PROVE  OrderInv'
<1>1. CASE RastaUp \/ RastaClose \/ RastaTimeout
  BY <1>1, QueuesKeptIsOrderly, OrderFromQueues
     DEF RastaUp, RastaClose, RastaTimeout, Disconnect, mainVars, recvVars, ocVars
<1>2. CASE RastaRetransmission
  <2>1. /\ UNCHANGED <<pdi_state, pc, cmd, toOC, rx, rcv, ocAspect>>
        /\ toIXL' = toIXL \/ (toIXL # <<>> /\ toIXL' = Tail(toIXL))
    BY <1>2 DEF RastaRetransmission, mainVars, recvVars, ocVars
  <2>2. Orderly
    BY <2>1, QueuesKeptIsOrderly, LossIsOrderly
  <2>3. QED
    BY <2>1, <2>2, OrderFromQueues
<1>3. CASE RastaDeliver
  <2>1. Orderly
    BY <1>3, DeliveryIsOrderly DEF RastaDeliver, ocVars
  <2>2. QED
    BY <1>3, <2>1, OrderFromQueues DEF RastaDeliver, mainVars
<1>4. CASE OcObey \/ OcDisobey
  <2>1. CASE ocPhase = "initialised"
    BY <1>4, <2>1, AnswerIsOrderly, OcAnswersOnce, OrderFromQueues DEF mainVars
  <2>2. CASE ocPhase # "initialised"
    BY <1>4, <2>2, OutsideSession DEF OcObey, OcDisobey, StageInv
  <2>3. QED
    BY <2>1, <2>2
<1>5. QED
  BY <1>1, <1>2, <1>3, <1>4 DEF Environment

LEMMA OrderNotification == TypeOK /\ StageInv /\ OrderInv /\ Notification => OrderInv'
<1> SUFFICES ASSUME TypeOK, StageInv, OrderInv, Notification PROVE OrderInv'
  OBVIOUS
<1>1. CASE OnClosed \/ OnStart \/ OnTimeout \/ OnHandshake
  BY <1>1, OutsideSession DEF OnClosed, OnStart, OnTimeout, OnHandshake, Fail, InSession,
                              CommandResults
<1>2. CASE SendVersionRequest
  <2>1. Early # 0
    BY <1>2, CountsAreNatural DEF SendVersionRequest, Early, One
  <2>2. pdi_state \notin InSession
    BY <2>1 DEF StageInv
  <2>3. QED
    BY <1>2, <2>2, OutsideSession DEF SendVersionRequest
<1>3. QED
  BY <1>1, <1>2 DEF Notification

LEMMA OrderReceiver ==
  TypeOK /\ StageInv /\ OpeningInv /\ PendingInv /\ OrderInv /\ Receiver => OrderInv'
<1> SUFFICES ASSUME TypeOK, StageInv, OpeningInv, PendingInv, OrderInv, Receiver
             PROVE  OrderInv'
  OBVIOUS
<1>1. CASE Receive
  BY <1>1, TakingIsOrderly, OrderFromQueues DEF Receive, mainVars
<1>2. CASE ReceiveNothing
  BY <1>2, QueuesKeptIsOrderly, OrderFromQueues
     DEF ReceiveNothing, linkVars, recvVars, ocVars, Ended
<1>3. CASE OnVersionResponse \/ AcceptVersion \/ SendStatusRequest
  <2>1. ocPhase = "versioned"
    BY <1>3 DEF OnVersionResponse, AcceptVersion, SendStatusRequest, Dispatching, StageInv,
                In, VersionTypes, TypeOK
  <2>2. pdi_state' \notin InSession
    BY <1>3, <2>1 DEF OnVersionResponse, AcceptVersion, SendStatusRequest, Dispatching, Fail,
                      StageInv, InSession, CommandResults
  <2>3. QED
    BY <2>2, OutsideSession
<1>4. CASE OnUnknown \/ OnBrightnessStatus
  <2>1. rcv'.step = "idle" /\ UNCHANGED <<pc, cmd, toOC, toIXL, rx, ocAspect>>
    BY <1>4 DEF OnUnknown, OnBrightnessStatus, Dispatching, Idle, mainVars, linkVars, ocVars
  <2>2. pdi_state' = pdi_state \/ pdi_state' = "FAILED"
    BY <1>4 DEF OnUnknown, OnBrightnessStatus
  <2>3. QED
    BY <2>1, <2>2, ConsumptionIsOrderly, OrderFromQueues, OutsideSession
       DEF InSession, CommandResults
<1>5. CASE OnInvalid \/ OnInitialisationStart \/ OnInitialAspectStatus
  BY <1>5, OutsideSession DEF OnInvalid, OnInitialisationStart, OnInitialAspectStatus, Fail,
                              Transition, InSession, CommandResults
<1>6. CASE OnInitialisationCompleted
  <2>1. /\ Running /\ Taken(Finish) /\ rcv'.step = "idle"
        /\ UNCHANGED <<pc, toOC, toIXL, rx, ocPhase>>
        /\ pdi_state' = "ESTABLISHED" => pdi_state = "RECEIVING_INITIAL_STATUS"
        /\ pdi_state' \in {"ESTABLISHED", "FAILED"}
    BY <1>6 DEF OnInitialisationCompleted, Dispatching, Transition, Taken, Finish, Idle,
                mainVars, linkVars, ocVars
  <2>2. CASE pdi_state' = "FAILED"
    BY <2>2, OutsideSession DEF InSession, CommandResults
  <2>3. CASE pdi_state' = "ESTABLISHED"
    <3>1. pc \in Before /\ ocPhase = "initialised"
      BY <2>1, <2>3 DEF OpeningInv, PastInv, InFlight, Taken, Finish, Opening, Running,
                        Ended, StageInv
    <3>2. toIXL = <<>> /\ rx = <<>> /\ toOC = <<>>
      BY <2>1, <3>1 DEF OpeningInv, FinishInv
    <3>3. NoOrder'
      BY <2>1, <3>2, EmptyQueue DEF NoOrder, AspectOrdered, InFlight, Taken
    <3>4. QED
      BY <2>1, <2>3, <3>1, <3>3 DEF OrderInv, Before, CommandResults
  <2>4. QED
    BY <2>1, <2>2, <2>3
<1>7. CASE OnAspectFeedback \/ OnExecutionError
  <2>1. /\ Taken(AspectAnswers) /\ rcv'.step = "idle"
        /\ UNCHANGED <<pc, cmd, toOC, toIXL, rx, ocAspect>>
        /\ pdi_state' = "FAILED" \/ (pdi_state = "WAIT_CONFIRMATION"
                                        /\ pdi_state' \in CommandResults)
        /\ pdi_state' = "COMMAND_CONFIRMED"
               => Taken({"SIGNAL_ASPECT_STATUS"}) /\ rcv.msg.aspect = expected
    BY <1>7 DEF OnAspectFeedback, OnExecutionError, Dispatching, Complete, Transition, Taken,
                AspectAnswers, CommandResults, Idle, mainVars, linkVars, ocVars
  <2>2. CASE pdi_state' = "FAILED"
    BY <2>2, OutsideSession DEF InSession, CommandResults
  <2>3. CASE pdi_state = "WAIT_CONFIRMATION" /\ pdi_state' \in CommandResults
    <3>1. pc # "send" /\ OneOrder /\ Reported
      BY <2>1, <2>3 DEF OrderInv, NoOrder, InFlight
    <3>2. NoOrder'
      BY <2>1, <3>1 DEF OneOrder, NoOrder, AspectOrdered, InFlight, Taken
    <3>3. pc \in {"awaiting"} \cup Ended
      BY <2>3, <3>1 DEF PendingInv, Pending, Ended
    <3>4. pdi_state' = "COMMAND_CONFIRMED" => ocAspect' = cmd'.aspect
      BY <2>1, <3>1 DEF Reported, PendingInv
    <3>5. QED
      BY <2>1, <2>3, <3>2, <3>3, <3>4 DEF OrderInv, CommandResults
  <2>4. QED
    BY <2>1, <2>2, <2>3
<1>8. QED
  BY <1>1, <1>2, <1>3, <1>4, <1>5, <1>6, <1>7 DEF Receiver

LEMMA OrderMain == TypeOK /\ StageInv /\ PendingInv /\ OrderInv /\ MainThread => OrderInv'
<1> SUFFICES ASSUME TypeOK, StageInv, PendingInv, OrderInv, MainThread PROVE OrderInv'
  OBVIOUS
<1> USE DEF Main
<1>1. CASE Connect \/ PdiTimeout \/ CommandFailed
  BY <1>1, OutsideSession DEF Connect, PdiTimeout, CommandFailed, Fail, InSession,
                              CommandResults
<1>2. ASSUME UNCHANGED <<cmd, toOC, toIXL, rx, rcv, ocAspect>>
      PROVE  /\ NoOrder => NoOrder'
             /\ OneOrder /\ Reported => OneOrder' /\ Reported'
  BY <1>2, QueuesKeptIsOrderly DEF Orderly
<1>3. CASE FireStart \/ Established \/ Quit
  <2>1. /\ UNCHANGED <<pdi_state, cmd, toOC, toIXL, rx, rcv, ocAspect>>
        /\ pc \in {"fire_start", "establishing", "prompt"}
        /\ pc' \in {"establishing", "send_day"} \cup Ended
    BY <1>3 DEF FireStart, Established, Quit, linkVars, recvVars, ocVars, Ended
  <2>2. QED
    BY <1>2, <2>1 DEF OrderInv, PendingInv, Pending, CommandResults, Ended
<1>4. CASE SendDay \/ OrderLuminosity
  <2>1. /\ SrSend(Plain("LUMINOSITY")) /\ UNCHANGED <<pdi_state, cmd, rx, rcv, ocAspect>>
        /\ pc \in {"send_day", "prompt"} /\ pc' = "prompt"
    BY <1>4 DEF SendDay, OrderLuminosity, recvVars, ocVars
  <2>2. Plain("LUMINOSITY") \in Commands /\ Plain("LUMINOSITY").type # "SHOW_SIGNAL_ASPECT"
    BY PlainType DEF Plain, CommandTypes
  <2>3. Orderly
    BY <2>1, <2>2, OtherSendIsOrderly
  <2>4. QED
    BY <2>1, <2>3 DEF Orderly, OrderInv, PendingInv, Pending, CommandResults, Ended
<1>5. ASSUME NEW c, Order(c) PROVE OrderInv'
  <2>1. /\ UNCHANGED <<pdi_state, toOC, toIXL, rx, rcv, ocAspect>>
        /\ pc = "prompt" /\ pc' = "begin"
    BY <1>5 DEF Order, linkVars, recvVars, ocVars
  <2>2. NoOrder => NoOrder'
    BY <2>1 DEF NoOrder, AspectOrdered, InFlight, Taken
  <2>3. QED
    BY <2>1, <2>2 DEF OrderInv, PendingInv, Pending, CommandResults, Ended
<1>6. CASE Operator
  BY <1>3, <1>4, <1>5, <1>6 DEF Operator, OrderAspect, OrderRoute, OrderRelease
<1>7. CASE BeginConfirmation
  <2>1. UNCHANGED <<cmd, toOC, toIXL, rx, rcv, ocAspect>>
    BY <1>7 DEF BeginConfirmation, linkVars, recvVars, ocVars
  <2>2. QED
    BY <1>2, <1>7, <2>1 DEF BeginConfirmation, OrderInv, PendingInv, Pending, CommandResults,
                            Ended
<1>8. CASE SendAspect
  <2>1. /\ pc = "send" /\ pc' = "awaiting" /\ SrSend(Show(cmd.aspect))
        /\ UNCHANGED <<pdi_state, cmd, rx, rcv, ocAspect>>
    BY <1>8 DEF SendAspect, recvVars, ocVars
  <2>2. Show(cmd.aspect) \in Commands
    BY PlainType DEF TypeOK
  <2>3. /\ toOC' = Append(toOC, Show(cmd.aspect)) \/ toOC' = toOC
        /\ toIXL' = toIXL \/ toIXL' = <<>>
    BY <2>1, <2>2, SrSendEffect DEF LinkTypeOK, TypeOK
  <2>4. ASSUME NoOrder PROVE OneOrder' /\ Reported'
    <3>1. AtMostOne(toOC', {"SHOW_SIGNAL_ASPECT"})
      <4>1. AtMostOne(toOC, {"SHOW_SIGNAL_ASPECT"})
        BY <2>4, NoOrderIsOne DEF OneOrder
      <4>2. ~Carries(toOC, {"SHOW_SIGNAL_ASPECT"})
        BY <2>4 DEF NoOrder, AspectOrdered
      <4>3. toOC \in Seq(Commands)
        BY DEF TypeOK
      <4>4. CASE toOC' = Append(toOC, Show(cmd.aspect))
        BY <2>2, <4>1, <4>2, <4>3, <4>4, AppendedQueue
      <4>5. QED
        BY <2>3, <4>1, <4>4
    <3>2. ~InFlight(AspectAnswers)'
      BY <2>1, <2>3, <2>4, EmptyQueue DEF NoOrder, InFlight, Taken
    <3>3. /\ AtMostOne(toIXL', AspectAnswers) /\ AtMostOne(rx', AspectAnswers)
          /\ Reports(toIXL', ocAspect') /\ Reports(rx', ocAspect')
      BY <3>2, NoneIsAtMostOne DEF InFlight, AspectAnswers
    <3>4. QED
      BY <3>1, <3>2, <3>3 DEF OneOrder, Reported, InFlight, Taken, AspectAnswers
  <2>5. QED
    BY <2>1, <2>4 DEF OrderInv, CommandResults, Ended
<1>9. CASE CommandDone
  <2>1. UNCHANGED <<cmd, toOC, toIXL, rx, rcv, ocAspect>>
    BY <1>9 DEF CommandDone, linkVars, recvVars, ocVars
  <2>2. QED
    BY <1>2, <1>9, <2>1 DEF CommandDone, OrderInv, CommandResults
<1>10. QED
  BY <1>1, <1>3, <1>4, <1>6, <1>7, <1>8, <1>9 DEF MainThread, Establishment, Command

LEMMA OrderAlways ==
  ASSUME "luminosity_error" \notin OcFaults
  PROVE  Spec => [](TypeOK /\ OrderInv)
<1>1. Init => OrderInv
  BY DEF Init, OrderInv, CommandResults
<1>2. /\ TypeOK /\ StageInv /\ OpeningInv /\ PendingInv /\ OrderInv /\ [Next]_vars
      => OrderInv'
  <2>1. OrderInv /\ UNCHANGED vars => OrderInv'
    BY QueuesKeptIsOrderly, OrderFromQueues DEF vars, mainVars, linkVars, recvVars, ocVars
  <2>2. QED
    BY <2>1, OrderEnvironment, OrderNotification, OrderReceiver, OrderMain DEF Next
<1>3. QED
  BY <1>1, <1>2, OpeningAlways, PendingAlways, PTL DEF Spec

(* When the main thread is about to read COMMAND_CONFIRMED, the signal      *)
(* shows what was ordered and neither an order nor an answer is under way,  *)
(* however the link loses, retransmits and closes.                          *)
THEOREM ConfirmationAnswersCommand ==
  ASSUME "luminosity_error" \notin OcFaults
  PROVE  Spec => []ConfirmationIsOwn
<1>1. OrderInv => ConfirmationIsOwn
  BY DEF OrderInv, ConfirmationIsOwn, CommandResults, NoOrder, InFlight, Taken, AspectAnswered
<1>2. QED
  BY <1>1, OrderAlways, PTL

-------------------------------------------------------------------------------
(* Routes and signal. A release is ordered with PARADA, so the confirmation *)
(* it waits for is one of PARADA.                                           *)

ReleaseInv == cmd.release => cmd.aspect = "PARADA"

LEMMA OthersKeepCommand ==
  ASSUME Next, ~Operator
  PROVE  cmd' = cmd
<1> USE DEF mainVars
<1>1. CASE Environment
  BY <1>1 DEF Environment, RastaUp, RastaRetransmission, RastaClose, RastaTimeout,
              RastaDeliver, OcObey, OcDisobey
<1>2. CASE Notification
  BY <1>2 DEF Notification, OnClosed, OnStart, OnTimeout, OnHandshake, Start,
              SendVersionRequest
<1>3. CASE Receiver
  BY <1>3 DEF Receiver, Receive, ReceiveNothing, OnInvalid, OnUnknown, OnVersionResponse,
              AcceptVersion, SendStatusRequest, OnInitialisationStart,
              OnInitialisationCompleted, OnInitialAspectStatus, OnAspectFeedback,
              OnExecutionError, OnBrightnessStatus, Dispatching
<1>4. CASE MainThread
  BY <1>4 DEF MainThread, Establishment, Connect, FireStart, Established, SendDay,
              PdiTimeout, Command, BeginConfirmation, SendAspect, CommandDone, CommandFailed
<1>5. QED
  BY <1>1, <1>2, <1>3, <1>4 DEF Next

LEMMA ReleaseAlways == Spec => [](TypeOK /\ ReleaseInv)
<1>1. Init => ReleaseInv
  BY DEF Init, ReleaseInv
<1>2. TypeOK /\ ReleaseInv /\ [Next]_vars => ReleaseInv'
  <2> SUFFICES ASSUME TypeOK, ReleaseInv, [Next]_vars PROVE ReleaseInv'
    OBVIOUS
  <2>1. ASSUME cmd' = cmd PROVE ReleaseInv'
    BY <2>1 DEF ReleaseInv
  <2>2. CASE Operator
    <3>1. ASSUME NEW a \in DirectAspects, OrderAspect(a) PROVE ReleaseInv'
      BY <3>1 DEF OrderAspect, Order, ReleaseInv, TypeOK
    <3>2. ASSUME NEW r \in Routes, OrderRoute(r) \/ OrderRelease(r) PROVE ReleaseInv'
      BY <3>2 DEF OrderRoute, OrderRelease, Order, ReleaseInv
    <3>3. CASE Quit \/ OrderLuminosity
      BY <2>1, <3>3 DEF Quit, OrderLuminosity
    <3>4. QED
      BY <2>2, <3>1, <3>2, <3>3 DEF Operator
  <2>3. CASE ~Operator /\ Next
    BY <2>1, <2>3, OthersKeepCommand
  <2>4. CASE UNCHANGED vars
    BY <2>1, <2>4 DEF vars, mainVars
  <2>5. QED
    BY <2>2, <2>3, <2>4
<1>3. QED
  BY <1>1, <1>2, TypeCorrect, PTL DEF Spec

(* What CommandDone knows when it gives a route up.                         *)
LEMMA ReleasedAtStop ==
  ASSUME TypeOK, OrderInv, ReleaseInv, CommandDone, ~UNCHANGED ixlVars
  PROVE  /\ cmd.route \in Routes /\ release_route(cmd.route)
         /\ cmd.aspect = "PARADA" /\ ocAspect = "PARADA" /\ ~AspectOrdered
<1>1. pdi_state = "COMMAND_CONFIRMED" /\ cmd.release /\ release_route(cmd.route)
  BY DEF CommandDone
<1>2. QED
  BY <1>1 DEF OrderInv, ReleaseInv, CommandResults, NoOrder, TypeOK

(* A route is given up only when the signal is at PARADA and no order that  *)
(* could change it is under way.                                            *)
THEOREM ReleaseBehindStop ==
  ASSUME "luminosity_error" \notin OcFaults
  PROVE  Spec => ReleaseIsBacked
<1>1. TypeOK /\ OrderInv /\ ReleaseInv /\ [Next]_vars
      => [\A r \in Routes : route[r] = "RESERVED" /\ route'[r] # "RESERVED"
             => ocAspect = "PARADA" /\ ~AspectOrdered]_vars
  <2> SUFFICES ASSUME TypeOK, OrderInv, ReleaseInv, Next,
                      NEW r \in Routes, route[r] = "RESERVED", route'[r] # "RESERVED"
               PROVE  ocAspect = "PARADA" /\ ~AspectOrdered
    OBVIOUS
  <2>1. ~UNCHANGED ixlVars
    BY DEF ixlVars
  <2>2. \A q \in Routes : ~OrderRoute(q)
    BY DEF OrderRoute, request_route_decision, TypeOK, IxlTypeOK
  <2>3. CommandDone
    BY <2>1, <2>2, OthersKeepRoutes
  <2>4. QED
    BY <2>1, <2>3, ReleasedAtStop
<1>2. QED
  BY <1>1, OrderAlways, ReleaseAlways, PTL DEF Spec, ReleaseIsBacked

-------------------------------------------------------------------------------
(* VIA_LIBRE is ordered for the route that was just reserved for it, and    *)
(* that route stays reserved as long as the order or the aspect stands.     *)

Proceeds ==
    ocAspect = "VIA_LIBRE" \/ \E i \in DOMAIN toOC : toOC[i] = Show("VIA_LIBRE")

ProceedInv ==
    /\ cmd.aspect = "VIA_LIBRE" => route[cmd.route] = "RESERVED"
    /\ Proceeds => \E r \in Routes : route[r] = "RESERVED"

LEMMA ProceedsIsOrdered ==
  ASSUME TypeOK, Next, Proceeds'
  PROVE  Proceeds \/ (SendAspect /\ cmd.aspect = "VIA_LIBRE")
<1>1. ASSUME UNCHANGED <<toOC, ocAspect>> PROVE Proceeds
  BY <1>1 DEF Proceeds
<1>2. ASSUME NEW m \in Commands, SrSend(m), UNCHANGED ocAspect
      PROVE  Proceeds \/ m = Show("VIA_LIBRE")
  <2>1. toOC' = Append(toOC, m) \/ toOC' = toOC
    BY <1>2, SrSendEffect DEF LinkTypeOK, TypeOK
  <2>2. CASE toOC' = Append(toOC, m)
    <3>1. \A i \in DOMAIN toOC' : toOC'[i] = m \/ (i \in DOMAIN toOC /\ toOC'[i] = toOC[i])
      BY <2>2 DEF TypeOK
    <3>2. QED
      BY <1>2, <3>1 DEF Proceeds
  <2>3. QED
    BY <1>1, <1>2, <2>1, <2>2
<1>3. \A t \in CommandTypes \ {"SHOW_SIGNAL_ASPECT"} :
         Plain(t) \in Commands /\ Plain(t) # Show("VIA_LIBRE")
  BY PlainType DEF Plain, Show
<1>4. CASE OcObey \/ OcDisobey
  <2>1. /\ toOC # <<>> /\ toOC' = Tail(toOC)
        /\ \/ ocAspect' = ocAspect
           \/ Head(toOC).type = "SHOW_SIGNAL_ASPECT" /\ ocAspect' = Head(toOC).aspect
    BY <1>4 DEF OcObey, OcDisobey, ocVars
  <2>2. /\ Head(toOC) = toOC[1] /\ 1 \in DOMAIN toOC /\ toOC[1] \in Commands
        /\ \A i \in DOMAIN toOC' : i + 1 \in DOMAIN toOC /\ toOC'[i] = toOC[i + 1]
    BY <2>1 DEF TypeOK
  <2>3. CASE ocAspect' = "VIA_LIBRE"
    BY <2>1, <2>2, <2>3 DEF Proceeds, Show, Commands
  <2>4. CASE ocAspect' # "VIA_LIBRE"
    BY <2>2, <2>4 DEF Proceeds
  <2>5. QED
    BY <2>3, <2>4
<1>5. CASE Environment
  BY <1>1, <1>4, <1>5 DEF Environment, RastaUp, RastaRetransmission, RastaClose,
                          RastaTimeout, RastaDeliver, ocVars
<1>6. CASE Notification
  BY <1>1, <1>2, <1>3, <1>6 DEF Notification, OnClosed, OnStart, OnTimeout, OnHandshake,
                                Start, SendVersionRequest, ocVars, CommandTypes
<1>7. CASE Receiver
  BY <1>1, <1>2, <1>3, <1>7
     DEF Receiver, Receive, ReceiveNothing, OnInvalid, OnUnknown, OnVersionResponse,
         AcceptVersion, SendStatusRequest, OnInitialisationStart,
         OnInitialisationCompleted, OnInitialAspectStatus, OnAspectFeedback,
         OnExecutionError, OnBrightnessStatus, Dispatching, linkVars, ocVars, CommandTypes
<1>8. CASE MainThread
  <2>1. CASE SendAspect
    <3>1. Show(cmd.aspect) \in Commands
      BY PlainType DEF TypeOK
    <3>2. Show(cmd.aspect) = Show("VIA_LIBRE") => cmd.aspect = "VIA_LIBRE"
      BY DEF Show
    <3>3. QED
      BY <1>2, <2>1, <3>1, <3>2 DEF SendAspect, Main, ocVars
  <2>2. CASE SendDay \/ OrderLuminosity
    BY <1>2, <1>3, <2>2 DEF SendDay, OrderLuminosity, Main, ocVars, CommandTypes
  <2>3. CASE ~SendAspect /\ ~SendDay /\ ~OrderLuminosity
    BY <1>1, <1>8, <2>3
       DEF MainThread, Establishment, Connect, FireStart, Established, PdiTimeout, Operator,
           Quit, OrderAspect, OrderRoute, OrderRelease, Order, Command, BeginConfirmation,
           CommandDone, CommandFailed, Main, linkVars, ocVars
  <2>4. QED
    BY <2>1, <2>2, <2>3
<1>9. QED
  BY <1>5, <1>6, <1>7, <1>8 DEF Next

LEMMA ProceedStep ==
  ASSUME DirectAspects = {}, TypeOK, OrderInv, ReleaseInv, ProceedInv, [Next]_vars
  PROVE  ProceedInv'
<1>1. CASE UNCHANGED vars
  BY <1>1 DEF vars, ixlVars, mainVars, linkVars, ocVars, ProceedInv, Proceeds
<1>2. ASSUME NEW r \in Routes, OrderRoute(r) PROVE ProceedInv'
  <2>1. /\ cmd'.route = r
        /\ cmd'.aspect = "VIA_LIBRE" => Decision(r) = "GO"
        /\ UNCHANGED <<toOC, ocAspect>>
    BY <1>2 DEF OrderRoute, Order, linkVars, Main, ocVars
  <2>2. /\ Decision(r) = "GO" => route'[r] = "RESERVED"
        /\ \A q \in Routes : route[q] = "RESERVED" => route'[q] = "RESERVED"
    BY <1>2 DEF OrderRoute, request_route_decision, TypeOK, IxlTypeOK
  <2>3. QED
    BY <2>1, <2>2, <1>2 DEF ProceedInv, Proceeds
<1>3. CASE CommandDone /\ ~UNCHANGED ixlVars
  <2>1. /\ cmd.aspect = "PARADA" /\ ocAspect = "PARADA" /\ ~AspectOrdered
        /\ UNCHANGED <<cmd, toOC, ocAspect>>
    BY <1>3, ReleasedAtStop DEF CommandDone, Main, linkVars, ocVars
  <2>2. ~Proceeds'
    BY <2>1 DEF Proceeds, AspectOrdered, Carries, Show
  <2>3. QED
    BY <2>1, <2>2 DEF ProceedInv
<1>4. CASE Next /\ UNCHANGED ixlVars /\ \A r \in Routes : ~OrderRoute(r)
  <2>1. route' = route
    BY <1>4 DEF ixlVars
  <2>2. cmd'.aspect = "VIA_LIBRE" => cmd' = cmd
    <3>1. CASE Operator
      BY <1>4, <3>1 DEF Operator, OrderRelease, Order, Quit, OrderLuminosity
    <3>2. CASE ~Operator
      BY <1>4, <3>2, OthersKeepCommand
    <3>3. QED
      BY <3>1, <3>2
  <2>3. Proceeds' => \E r \in Routes : route[r] = "RESERVED"
    <3>1. cmd.route \in Routes
      BY DEF TypeOK
    <3>2. QED
      BY <1>4, <3>1, ProceedsIsOrdered DEF ProceedInv
  <2>4. QED
    BY <2>1, <2>2, <2>3 DEF ProceedInv
<1>5. QED
  BY <1>1, <1>2, <1>3, <1>4, OthersKeepRoutes

(* As long as nobody gives direct aspects, the signal shows VIA_LIBRE, or   *)
(* is about to be told to, only while some route is reserved.               *)
THEOREM ProceedOverRoute ==
  ASSUME "luminosity_error" \notin OcFaults
  PROVE  Spec => []ProceedIsReserved
<1>1. CASE DirectAspects = {}
  <2>1. Init => ProceedInv
    BY DEF Init, ProceedInv, Proceeds
  <2>2. TypeOK /\ OrderInv /\ ReleaseInv /\ ProceedInv /\ [Next]_vars => ProceedInv'
    BY <1>1, ProceedStep
  <2>3. ProceedInv => ProceedIsReserved
    BY DEF ProceedInv, Proceeds, ProceedIsReserved
  <2>4. QED
    BY <2>1, <2>2, <2>3, OrderAlways, ReleaseAlways, PTL DEF Spec
<1>2. CASE DirectAspects # {}
  <2>1. ProceedIsReserved
    BY <1>2 DEF ProceedIsReserved
  <2>2. QED
    BY <2>1, PTL
<1>3. QED
  BY <1>1, <1>2

-------------------------------------------------------------------------------
(* A healthy session. Nothing deviates: neither the Object Controller nor   *)
(* the link, no wait runs out, and the START notification runs before the   *)
(* one of the handshake. Then the session never fails, whatever the order   *)
(* of the threads: each telegram finds pdi_state where its handler wants it.*)

HealthySetting ==
    /\ OcFaults = {} /\ LinkFaults = {}
    /\ ~PdiTimeouts /\ ~LateNotices

Begin == {"STATUS_BEGIN"}

Unhealthy == {"VERSION_NOT_EQUAL", "EXECUTION_ERROR", "INVALID", "UNKNOWN"}

OnlyFirst(q, type) == \A i \in DOMAIN q : q[i].type = type => i = 1

LinkHealth ==
    /\ conn \in {"NONE", "START", "UP"}
    /\ notices["CLOSED"] = 0 /\ notices["TIMEOUT"] = 0
    /\ ~InFlight(Unhealthy)

(* The notifications and the token of StageInv, each at its state.          *)
TokenHealth ==
    /\ pc = "fire_start" \/ notices["START"] > 0 => pdi_state = "WAIT_RASTA_HANDSHAKE"
    /\ \/ handshake = "sending" \/ Carries(toOC, {"VERSION_REQUEST"})
       \/ InFlight({"VERSION_EQUAL"}) \/ rcv.step = "version_accepted"
       => pdi_state = "WAIT_VERSION_RESPONSE"
    /\ \/ rcv.step = "request_status" \/ Carries(toOC, {"STATUS_REQUEST"})
       \/ InFlight(Begin)
       => pdi_state = "WAIT_INITIALISATION_START"

(* The status report: its beginning is the first telegram there is, and     *)
(* from when that is taken until the session is established the initial     *)
(* status is being received.                                                *)
ReportHealth ==
    /\ OnlyFirst(toIXL, "STATUS_BEGIN") /\ OnlyFirst(rx, "STATUS_BEGIN")
    /\ Carries(toIXL, Begin) => rx = <<>> /\ rcv.step = "idle"
    /\ Carries(rx, Begin) => rcv.step = "idle"
    /\ ocPhase = "initialised" /\ pc \in Before /\ ~InFlight(Begin) =>
         \/ pdi_state = "RECEIVING_INITIAL_STATUS"
         \/ pdi_state = "ESTABLISHED" /\ toIXL = <<>> /\ rx = <<>> /\ rcv.step = "idle"

SessionHealth ==
    /\ pc \in {"send_day", "prompt", "begin"} => pdi_state = "ESTABLISHED"
    /\ pc = "send" => pdi_state = "WAIT_CONFIRMATION"
    /\ pc = "awaiting" => pdi_state \in {"WAIT_CONFIRMATION"} \cup CommandResults
    /\ Taken({"SIGNAL_ASPECT_STATUS"}) => (rcv.waiting <=> pc \notin Before)

HealthInv ==
    /\ pdi_state # "FAILED"
    /\ Running => LinkHealth /\ TokenHealth /\ ReportHealth /\ SessionHealth

(* Where fifo_app_msg takes nothing, no telegram is ever dispatched, and no *)
(* status is asked for.                                                     *)
NothingTaken ==
    RxCapacity = 0 => /\ rx = <<>> /\ rcv.step = "idle"
                      /\ ocPhase = "idle" \/ (ocPhase = "versioned" /\ toOC = <<>>)

(* What is known of the session besides.                                    *)
Known ==
    /\ TypeOK /\ StageInv /\ ConnectInv /\ OpeningInv /\ PendingInv /\ OrderInv
    /\ NothingTaken

LEMMA FirstOfQueue ==
  ASSUME NEW S, NEW q \in Seq(S), NEW a
  PROVE  /\ q # <<>> /\ OnlyFirst(q, a) => OnlyFirst(Tail(q), a) /\ ~Carries(Tail(q), {a})
         /\ ~Carries(q, {a}) => OnlyFirst(q, a)
         /\ \A m \in S : OnlyFirst(q, a) /\ m.type # a => OnlyFirst(Append(q, m), a)
         /\ OnlyFirst(<<>>, a)
         /\ \A m \in S : OnlyFirst(Append(<<>>, m), a)
<1>1. ASSUME q # <<>>, OnlyFirst(q, a) PROVE ~Carries(Tail(q), {a})
  <2>1. \A i \in DOMAIN Tail(q) : i + 1 \in DOMAIN q /\ Tail(q)[i] = q[i + 1] /\ i + 1 # 1
    BY <1>1
  <2>2. QED
    BY <1>1, <2>1 DEF OnlyFirst, Carries
<1>2. \A r : ~Carries(r, {a}) => OnlyFirst(r, a)
  BY DEF OnlyFirst, Carries
<1>3. ASSUME NEW m \in S, OnlyFirst(q, a), m.type # a PROVE OnlyFirst(Append(q, m), a)
  <2>1. /\ \A i \in DOMAIN Append(q, m) :
              \/ i \in DOMAIN q /\ Append(q, m)[i] = q[i]
              \/ Append(q, m)[i] = m
    OBVIOUS
  <2>2. QED
    BY <1>3, <2>1 DEF OnlyFirst
<1>4. OnlyFirst(<<>>, a) /\ \A m \in S : OnlyFirst(Append(<<>>, m), a)
  BY DEF OnlyFirst
<1>5. QED
  BY <1>1, <1>2, <1>3, <1>4

(* Where the token is, nothing else is.                                     *)
LEMMA TokenAlone ==
  ASSUME TypeOK, StageInv
  PROVE  /\ \/ handshake = "sending" \/ notices["HANDSHAKE"] # 0
            \/ conn \in {"NONE", "START"}
            => /\ ocPhase = "idle" /\ rcv.step = "idle"
               /\ toOC = <<>> /\ toIXL = <<>> /\ rx = <<>>
         /\ handshake = "sending" \/ notices["HANDSHAKE"] # 0
            => conn \notin {"NONE", "START"}
         /\ notices["HANDSHAKE"] # 0 => handshake = "idle"
         /\ ocPhase # "initialised" /\ rcv.step # "idle"
            => /\ toOC = <<>> /\ toIXL = <<>> /\ rx = <<>>
               /\ conn \notin {"NONE", "START"} /\ handshake = "idle"
<1>1. ocPhase # "initialised" => Token <= 1
  BY DEF StageInv
<1>2. ocPhase # "idle" => Early = 0
  BY DEF StageInv
<1>3. /\ notices["HANDSHAKE"] \in Nat
      /\ Len(toOC) \in Nat /\ Len(toIXL) \in Nat /\ Len(rx) \in Nat
      /\ Early \in Nat
  BY CountsAreNatural
<1>4. /\ Len(toOC) = 0 => toOC = <<>>
      /\ Len(toIXL) = 0 => toIXL = <<>>
      /\ Len(rx) = 0 => rx = <<>>
  BY DEF TypeOK
<1>5. handshake \in {"idle", "sending"}
  BY DEF TypeOK
<1>6. ocPhase \in {"idle", "versioned", "initialised"}
  BY DEF TypeOK
<1>7. ASSUME Early # 0
      PROVE  /\ ocPhase = "idle" /\ rcv.step = "idle" /\ Early = 1
             /\ toOC = <<>> /\ toIXL = <<>> /\ rx = <<>>
  <2>1. Token <= 1 /\ ocPhase = "idle"
    BY <1>1, <1>2, <1>7
  <2>2. /\ Len(toOC) = 0 /\ Len(toIXL) = 0 /\ Len(rx) = 0 /\ Early = 1
        /\ One(rcv.step # "idle") = 0
    BY <1>3, <1>7, <2>1 DEF Token, One
  <2>3. QED
    BY <1>4, <2>1, <2>2 DEF One
<1>8. /\ conn \in {"NONE", "START"} => Early # 0
      /\ handshake = "sending" => Early # 0
      /\ notices["HANDSHAKE"] # 0 => Early # 0
  BY <1>3 DEF Early, One
<1>9. Early = 1 => /\ handshake = "sending" \/ notices["HANDSHAKE"] # 0
                       => conn \notin {"NONE", "START"}
                   /\ notices["HANDSHAKE"] # 0 => handshake # "sending"
  BY <1>3 DEF Early, One
<1>10. ASSUME ocPhase # "initialised", rcv.step # "idle"
       PROVE  toOC = <<>> /\ toIXL = <<>> /\ rx = <<>> /\ Early = 0
  <2>1. Token <= 1 /\ One(rcv.step # "idle") = 1
    BY <1>1, <1>10 DEF One
  <2>2. Len(toOC) = 0 /\ Len(toIXL) = 0 /\ Len(rx) = 0 /\ Early = 0
    BY <1>3, <2>1 DEF Token
  <2>3. QED
    BY <1>4, <2>2
<1>11. QED
  BY <1>5, <1>7, <1>8, <1>9, <1>10

(* What can be under way in each stage. *)
LEMMA UnderWay ==
  ASSUME TypeOK, StageInv
  PROVE  /\ ocPhase # "initialised" => ~InFlight(ReplyTypes \ VersionTypes)
         /\ ocPhase # "versioned" => ~InFlight(VersionTypes)
         /\ ocPhase = "initialised" => ~Carries(toOC, {"VERSION_REQUEST", "STATUS_REQUEST"})
<1>1. /\ \A i \in DOMAIN toIXL : toIXL[i] \in In
      /\ \A i \in DOMAIN rx : rx[i] \in In
      /\ rcv.step = "dispatch" => rcv.msg \in In
      /\ \A i \in DOMAIN toOC : toOC[i] \in Out
  BY DEF StageInv
<1>2. ocPhase \in {"idle", "versioned", "initialised"}
  BY DEF TypeOK
<1>3. /\ ocPhase # "initialised" => \A m \in In : m.type \notin ReplyTypes \ VersionTypes
      /\ ocPhase # "versioned" => \A m \in In : m.type \notin VersionTypes
      /\ ocPhase = "initialised"
            => \A m \in Out : m.type \notin {"VERSION_REQUEST", "STATUS_REQUEST"}
  BY <1>2 DEF In, Out
<1>4. QED
  BY <1>1, <1>3 DEF InFlight, Carries, Taken

LEMMA FewerInFlight ==
  ASSUME NEW T, NEW U, T \subseteq U, InFlight(T)
  PROVE  InFlight(U)
BY DEF InFlight, Carries, Taken

(* In short, what the stage says of the telegrams that open the session.    *)
LEMMA Openings ==
  ASSUME TypeOK, StageInv
  PROVE  /\ ocPhase # "initialised" => ~InFlight(Begin)
         /\ ocPhase # "versioned" => ~InFlight({"VERSION_EQUAL"})
         /\ ocPhase = "initialised" => /\ ~Carries(toOC, {"VERSION_REQUEST"})
                                       /\ ~Carries(toOC, {"STATUS_REQUEST"})
                                       /\ handshake = "idle" /\ conn \notin {"NONE", "START"}
                                       /\ rcv.step \in {"idle", "dispatch"}
<1>1. Begin \subseteq ReplyTypes \ VersionTypes /\ {"VERSION_EQUAL"} \subseteq VersionTypes
  BY DEF Begin, ReplyTypes, VersionTypes
<1>2. /\ ocPhase # "initialised" => ~InFlight(Begin)
      /\ ocPhase # "versioned" => ~InFlight({"VERSION_EQUAL"})
  BY <1>1, UnderWay, FewerInFlight
<1>3. ocPhase = "initialised" => /\ ~Carries(toOC, {"VERSION_REQUEST"})
                                 /\ ~Carries(toOC, {"STATUS_REQUEST"})
  BY UnderWay DEF Carries
<1>4. ocPhase = "initialised" => rcv.step \in {"idle", "dispatch"}
  BY DEF StageInv, TypeOK, RcvSteps
<1>5. ocPhase = "initialised" => handshake = "idle" /\ conn \notin {"NONE", "START"}
  BY TokenAlone DEF TypeOK
<1>6. QED
  BY <1>2, <1>3, <1>4, <1>5

LEMMA NothingIsTaken == TypeOK /\ StageInv /\ NothingTaken /\ [Next]_vars => NothingTaken'
<1> SUFFICES ASSUME TypeOK, StageInv, NothingTaken, RxCapacity = 0, [Next]_vars
             PROVE  NothingTaken'
  BY DEF NothingTaken
<1>1. /\ rx = <<>> /\ rcv.step = "idle" /\ ocPhase # "initialised"
      /\ ocPhase = "versioned" => toOC = <<>>
  BY DEF NothingTaken
<1>2. pc \in Before \cup Ended
  BY <1>1 DEF StageInv
<1>3. ASSUME rx' = rx, rcv' = rcv, ocPhase' = ocPhase, ocPhase = "versioned" => toOC' = toOC
      PROVE  NothingTaken'
  BY <1>1, <1>3 DEF NothingTaken
<1>4. CASE RastaDeliver
  <2>1. rx' = rx
    BY <1>1, <1>4 DEF RastaDeliver
  <2>2. QED
    BY <1>3, <1>4, <2>1 DEF RastaDeliver, ocVars
<1>5. CASE OcObey \/ OcDisobey
  <2>1. toOC # <<>> /\ UNCHANGED <<rx, rcv>> /\ toOC' = Tail(toOC)
    BY <1>5 DEF OcObey, OcDisobey, recvVars
  <2>2. ocPhase = "idle"
    BY <1>1, <2>1 DEF TypeOK
  <2>3. toOC' = <<>>
    <3>1. toOC = <<Head(toOC)>> /\ toOC' \in Seq(Out) /\ Len(toOC') = Len(toOC) - 1
      BY <1>1, <2>1, OcHead
    <3>2. Len(toOC) = 1
      BY <3>1
    <3>3. QED
      BY <3>1, <3>2
  <2>4. ocPhase' \in {"idle", "versioned"}
    <3>1. Head(toOC).type = "VERSION_REQUEST"
      BY <2>1, <2>2, OcHead DEF Out
    <3>2. QED
      BY <1>5, <2>2, <3>1 DEF OcObey, OcDisobey, OcPhaseAfter, ocVars
  <2>5. QED
    BY <1>1, <2>1, <2>3, <2>4 DEF NothingTaken
<1>6. CASE Environment
  BY <1>3, <1>4, <1>5, <1>6
     DEF Environment, RastaUp, RastaRetransmission, RastaClose, RastaTimeout, recvVars, ocVars
<1>7. CASE Notification
  <2>1. SendVersionRequest => ocPhase = "idle"
    BY <1>1, TokenAlone DEF SendVersionRequest
  <2>2. UNCHANGED <<rx, rcv, ocPhase>> /\ (~SendVersionRequest => toOC' = toOC)
    BY <1>7 DEF Notification, OnClosed, OnStart, OnTimeout, OnHandshake, Start,
                SendVersionRequest, recvVars, ocVars
  <2>3. QED
    BY <1>3, <2>1, <2>2
<1>8. CASE Receiver
  <2>1. ReceiveNothing
    BY <1>1, <1>8 DEF Receiver, Receive, OnInvalid, OnUnknown, OnVersionResponse,
                      AcceptVersion, SendStatusRequest, OnInitialisationStart,
                      OnInitialisationCompleted, OnInitialAspectStatus, OnAspectFeedback,
                      OnExecutionError, OnBrightnessStatus, Dispatching
  <2>2. QED
    BY <1>3, <2>1 DEF ReceiveNothing, linkVars, recvVars, ocVars
<1>9. CASE MainThread
  <2>1. ~SendDay /\ ~OrderLuminosity /\ ~SendAspect
    BY <1>2 DEF SendDay, OrderLuminosity, SendAspect, Main, Before, Ended
  <2>2. UNCHANGED <<toOC, rx, rcv, ocPhase>>
    BY <1>9, <2>1
       DEF MainThread, Establishment, Connect, FireStart, Established, PdiTimeout, Operator,
           Quit, OrderAspect, OrderRelease, OrderRoute, Order, Command, BeginConfirmation,
           CommandDone, CommandFailed, Main, linkVars, recvVars, ocVars
  <2>3. QED
    BY <1>3, <2>2
<1>10. CASE UNCHANGED vars
  BY <1>3, <1>10 DEF vars, linkVars, recvVars, ocVars
<1>11. QED
  BY <1>6, <1>7, <1>8, <1>9, <1>10 DEF Next

LEMMA HealthEnvironment ==
  ASSUME HealthySetting, Known, HealthInv, Environment
  PROVE  HealthInv'
<1>1. TypeOK /\ StageInv /\ OpeningInv
  BY DEF Known
<1>2. UNCHANGED <<pdi_state, pc>>
  BY DEF Environment, RastaUp, RastaRetransmission, RastaClose, RastaTimeout, RastaDeliver,
         OcObey, OcDisobey, mainVars
<1>3. CASE ~Running
  BY <1>2, <1>3 DEF HealthInv, Running
<1> SUFFICES ASSUME Running
             PROVE  LinkHealth' /\ TokenHealth' /\ ReportHealth' /\ SessionHealth'
  BY <1>2, <1>3 DEF HealthInv, Running
<1>4. LinkHealth /\ TokenHealth /\ ReportHealth /\ SessionHealth
  BY DEF HealthInv
<1>5. CASE RastaUp
  <2>1. /\ conn' = "UP" /\ UNCHANGED <<toOC, toIXL, handshake, rx, rcv, ocPhase>>
        /\ \A n \in {"START", "CLOSED", "TIMEOUT"} : notices'[n] = notices[n]
    BY <1>1, <1>5 DEF RastaUp, Notify, recvVars, ocVars, TypeOK, Notices
  <2>2. QED
    BY <1>2, <1>4, <2>1 DEF LinkHealth, TokenHealth, ReportHealth, SessionHealth, InFlight, Taken
<1>6. CASE RastaDeliver
  <2>1. /\ toIXL # <<>> /\ toIXL' = Tail(toIXL)
        /\ rx' = IF Len(rx) < RxCapacity THEN Append(rx, Head(toIXL)) ELSE rx
        /\ UNCHANGED <<conn, notices, toOC, handshake, rcv, ocPhase>>
    BY <1>6 DEF RastaDeliver, ocVars
  <2>2. toIXL \in Seq(Replies) /\ rx \in Seq(Replies) /\ Head(toIXL) \in Replies
    BY <1>1, <2>1 DEF TypeOK
  <2>3. /\ \A T : Carries(toIXL, T) <=> Carries(toIXL', T) \/ Head(toIXL).type \in T
        /\ OnlyFirst(toIXL', "STATUS_BEGIN") /\ ~Carries(toIXL', Begin)
    BY <1>4, <2>1, <2>2, TailOfQueue, FirstOfQueue DEF ReportHealth, Begin
  <2>4. \A T : Carries(rx', T) => Carries(rx, T) \/ Head(toIXL).type \in T
    <3>1. CASE rx' = Append(rx, Head(toIXL))
      BY <2>2, <3>1, AppendedQueue
    <3>2. QED
      BY <2>1, <3>1
  <2>5. \A T : InFlight(T)' => InFlight(T)
    BY <2>1, <2>3, <2>4 DEF InFlight, Taken
  <2>6. CASE Head(toIXL).type = "STATUS_BEGIN"
    <3>1. rx = <<>> /\ rcv.step = "idle"
      BY <1>4, <2>3, <2>6 DEF ReportHealth, Begin
    <3>2. rx' = Append(<<>>, Head(toIXL))
      <4>1. Len(rx) < RxCapacity
        <5>1. InFlight(Begin)
          BY <2>3, <2>6 DEF InFlight, Begin
        <5>2. ocPhase = "initialised"
          BY <1>1, <5>1, Openings
        <5>3. RxCapacity # 0
          BY <5>2 DEF Known, NothingTaken
        <5>4. QED
          BY <3>1, <5>3, CloudIxlAssumption
      <4>2. QED
        BY <2>1, <3>1, <4>1
    <3>3. OnlyFirst(rx', "STATUS_BEGIN")
      BY <2>2, <3>2, FirstOfQueue
    <3>4. Carries(rx', Begin)
      <4>1. Carries(Append(rx, Head(toIXL)), Begin)
        BY <2>2, <2>6, AppendedQueue DEF Begin
      <4>2. QED
        BY <3>1, <3>2, <4>1
    <3>5. QED
      BY <1>2, <1>4, <2>1, <2>3, <2>5, <3>1, <3>3, <3>4
         DEF LinkHealth, TokenHealth, ReportHealth, SessionHealth, InFlight, Taken
  <2>7. CASE Head(toIXL).type # "STATUS_BEGIN"
    <3>1. OnlyFirst(rx', "STATUS_BEGIN")
      <4>1. OnlyFirst(Append(rx, Head(toIXL)), "STATUS_BEGIN")
        BY <1>4, <2>2, <2>7, FirstOfQueue DEF ReportHealth
      <4>2. QED
        BY <1>4, <2>1, <4>1 DEF ReportHealth
    <3>2. Carries(rx', Begin) => Carries(rx, Begin)
      BY <2>4, <2>7 DEF Begin
    <3>3. InFlight(Begin) => InFlight(Begin)'
      <4>1. Carries(rx, Begin) => Carries(rx', Begin)
        BY <2>1, <2>2, AppendedQueue
      <4>2. ~Carries(toIXL, Begin)
        BY <2>3, <2>7 DEF Begin
      <4>3. QED
        BY <2>1, <4>1, <4>2 DEF InFlight, Taken
    <3>4. ReportHealth'
      BY <1>2, <1>4, <2>1, <2>3, <3>1, <3>2, <3>3 DEF ReportHealth
    <3>5. QED
      BY <1>2, <1>4, <2>1, <2>5, <3>4
         DEF LinkHealth, TokenHealth, SessionHealth, Taken
  <2>8. QED
    BY <2>6, <2>7
<1>7. CASE OcObey
  <2>1. /\ toOC # <<>> /\ toOC' = Tail(toOC) /\ ocPhase' = OcPhaseAfter(Head(toOC))
        /\ UNCHANGED <<conn, notices, handshake, rx, rcv>>
    BY <1>7 DEF OcObey, recvVars
  <2>2. PICK ms \in OcReplies(Head(toOC)) : Reply(ms)
    BY <1>7 DEF OcObey
  <2>3. toIXL' = toIXL \o ms
    BY <1>4, <2>2 DEF Reply, LinkHealth
  <2>4. Head(toOC) \in Out
    BY <1>1, <2>1, OcHead
  <2>5. CASE ocPhase = "initialised"
    <3>1. ocPhase' = "initialised" /\ pc \notin Before
      <4>1. Head(toOC).type \in {"LUMINOSITY", "SHOW_SIGNAL_ASPECT"}
        BY <2>4, <2>5 DEF Out
      <4>2. QED
        BY <1>1, <2>1, <2>5, <4>1 DEF OcPhaseAfter, OpeningInv, FinishInv
    <3>2. PICK x \in Replies : /\ toIXL' = Append(toIXL, x)
                               /\ x.type \in {"LUMINOSITY_STATUS", "SIGNAL_ASPECT_STATUS"}
      <4>1. /\ Head(toOC).type \in {"LUMINOSITY", "SHOW_SIGNAL_ASPECT"}
            /\ Head(toOC).aspect \in Aspects
        BY <2>4, <2>5 DEF Out
      <4>2. ms = <<Plain("LUMINOSITY_STATUS")>> \/ ms = <<Status(Head(toOC).aspect)>>
        BY <2>2, <4>1 DEF OcReplies, If, HealthySetting
      <4>3. Plain("LUMINOSITY_STATUS") \in Replies /\ Status(Head(toOC).aspect) \in Replies
        BY <4>1, PlainType DEF ReplyTypes
      <4>4. toIXL \in Seq(Replies)
        BY <1>1 DEF TypeOK
      <4>5. QED
        BY <2>3, <4>2, <4>3, <4>4, AppendIsConcatenation DEF Plain, Status
    <3>3. toIXL \in Seq(Replies) /\ toOC \in Seq(Commands)
      BY <1>1 DEF TypeOK
    <3>4. /\ \A T : Carries(toIXL', T) <=> Carries(toIXL, T) \/ x.type \in T
          /\ OnlyFirst(toIXL', "STATUS_BEGIN")
      BY <1>4, <3>2, <3>3, AppendedQueue, FirstOfQueue DEF ReportHealth
    <3>5. \A T : Carries(toOC', T) => Carries(toOC, T)
      BY <2>1, <3>3, TailOfQueue
    <3>6. \A T : T \cap {"LUMINOSITY_STATUS", "SIGNAL_ASPECT_STATUS"} = {}
                     => (InFlight(T)' <=> InFlight(T))
      BY <2>1, <3>2, <3>4 DEF InFlight, Taken
    <3>7. /\ ~InFlight(Unhealthy)'
          /\ InFlight({"VERSION_EQUAL"})' => InFlight({"VERSION_EQUAL"})
          /\ InFlight(Begin)' => InFlight(Begin)
          /\ Carries(toIXL', Begin) => Carries(toIXL, Begin)
      BY <1>4, <3>2, <3>4, <3>6 DEF LinkHealth, Unhealthy, Begin
    <3>8. QED
      BY <1>2, <1>4, <2>1, <3>1, <3>4, <3>5, <3>7
         DEF LinkHealth, TokenHealth, ReportHealth, SessionHealth, Taken
  <2>6. CASE ocPhase # "initialised"
    <3>1. /\ toOC = <<Head(toOC)>> /\ toIXL = <<>> /\ rx = <<>> /\ rcv.step = "idle"
          /\ handshake = "idle"
      BY <1>1, <2>1, <2>6, OcHead, TokenAlone DEF TypeOK
    <3>2. toOC' = <<>> /\ toIXL' = ms
      <4>1. ms \in Seq(Replies)
        BY <1>1, <2>1, <2>2, OcHead, OcRepliesType DEF TypeOK
      <4>2. toIXL' = ms
        BY <2>3, <3>1, <4>1
      <4>3. toOC' = <<>>
        <5>1. Len(toOC) = 1
          BY <3>1
        <5>2. toOC' \in Seq(Out) /\ Len(toOC') = 0
          BY <1>1, <2>1, <5>1, OcHead
        <5>3. QED
          BY <5>2
      <4>4. QED
        BY <4>2, <4>3
    <3>3. \A T : Carries(toOC, T) <=> Head(toOC).type \in T
      <4>1. toOC \in Seq(Commands) /\ DOMAIN toOC = {1} /\ toOC[1] = Head(toOC)
        BY <1>1, <2>1, <3>1 DEF TypeOK
      <4>2. QED
        BY <4>1 DEF Carries
    <3>4. \A T : (InFlight(T)' <=> Carries(ms, T)) /\ ~Carries(toOC', T)
      BY <2>1, <3>1, <3>2, EmptyQueue DEF InFlight, Taken
    <3>5. CASE ocPhase = "idle"
      <4>1. Head(toOC).type = "VERSION_REQUEST"
        BY <2>4, <3>5 DEF Out
      <4>2. ms = <<Plain("VERSION_EQUAL")>>
        BY <2>2, <4>1 DEF OcReplies, If, HealthySetting
      <4>3. \A T : Carries(ms, T) <=> "VERSION_EQUAL" \in T
        BY <4>2 DEF Carries, Plain
      <4>4. pdi_state = "WAIT_VERSION_RESPONSE" /\ ocPhase' = "versioned"
        BY <1>4, <2>1, <3>3, <4>1 DEF TokenHealth, OcPhaseAfter
      <4>5. OnlyFirst(toIXL', "STATUS_BEGIN") /\ ~InFlight(Unhealthy)' /\ ~InFlight(Begin)'
        BY <1>1, <3>2, <3>4, <4>2, <4>3 DEF OnlyFirst, Plain, Unhealthy, Begin
      <4>6. QED
        BY <1>2, <1>4, <2>1, <3>1, <3>2, <3>4, <4>3, <4>4, <4>5
           DEF LinkHealth, TokenHealth, ReportHealth, SessionHealth, Taken, InFlight, Begin
    <3>6. CASE ocPhase = "versioned"
      <4>1. Head(toOC).type = "STATUS_REQUEST"
        BY <2>4, <3>6 DEF Out
      <4>2. ms = <<Plain("STATUS_BEGIN"), Status(ocAspect),
                   Plain("LUMINOSITY_STATUS"), Plain("STATUS_FINISH")>>
        BY <2>2, <4>1 DEF OcReplies
      <4>3. \A i \in DOMAIN ms : /\ ms[i].type \notin Unhealthy \cup {"VERSION_EQUAL"}
                                 /\ ms[i].type = "STATUS_BEGIN" <=> i = 1
        BY <4>2 DEF Plain, Status, Unhealthy
      <4>4. /\ ~Carries(ms, Unhealthy) /\ ~Carries(ms, {"VERSION_EQUAL"})
            /\ Carries(ms, Begin) /\ OnlyFirst(ms, "STATUS_BEGIN")
        <5>1. 1 \in DOMAIN ms
          BY <4>2
        <5>2. QED
          BY <4>3, <5>1 DEF Carries, Begin, OnlyFirst
      <4>5. pdi_state = "WAIT_INITIALISATION_START" /\ ocPhase' = "initialised"
        BY <1>4, <2>1, <3>3, <4>1 DEF TokenHealth, OcPhaseAfter
      <4>6. QED
        BY <1>2, <1>4, <2>1, <3>1, <3>2, <3>4, <4>4, <4>5
           DEF LinkHealth, TokenHealth, ReportHealth, SessionHealth, Taken, InFlight
    <3>7. QED
      BY <1>1, <2>6, <3>5, <3>6 DEF TypeOK
  <2>7. QED
    BY <2>5, <2>6
<1>8. ~OcDisobey /\ ~RastaRetransmission /\ ~RastaClose /\ ~RastaTimeout
  BY DEF HealthySetting, OcDisobey, OcRefusals, If, RastaRetransmission, RastaClose,
         RastaTimeout
<1>9. QED
  BY <1>5, <1>6, <1>7, <1>8 DEF Environment

LEMMA HealthNotification ==
  ASSUME HealthySetting, Known, HealthInv, Notification
  PROVE  HealthInv'
<1>1. TypeOK /\ StageInv
  BY DEF Known
<1>2. pc' = pc
  BY DEF Notification, OnClosed, OnStart, OnTimeout, OnHandshake, Start, SendVersionRequest,
         mainVars
<1>3. Running
  BY DEF Notification, OnClosed, OnStart, OnTimeout, OnHandshake, Start, SendVersionRequest
<1>4. LinkHealth /\ TokenHealth /\ ReportHealth /\ SessionHealth /\ pdi_state # "FAILED"
  BY <1>3 DEF HealthInv
<1> SUFFICES /\ pdi_state' # "FAILED"
             /\ LinkHealth' /\ TokenHealth' /\ ReportHealth' /\ SessionHealth'
  BY DEF HealthInv
<1>5. ~OnClosed /\ ~OnTimeout
  BY <1>4 DEF LinkHealth, OnClosed, OnTimeout, Start
<1>6. CASE OnStart
  <2>1. /\ notices["START"] > 0
        /\ UNCHANGED <<conn, toOC, toIXL, handshake, rx, rcv, ocPhase>>
        /\ \A n \in {"CLOSED", "TIMEOUT"} : notices'[n] = notices[n]
        /\ pdi_state' = IF pdi_state = "WAIT_CONFIRMATION" THEN "FAILED"
                                                           ELSE "WAIT_RASTA_HANDSHAKE"
    BY <1>1, <1>6 DEF OnStart, Start, recvVars, ocVars, TypeOK, Notices
  <2>2. pdi_state = "WAIT_RASTA_HANDSHAKE"
    BY <1>4, <2>1 DEF TokenHealth
  <2>3. pdi_state' = pdi_state
    BY <2>1, <2>2
  <2>4. QED
    BY <1>2, <1>4, <2>1, <2>2, <2>3
       DEF LinkHealth, TokenHealth, ReportHealth, SessionHealth, InFlight, Taken
<1>7. CASE OnHandshake
  <2>1. /\ notices["START"] = 0 /\ pc # "fire_start" /\ notices["HANDSHAKE"] > 0
        /\ UNCHANGED <<conn, toOC, toIXL, rx, rcv, ocPhase>>
        /\ \A n \in {"START", "CLOSED", "TIMEOUT"} : notices'[n] = notices[n]
        /\ pdi_state' = "WAIT_VERSION_RESPONSE"
    BY <1>1, <1>7 DEF OnHandshake, Start, recvVars, ocVars, TypeOK, Notices, HealthySetting
  <2>2. /\ ocPhase = "idle" /\ rcv.step = "idle"
        /\ toOC = <<>> /\ toIXL = <<>> /\ rx = <<>>
    BY <1>1, <2>1, TokenAlone
  <2>3. pc \in Before
    BY <1>1, <1>3, <2>2 DEF StageInv, Running, Ended
  <2>4. /\ \A T : ~Carries(toOC', T) /\ ~InFlight(T)'
        /\ OnlyFirst(toIXL', "STATUS_BEGIN") /\ OnlyFirst(rx', "STATUS_BEGIN")
    BY <1>4, <2>1, <2>2, EmptyQueue DEF InFlight, Taken, ReportHealth
  <2>5. QED
    BY <1>2, <1>4, <2>1, <2>2, <2>3, <2>4
       DEF LinkHealth, TokenHealth, ReportHealth, SessionHealth, InFlight, Taken, Before
<1>8. CASE SendVersionRequest
  <2>1. /\ handshake = "sending" /\ handshake' = "idle"
        /\ SrSend(Plain("VERSION_REQUEST"))
        /\ UNCHANGED <<pdi_state, rx, rcv, ocPhase>>
    BY <1>8 DEF SendVersionRequest, recvVars, ocVars
  <2>2. /\ ocPhase = "idle" /\ rcv.step = "idle" /\ conn = "UP"
        /\ toOC = <<>> /\ toIXL = <<>> /\ rx = <<>>
    BY <1>1, <1>4, <2>1, TokenAlone DEF LinkHealth
  <2>3. pdi_state = "WAIT_VERSION_RESPONSE"
    BY <1>4, <2>1 DEF TokenHealth
  <2>4. /\ toOC' = Append(toOC, Plain("VERSION_REQUEST")) \/ toOC' = toOC
        /\ UNCHANGED <<conn, notices, toIXL>>
    BY <2>1, <2>2 DEF SrSend, linkVars
  <2>5. ~Carries(toOC', {"STATUS_REQUEST"})
    <3>1. toOC \in Seq(Commands) /\ Plain("VERSION_REQUEST") \in Commands
      BY <1>1, PlainType DEF TypeOK, CommandTypes
    <3>2. ~Carries(toOC, {"STATUS_REQUEST"})
      BY <2>2, EmptyQueue
    <3>3. \A a : Carries(Append(toOC, Plain("VERSION_REQUEST")), {"STATUS_REQUEST"})
                   <=> \/ Carries(toOC, {"STATUS_REQUEST"})
                       \/ Plain("VERSION_REQUEST").type \in {"STATUS_REQUEST"}
      BY <3>1, AppendedQueue
    <3>4. QED
      BY <2>4, <3>2, <3>3 DEF Plain
  <2>6. QED
    BY <1>2, <1>4, <2>1, <2>2, <2>3, <2>4, <2>5
       DEF LinkHealth, TokenHealth, ReportHealth, SessionHealth, InFlight, Taken
<1>9. QED
  BY <1>5, <1>6, <1>7, <1>8 DEF Notification

(* A telegram of the session taken from RaSTA, and the thread that takes it *)
(* finds a command pending exactly when one is.                             *)
LEMMA HealthReceive ==
  ASSUME Known, HealthInv, Receive
  PROVE  HealthInv'
<1>1. TypeOK /\ StageInv /\ OpeningInv /\ PendingInv /\ OrderInv
  BY DEF Known
<1>2. /\ Running /\ rcv.step = "idle" /\ rx # <<>> /\ rx' = Tail(rx)
      /\ rcv' = [step |-> "dispatch", msg |-> Head(rx),
                 waiting |-> pdi_state = "WAIT_CONFIRMATION"]
      /\ UNCHANGED <<pdi_state, pc, conn, notices, toOC, toIXL, handshake, ocPhase>>
  BY DEF Receive, mainVars, linkVars, ocVars
<1>3. LinkHealth /\ TokenHealth /\ ReportHealth /\ SessionHealth /\ pdi_state # "FAILED"
  BY <1>2 DEF HealthInv
<1>4. rx \in Seq(Replies)
  BY <1>1 DEF TypeOK
<1>5. /\ \A T : Carries(rx, T) <=> Carries(rx', T) \/ Head(rx).type \in T
      /\ OnlyFirst(rx', "STATUS_BEGIN") /\ ~Carries(rx', Begin)
  BY <1>2, <1>3, <1>4, TailOfQueue, FirstOfQueue DEF ReportHealth, Begin
<1>6. /\ rcv'.step = "dispatch" /\ rcv'.msg = Head(rx)
      /\ rcv'.waiting = (pdi_state = "WAIT_CONFIRMATION")
  BY <1>2
<1>7. \A T : InFlight(T)' <=> InFlight(T)
  BY <1>2, <1>5, <1>6 DEF InFlight, Taken
<1>8. LinkHealth'
  BY <1>2, <1>3, <1>7 DEF LinkHealth
<1>9. TokenHealth'
  BY <1>2, <1>3, <1>6, <1>7 DEF TokenHealth
<1>10. ReportHealth'
  <2>1. ~Carries(toIXL, Begin)
    BY <1>2, <1>3 DEF ReportHealth
  <2>2. QED
    BY <1>2, <1>3, <1>5, <1>7, <2>1 DEF ReportHealth
<1>11. Head(rx).type = "SIGNAL_ASPECT_STATUS"
           => (pdi_state = "WAIT_CONFIRMATION" <=> pc \notin Before)
  <2> SUFFICES ASSUME Head(rx).type = "SIGNAL_ASPECT_STATUS"
               PROVE  pdi_state = "WAIT_CONFIRMATION" <=> pc \notin Before
    OBVIOUS
  <2>1. pdi_state = "WAIT_CONFIRMATION" => pc \notin Before
    BY <1>1 DEF PendingInv, Pending, Before
  <2>2. ~NoOrder
    BY <1>5 DEF NoOrder, InFlight, AspectAnswers
  <2>3. pdi_state # "ESTABLISHED" /\ pdi_state \notin CommandResults
    BY <1>1, <2>2 DEF OrderInv
  <2>4. pc \notin Before => pc \in {"send_day", "prompt", "begin", "send", "awaiting"}
    BY <1>1, <1>2 DEF TypeOK, MainSteps, Before, Running
  <2>5. pc \notin Before => pdi_state = "WAIT_CONFIRMATION"
    BY <1>3, <2>3, <2>4 DEF SessionHealth
  <2>6. QED
    BY <2>1, <2>5
<1>12. SessionHealth'
  BY <1>2, <1>3, <1>6, <1>11 DEF SessionHealth, Taken
<1>13. QED
  BY <1>2, <1>3, <1>8, <1>9, <1>10, <1>12 DEF HealthInv

LEMMA HealthReceiver ==
  ASSUME HealthySetting, Known, HealthInv, Receiver
  PROVE  HealthInv'
<1>1. TypeOK /\ StageInv /\ OpeningInv /\ PendingInv /\ OrderInv
  BY DEF Known
<1>2. CASE Receive
  BY <1>2, HealthReceive
<1>3. CASE ReceiveNothing
  BY <1>3 DEF ReceiveNothing, HealthInv, Running
<1>4. ASSUME ~Receive, ~ReceiveNothing PROVE HealthInv'
  <2>1. /\ Running /\ rcv.step # "idle"
        /\ UNCHANGED <<pc, handshake, rx, ocPhase>>
    BY <1>4 DEF Receiver, OnInvalid, OnUnknown, OnVersionResponse, AcceptVersion,
                SendStatusRequest, OnInitialisationStart, OnInitialisationCompleted,
                OnInitialAspectStatus, OnAspectFeedback, OnExecutionError,
                OnBrightnessStatus, Dispatching, mainVars, ocVars
  <2>2. LinkHealth /\ TokenHealth /\ ReportHealth /\ SessionHealth /\ pdi_state # "FAILED"
    BY <2>1 DEF HealthInv
  <2> SUFFICES /\ pdi_state' # "FAILED"
               /\ LinkHealth' /\ TokenHealth' /\ ReportHealth' /\ SessionHealth'
    BY DEF HealthInv
  <2>3. ~Carries(toIXL, Begin) /\ ~Carries(rx, Begin)
    BY <2>1, <2>2 DEF ReportHealth
  <2>4. /\ ocPhase # "initialised" => pc \in Before
        /\ pc \in {"connect", "fire_start", "establishing", "send_day", "prompt", "begin",
                   "send", "awaiting"}
        /\ ocPhase # "initialised" => /\ toOC = <<>> /\ toIXL = <<>> /\ rx = <<>>
                                      /\ conn = "UP" /\ handshake = "idle"
    BY <1>1, <2>1, <2>2, TokenAlone
       DEF StageInv, Running, Ended, TypeOK, MainSteps, LinkHealth
  <2>5. CASE OnInvalid \/ OnUnknown \/ OnExecutionError
    <3>1. Taken(Unhealthy)
      BY <2>5 DEF OnInvalid, OnUnknown, OnExecutionError, Dispatching, Taken, Unhealthy
    <3>2. QED
      BY <2>2, <3>1 DEF LinkHealth, InFlight
  <2>6. CASE OnVersionResponse
    <3>1. /\ rcv.step = "dispatch" /\ rcv.msg.type \in {"VERSION_EQUAL", "VERSION_NOT_EQUAL"}
          /\ UNCHANGED <<conn, notices, toOC, toIXL>>
      BY <2>6 DEF OnVersionResponse, Dispatching, linkVars
    <3>2. rcv.msg.type = "VERSION_EQUAL"
      BY <2>2, <3>1 DEF LinkHealth, InFlight, Taken, Unhealthy
    <3>3. InFlight({"VERSION_EQUAL"}) /\ pdi_state = "WAIT_VERSION_RESPONSE"
      BY <2>2, <3>1, <3>2 DEF TokenHealth, InFlight, Taken
    <3>4. ocPhase = "versioned"
      BY <1>1, <3>3, Openings
    <3>5. pdi_state' = pdi_state /\ rcv'.step = "version_accepted"
      BY <1>1, <2>6, <3>2, <3>3 DEF OnVersionResponse, TypeOK
    <3>6. \A T : ~InFlight(T)'
      BY <2>1, <2>4, <3>1, <3>4, <3>5, EmptyQueue DEF InFlight, Taken
    <3>7. QED
      BY <2>1, <2>2, <2>4, <3>1, <3>3, <3>4, <3>5, <3>6
         DEF LinkHealth, TokenHealth, ReportHealth, SessionHealth, InFlight, Taken
  <2>7. CASE AcceptVersion
    <3>1. /\ rcv.step = "version_accepted" /\ pdi_state' = "WAIT_INITIALISATION_START"
          /\ rcv'.step = "request_status"
          /\ UNCHANGED <<conn, notices, toOC, toIXL>>
      BY <1>1, <2>7 DEF AcceptVersion, linkVars, TypeOK
    <3>2. ocPhase = "versioned" /\ pdi_state = "WAIT_VERSION_RESPONSE"
      BY <1>1, <2>2, <3>1 DEF StageInv, TokenHealth
    <3>3. \A T : ~InFlight(T)' /\ ~Carries(toOC', T)
      BY <2>1, <2>4, <3>1, <3>2, EmptyQueue DEF InFlight, Taken
    <3>4. QED
      BY <2>1, <2>2, <2>4, <3>1, <3>2, <3>3
         DEF LinkHealth, TokenHealth, ReportHealth, SessionHealth, InFlight, Taken, Before
  <2>8. CASE SendStatusRequest
    <3>1. /\ rcv.step = "request_status" /\ SrSend(Plain("STATUS_REQUEST"))
          /\ rcv'.step = "idle" /\ UNCHANGED pdi_state
      BY <2>8 DEF SendStatusRequest, Idle
    <3>2. ocPhase = "versioned" /\ pdi_state = "WAIT_INITIALISATION_START"
      BY <1>1, <2>2, <3>1 DEF StageInv, TokenHealth
    <3>3. /\ toOC' = Append(toOC, Plain("STATUS_REQUEST")) \/ toOC' = toOC
          /\ UNCHANGED <<conn, notices, toIXL>>
      BY <2>4, <3>1, <3>2 DEF SrSend, linkVars
    <3>4. ~Carries(toOC', {"VERSION_REQUEST"})
      <4>1. toOC \in Seq(Commands) /\ Plain("STATUS_REQUEST") \in Commands
        BY <1>1, PlainType DEF TypeOK, CommandTypes
      <4>2. ~Carries(toOC, {"VERSION_REQUEST"})
        BY <2>4, <3>2, EmptyQueue
      <4>3. \A a : Carries(Append(toOC, Plain("STATUS_REQUEST")), {"VERSION_REQUEST"})
                     <=> \/ Carries(toOC, {"VERSION_REQUEST"})
                         \/ Plain("STATUS_REQUEST").type \in {"VERSION_REQUEST"}
        BY <4>1, AppendedQueue
      <4>4. QED
        BY <3>3, <4>2, <4>3 DEF Plain
    <3>5. \A T : ~InFlight(T)'
      BY <2>1, <2>4, <3>1, <3>2, <3>3, EmptyQueue DEF InFlight, Taken
    <3>6. QED
      BY <2>1, <2>2, <2>4, <3>1, <3>2, <3>3, <3>4, <3>5
         DEF LinkHealth, TokenHealth, ReportHealth, SessionHealth, InFlight, Taken
  <2>9. CASE \/ OnInitialisationStart \/ OnInitialisationCompleted \/ OnInitialAspectStatus
             \/ OnAspectFeedback \/ OnBrightnessStatus
    <3>1. /\ rcv.step = "dispatch"
          /\ rcv.msg.type \in {"STATUS_BEGIN", "STATUS_FINISH", "SIGNAL_ASPECT_STATUS",
                               "LUMINOSITY_STATUS"}
          /\ rcv'.step = "idle" /\ UNCHANGED <<conn, notices, toOC, toIXL>>
      BY <2>9 DEF OnInitialisationStart, OnInitialisationCompleted, OnInitialAspectStatus,
                  OnAspectFeedback, OnBrightnessStatus, Dispatching, Transition, Complete,
                  Idle, linkVars
    <3>2. ocPhase = "initialised"
      <4>1. InFlight(ReplyTypes \ VersionTypes)
        BY <3>1 DEF InFlight, Taken, ReplyTypes, VersionTypes
      <4>2. QED
        BY <1>1, <4>1, UnderWay
    <3>3. /\ ~Carries(toOC, {"VERSION_REQUEST"}) /\ ~Carries(toOC, {"STATUS_REQUEST"})
          /\ handshake = "idle" /\ ~InFlight({"VERSION_EQUAL"})
      BY <1>1, <3>2, Openings
    <3>4. /\ \A T : InFlight(T)' => InFlight(T)
          /\ ~InFlight(Begin)'
      BY <2>1, <2>3, <3>1 DEF InFlight, Taken
    <3>5. LinkHealth'
      BY <2>2, <3>1, <3>4 DEF LinkHealth
    <3>6. pdi_state' # "WAIT_RASTA_HANDSHAKE" /\ pdi_state # "WAIT_RASTA_HANDSHAKE"
             => TokenHealth'
      BY <2>1, <2>2, <3>1, <3>3, <3>4 DEF TokenHealth
    <3>7. \/ pdi_state' = "RECEIVING_INITIAL_STATUS"
          \/ pdi_state' = "ESTABLISHED" /\ toIXL = <<>> /\ rx = <<>>
          \/ pc \notin Before
          => ReportHealth'
      BY <2>1, <2>2, <2>3, <3>1 DEF ReportHealth
    <3>8. ~InFlight(Begin) /\ pc \in Before => pdi_state = "RECEIVING_INITIAL_STATUS"
      BY <2>1, <2>2, <3>2 DEF ReportHealth
    <3>9. rcv.msg.type # "STATUS_BEGIN" => ~InFlight(Begin)
      BY <2>3 DEF InFlight, Taken, Begin
    <3>10. CASE OnInitialisationStart
      <4>1. InFlight(Begin)
        BY <3>1, <3>10 DEF OnInitialisationStart, Dispatching, InFlight, Taken, Begin
      <4>2. pdi_state = "WAIT_INITIALISATION_START"
        BY <2>2, <4>1 DEF TokenHealth
      <4>3. pdi_state' = "RECEIVING_INITIAL_STATUS"
        BY <3>10, <4>2 DEF OnInitialisationStart, Transition
      <4>4. pc \in Before
        BY <2>2, <2>4, <4>2 DEF SessionHealth, Before, CommandResults
      <4>5. QED
        BY <2>1, <2>2, <3>1, <3>5, <3>6, <3>7, <4>2, <4>3, <4>4
           DEF SessionHealth, Taken, Before
    <3>11. CASE OnInitialisationCompleted
      <4>1. Taken(Finish) /\ Taken(Opening)
        BY <3>11 DEF OnInitialisationCompleted, Dispatching, Taken, Finish, Opening
      <4>2. pc \in Before
        BY <1>1, <2>1, <4>1 DEF OpeningInv, PastInv, InFlight, Running, Ended
      <4>3. toIXL = <<>> /\ rx = <<>>
        BY <1>1, <3>2, <4>1, <4>2 DEF OpeningInv, FinishInv
      <4>4. pdi_state = "RECEIVING_INITIAL_STATUS"
        BY <3>8, <3>9, <3>11, <4>2 DEF OnInitialisationCompleted, Dispatching
      <4>5. pdi_state' = "ESTABLISHED"
        BY <3>11, <4>4 DEF OnInitialisationCompleted, Transition
      <4>6. QED
        BY <2>1, <2>2, <3>1, <3>5, <3>6, <3>7, <4>2, <4>3, <4>4, <4>5
           DEF SessionHealth, Taken, Before
    <3>12. CASE OnInitialAspectStatus
      <4>1. pc \in Before
        BY <2>2, <3>1, <3>12 DEF SessionHealth, Taken, OnInitialAspectStatus, Dispatching
      <4>2. pdi_state = "RECEIVING_INITIAL_STATUS"
        BY <3>8, <3>9, <3>12, <4>1 DEF OnInitialAspectStatus, Dispatching
      <4>3. pdi_state' = pdi_state
        BY <3>12, <4>2 DEF OnInitialAspectStatus, Transition
      <4>4. QED
        BY <2>1, <2>2, <3>1, <3>5, <3>6, <3>7, <4>1, <4>2, <4>3
           DEF SessionHealth, Taken, Before
    <3>13. CASE OnAspectFeedback
      <4>1. rcv.waiting /\ rcv.msg.type = "SIGNAL_ASPECT_STATUS"
        BY <3>13 DEF OnAspectFeedback, Dispatching
      <4>2. pc \notin Before
        BY <2>2, <3>1, <4>1 DEF SessionHealth, Taken
      <4>3. ~NoOrder
        BY <3>1, <4>1 DEF NoOrder, InFlight, Taken, AspectAnswers
      <4>4. pdi_state \notin {"ESTABLISHED"} \cup CommandResults
        BY <1>1, <4>3 DEF OrderInv
      <4>5. pc \in {"send", "awaiting"} /\ pdi_state = "WAIT_CONFIRMATION"
        BY <2>2, <2>4, <4>2, <4>4 DEF SessionHealth, Before
      <4>6. pc = "awaiting"
        BY <1>1, <4>3, <4>5 DEF OrderInv
      <4>7. pdi_state' \in CommandResults
        BY <3>13, <4>5 DEF OnAspectFeedback, Complete, Transition, CommandResults
      <4>8. QED
        BY <2>1, <2>2, <3>1, <3>5, <3>6, <3>7, <4>2, <4>5, <4>6, <4>7
           DEF SessionHealth, Taken, CommandResults
    <3>14. CASE OnBrightnessStatus
      <4>1. pc \in Before => pdi_state = "RECEIVING_INITIAL_STATUS"
        BY <3>8, <3>9, <3>14 DEF OnBrightnessStatus, Dispatching
      <4>2. pdi_state \in LuminosityAllowed
        BY <2>2, <2>4, <4>1 DEF SessionHealth, Before, LuminosityAllowed
      <4>3. pdi_state' = pdi_state
        BY <3>14, <4>2 DEF OnBrightnessStatus
      <4>4. QED
        BY <2>1, <2>2, <3>1, <3>5, <3>6, <3>7, <4>1, <4>2, <4>3
           DEF SessionHealth, Taken, LuminosityAllowed, CommandResults
    <3>15. QED
      BY <2>9, <3>10, <3>11, <3>12, <3>13, <3>14
  <2>10. QED
    BY <1>4, <2>5, <2>6, <2>7, <2>8, <2>9 DEF Receiver
<1>5. QED
  BY <1>2, <1>3, <1>4

(* The main thread sends once the session is established: the telegram is   *)
(* no request, and nothing but toOC changes.                                *)
LEMMA HealthySend ==
  ASSUME Known, HealthInv, Running, pc \notin Before, NEW m \in Commands,
         m.type \notin {"VERSION_REQUEST", "STATUS_REQUEST"}, SrSend(m)
  PROVE  /\ UNCHANGED <<conn, notices, toIXL>>
         /\ ~Carries(toOC', {"VERSION_REQUEST"}) /\ ~Carries(toOC', {"STATUS_REQUEST"})
<1>1. TypeOK /\ StageInv /\ LinkHealth
  BY DEF Known, HealthInv
<1>2. ocPhase = "initialised"
  BY <1>1 DEF StageInv, Running, Ended
<1>3. /\ conn = "UP"
      /\ ~Carries(toOC, {"VERSION_REQUEST"}) /\ ~Carries(toOC, {"STATUS_REQUEST"})
  BY <1>1, <1>2, Openings DEF LinkHealth
<1>4. /\ toOC' = Append(toOC, m) \/ toOC' = toOC
      /\ UNCHANGED <<conn, notices, toIXL>>
  BY <1>3 DEF SrSend, linkVars
<1>5. toOC \in Seq(Commands)
  BY <1>1 DEF TypeOK
<1>6. \A T, a : Carries(Append(toOC, m), T) <=> Carries(toOC, T) \/ m.type \in T
  BY <1>5, AppendedQueue
<1>7. QED
  BY <1>3, <1>4, <1>6

LEMMA HealthMain ==
  ASSUME HealthySetting, Known, HealthInv, MainThread
  PROVE  HealthInv'
<1>1. TypeOK /\ StageInv /\ ConnectInv /\ OrderInv
  BY DEF Known
<1>2. /\ pc \in MainSteps \ {"exited", "crashed"}
      /\ UNCHANGED <<handshake, rx, rcv, ocPhase>>
  BY DEF MainThread, Establishment, Connect, FireStart, Established, SendDay, PdiTimeout,
         Operator, Quit, OrderLuminosity, OrderAspect, OrderRelease, OrderRoute, Order,
         Command, BeginConfirmation, SendAspect, CommandDone, CommandFailed, Main, MainSteps,
         recvVars, ocVars
<1>3. Running
  BY <1>2 DEF Running
<1>4. LinkHealth /\ TokenHealth /\ ReportHealth /\ SessionHealth /\ pdi_state # "FAILED"
  BY <1>3 DEF HealthInv
<1>5. CASE Quit
  BY <1>4, <1>5 DEF Quit, HealthInv, Running
<1>6. ~PdiTimeout /\ ~CommandFailed
  BY <1>4 DEF PdiTimeout, HealthySetting, CommandFailed, Main, SessionHealth
<1> SUFFICES ASSUME ~Quit
             PROVE  /\ pdi_state' # "FAILED"
                    /\ LinkHealth' /\ TokenHealth' /\ ReportHealth' /\ SessionHealth'
  BY <1>5 DEF HealthInv
<1>7. CASE Connect
  <2>1. /\ pc = "connect" /\ pc' = "fire_start" /\ conn' = "START"
        /\ pdi_state' = "WAIT_RASTA_HANDSHAKE" /\ UNCHANGED <<notices, toOC, toIXL>>
    BY <1>7 DEF Connect, Main
  <2>2. handshake = "idle" /\ ocPhase = "idle" /\ rcv.step = "idle"
        /\ toOC = <<>> /\ toIXL = <<>> /\ rx = <<>>
    BY <1>1, <2>1, TokenAlone DEF ConnectInv
  <2>3. /\ \A T : ~InFlight(T)' /\ ~Carries(toOC', T)
        /\ OnlyFirst(toIXL', "STATUS_BEGIN") /\ OnlyFirst(rx', "STATUS_BEGIN")
    BY <1>2, <1>4, <2>1, <2>2, EmptyQueue DEF InFlight, Taken, ReportHealth
  <2>4. QED
    BY <1>2, <1>4, <2>1, <2>2, <2>3
       DEF LinkHealth, TokenHealth, ReportHealth, SessionHealth, InFlight, Taken
<1>8. CASE FireStart
  <2>1. /\ pc = "fire_start" /\ pc' = "establishing"
        /\ UNCHANGED <<pdi_state, conn, toOC, toIXL>>
    BY <1>8 DEF FireStart, Main
  <2>2. notices' = notices \/ Notify("START")
    BY <1>4, <1>8 DEF FireStart, LinkHealth
  <2>3. notices'["CLOSED"] = notices["CLOSED"] /\ notices'["TIMEOUT"] = notices["TIMEOUT"]
    BY <1>1, <2>2 DEF Notify, TypeOK, Notices
  <2>4. pdi_state = "WAIT_RASTA_HANDSHAKE"
    BY <1>4, <2>1 DEF TokenHealth
  <2>5. QED
    BY <1>2, <1>4, <2>1, <2>3, <2>4
       DEF LinkHealth, TokenHealth, ReportHealth, SessionHealth, InFlight, Taken, Before
<1>9. CASE Established
  <2>1. /\ pc = "establishing" /\ pc' = "send_day" /\ pdi_state = "ESTABLISHED"
        /\ UNCHANGED <<pdi_state, conn, notices, toOC, toIXL>>
    BY <1>4, <1>9 DEF Established, Main, linkVars
  <2>2. ~Taken({"SIGNAL_ASPECT_STATUS"})
    BY <1>1, <2>1 DEF OrderInv, NoOrder, InFlight, Taken, AspectAnswers
  <2>3. QED
    BY <1>2, <1>4, <2>1, <2>2
       DEF LinkHealth, TokenHealth, ReportHealth, SessionHealth, InFlight, Taken, Before
<1>10. CASE SendDay \/ OrderLuminosity
  <2>1. /\ pc \in {"send_day", "prompt"} /\ pc' = "prompt" /\ SrSend(Plain("LUMINOSITY"))
        /\ UNCHANGED pdi_state
    BY <1>10 DEF SendDay, OrderLuminosity, Main
  <2>2. /\ Plain("LUMINOSITY") \in Commands
        /\ Plain("LUMINOSITY").type \notin {"VERSION_REQUEST", "STATUS_REQUEST"}
    BY PlainType DEF Plain, CommandTypes
  <2>3. /\ UNCHANGED <<conn, notices, toIXL>>
        /\ ~Carries(toOC', {"VERSION_REQUEST"}) /\ ~Carries(toOC', {"STATUS_REQUEST"})
    BY <1>3, <2>1, <2>2, HealthySend DEF Before
  <2>4. QED
    BY <1>2, <1>4, <2>1, <2>3
       DEF LinkHealth, TokenHealth, ReportHealth, SessionHealth, InFlight, Taken, Before
<1>11. ASSUME NEW c, Order(c)
       PROVE  /\ pdi_state' # "FAILED"
              /\ LinkHealth' /\ TokenHealth' /\ ReportHealth' /\ SessionHealth'
  <2>1. /\ pc = "prompt" /\ pc' = "begin"
        /\ UNCHANGED <<pdi_state, conn, notices, toOC, toIXL>>
    BY <1>11 DEF Order, Main, linkVars
  <2>2. QED
    BY <1>2, <1>4, <2>1
       DEF LinkHealth, TokenHealth, ReportHealth, SessionHealth, InFlight, Taken, Before
<1>12. CASE Operator
  BY <1>10, <1>11, <1>12 DEF Operator, OrderAspect, OrderRoute, OrderRelease
<1>13. CASE BeginConfirmation
  <2>1. /\ pc = "begin" /\ UNCHANGED <<conn, notices, toOC, toIXL>>
        /\ pdi_state = "ESTABLISHED" => pc' = "send" /\ pdi_state' = "WAIT_CONFIRMATION"
    BY <1>13 DEF BeginConfirmation, Main, linkVars
  <2>2. pdi_state = "ESTABLISHED"
    BY <1>4, <2>1 DEF SessionHealth
  <2>3. QED
    BY <1>2, <1>4, <2>1, <2>2
       DEF LinkHealth, TokenHealth, ReportHealth, SessionHealth, InFlight, Taken, Before
<1>14. CASE SendAspect
  <2>1. /\ pc = "send" /\ pc' = "awaiting" /\ SrSend(Show(cmd.aspect)) /\ UNCHANGED pdi_state
    BY <1>14 DEF SendAspect, Main
  <2>2. /\ Show(cmd.aspect) \in Commands
        /\ Show(cmd.aspect).type \notin {"VERSION_REQUEST", "STATUS_REQUEST"}
    BY <1>1, PlainType DEF Show, TypeOK
  <2>3. /\ UNCHANGED <<conn, notices, toIXL>>
        /\ ~Carries(toOC', {"VERSION_REQUEST"}) /\ ~Carries(toOC', {"STATUS_REQUEST"})
    BY <1>3, <2>1, <2>2, HealthySend DEF Before
  <2>4. QED
    BY <1>2, <1>4, <2>1, <2>3
       DEF LinkHealth, TokenHealth, ReportHealth, SessionHealth, InFlight, Taken, Before
<1>15. CASE CommandDone
  <2>1. /\ pc = "awaiting" /\ pc' = "prompt" /\ pdi_state \in CommandResults
        /\ pdi_state' = "ESTABLISHED" /\ UNCHANGED <<conn, notices, toOC, toIXL>>
    BY <1>15 DEF CommandDone, Main, linkVars
  <2>2. QED
    BY <1>2, <1>4, <2>1
       DEF LinkHealth, TokenHealth, ReportHealth, SessionHealth, InFlight, Taken, Before,
           CommandResults
<1>16. QED
  BY <1>6, <1>7, <1>8, <1>9, <1>10, <1>12, <1>13, <1>14, <1>15
     DEF MainThread, Establishment, Command

LEMMA HealthInit == Init => HealthInv
<1> SUFFICES ASSUME Init PROVE HealthInv
  OBVIOUS
<1>1. /\ \A T : ~InFlight(T) /\ ~Carries(toOC, T)
      /\ OnlyFirst(toIXL, "STATUS_BEGIN") /\ OnlyFirst(rx, "STATUS_BEGIN")
  BY EmptyQueue DEF Init, InFlight, Taken, Idle, OnlyFirst
<1>2. QED
  BY <1>1 DEF Init, HealthInv, LinkHealth, TokenHealth, ReportHealth, SessionHealth, Idle,
              InFlight, Notices

LEMMA HealthStutters == HealthInv /\ UNCHANGED vars => HealthInv'
BY DEF vars, mainVars, linkVars, recvVars, ocVars, HealthInv, Running, LinkHealth,
       TokenHealth, ReportHealth, SessionHealth, InFlight, Taken

(* With a peer that answers, a link that holds and the START notification   *)
(* run before the handshake's, no order of the threads and no luminosity    *)
(* command in between makes the session fail: for every number of commands, *)
(* and every capacity of the two fifos.                                     *)
THEOREM HealthyNeverFails ==
  ASSUME HealthySetting
  PROVE  Spec => []NeverFailed
<1>1. Init => ConnectInv /\ NothingTaken
  BY DEF Init, ConnectInv, NothingTaken, Idle
<1>2. "luminosity_error" \notin OcFaults
  BY DEF HealthySetting
<1>3. Spec => []Known
  BY <1>1, <1>2, ConnectStep, NothingIsTaken, StageAlways, OpeningAlways, PendingAlways,
     OrderAlways, PTL DEF Spec, Known
<1>4. Known /\ HealthInv /\ [Next]_vars => HealthInv'
  BY HealthEnvironment, HealthNotification, HealthReceiver, HealthMain, HealthStutters DEF Next
<1>5. HealthInv => NeverFailed
  BY DEF HealthInv, NeverFailed
<1>6. QED
  BY <1>3, <1>4, <1>5, HealthInit, PTL DEF Spec

===============================================================================
