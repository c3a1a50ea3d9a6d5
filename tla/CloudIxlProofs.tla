---------------------------- MODULE CloudIxlProofs ----------------------------
(***************************************************************************)
(* Proofs about CloudIxl for every route table, every bound and every      *)
(* combination of faults of the link and of the Object Controller: types   *)
(* and routes, and what the threads that share pdi_state and               *)
(* expected_signal_aspect_payload can do to each other.                    *)
(***************************************************************************)
EXTENDS CloudIxl, SequenceTheorems, TLAPS

-------------------------------------------------------------------------------
(* The operators the actions are built from.                                *)

LEMMA PlainType ==
    /\ \A t \in CommandTypes : Plain(t) \in Commands
    /\ \A t \in ReplyTypes : Plain(t) \in Replies
    /\ \A a \in Aspects : Show(a) \in Commands /\ Status(a) \in Replies
BY DEF Plain, Show, Status, Commands, Replies, CommandTypes, ReplyTypes, Aspects

LEMMA IdleType == Idle \in [step : RcvSteps, msg : Replies, waiting : BOOLEAN]
<1>1. Plain("INVALID") \in Replies
  BY PlainType DEF ReplyTypes
<1>2. QED
  BY <1>1 DEF Idle, RcvSteps

LinkTypeOK ==
    /\ conn \in {"NONE", "START", "UP", "RETR", "CLOSED"}
    /\ notices \in [Notices -> Nat]
    /\ toOC \in Seq(Commands) /\ toIXL \in Seq(Replies)

LEMMA SrSendType ==
  ASSUME LinkTypeOK, NEW m \in Commands, SrSend(m)
  PROVE  LinkTypeOK'
<1>1. CASE /\ toOC' = Append(toOC, m) /\ UNCHANGED <<conn, notices, toIXL>>
  BY <1>1 DEF LinkTypeOK
<1>2. CASE UNCHANGED linkVars
  BY <1>2 DEF LinkTypeOK, linkVars
<1>3. CASE Disconnect /\ Notify("CLOSED") /\ UNCHANGED toOC
  <2>1. notices' \in [Notices -> Nat]
    BY <1>3 DEF LinkTypeOK, Notify, Notices
  <2>2. QED
    BY <1>3, <2>1 DEF LinkTypeOK, Disconnect
<1>4. QED
  BY <1>1, <1>2, <1>3 DEF SrSend

LEMMA TupleType ==
  ASSUME NEW S, NEW a \in S, NEW b \in S, NEW c \in S, NEW d \in S
  PROVE  <<a>> \in Seq(S) /\ <<a, b, c, d>> \in Seq(S)
OBVIOUS

LEMMA OcRepliesType ==
  ASSUME ocAspect \in Aspects, NEW m \in Commands, NEW ms \in OcReplies(m)
  PROVE  ms \in Seq(Replies)
<1>1. m.aspect \in Aspects
  BY DEF Commands
<1>2. /\ Status(ocAspect) \in Replies /\ Status(m.aspect) \in Replies
      /\ \A t \in ReplyTypes : Plain(t) \in Replies
  BY <1>1, PlainType
<1>3. \A t \in ReplyTypes : <<Plain(t)>> \in Seq(Replies)
  BY <1>2, TupleType
<1>4. CASE m.type = "VERSION_REQUEST"
  <2>1. ms \in {<<Plain("VERSION_EQUAL")>>, <<Plain("VERSION_NOT_EQUAL")>>}
    BY <1>4, Zenon DEF OcReplies, If
  <2>2. QED
    BY <1>3, <2>1 DEF ReplyTypes
<1>5. CASE m.type = "STATUS_REQUEST"
  <2>1. ms = <<Plain("STATUS_BEGIN"), Status(ocAspect),
               Plain("LUMINOSITY_STATUS"), Plain("STATUS_FINISH")>>
    BY <1>5 DEF OcReplies
  <2>2. QED
    BY <1>2, <2>1, TupleType DEF ReplyTypes
<1>6. CASE m.type = "LUMINOSITY"
  <2>1. ms \in {<<Plain("LUMINOSITY_STATUS")>>, <<Plain("EXECUTION_ERROR")>>}
    BY <1>6 DEF OcReplies, If
  <2>2. QED
    BY <1>3, <2>1 DEF ReplyTypes
<1>7. CASE m.type = "SHOW_SIGNAL_ASPECT"
  <2>1. ms = <<Status(m.aspect)>>
    BY <1>7 DEF OcReplies
  <2>2. QED
    BY <1>2, <2>1, TupleType
<1>8. QED
  BY <1>4, <1>5, <1>6, <1>7 DEF Commands, CommandTypes

LEMMA OcRefusalsType ==
  ASSUME ocAspect \in Aspects, NEW ms \in OcRefusals
  PROVE  ms \in Seq(Replies)
<1>1. Status(ocAspect) \in Replies /\ \A t \in ReplyTypes : Plain(t) \in Replies
  BY PlainType
<1>2. ms \in {<<Plain("EXECUTION_ERROR")>>, <<Status(ocAspect)>>, <<Plain("INVALID")>>,
             <<Plain("UNKNOWN")>>}
  BY DEF OcRefusals, If
<1>3. QED
  BY <1>1, <1>2, TupleType DEF ReplyTypes

-------------------------------------------------------------------------------
(* Type correctness.                                                        *)

LEMMA InitType == Init => TypeOK
<1> SUFFICES ASSUME Init PROVE TypeOK
  OBVIOUS
<1>1. IxlTypeOK
  BY DEF Init, IxlInit, IxlTypeOK, RouteStates, SectionStates, PointStates
<1>2. (CHOOSE r \in Routes : TRUE) \in Routes
  BY CloudIxlAssumption
<1>3. cmd \in [aspect : Aspects, route : Routes, release : BOOLEAN]
  BY <1>2 DEF Init, Aspects
<1>4. QED
  BY <1>1, <1>3, IdleType, CloudIxlAssumption
     DEF Init, TypeOK, PdiStates, MainSteps, Aspects, Notices

LEMMA EnvironmentType == TypeOK /\ Environment => TypeOK'
<1> SUFFICES ASSUME TypeOK, Environment PROVE TypeOK'
  OBVIOUS
<1> USE DEF TypeOK, IxlTypeOK, ixlVars, mainVars, linkVars, recvVars, ocVars
<1>1. CASE RastaUp
  BY <1>1 DEF RastaUp, Notify, Notices
<1>2. CASE RastaRetransmission
  <2>1. conn' \in {"NONE", "START", "UP", "RETR", "CLOSED"}
    BY <1>2 DEF RastaRetransmission
  <2>2. ASSUME toIXL # <<>> PROVE Tail(toIXL) \in Seq(Replies)
    BY <2>2
  <2>3. toIXL' \in Seq(Replies)
    BY <1>2, <2>2 DEF RastaRetransmission
  <2>4. QED
    BY <1>2, <2>1, <2>3 DEF RastaRetransmission
<1>3. CASE RastaClose
  BY <1>3 DEF RastaClose, Disconnect, Notify, Notices
<1>4. CASE RastaTimeout
  BY <1>4 DEF RastaTimeout, Disconnect, Notices
<1>5. CASE RastaDeliver
  BY <1>5 DEF RastaDeliver
<1>6. CASE OcObey
  <2>1. Head(toOC) \in Commands /\ toOC' \in Seq(Commands)
    BY <1>6 DEF OcObey
  <2>2. toIXL' \in Seq(Replies)
    <3>1. PICK ms \in OcReplies(Head(toOC)) : Reply(ms)
      BY <1>6 DEF OcObey
    <3>2. ms \in Seq(Replies)
      BY <2>1, OcRepliesType
    <3>3. QED
      BY <3>1, <3>2 DEF Reply
  <2>3. ocAspect' \in Aspects /\ ocPhase' \in {"idle", "versioned", "initialised"}
    BY <1>6, <2>1 DEF OcObey, OcPhaseAfter, Commands
  <2>4. QED
    BY <1>6, <2>1, <2>2, <2>3 DEF OcObey
<1>7. CASE OcDisobey
  <2>1. toOC' \in Seq(Commands)
    BY <1>7 DEF OcDisobey
  <2>2. toIXL' \in Seq(Replies)
    <3>1. PICK ms \in OcRefusals : Reply(ms)
      BY <1>7 DEF OcDisobey
    <3>2. ms \in Seq(Replies)
      BY OcRefusalsType
    <3>3. QED
      BY <3>1, <3>2 DEF Reply
  <2>3. QED
    BY <1>7, <2>1, <2>2 DEF OcDisobey
<1>8. QED
  BY <1>1, <1>2, <1>3, <1>4, <1>5, <1>6, <1>7 DEF Environment

LEMMA NotificationType == TypeOK /\ Notification => TypeOK'
<1> SUFFICES ASSUME TypeOK, Notification PROVE TypeOK'
  OBVIOUS
<1> USE DEF TypeOK, IxlTypeOK, ixlVars, mainVars, linkVars, recvVars, ocVars
<1>1. CASE OnClosed
  BY <1>1 DEF OnClosed, Start, Notices, PdiStates
<1>2. CASE OnStart
  BY <1>2 DEF OnStart, Start, Notices, PdiStates
<1>3. CASE OnTimeout
  BY <1>3 DEF OnTimeout, Start, Fail, Notices, PdiStates
<1>4. CASE OnHandshake
  BY <1>4 DEF OnHandshake, Start, Notices, PdiStates
<1>5. CASE SendVersionRequest
  <2>1. LinkTypeOK'
    <3>1. Plain("VERSION_REQUEST") \in Commands
      BY PlainType DEF CommandTypes
    <3>2. QED
      BY <1>5, <3>1, SrSendType DEF SendVersionRequest, LinkTypeOK
  <2>2. QED
    BY <1>5, <2>1 DEF SendVersionRequest, LinkTypeOK
<1>6. QED
  BY <1>1, <1>2, <1>3, <1>4, <1>5 DEF Notification

LEMMA ReceiverType == TypeOK /\ Receiver => TypeOK'
<1> SUFFICES ASSUME TypeOK, Receiver PROVE TypeOK'
  OBVIOUS
<1> USE DEF TypeOK, IxlTypeOK, ixlVars, mainVars, linkVars, recvVars, ocVars
<1>1. CASE Receive
  BY <1>1 DEF Receive, RcvSteps
<1>2. CASE ReceiveNothing
  BY <1>2 DEF ReceiveNothing, MainSteps
<1>3. CASE OnInvalid
  BY <1>3, IdleType DEF OnInvalid, Dispatching, Fail, PdiStates
<1>4. CASE OnVersionResponse
  BY <1>4, IdleType DEF OnVersionResponse, Dispatching, Fail, PdiStates, RcvSteps
<1>5. CASE AcceptVersion
  BY <1>5 DEF AcceptVersion, PdiStates, RcvSteps
<1>6. CASE SendStatusRequest
  <2>1. LinkTypeOK'
    <3>1. Plain("STATUS_REQUEST") \in Commands
      BY PlainType DEF CommandTypes
    <3>2. QED
      BY <1>6, <3>1, SrSendType DEF SendStatusRequest, LinkTypeOK
  <2>2. QED
    BY <1>6, <2>1, IdleType DEF SendStatusRequest, LinkTypeOK
<1>7. CASE OnInitialisationStart
  BY <1>7, IdleType DEF OnInitialisationStart, Dispatching, Transition, PdiStates
<1>8. CASE OnInitialisationCompleted
  BY <1>8, IdleType DEF OnInitialisationCompleted, Dispatching, Transition, PdiStates
<1>9. CASE OnInitialAspectStatus
  BY <1>9, IdleType DEF OnInitialAspectStatus, Dispatching, Transition, PdiStates
<1>10. CASE OnAspectFeedback
  BY <1>10, IdleType DEF OnAspectFeedback, Dispatching, Complete, Transition, PdiStates
<1>11. CASE OnExecutionError
  BY <1>11, IdleType DEF OnExecutionError, Dispatching, Complete, Transition, PdiStates
<1>12. CASE OnBrightnessStatus
  BY <1>12, IdleType DEF OnBrightnessStatus, Dispatching, PdiStates
<1>13. CASE OnUnknown
  BY <1>13, IdleType DEF OnUnknown, Dispatching
<1>14. QED
  BY <1>1, <1>2, <1>3, <1>4, <1>5, <1>6, <1>7, <1>8, <1>9, <1>10, <1>11, <1>12, <1>13
     DEF Receiver

LEMMA MainThreadType == TypeOK /\ MainThread => TypeOK'
<1> SUFFICES ASSUME TypeOK, MainThread PROVE TypeOK'
  OBVIOUS
<1> USE DEF TypeOK, IxlTypeOK, ixlVars, mainVars, linkVars, recvVars, ocVars, MainSteps
<1>1. CASE Connect
  BY <1>1 DEF Connect, Main, PdiStates
<1>2. CASE FireStart
  <2>1. notices' \in [Notices -> Nat]
    <3>1. CASE conn = "START"
      BY <1>2, <3>1 DEF FireStart, Notify, Notices
    <3>2. CASE conn = "CLOSED"
      BY <1>2, <3>2 DEF FireStart, Notify, Notices
    <3>3. CASE conn \notin {"START", "CLOSED"}
      BY <1>2, <3>3 DEF FireStart
    <3>4. QED
      BY <3>1, <3>2, <3>3
  <2>2. QED
    BY <1>2, <2>1 DEF FireStart, Main
<1>3. CASE Established
  BY <1>3 DEF Established, Main
<1>4. CASE SendDay \/ OrderLuminosity
  <2>1. LinkTypeOK'
    <3>1. Plain("LUMINOSITY") \in Commands
      BY PlainType DEF CommandTypes
    <3>2. QED
      BY <1>4, <3>1, SrSendType DEF SendDay, OrderLuminosity, LinkTypeOK
  <2>2. commands' \in 0..MaxCommands
    BY <1>4, CloudIxlAssumption DEF SendDay, OrderLuminosity
  <2>3. QED
    BY <1>4, <2>1, <2>2 DEF SendDay, OrderLuminosity, Main, LinkTypeOK
<1>5. CASE PdiTimeout
  BY <1>5 DEF PdiTimeout, Main, Fail, PdiStates
<1>6. CASE Quit
  BY <1>6 DEF Quit, Main
<1>7. ASSUME NEW c \in [aspect : Aspects, route : Routes, release : BOOLEAN],
             Order(c), IxlTypeOK'
      PROVE  TypeOK'
  BY <1>7, CloudIxlAssumption DEF Order, Main
<1>8. ASSUME NEW a \in DirectAspects, OrderAspect(a) PROVE TypeOK'
  BY <1>7, <1>8, CloudIxlAssumption DEF OrderAspect
<1>9. ASSUME NEW r \in Routes, OrderRelease(r) PROVE TypeOK'
  BY <1>7, <1>9 DEF OrderRelease, Aspects
<1>10. ASSUME NEW r \in Routes, OrderRoute(r) PROVE TypeOK'
  BY <1>7, <1>10 DEF OrderRoute, request_route_decision, Aspects, RouteStates
<1>11. CASE BeginConfirmation
  BY <1>11 DEF BeginConfirmation, Main, PdiStates
<1>12. CASE SendAspect
  <2>1. LinkTypeOK'
    <3>1. Show(cmd.aspect) \in Commands
      BY PlainType
    <3>2. QED
      BY <1>12, <3>1, SrSendType DEF SendAspect, LinkTypeOK
  <2>2. QED
    BY <1>12, <2>1 DEF SendAspect, Main, LinkTypeOK
<1>13. CASE CommandDone
  <2>1. IxlTypeOK'
    <3>1. CASE release_route(cmd.route)
      BY <3>1 DEF release_route, RouteStates
    <3>2. CASE UNCHANGED ixlVars
      BY <3>2
    <3>3. QED
      BY <1>13, <3>1, <3>2 DEF CommandDone
  <2>2. pdi_state' = "ESTABLISHED" /\ pc' = "prompt" /\ UNCHANGED <<cmd, expected, commands, linkVars>>
    BY <1>13 DEF CommandDone
  <2>3. UNCHANGED <<handshake, recvVars, ocVars>>
    BY <1>13 DEF CommandDone, Main
  <2>4. QED
    BY <2>1, <2>2, <2>3, SMTT(30) DEF PdiStates
<1>14. CASE CommandFailed
  BY <1>14 DEF CommandFailed, Main, Fail, PdiStates
<1>15. QED
  BY <1>1, <1>2, <1>3, <1>4, <1>5, <1>6, <1>8, <1>9, <1>10, <1>11, <1>12, <1>13, <1>14
     DEF MainThread, Establishment, Operator, Command

(* Every variable keeps to the values the code gives it.                    *)
THEOREM TypeCorrect == Spec => []TypeOK
<1>1. TypeOK /\ [Next]_vars => TypeOK'
  <2>1. TypeOK /\ Next => TypeOK'
    BY EnvironmentType, NotificationType, ReceiverType, MainThreadType DEF Next
  <2>2. TypeOK /\ UNCHANGED vars => TypeOK'
    BY DEF TypeOK, IxlTypeOK, vars, ixlVars, mainVars, linkVars, recvVars, ocVars
  <2>3. QED
    BY <2>1, <2>2
<1>2. QED
  BY InitType, <1>1, PTL DEF Spec

-------------------------------------------------------------------------------
(* Route exclusion. Only OrderRoute reserves and only CommandDone frees: the *)
(* proof is about these two, every other action leaves the routes alone.    *)

LEMMA RequestKeepsExclusion ==
  ASSUME IxlTypeOK, RouteExclusion, NEW r \in Routes, request_route_decision(r)
  PROVE  RouteExclusion'
<1>1. CASE Decision(r) = "GO"
  <2>1. ~route_state_blocks(route[r]) /\ ~HasConflictingRoute(r)
    BY <1>1 DEF Decision, get_route_state, route_state_blocks
  <2>2. route' = [route EXCEPT ![r] = "RESERVED"]
    BY <1>1 DEF request_route_decision
  <2>3. SUFFICES ASSUME NEW p \in Routes, NEW q \in Routes,
                        p # q, routes_share_section(p, q),
                        route_state_blocks(route'[p]), route_state_blocks(route'[q])
                 PROVE  FALSE
    BY DEF RouteExclusion, routes_share_section, route_state_blocks
  <2>4. CASE p # r /\ q # r
    BY <2>2, <2>3, <2>4 DEF RouteExclusion, IxlTypeOK
  <2>5. CASE p = r \/ q = r
    <3>1. PICK other \in Routes \ {r} :
              route_state_blocks(route[other]) /\ routes_share_section(r, other)
      BY <2>2, <2>3, <2>5 DEF IxlTypeOK, routes_share_section
    <3>2. QED
      BY <2>1, <3>1 DEF HasConflictingRoute
  <2>6. QED
    BY <2>4, <2>5
<1>2. CASE Decision(r) # "GO"
  BY <1>2 DEF request_route_decision, RouteExclusion, routes_share_section,
              route_state_blocks
<1>3. QED
  BY <1>1, <1>2

LEMMA ReleaseKeepsExclusion ==
  ASSUME IxlTypeOK, RouteExclusion, NEW r \in Routes, release_route(r)
  PROVE  RouteExclusion'
BY DEF IxlTypeOK, RouteExclusion, release_route, routes_share_section,
       route_state_blocks

LEMMA OthersKeepRoutes ==
  ASSUME Next,
         \A r \in Routes : ~OrderRoute(r),
         ~CommandDone
  PROVE  UNCHANGED ixlVars
<1> USE DEF ixlVars
<1>1. CASE Environment
  BY <1>1 DEF Environment, RastaUp, RastaRetransmission, RastaClose, RastaTimeout,
              RastaDeliver, OcObey, OcDisobey
<1>2. CASE Notification
  BY <1>2 DEF Notification, OnClosed, OnStart, OnTimeout, OnHandshake, Start,
              SendVersionRequest
<1>3. CASE Receiver
  BY <1>3 DEF Receiver, Receive, ReceiveNothing, OnInvalid, OnUnknown, OnVersionResponse,
              AcceptVersion, SendStatusRequest, OnInitialisationStart,
              OnInitialisationCompleted, OnInitialAspectStatus, OnAspectFeedback,
              OnExecutionError, OnBrightnessStatus, Dispatching
<1>4. CASE MainThread
  BY <1>4 DEF MainThread, Establishment, Connect, FireStart, Established, SendDay,
              PdiTimeout, Operator, Quit, OrderLuminosity, OrderAspect,
              OrderRelease, Command, BeginConfirmation, SendAspect, CommandFailed
<1>5. QED
  BY <1>1, <1>2, <1>3, <1>4 DEF Next

(* For every route table: two routes that need a common section are never   *)
(* reserved together.                                                       *)
THEOREM RoutesExclude == Spec => []RouteExclusion
<1>1. Init => RouteExclusion
  BY DEF Init, IxlInit, RouteExclusion, route_state_blocks
<1>2. TypeOK /\ RouteExclusion /\ [Next]_vars => RouteExclusion'
  <2> SUFFICES ASSUME TypeOK, RouteExclusion, [Next]_vars PROVE RouteExclusion'
    OBVIOUS
  <2>1. ASSUME NEW r \in Routes, OrderRoute(r) PROVE RouteExclusion'
    BY <2>1, RequestKeepsExclusion DEF OrderRoute, TypeOK
  <2>2. ASSUME UNCHANGED ixlVars PROVE RouteExclusion'
    BY <2>2 DEF ixlVars, RouteExclusion, routes_share_section, route_state_blocks
  <2>3. CASE CommandDone
    <3>1. cmd.route \in Routes
      BY DEF TypeOK
    <3>2. release_route(cmd.route) \/ UNCHANGED ixlVars
      BY <2>3 DEF CommandDone
    <3>3. QED
      BY <2>2, <3>1, <3>2, ReleaseKeepsExclusion DEF TypeOK
  <2>4. CASE UNCHANGED vars
    BY <2>2, <2>4 DEF vars
  <2>5. QED
    BY <2>1, <2>2, <2>3, <2>4, OthersKeepRoutes
<1>3. QED
  BY <1>1, <1>2, TypeCorrect, PTL DEF Spec


-------------------------------------------------------------------------------
(* FAILED is left by the handshake and the START notification and by a late *)
(* AcceptVersion, never for DISCONNECTED: only OnClosed writes that.        *)

LEMMA OthersDoNotDisconnect ==
  ASSUME Next, ~OnClosed, pdi_state # "DISCONNECTED"
  PROVE  pdi_state' # "DISCONNECTED"
<1>1. CASE Environment
  BY <1>1 DEF Environment, RastaUp, RastaRetransmission, RastaClose, RastaTimeout,
              RastaDeliver, OcObey, OcDisobey
<1>2. CASE Notification
  BY <1>2 DEF Notification, OnStart, OnTimeout, Fail, OnHandshake, SendVersionRequest
<1>3. CASE Receiver
  BY <1>3 DEF Receiver, Receive, ReceiveNothing, OnInvalid, OnUnknown, OnVersionResponse,
              AcceptVersion, SendStatusRequest, OnInitialisationStart,
              OnInitialisationCompleted, OnInitialAspectStatus, OnAspectFeedback,
              OnExecutionError, OnBrightnessStatus, Fail, Transition, Complete
<1>4. CASE MainThread
  BY <1>4 DEF MainThread, Establishment, Connect, FireStart, Established, SendDay,
              PdiTimeout, Operator, Quit, OrderLuminosity, OrderAspect, OrderRoute,
              OrderRelease, Order, Command, BeginConfirmation, SendAspect, CommandDone,
              CommandFailed, Fail
<1>5. QED
  BY <1>1, <1>2, <1>3, <1>4 DEF Next

(* Whatever order the callbacks of a lost connection run in, a session that *)
(* FAILED is never taken for a mere disconnection.                          *)
THEOREM FailureIsKept == Spec => FailedIsNotDisconnected
<1>1. [Next]_vars => [pdi_state = "FAILED" => pdi_state' # "DISCONNECTED"]_vars
  <2> SUFFICES ASSUME Next, pdi_state = "FAILED" PROVE pdi_state' # "DISCONNECTED"
    OBVIOUS
  <2>1. CASE OnClosed
    BY <2>1 DEF OnClosed
  <2>2. CASE ~OnClosed
    BY <2>2, OthersDoNotDisconnect
  <2>3. QED
    BY <2>1, <2>2
<1>2. QED
  BY <1>1, PTL DEF Spec, FailedIsNotDisconnected

-------------------------------------------------------------------------------
(* The payload to expect. A receive thread compares it without the lock: it *)
(* is safe because the one thread that could write it is waiting, or gone,  *)
(* from the moment the receive thread saw WAIT_CONFIRMATION until its own   *)
(* Complete.                                                                *)

Pending == {"send", "awaiting", "exited", "crashed"}

PendingInv ==
    /\ expected = cmd.aspect
    /\ pdi_state = "WAIT_CONFIRMATION" => pc \in Pending
    /\ rcv.step = "dispatch" /\ rcv.waiting
           => pc \in Pending /\ pdi_state \notin CommandResults

LEMMA PendingEnvironment == TypeOK /\ PendingInv /\ Environment => PendingInv'
BY DEF PendingInv, mainVars, recvVars, Environment, RastaUp, RastaRetransmission,
       RastaClose, RastaTimeout, RastaDeliver, OcObey, OcDisobey

LEMMA PendingNotification == TypeOK /\ PendingInv /\ Notification => PendingInv'
BY DEF PendingInv, mainVars, recvVars, CommandResults, Notification, OnClosed, OnStart,
       OnTimeout, OnHandshake, Start, Fail, SendVersionRequest

LEMMA PendingReceiver == TypeOK /\ PendingInv /\ Receiver => PendingInv'
<1> SUFFICES ASSUME TypeOK, PendingInv, Receiver PROVE PendingInv'
  OBVIOUS
<1> USE DEF PendingInv, mainVars, CommandResults, Idle, Fail, Transition, Complete
<1>1. CASE Receive
  BY <1>1 DEF Receive
<1>2. CASE ReceiveNothing
  BY <1>2 DEF ReceiveNothing, recvVars, Pending
<1>3. CASE \/ OnInvalid \/ OnUnknown \/ OnBrightnessStatus
           \/ OnInitialisationStart \/ OnInitialisationCompleted \/ OnInitialAspectStatus
  BY <1>3 DEF OnInvalid, OnUnknown, OnBrightnessStatus, OnInitialisationStart,
              OnInitialisationCompleted, OnInitialAspectStatus, Dispatching
<1>4. CASE OnVersionResponse \/ AcceptVersion \/ SendStatusRequest
  <2>1. rcv'.step # "dispatch"
    BY <1>4 DEF OnVersionResponse, AcceptVersion, SendStatusRequest, TypeOK
  <2>2. QED
    BY <1>4, <2>1 DEF OnVersionResponse, AcceptVersion, SendStatusRequest, Dispatching
<1>5. CASE OnAspectFeedback \/ OnExecutionError
  BY <1>5 DEF OnAspectFeedback, OnExecutionError, Dispatching
<1>6. QED
  BY <1>1, <1>2, <1>3, <1>4, <1>5 DEF Receiver

LEMMA PendingMain == TypeOK /\ PendingInv /\ MainThread => PendingInv'
<1> SUFFICES ASSUME TypeOK, PendingInv, MainThread PROVE PendingInv'
  OBVIOUS
<1> USE DEF PendingInv, Pending, CommandResults, recvVars, Main, Fail
<1>1. CASE Establishment
  BY <1>1 DEF Establishment, Connect, FireStart, Established, SendDay
<1>2. CASE PdiTimeout \/ Quit \/ OrderLuminosity
  BY <1>2 DEF PdiTimeout, Quit, OrderLuminosity
<1>3. ASSUME NEW c, Order(c) PROVE PendingInv'
  BY <1>3 DEF Order
<1>4. CASE Operator
  BY <1>2, <1>3, <1>4 DEF Operator, OrderAspect, OrderRoute, OrderRelease
<1>5. CASE Command
  BY <1>5 DEF Command, BeginConfirmation, SendAspect, CommandDone, CommandFailed
<1>6. QED
  BY <1>1, <1>2, <1>4, <1>5 DEF MainThread

LEMMA PendingAlways == Spec => []PendingInv
<1>1. Init => PendingInv
  BY DEF Init, PendingInv, Idle
<1>2. TypeOK /\ PendingInv /\ [Next]_vars => PendingInv'
  <2>1. PendingInv /\ UNCHANGED vars => PendingInv'
    BY DEF PendingInv, vars, mainVars, recvVars
  <2>2. QED
    BY <2>1, PendingEnvironment, PendingNotification, PendingReceiver, PendingMain DEF Next
<1>3. QED
  BY <1>1, <1>2, TypeCorrect, PTL DEF Spec

(* expected_signal_aspect_payload is never written while a receive thread   *)
(* may compare it, and what is compared belongs to the pending command.     *)
THEOREM ComparisonIsSafe == Spec => []ExpectedIsStable
<1>1. PendingInv => ExpectedIsStable
  BY DEF PendingInv, ExpectedIsStable, Pending
<1>2. QED
  BY <1>1, PendingAlways, PTL

-------------------------------------------------------------------------------
(* The stages of the session. Until the Object Controller has answered the  *)
(* status request there is one token: the connection to come up, the        *)
(* handshake notification, the version request, its answer, the thread that *)
(* handles it, the status request. It is never doubled, so neither request  *)
(* is sent twice, and the queues hold the telegrams of one stage only.      *)

Before == {"connect", "fire_start", "establishing"}
Ended  == {"exited", "crashed"}

VersionTypes == {"VERSION_EQUAL", "VERSION_NOT_EQUAL"}

Out == [type : CASE ocPhase = "idle"      -> {"VERSION_REQUEST"}
                 [] ocPhase = "versioned" -> {"STATUS_REQUEST"}
                 [] OTHER                 -> {"LUMINOSITY", "SHOW_SIGNAL_ASPECT"},
        aspect : Aspects]

In == [type : CASE ocPhase = "idle"      -> {}
                [] ocPhase = "versioned" -> VersionTypes
                [] OTHER                 -> ReplyTypes \ VersionTypes,
       aspect : Aspects]

One(condition) == IF condition THEN 1 ELSE 0

Early ==
    One(conn \in {"NONE", "START"}) + notices["HANDSHAKE"] + One(handshake = "sending")

Token == Early + Len(toOC) + Len(toIXL) + Len(rx) + One(rcv.step # "idle")

InSession == {"ESTABLISHED", "WAIT_CONFIRMATION"} \cup CommandResults

StageInv ==
    /\ toOC \in Seq(Out) /\ toIXL \in Seq(In) /\ rx \in Seq(In)
    /\ rcv.step = "dispatch" => rcv.msg \in In
    /\ rcv.step \in {"version_accepted", "request_status"} => ocPhase = "versioned"
    /\ ocPhase # "idle" => Early = 0
    /\ ocPhase # "initialised" =>
           /\ Token <= 1
           /\ pc \in Before \cup Ended
           /\ pdi_state \notin InSession \cup {"RECEIVING_INITIAL_STATUS"}

LEMMA SrSendEffect ==
  ASSUME LinkTypeOK, NEW m \in Commands, SrSend(m)
  PROVE  /\ \/ toOC' = Append(toOC, m) /\ conn = "UP"
            \/ toOC' = toOC
         /\ toIXL' = toIXL \/ toIXL' = <<>>
         /\ conn' = conn \/ conn' = "CLOSED"
         /\ notices'["HANDSHAKE"] = notices["HANDSHAKE"]
BY DEF SrSend, linkVars, Disconnect, Notify, LinkTypeOK, Notices

LEMMA QueueGrows ==
  ASSUME NEW S, NEW q \in Seq(S), NEW m \in S, NEW r, r = Append(q, m) \/ r = q
  PROVE  r \in Seq(S) /\ Len(r) \in Nat /\ Len(r) <= Len(q) + 1
<1>1. CASE r = Append(q, m)
  BY <1>1
<1>2. CASE r = q
  BY <1>2
<1>3. QED
  BY <1>1, <1>2

LEMMA QueueShrinks ==
  ASSUME NEW S, NEW q \in Seq(S), NEW r, r = q \/ r = <<>>
  PROVE  r \in Seq(S) /\ Len(r) \in Nat /\ Len(r) <= Len(q)
<1>1. CASE r = <<>>
  <2>1. r \in Seq(S) /\ Len(r) = 0 /\ Len(q) \in Nat
    BY <1>1, EmptySeq
  <2>2. QED
    BY <2>1
<1>2. CASE r = q
  BY <1>2
<1>3. QED
  BY <1>1, <1>2

LEMMA StageInit == Init => StageInv
BY DEF Init, StageInv, Idle, Early, Token, One, Before, InSession, CommandResults, Notices

LEMMA CountsAreNatural ==
  ASSUME TypeOK
  PROVE  /\ notices["HANDSHAKE"] \in Nat
         /\ Len(toOC) \in Nat /\ Len(toIXL) \in Nat /\ Len(rx) \in Nat
         /\ Early \in Nat /\ Token \in Nat
<1>1. notices["HANDSHAKE"] \in Nat
  BY DEF TypeOK, Notices
<1>2. Len(toOC) \in Nat /\ Len(toIXL) \in Nat /\ Len(rx) \in Nat
  BY LenProperties DEF TypeOK
<1>3. Early \in Nat
  BY <1>1 DEF Early, One
<1>4. QED
  BY <1>1, <1>2, <1>3 DEF Token, One

(* A step that stays in its stage and adds no token. *)
LEMMA StageKept ==
  ASSUME StageInv, ocPhase' = ocPhase,
         toOC' \in Seq(Out), toIXL' \in Seq(In), rx' \in Seq(In),
         rcv'.step = "dispatch" => rcv'.msg \in In,
         rcv'.step \in {"version_accepted", "request_status"} => ocPhase = "versioned",
         ocPhase # "idle" => Early' = 0,
         ocPhase # "initialised" =>
             /\ Token' <= 1
             /\ pc' \in Before \cup Ended
             /\ pdi_state' \notin InSession \cup {"RECEIVING_INITIAL_STATUS"}
  PROVE  StageInv'
<1>1. Out' = Out /\ In' = In
  BY DEF Out, In
<1>2. QED
  BY <1>1 DEF StageInv

(* What the Object Controller does with the telegram at the head of toOC.   *)
LEMMA OcHead ==
  ASSUME TypeOK, StageInv, toOC # <<>>
  PROVE  /\ Head(toOC) \in Out /\ Head(toOC) \in Commands
         /\ Tail(toOC) \in Seq(Out) /\ Len(Tail(toOC)) = Len(toOC) - 1
         /\ ocPhase # "initialised" =>
                /\ toOC = <<Head(toOC)>> /\ toIXL = <<>> /\ rx = <<>>
                /\ rcv.step = "idle" /\ Early = 0
<1>1. /\ Head(toOC) \in Out /\ Tail(toOC) \in Seq(Out) /\ Len(Tail(toOC)) = Len(toOC) - 1
      /\ Len(toOC) > 0
  BY DEF StageInv
<1>2. Head(toOC) \in Commands
  BY DEF TypeOK
<1>3. ASSUME ocPhase # "initialised"
      PROVE  /\ toOC = <<Head(toOC)>> /\ toIXL = <<>> /\ rx = <<>>
             /\ rcv.step = "idle" /\ Early = 0
  <2>1. Token <= 1
    BY <1>3 DEF StageInv
  <2>2. Len(toOC) = 1 /\ Len(toIXL) = 0 /\ Len(rx) = 0 /\ rcv.step = "idle" /\ Early = 0
    BY <1>1, <2>1, CountsAreNatural DEF Token, One
  <2>3. QED
    BY <2>2 DEF StageInv
<1>4. QED
  BY <1>1, <1>2, <1>3

LEMMA StageEnvironment == TypeOK /\ StageInv /\ Environment => StageInv'
<1> SUFFICES ASSUME TypeOK, StageInv, Environment PROVE StageInv'
  OBVIOUS
<1> USE CountsAreNatural DEF mainVars, recvVars, ocVars
<1>1. CASE RastaUp
  <2>1. notices'["HANDSHAKE"] = notices["HANDSHAKE"] + 1
    BY <1>1 DEF RastaUp, Notify, TypeOK, Notices
  <2>2. Early' = Early /\ Token' = Token
    BY <1>1, <2>1 DEF RastaUp, Early, Token, One
  <2>3. QED
    BY <1>1, <2>2, StageKept DEF RastaUp, StageInv
<1>2. CASE RastaRetransmission
  <2>1. toIXL' \in Seq(In) /\ Len(toIXL') \in Nat /\ Len(toIXL') <= Len(toIXL)
    <3>1. ASSUME toIXL # <<>>
          PROVE  /\ Tail(toIXL) \in Seq(In) /\ Len(Tail(toIXL)) \in Nat
                 /\ Len(Tail(toIXL)) = Len(toIXL) - 1
      BY <3>1 DEF StageInv
    <3>2. CASE toIXL' = toIXL
      BY <3>2 DEF StageInv
    <3>3. CASE toIXL # <<>> /\ toIXL' = Tail(toIXL)
      BY <3>1, <3>3
    <3>4. QED
      BY <1>2, <3>2, <3>3 DEF RastaRetransmission
  <2>2. UNCHANGED <<ixlVars, pdi_state, mainVars, notices, toOC, handshake, recvVars, ocVars>>
    BY <1>2 DEF RastaRetransmission
  <2>3. Early' = Early
    <3>1. conn \notin {"NONE", "START"} /\ conn' \notin {"NONE", "START"}
      BY <1>2 DEF RastaRetransmission
    <3>2. QED
      BY <2>2, <3>1 DEF Early, One
  <2>4. Token' <= Token /\ Token' \in Nat
    BY <2>1, <2>2, <2>3 DEF Token, One
  <2>5. QED
    BY <2>1, <2>2, <2>3, <2>4, StageKept DEF StageInv
<1>3. CASE RastaClose \/ RastaTimeout
  <2>1. /\ notices'["HANDSHAKE"] = notices["HANDSHAKE"]
        /\ conn' = "CLOSED" /\ toIXL' = <<>>
        /\ UNCHANGED <<ixlVars, pdi_state, mainVars, toOC, handshake, recvVars, ocVars>>
    BY <1>3 DEF RastaClose, RastaTimeout, Disconnect, Notify, TypeOK, Notices
  <2>2. Early' <= Early /\ Early' \in Nat
    BY <2>1 DEF Early, One
  <2>3. Len(toIXL') = 0 /\ toIXL' \in Seq(In)
    BY <2>1
  <2>4. Token' <= Token /\ Token' \in Nat
    BY <2>1, <2>2, <2>3 DEF Token, One
  <2>5. QED
    BY <2>1, <2>2, <2>3, <2>4, StageKept DEF StageInv
<1>4. CASE RastaDeliver
  <2>1. Head(toIXL) \in In /\ toIXL' \in Seq(In) /\ Len(toIXL') = Len(toIXL) - 1
    BY <1>4 DEF RastaDeliver, StageInv
  <2>2. rx' \in Seq(In) /\ Len(rx') \in Nat /\ Len(rx') <= Len(rx) + 1
    BY <1>4, <2>1 DEF RastaDeliver, StageInv
  <2>3. UNCHANGED <<ixlVars, pdi_state, mainVars, conn, notices, toOC, handshake, rcv, ocVars>>
    BY <1>4 DEF RastaDeliver
  <2>4. Early' = Early
    BY <2>3 DEF Early
  <2>5. Token' <= Token /\ Token' \in Nat
    <3>1. Len(toIXL') + Len(rx') <= Len(toIXL) + Len(rx) /\ Len(toIXL') + Len(rx') \in Nat
      BY <2>1, <2>2, SMTT(30)
    <3>2. Token' = Early + Len(toOC) + Len(toIXL') + Len(rx') + One(rcv.step # "idle")
      BY <2>3, <2>4, SMTT(30) DEF Token
    <3>3. One(rcv.step # "idle") \in Nat
      BY DEF One
    <3>4. QED
      BY <3>1, <3>2, <3>3, <2>1, <2>2, SMTT(30) DEF Token
  <2>6. QED
    BY <2>1, <2>2, <2>3, <2>4, <2>5, StageKept, SMTT(30) DEF StageInv
<1>5. CASE OcObey
  <2>1. /\ toOC # <<>> /\ toOC' = Tail(toOC) /\ ocPhase' = OcPhaseAfter(Head(toOC))
        /\ UNCHANGED <<ixlVars, pdi_state, mainVars, conn, notices, handshake, recvVars>>
    BY <1>5 DEF OcObey
  <2>2. PICK ms \in OcReplies(Head(toOC)) : Reply(ms)
    BY <1>5 DEF OcObey
  <2>3. ms \in Seq(Replies)
    BY <2>1, OcHead, OcRepliesType DEF TypeOK
  <2>4. Early' = Early
    BY <2>1 DEF Early
  <2>5. CASE ocPhase = "idle"
    <3>1. Head(toOC).type = "VERSION_REQUEST" /\ ocPhase' = "versioned"
      BY <2>1, <2>5, OcHead DEF Out, OcPhaseAfter
    <3>2. ms \in {<<Plain("VERSION_EQUAL")>>, <<Plain("VERSION_NOT_EQUAL")>>}
      BY <3>1, Zenon DEF OcReplies, If
    <3>3. In' = [type : VersionTypes, aspect : Aspects]
      BY <3>1 DEF In
    <3>4. PICK x \in In' : ms = <<x>>
      BY <3>2, <3>3 DEF Plain, VersionTypes, Aspects
    <3>5. toOC' = <<>> /\ rx' = <<>> /\ (toIXL' = <<>> \/ toIXL' = <<x>>)
      BY <2>1, <2>2, <2>5, <3>4, OcHead DEF Reply
    <3>6. Token' <= 1 /\ Early' = 0 /\ rcv'.step = "idle"
      BY <2>1, <2>4, <2>5, <3>5, OcHead DEF Token, One
    <3>7. toIXL' \in Seq(In') /\ rx' \in Seq(In') /\ toOC' \in Seq(Out')
      <4>1. <<x>> \in Seq(In')
        BY <3>4, TupleType
      <4>2. toOC' \in Seq(Out') /\ rx' \in Seq(In')
        BY <3>5, EmptySeq
      <4>3. QED
        BY <3>5, <4>1, <4>2
    <3>8. pc' \in Before \cup Ended /\ pdi_state' \notin InSession \cup {"RECEIVING_INITIAL_STATUS"}
      BY <2>1, <2>5 DEF StageInv
    <3>9. QED
      BY <3>1, <3>6, <3>7, <3>8 DEF StageInv
  <2>6. CASE ocPhase = "versioned"
    <3>1. Head(toOC).type = "STATUS_REQUEST" /\ ocPhase' = "initialised"
      BY <2>1, <2>6, OcHead DEF Out, OcPhaseAfter
    <3>2. In' = [type : ReplyTypes \ VersionTypes, aspect : Aspects]
      BY <3>1 DEF In
    <3>3. ms = <<Plain("STATUS_BEGIN"), Status(ocAspect),
                 Plain("LUMINOSITY_STATUS"), Plain("STATUS_FINISH")>>
      BY <3>1 DEF OcReplies
    <3>4. /\ Plain("STATUS_BEGIN") \in In' /\ Status(ocAspect) \in In'
          /\ Plain("LUMINOSITY_STATUS") \in In' /\ Plain("STATUS_FINISH") \in In'
      BY <3>2 DEF Plain, Status, VersionTypes, ReplyTypes, Aspects, TypeOK
    <3>5. ms \in Seq(In')
      BY <3>3, <3>4, TupleType
    <3>6. toOC' = <<>> /\ rx' = <<>> /\ toIXL' \in Seq(In')
      BY <2>1, <2>2, <2>3, <2>6, <3>5, OcHead DEF Reply
    <3>7. Early' = 0 /\ rcv'.step = "idle"
      BY <2>1, <2>4, <2>6, OcHead
    <3>8. QED
      BY <3>1, <3>6, <3>7 DEF StageInv
  <2>7. CASE ocPhase = "initialised"
    <3>1. Head(toOC).type \in {"LUMINOSITY", "SHOW_SIGNAL_ASPECT"} /\ ocPhase' = ocPhase
      BY <2>1, <2>7, OcHead DEF Out, OcPhaseAfter
    <3>2. ms \in {<<Plain("LUMINOSITY_STATUS")>>, <<Plain("EXECUTION_ERROR")>>,
                  <<Status(Head(toOC).aspect)>>}
      BY <3>1 DEF OcReplies, If
    <3>3. In = [type : ReplyTypes \ VersionTypes, aspect : Aspects]
      BY <2>7 DEF In
    <3>4. PICK x \in In : ms = <<x>>
      BY <2>1, <3>2, <3>3, OcHead
         DEF Plain, Status, VersionTypes, ReplyTypes, Aspects, Commands
    <3>5. toIXL' \in Seq(In)
      BY <2>2, <3>4, TupleType DEF Reply, StageInv
    <3>6. QED
      BY <2>1, <2>4, <2>7, <3>1, <3>5, OcHead, StageKept DEF StageInv
  <2>8. QED
    BY <2>5, <2>6, <2>7 DEF TypeOK
<1>6. CASE OcDisobey
  <2>1. /\ toOC # <<>> /\ toOC' = Tail(toOC) /\ Head(toOC).type = "SHOW_SIGNAL_ASPECT"
        /\ UNCHANGED <<ixlVars, pdi_state, mainVars, conn, notices, handshake, recvVars, ocVars>>
    BY <1>6 DEF OcDisobey
  <2>2. ocPhase = "initialised"
    BY <2>1, OcHead DEF Out, TypeOK
  <2>3. In = [type : ReplyTypes \ VersionTypes, aspect : Aspects]
    BY <2>2 DEF In
  <2>4. PICK ms \in OcRefusals : Reply(ms)
    BY <1>6 DEF OcDisobey
  <2>5. ms \in {<<Plain("EXECUTION_ERROR")>>, <<Status(ocAspect)>>, <<Plain("INVALID")>>,
                <<Plain("UNKNOWN")>>}
    BY DEF OcRefusals, If
  <2>6. PICK x \in In : ms = <<x>>
    BY <2>3, <2>5 DEF Plain, Status, VersionTypes, ReplyTypes, Aspects, TypeOK
  <2>7. toIXL' \in Seq(In)
    BY <2>4, <2>6, TupleType DEF Reply, StageInv
  <2>8. Early' = Early
    BY <2>1 DEF Early
  <2>9. QED
    BY <2>1, <2>2, <2>7, <2>8, OcHead, StageKept DEF StageInv
<1>7. QED
  BY <1>1, <1>2, <1>3, <1>4, <1>5, <1>6 DEF Environment

LEMMA StageNotification == TypeOK /\ StageInv /\ Notification => StageInv'
<1> SUFFICES ASSUME TypeOK, StageInv, Notification PROVE StageInv'
  OBVIOUS
<1> USE CountsAreNatural DEF mainVars, recvVars, ocVars
<1>1. CASE OnClosed \/ OnStart \/ OnTimeout
  <2>1. notices'["HANDSHAKE"] = notices["HANDSHAKE"] /\ handshake' = handshake
    BY <1>1 DEF OnClosed, OnStart, OnTimeout, Start, TypeOK, Notices
  <2>2. /\ UNCHANGED <<conn, toOC, toIXL, mainVars, recvVars, ocVars>>
        /\ pdi_state' \in {"FAILED", "DISCONNECTED", "WAIT_RASTA_HANDSHAKE"}
    BY <1>1 DEF OnClosed, OnStart, OnTimeout, Start, Fail
  <2>3. Early' = Early /\ Token' = Token
    BY <2>1, <2>2 DEF Early, Token
  <2>4. QED
    BY <2>2, <2>3, StageKept DEF StageInv, InSession, CommandResults
<1>2. CASE OnHandshake
  <2>1. /\ notices["HANDSHAKE"] > 0 /\ notices'["HANDSHAKE"] = notices["HANDSHAKE"] - 1
        /\ handshake = "idle" /\ handshake' = "sending"
        /\ UNCHANGED <<conn, toOC, toIXL, mainVars, recvVars, ocVars>>
        /\ pdi_state' = "WAIT_VERSION_RESPONSE"
    BY <1>2 DEF OnHandshake, Start, TypeOK, Notices
  <2>2. Early' = Early /\ Token' = Token
    BY <2>1 DEF Early, Token, One
  <2>3. QED
    BY <2>1, <2>2, StageKept DEF StageInv, InSession, CommandResults
<1>3. CASE SendVersionRequest
  <2>1. /\ handshake = "sending" /\ handshake' = "idle"
        /\ UNCHANGED <<pdi_state, mainVars, recvVars, ocVars>>
    BY <1>3 DEF SendVersionRequest
  <2>2. Early >= 1
    BY <2>1 DEF Early, One, TypeOK, Notices
  <2>3. ocPhase = "idle"
    BY <2>2 DEF StageInv
  <2>4. Plain("VERSION_REQUEST") \in Out /\ Plain("VERSION_REQUEST") \in Commands
    BY <2>3 DEF Out, Plain, Aspects, Commands, CommandTypes
  <2>5. /\ toOC' = Append(toOC, Plain("VERSION_REQUEST")) \/ toOC' = toOC
        /\ toIXL' = toIXL \/ toIXL' = <<>>
        /\ conn' = conn \/ conn' = "CLOSED"
        /\ notices'["HANDSHAKE"] = notices["HANDSHAKE"]
    BY <1>3, <2>4, SrSendEffect DEF SendVersionRequest, LinkTypeOK, TypeOK
  <2>6. toOC' \in Seq(Out) /\ Len(toOC') \in Nat /\ Len(toOC') <= Len(toOC) + 1
    BY <2>4, <2>5, QueueGrows DEF StageInv
  <2>7. toIXL' \in Seq(In) /\ Len(toIXL') \in Nat /\ Len(toIXL') <= Len(toIXL)
    BY <2>5, QueueShrinks DEF StageInv
  <2>8. Early' \in Nat /\ Early' <= Early - 1
    BY <2>1, <2>5 DEF Early, One
  <2>9. Token' <= 1
    <3>1. Token <= 1
      BY <2>3 DEF StageInv
    <3>2. /\ Len(toOC') + Len(toIXL') + Early' <= Len(toOC) + Len(toIXL) + Early
          /\ Len(toOC') + Len(toIXL') + Early' \in Nat
      BY <2>6, <2>7, <2>8, SMTT(30)
    <3> DEFINE rest == Len(rx) + One(rcv.step # "idle")
    <3>3. rest \in Nat /\ rest' = rest
      BY <2>1 DEF One
    <3>4. /\ Token = (Len(toOC) + Len(toIXL) + Early) + rest
          /\ Token' = (Len(toOC') + Len(toIXL') + Early') + rest'
      BY <2>6, <2>7, <2>8, SMTT(30) DEF Token, One
    <3> HIDE DEF rest
    <3>5. QED
      BY <3>1, <3>2, <3>3, <3>4, SMTT(30)
  <2>10. QED
    BY <2>1, <2>3, <2>6, <2>7, <2>9, StageKept DEF StageInv
<1>4. QED
  BY <1>1, <1>2, <1>3 DEF Notification

(* What a thread that dispatches a telegram may do about the session.       *)
LEMMA DispatchStage ==
  ASSUME TypeOK, StageInv, rcv.step = "dispatch",
         UNCHANGED <<mainVars, linkVars, handshake, rx, rxThreads, ocVars>>,
         rcv'.step = "idle",
         ocPhase # "initialised"
             => pdi_state' \notin InSession \cup {"RECEIVING_INITIAL_STATUS"}
  PROVE  StageInv'
<1> USE CountsAreNatural DEF mainVars, linkVars, ocVars
<1>1. Early' = Early
  BY DEF Early
<1>2. Token' <= Token /\ Token' \in Nat
  BY <1>1 DEF Token, One
<1>3. QED
  BY <1>1, <1>2, StageKept DEF StageInv

LEMMA StageReceiver == TypeOK /\ StageInv /\ Receiver => StageInv'
<1> SUFFICES ASSUME TypeOK, StageInv, Receiver PROVE StageInv'
  OBVIOUS
<1> USE CountsAreNatural
<1>1. CASE Receive
  <2>1. /\ rx # <<>> /\ rx' = Tail(rx) /\ rcv.step = "idle"
        /\ rcv'.step = "dispatch" /\ rcv'.msg = Head(rx)
        /\ UNCHANGED <<pdi_state, mainVars, linkVars, handshake, ocVars>>
    BY <1>1 DEF Receive
  <2>2. rx' \in Seq(In) /\ Head(rx) \in In /\ Len(rx') = Len(rx) - 1
    BY <2>1 DEF StageInv
  <2>3. Early' = Early
    BY <2>1 DEF Early, linkVars
  <2>4. Token' = Token
    BY <2>1, <2>2, <2>3 DEF Token, One, linkVars
  <2>5. QED
    BY <2>1, <2>2, <2>3, <2>4, StageKept DEF StageInv, linkVars, ocVars, mainVars
<1>2. CASE ReceiveNothing
  <2>1. /\ pc' = "crashed"
        /\ UNCHANGED <<pdi_state, linkVars, handshake, recvVars, ocVars>>
    BY <1>2 DEF ReceiveNothing
  <2>2. Early' = Early /\ Token' = Token
    BY <2>1 DEF Early, Token, linkVars, recvVars
  <2>3. QED
    BY <2>1, <2>2, StageKept DEF StageInv, Ended, linkVars, recvVars, ocVars
<1>3. CASE OnInvalid \/ OnUnknown
  BY <1>3, DispatchStage
     DEF OnInvalid, OnUnknown, Dispatching, Fail, Idle, StageInv, InSession, CommandResults
<1>4. CASE OnVersionResponse
  <2>1. CASE rcv' = Idle
    BY <1>4, <2>1, DispatchStage
       DEF OnVersionResponse, Dispatching, Fail, Idle, StageInv, InSession, CommandResults
  <2>2. CASE rcv' # Idle
    <3>1. /\ rcv.step = "dispatch" /\ rcv.msg.type \in VersionTypes
          /\ rcv'.step = "version_accepted"
          /\ UNCHANGED <<pdi_state, mainVars, linkVars, handshake, rx, rxThreads, ocVars>>
      BY <1>4, <2>2 DEF OnVersionResponse, Dispatching, VersionTypes, TypeOK
    <3>2. ocPhase = "versioned"
      BY <3>1 DEF StageInv, In, TypeOK
    <3>3. Early' = Early
      BY <3>1 DEF Early, linkVars
    <3>4. Token' = Token
      BY <3>1, <3>3 DEF Token, linkVars
    <3>5. QED
      BY <3>1, <3>2, <3>3, <3>4, StageKept DEF StageInv, linkVars, ocVars, mainVars
  <2>3. QED
    BY <2>1, <2>2
<1>5. CASE AcceptVersion
  <2>1. /\ rcv.step = "version_accepted" /\ rcv'.step = "request_status"
        /\ pdi_state' = "WAIT_INITIALISATION_START"
        /\ UNCHANGED <<mainVars, linkVars, handshake, rx, rxThreads, ocVars>>
    BY <1>5 DEF AcceptVersion, TypeOK
  <2>2. Early' = Early
    BY <2>1 DEF Early, linkVars
  <2>3. Token' = Token
    BY <2>1, <2>2 DEF Token, linkVars
  <2>4. QED
    BY <2>1, <2>2, <2>3, StageKept
       DEF StageInv, linkVars, ocVars, mainVars, InSession, CommandResults
<1>6. CASE SendStatusRequest
  <2>1. /\ rcv.step = "request_status" /\ rcv'.step = "idle"
        /\ UNCHANGED <<pdi_state, mainVars, handshake, rx, rxThreads, ocVars>>
    BY <1>6 DEF SendStatusRequest, Idle
  <2>2. ocPhase = "versioned"
    BY <2>1 DEF StageInv
  <2>3. Plain("STATUS_REQUEST") \in Out /\ Plain("STATUS_REQUEST") \in Commands
    BY <2>2 DEF Out, Plain, Aspects, Commands, CommandTypes
  <2>4. /\ toOC' = Append(toOC, Plain("STATUS_REQUEST")) \/ toOC' = toOC
        /\ toIXL' = toIXL \/ toIXL' = <<>>
        /\ conn' = conn \/ conn' = "CLOSED"
        /\ notices'["HANDSHAKE"] = notices["HANDSHAKE"]
    BY <1>6, <2>3, SrSendEffect DEF SendStatusRequest, LinkTypeOK, TypeOK
  <2>5. toOC' \in Seq(Out) /\ Len(toOC') \in Nat /\ Len(toOC') <= Len(toOC) + 1
    BY <2>3, <2>4, QueueGrows DEF StageInv
  <2>6. toIXL' \in Seq(In) /\ Len(toIXL') \in Nat /\ Len(toIXL') <= Len(toIXL)
    BY <2>4, QueueShrinks DEF StageInv
  <2>7. Early' \in Nat /\ Early' <= Early
    BY <2>1, <2>4 DEF Early, One
  <2>8. Token' <= 1 /\ Early' = 0
    <3>1. Token <= 1 /\ Early = 0
      BY <2>2 DEF StageInv
    <3>2. QED
      BY <2>1, <2>5, <2>6, <2>7, <3>1 DEF Token, One
  <2>9. QED
    BY <2>1, <2>2, <2>5, <2>6, <2>8, StageKept DEF StageInv, ocVars, mainVars
<1>7. CASE \/ OnInitialisationStart \/ OnInitialisationCompleted \/ OnInitialAspectStatus
           \/ OnAspectFeedback \/ OnExecutionError \/ OnBrightnessStatus
  <2>1. /\ rcv.step = "dispatch" /\ rcv.msg.type \notin VersionTypes /\ rcv'.step = "idle"
        /\ UNCHANGED <<mainVars, linkVars, handshake, rx, rxThreads, ocVars>>
    BY <1>7 DEF OnInitialisationStart, OnInitialisationCompleted, OnInitialAspectStatus,
                OnAspectFeedback, OnExecutionError, OnBrightnessStatus, Dispatching,
                Transition, Complete, Idle, VersionTypes
  <2>2. ocPhase = "initialised"
    BY <2>1 DEF StageInv, In, TypeOK
  <2>3. QED
    BY <2>1, <2>2, DispatchStage
<1>8. QED
  BY <1>1, <1>2, <1>3, <1>4, <1>5, <1>6, <1>7 DEF Receiver

(* Until the main thread calls sr_connect nothing else can run.             *)
ConnectInv ==
    pc = "connect" => /\ conn = "NONE" /\ handshake = "idle"
                      /\ \A n \in Notices : notices[n] = 0
                      /\ rcv.step = "idle" /\ rxThreads = 0

LEMMA ConnectStep == TypeOK /\ ConnectInv /\ [Next]_vars => ConnectInv'
<1> SUFFICES ASSUME TypeOK, ConnectInv, [Next]_vars PROVE ConnectInv'
  OBVIOUS
<1> USE DEF ConnectInv, mainVars, linkVars, recvVars
<1>1. CASE Environment
  BY <1>1 DEF Environment, RastaUp, RastaRetransmission, RastaClose, RastaTimeout,
              RastaDeliver, OcObey, OcDisobey
<1>2. CASE Notification
  BY <1>2 DEF Notification, OnClosed, OnStart, OnTimeout, OnHandshake, Start,
              SendVersionRequest, Notices
<1>3. CASE Receiver
  BY <1>3 DEF Receiver, Receive, ReceiveNothing, OnInvalid, OnUnknown, OnVersionResponse,
              AcceptVersion, SendStatusRequest, OnInitialisationStart,
              OnInitialisationCompleted, OnInitialAspectStatus, OnAspectFeedback,
              OnExecutionError, OnBrightnessStatus, Dispatching
<1>4. CASE MainThread
  BY <1>4 DEF MainThread, Establishment, Connect, FireStart, Established, SendDay,
              PdiTimeout, Operator, Quit, OrderLuminosity, OrderAspect, OrderRoute,
              OrderRelease, Order, Command, BeginConfirmation, SendAspect, CommandDone,
              CommandFailed, Main
<1>5. CASE UNCHANGED vars
  BY <1>5 DEF vars
<1>6. QED
  BY <1>1, <1>2, <1>3, <1>4, <1>5 DEF Next

(* What the main thread sends belongs to the last stage.                    *)
LEMMA MainSends ==
  ASSUME TypeOK, StageInv, NEW m \in Commands, SrSend(m),
         m.type \in {"LUMINOSITY", "SHOW_SIGNAL_ASPECT"},
         pc \notin Before \cup Ended,
         UNCHANGED <<pdi_state, handshake, recvVars, ocVars>>
  PROVE  StageInv'
<1>1. ocPhase = "initialised"
  BY DEF StageInv
<1>2. m \in Out
  BY <1>1 DEF Out, Commands
<1>3. /\ toOC' = Append(toOC, m) \/ toOC' = toOC
      /\ toIXL' = toIXL \/ toIXL' = <<>>
      /\ conn' = conn \/ conn' = "CLOSED"
      /\ notices'["HANDSHAKE"] = notices["HANDSHAKE"]
  BY SrSendEffect DEF LinkTypeOK, TypeOK
<1>4. toOC' \in Seq(Out) /\ toIXL' \in Seq(In)
  BY <1>2, <1>3, QueueGrows, QueueShrinks DEF StageInv
<1>5. Early' = 0
  <2>1. Early = 0
    BY <1>1 DEF StageInv
  <2>2. QED
    BY <1>3, <2>1, CountsAreNatural DEF Early, One
<1>6. QED
  BY <1>1, <1>4, <1>5, StageKept DEF StageInv, recvVars, ocVars

(* A step of the main thread that only moves pc or pdi_state.               *)
LEMMA MainMoves ==
  ASSUME TypeOK, StageInv, UNCHANGED <<linkVars, handshake, recvVars, ocVars>>,
         ocPhase # "initialised"
             => /\ pc' \in Before \cup Ended
                /\ pdi_state' \notin InSession \cup {"RECEIVING_INITIAL_STATUS"}
  PROVE  StageInv'
<1>1. Early' = Early /\ Token' = Token
  BY DEF Early, Token, linkVars, recvVars
<1>2. QED
  BY <1>1, StageKept DEF StageInv, linkVars, recvVars, ocVars

LEMMA StageMain == TypeOK /\ StageInv /\ ConnectInv /\ MainThread => StageInv'
<1> SUFFICES ASSUME TypeOK, StageInv, ConnectInv, MainThread PROVE StageInv'
  OBVIOUS
<1>1. CASE Connect
  <2>1. /\ pc = "connect" /\ pc' = "fire_start" /\ conn' = "START"
        /\ pdi_state' = "WAIT_RASTA_HANDSHAKE"
        /\ UNCHANGED <<notices, toOC, toIXL, handshake, recvVars, ocVars>>
    BY <1>1 DEF Connect, Main
  <2>2. conn = "NONE"
    BY <2>1 DEF ConnectInv
  <2>3. Early' = Early
    BY <2>1, <2>2 DEF Early
  <2>4. Token' = Token
    BY <2>1, <2>3 DEF Token, recvVars
  <2>5. QED
    BY <2>1, <2>3, <2>4, StageKept
       DEF StageInv, recvVars, ocVars, Before, InSession, CommandResults
<1>2. CASE FireStart
  <2>1. notices'["HANDSHAKE"] = notices["HANDSHAKE"]
    <3>1. notices' = notices \/ Notify("START") \/ Notify("CLOSED")
      BY <1>2 DEF FireStart
    <3>2. QED
      BY <3>1 DEF Notify, TypeOK, Notices
  <2>2. /\ pc' = "establishing"
        /\ UNCHANGED <<pdi_state, conn, toOC, toIXL, handshake, recvVars, ocVars>>
    BY <1>2 DEF FireStart, Main
  <2>3. Early' = Early /\ Token' = Token
    BY <2>1, <2>2 DEF Early, Token, recvVars
  <2>4. QED
    BY <2>2, <2>3, StageKept DEF StageInv, recvVars, ocVars, Before
<1>3. CASE Established
  BY <1>3, MainMoves DEF Established, Main, StageInv, InSession, Ended
<1>4. CASE PdiTimeout \/ Quit \/ CommandFailed
  BY <1>4, MainMoves
     DEF PdiTimeout, Quit, CommandFailed, Main, Fail, StageInv, InSession, CommandResults, Ended
<1>5. CASE SendDay \/ OrderLuminosity
  <2>1. Plain("LUMINOSITY") \in Commands /\ Plain("LUMINOSITY").type = "LUMINOSITY"
    BY PlainType DEF Plain, CommandTypes
  <2>2. QED
    BY <1>5, <2>1, MainSends DEF SendDay, OrderLuminosity, Main, Before, Ended
<1>6. ASSUME NEW c, Order(c) PROVE StageInv'
  BY <1>6, MainMoves DEF Order, Main, StageInv, Before, Ended
<1>7. CASE Operator
  BY <1>4, <1>5, <1>6, <1>7 DEF Operator, OrderAspect, OrderRoute, OrderRelease
<1>8. CASE BeginConfirmation \/ CommandDone
  BY <1>8, MainMoves DEF BeginConfirmation, CommandDone, Main, StageInv, Before, Ended
<1>9. CASE SendAspect
  <2>1. Show(cmd.aspect) \in Commands /\ Show(cmd.aspect).type = "SHOW_SIGNAL_ASPECT"
    BY PlainType DEF TypeOK, Show
  <2>2. QED
    BY <1>9, <2>1, MainSends DEF SendAspect, Main, Before, Ended
<1>10. QED
  BY <1>1, <1>2, <1>3, <1>4, <1>5, <1>7, <1>8, <1>9 DEF MainThread, Establishment, Command

LEMMA StageStep == TypeOK /\ StageInv /\ ConnectInv /\ [Next]_vars => StageInv'
<1>1. StageInv /\ UNCHANGED vars => StageInv'
  BY DEF vars, mainVars, linkVars, recvVars, ocVars, StageInv, Out, In, Early, Token
<1>2. QED
  BY <1>1, StageEnvironment, StageNotification, StageReceiver, StageMain DEF Next

LEMMA StageAlways == Spec => [](TypeOK /\ StageInv)
<1>1. Init => ConnectInv
  BY DEF Init, ConnectInv, Idle
<1>2. QED
  BY <1>1, StageInit, ConnectStep, StageStep, TypeCorrect, PTL DEF Spec

(* Nothing is ordered before the Object Controller has been asked for its   *)
(* version and its status, in that order, and has sent the latter.          *)
THEOREM InitialisedBeforeOrders == Spec => []OrderedAfterInitialisation
<1>1. ASSUME TypeOK, StageInv PROVE OrderedAfterInitialisation
  <2>1. \A i \in DOMAIN toOC : toOC[i] \in Out
    BY <1>1 DEF StageInv
  <2>2. QED
    BY <1>1, <2>1 DEF OrderedAfterInitialisation, Carries, Out, TypeOK
<1>2. QED
  BY <1>1, StageAlways, PTL

===============================================================================
