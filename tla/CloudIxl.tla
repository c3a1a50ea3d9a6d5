------------------------------- MODULE CloudIxl -------------------------------
(***************************************************************************)
(* The Cloud IXL process (cloud_ixl/c/main.c): its main thread, which      *)
(* establishes the PDI session and then runs the operator's commands one   *)
(* after the other, and the detached notification threads RaSTA starts     *)
(* (handshake, connection change, heartbeat timeout, one per received      *)
(* message), which share pdi_state with it under confirmation_lock.        *)
(*                                                                         *)
(* External, modelled from how this code uses them: the RaSTA connection   *)
(* underneath (conn, toOC, toIXL) and the Object Controller at its end.    *)
(*                                                                         *)
(* Each action is one critical section of confirmation_lock, or one call   *)
(* into RaSTA: the code gives up the lock between any two of them.         *)
(***************************************************************************)
EXTENDS IxlRoutes, Naturals, Sequences

CONSTANTS
    DirectAspects,   \* aspects the operator may order without a route
    MaxCommands,     \* bound on the operator's commands
    SendCapacity,    \* messages fifo_send takes (2 * max_packet)
    RxCapacity,      \* messages fifo_app_msg takes (send_max)
    OcFaults,        \* how the Object Controller may deviate, see OcReplies
    LinkFaults,      \* subset of {"close", "timeout", "retransmission"}
    PdiTimeouts,     \* whether the 11 s of PDI_GLOBAL_TIMEOUT_SECONDS may pass
    LateNotices      \* whether a START notification may run after the handshake

Aspects == {"VIA_LIBRE", "PARADA", "ANUNCIO_PARADA", "ANUNCIO_PRECAUCION",
            "REBASE", "PARADA_SELECTIVA_N2", "REBASE_AUTORIZADO", "APAGADA"}

ASSUME CloudIxlAssumption ==
    /\ Routes # {}
    /\ DirectAspects \subseteq Aspects
    /\ MaxCommands \in Nat /\ SendCapacity \in Nat /\ RxCapacity \in Nat
    /\ OcFaults \subseteq {"bad_version", "reject", "mismatch", "invalid",
                           "luminosity_error"}
    /\ LinkFaults \subseteq {"close", "timeout", "retransmission"}
    /\ PdiTimeouts \in BOOLEAN /\ LateNotices \in BOOLEAN

PdiStates == {"DISCONNECTED", "WAIT_RASTA_HANDSHAKE", "WAIT_VERSION_RESPONSE",
              "WAIT_INITIALISATION_START", "RECEIVING_INITIAL_STATUS",
              "ESTABLISHED", "WAIT_CONFIRMATION", "COMMAND_CONFIRMED",
              "COMMAND_MISMATCH", "COMMAND_REJECTED", "FAILED"}

CommandResults == {"COMMAND_CONFIRMED", "COMMAND_MISMATCH", "COMMAND_REJECTED"}

LuminosityAllowed == {"RECEIVING_INITIAL_STATUS", "ESTABLISHED",
                      "WAIT_CONFIRMATION"} \cup CommandResults

(* Telegrams. Only signal aspects carry data the properties tell apart: the *)
(* 18-byte payloads of two aspects differ, so the aspect stands for it.     *)
Plain(t)  == [type |-> t, aspect |-> "PARADA"]
Show(a)   == [type |-> "SHOW_SIGNAL_ASPECT", aspect |-> a]
Status(a) == [type |-> "SIGNAL_ASPECT_STATUS", aspect |-> a]

CommandTypes == {"VERSION_REQUEST", "STATUS_REQUEST", "LUMINOSITY",
                 "SHOW_SIGNAL_ASPECT"}
ReplyTypes   == {"VERSION_EQUAL", "VERSION_NOT_EQUAL", "STATUS_BEGIN",
                 "STATUS_FINISH", "SIGNAL_ASPECT_STATUS", "LUMINOSITY_STATUS",
                 "EXECUTION_ERROR", "INVALID", "UNKNOWN"}
Commands == [type : CommandTypes, aspect : Aspects]
Replies  == [type : ReplyTypes, aspect : Aspects]

Notices == {"START", "HANDSHAKE", "CLOSED", "TIMEOUT"}

VARIABLES
    pdi_state,
    pc,           \* where the main thread is
    cmd,          \* its current command: aspect, route, and release_requested
    expected,     \* expected_signal_aspect_payload
    commands,     \* how many commands the operator has given
    conn,         \* current_state of the RaSTA connection; "NONE" before sr_connect
    notices,      \* started notification threads that have not run yet, by kind
    handshake,    \* "sending" while on_rasta_handshake is about to send
    toOC, toIXL,  \* messages RaSTA is carrying
    rx,           \* fifo_app_msg
    rxThreads,    \* started on_rasta_receive threads that have not popped yet
    rcv,          \* the thread that holds receive_processing_lock
    ocPhase,      \* the Object Controller's PDI state
    ocAspect      \* the aspect its signal shows

mainVars == <<pc, cmd, expected, commands>>
linkVars == <<conn, notices, toOC, toIXL>>
recvVars == <<rx, rxThreads, rcv>>
ocVars   == <<ocPhase, ocAspect>>
vars == <<ixlVars, pdi_state, mainVars, linkVars, handshake, recvVars, ocVars>>

MainSteps == {"connect", "fire_start", "establishing", "send_day", "prompt",
              "begin", "send", "awaiting", "exited", "crashed"}
RcvSteps  == {"idle", "dispatch", "version_accepted", "request_status"}

TypeOK ==
    /\ IxlTypeOK
    /\ pdi_state \in PdiStates
    /\ pc \in MainSteps
    /\ cmd \in [aspect : Aspects, route : Routes, release : BOOLEAN]
    /\ expected \in Aspects
    /\ commands \in 0..MaxCommands
    /\ conn \in {"NONE", "START", "UP", "RETR", "CLOSED"}
    /\ notices \in [Notices -> Nat]
    /\ handshake \in {"idle", "sending"}
    /\ toOC \in Seq(Commands) /\ toIXL \in Seq(Replies) /\ rx \in Seq(Replies)
    /\ rxThreads \in Nat
    /\ rcv \in [step : RcvSteps, msg : Replies, waiting : BOOLEAN]
    /\ ocPhase \in {"idle", "versioned", "initialised"}
    /\ ocAspect \in Aspects

Idle == [step |-> "idle", msg |-> Plain("INVALID"), waiting |-> FALSE]

Init ==
    /\ IxlInit
    /\ pdi_state = "DISCONNECTED"
    /\ pc = "connect"
    /\ cmd = [aspect |-> "PARADA", route |-> CHOOSE r \in Routes : TRUE,
              release |-> FALSE]
    /\ expected = "PARADA"
    /\ commands = 0
    /\ conn = "NONE"
    /\ notices = [n \in Notices |-> 0]
    /\ handshake = "idle"
    /\ toOC = <<>> /\ toIXL = <<>> /\ rx = <<>>
    /\ rxThreads = 0
    /\ rcv = Idle
    /\ ocPhase = "idle"
    /\ ocAspect = "PARADA"
-------------------------------------------------------------------------------
(* External: the RaSTA service.                                            *)

Notify(n) == notices' = [notices EXCEPT ![n] = @ + 1]

(* sr_close_connection, from whichever side: what is in flight to the IXL   *)
(* is lost; the Object Controller may still be handed what is on its way.   *)
Disconnect == conn' = "CLOSED" /\ toIXL' = <<>>

(* sr_send under scils_send_telegram, which reports SUCCESS in every case:  *)
(* queued, silently dropped when fifo_send is full, or, outside UP, not     *)
(* sent at all and the connection closed.                                   *)
SrSend(m) ==
    \/ /\ conn = "UP"
       /\ toOC' = Append(toOC, m)
       /\ UNCHANGED <<conn, notices, toIXL>>
    \/ /\ conn = "UP" /\ Len(toOC) >= SendCapacity
       /\ UNCHANGED linkVars
    \/ /\ conn # "UP"
       /\ Disconnect
       /\ Notify("CLOSED")
       /\ UNCHANGED toOC

Running == pc \notin {"exited", "crashed"}

(* handle_conresp in START: UP, then on_rasta_handshake. *)
RastaUp ==
    /\ Running /\ conn = "START"
    /\ conn' = "UP"
    /\ Notify("HANDSHAKE")
    /\ UNCHANGED <<ixlVars, pdi_state, mainVars, toOC, toIXL, handshake, recvVars, ocVars>>

(* A gap in the sequence numbers starts a retransmission, RETRREQ and then  *)
(* RETRRUN; while it runs a message may be skipped (handle_data moves sn_r  *)
(* on and delivers nothing); the heartbeat that ends it brings UP again.    *)
RastaRetransmission ==
    /\ Running /\ "retransmission" \in LinkFaults
    /\ \/ conn = "UP" /\ conn' = "RETR" /\ UNCHANGED toIXL
       \/ conn = "RETR" /\ toIXL # <<>> /\ toIXL' = Tail(toIXL) /\ UNCHANGED conn
       \/ conn = "RETR" /\ conn' = "UP" /\ UNCHANGED toIXL
    /\ UNCHANGED <<ixlVars, pdi_state, mainVars, notices, toOC, handshake, recvVars, ocVars>>

(* A DisconnectionRequest or a protocol error. *)
RastaClose ==
    /\ Running /\ "close" \in LinkFaults
    /\ conn \in {"START", "UP", "RETR"}
    /\ Disconnect
    /\ Notify("CLOSED")
    /\ UNCHANGED <<ixlVars, pdi_state, mainVars, toOC, handshake, recvVars, ocVars>>

(* T_i expires: heartbeat_thread fires the timeout, then closes. *)
RastaTimeout ==
    /\ Running /\ "timeout" \in LinkFaults
    /\ conn \in {"UP", "RETR"}
    /\ Disconnect
    /\ notices' = [notices EXCEPT !["TIMEOUT"] = @ + 1, !["CLOSED"] = @ + 1]
    /\ UNCHANGED <<ixlVars, pdi_state, mainVars, toOC, handshake, recvVars, ocVars>>

(* sr_add_app_messages_to_buffer, for data or for retransmitted data: the   *)
(* push drops the message when the fifo is full, and the receive thread is  *)
(* started all the same.                                                    *)
RastaDeliver ==
    /\ Running /\ conn \in {"UP", "RETR"} /\ toIXL # <<>>
    /\ rx' = IF Len(rx) < RxCapacity THEN Append(rx, Head(toIXL)) ELSE rx
    /\ rxThreads' = rxThreads + 1
    /\ toIXL' = Tail(toIXL)
    /\ UNCHANGED <<ixlVars, pdi_state, mainVars, conn, notices, toOC, handshake, rcv, ocVars>>

-------------------------------------------------------------------------------
(* External: the Object Controller. It answers what it is sent, in order.   *)
(* Its faults: it may report a version that does not match, refuse an       *)
(* aspect (execution error) or keep the one it shows, answer a luminosity   *)
(* command with an execution error, and send a telegram that does not parse *)
(* or that nobody handles.                                                  *)

If(fault, ms) == IF fault \in OcFaults THEN {ms} ELSE {}

OcReplies(m) ==
    CASE m.type = "VERSION_REQUEST" ->
             {<<Plain("VERSION_EQUAL")>>}
                 \cup If("bad_version", <<Plain("VERSION_NOT_EQUAL")>>)
      [] m.type = "STATUS_REQUEST" ->
             {<<Plain("STATUS_BEGIN"), Status(ocAspect),
                Plain("LUMINOSITY_STATUS"), Plain("STATUS_FINISH")>>}
      [] m.type = "LUMINOSITY" ->
             {<<Plain("LUMINOSITY_STATUS")>>}
                 \cup If("luminosity_error", <<Plain("EXECUTION_ERROR")>>)
      [] OTHER ->
             {<<Status(m.aspect)>>}

OcRefusals ==
    If("reject", <<Plain("EXECUTION_ERROR")>>)
        \cup If("mismatch", <<Status(ocAspect)>>)
        \cup If("invalid", <<Plain("INVALID")>>)
        \cup If("invalid", <<Plain("UNKNOWN")>>)

OcPhaseAfter(m) ==
    CASE m.type = "VERSION_REQUEST" -> "versioned"
      [] m.type = "STATUS_REQUEST"  -> "initialised"
      [] OTHER                      -> ocPhase

Reply(ms) == toIXL' = IF conn = "CLOSED" THEN <<>> ELSE toIXL \o ms

OcObey ==
    /\ toOC # <<>>
    /\ ocAspect' = IF Head(toOC).type = "SHOW_SIGNAL_ASPECT"
                   THEN Head(toOC).aspect ELSE ocAspect
    /\ ocPhase' = OcPhaseAfter(Head(toOC))
    /\ \E ms \in OcReplies(Head(toOC)) : Reply(ms)
    /\ toOC' = Tail(toOC)
    /\ UNCHANGED <<ixlVars, pdi_state, mainVars, conn, notices, handshake, recvVars>>

OcDisobey ==
    /\ toOC # <<>> /\ Head(toOC).type = "SHOW_SIGNAL_ASPECT"
    /\ \E ms \in OcRefusals : Reply(ms)
    /\ toOC' = Tail(toOC)
    /\ UNCHANGED <<ixlVars, pdi_state, mainVars, conn, notices, handshake, recvVars, ocVars>>

-------------------------------------------------------------------------------
(* The notification threads that change pdi_state.                          *)

Fail == pdi_state' = "FAILED"

(* Mutation of Start: the callback runs without having been started. *)
Start_Unstarted(n) ==
    /\ Running
    /\ notices' = [notices EXCEPT ![n] = @ - 1]
    /\ UNCHANGED <<ixlVars, mainVars, conn, toOC, toIXL, recvVars, ocVars>>

Start(n) ==
    /\ Running /\ notices[n] > 0
    /\ notices' = [notices EXCEPT ![n] = @ - 1]
    /\ UNCHANGED <<ixlVars, mainVars, conn, toOC, toIXL, recvVars, ocVars>>

(* Mutation of OnClosed: without the test for FAILED. *)
OnClosed_Overwrites ==
    /\ Start("CLOSED")
    /\ pdi_state' = IF pdi_state = "WAIT_CONFIRMATION" THEN "FAILED" ELSE "DISCONNECTED"
    /\ UNCHANGED handshake

(* on_connection_change for a copy of the connection taken in CLOSED. A     *)
(* FAILED session and one with a command pending end FAILED.                *)
OnClosed ==
    /\ Start("CLOSED")
    /\ pdi_state' = IF pdi_state \in {"WAIT_CONFIRMATION", "FAILED"}
                    THEN "FAILED" ELSE "DISCONNECTED"
    /\ UNCHANGED handshake

(* ... and for one taken in START (DOWN is handled alike, and never fired). *)
OnStart ==
    /\ Start("START")
    /\ pdi_state' = IF pdi_state = "WAIT_CONFIRMATION"
                    THEN "FAILED" ELSE "WAIT_RASTA_HANDSHAKE"
    /\ UNCHANGED handshake

OnTimeout ==
    /\ Start("TIMEOUT")
    /\ Fail
    /\ UNCHANGED handshake

(* on_rasta_handshake: whatever pdi_state is, it becomes                    *)
(* WAIT_VERSION_RESPONSE; then the version request is sent.                 *)
OnHandshake ==
    /\ handshake = "idle"
    /\ LateNotices \/ (notices["START"] = 0 /\ pc # "fire_start")
    /\ Start("HANDSHAKE")
    /\ pdi_state' = "WAIT_VERSION_RESPONSE"
    /\ handshake' = "sending"

SendVersionRequest ==
    /\ Running /\ handshake = "sending"
    /\ SrSend(Plain("VERSION_REQUEST"))
    /\ handshake' = "idle"
    /\ UNCHANGED <<ixlVars, pdi_state, mainVars, recvVars, ocVars>>

-------------------------------------------------------------------------------
(* on_rasta_receive: one thread at a time, under receive_processing_lock.   *)

(* process_received_message: pop, then look whether a command is pending.   *)
Receive ==
    /\ Running /\ rcv.step = "idle" /\ rxThreads > 0 /\ rx # <<>>
    /\ rcv' = [step |-> "dispatch", msg |-> Head(rx),
               waiting |-> pdi_state = "WAIT_CONFIRMATION"]
    /\ rx' = Tail(rx)
    /\ rxThreads' = rxThreads - 1
    /\ UNCHANGED <<ixlVars, pdi_state, mainVars, linkVars, handshake, ocVars>>

(* sr_get_received_data does not test what fifo_pop returns: a thread whose *)
(* message was dropped dereferences NULL.                                   *)
ReceiveNothing ==
    /\ Running /\ rcv.step = "idle" /\ rxThreads > 0 /\ rx = <<>>
    /\ pc' = "crashed"
    /\ UNCHANGED <<ixlVars, pdi_state, cmd, expected, commands, linkVars, handshake,
                   recvVars, ocVars>>

Dispatching(types) ==
    /\ Running /\ rcv.step = "dispatch" /\ rcv.msg.type \in types
    /\ UNCHANGED <<ixlVars, mainVars, linkVars, handshake, rx, rxThreads, ocVars>>

(* Wrong header, wrong length or a payload that does not parse. *)
OnInvalid ==
    /\ Dispatching({"INVALID"})
    /\ Fail
    /\ rcv' = Idle

(* Not an SCI telegram at all, or of a type nobody handles. *)
OnUnknown ==
    /\ Dispatching({"UNKNOWN"})
    /\ rcv' = Idle
    /\ UNCHANGED pdi_state

(* handle_icd_version_response: require_pdi_state and the comparison ...    *)
OnVersionResponse ==
    /\ Dispatching({"VERSION_EQUAL", "VERSION_NOT_EQUAL"})
    /\ \/ /\ pdi_state = "WAIT_VERSION_RESPONSE" /\ rcv.msg.type = "VERSION_EQUAL"
          /\ rcv' = [rcv EXCEPT !.step = "version_accepted"]
          /\ UNCHANGED pdi_state
       \/ /\ pdi_state # "WAIT_VERSION_RESPONSE" \/ rcv.msg.type = "VERSION_NOT_EQUAL"
          /\ rcv' = Idle
          /\ Fail

(* ... then, the lock taken anew, set_pdi_state without a test ...          *)
AcceptVersion ==
    /\ Running /\ rcv.step = "version_accepted"
    /\ pdi_state' = "WAIT_INITIALISATION_START"
    /\ rcv' = [rcv EXCEPT !.step = "request_status"]
    /\ UNCHANGED <<ixlVars, mainVars, linkVars, handshake, rx, rxThreads, ocVars>>

(* ... and the status request.                                              *)
SendStatusRequest ==
    /\ Running /\ rcv.step = "request_status"
    /\ SrSend(Plain("STATUS_REQUEST"))
    /\ rcv' = Idle
    /\ UNCHANGED <<ixlVars, pdi_state, mainVars, handshake, rx, rxThreads, ocVars>>

(* transition_pdi_state *)
Transition(from, to) ==
    /\ pdi_state' = IF pdi_state = from THEN to ELSE "FAILED"
    /\ rcv' = Idle

OnInitialisationStart ==
    /\ Dispatching({"STATUS_BEGIN"})
    /\ Transition("WAIT_INITIALISATION_START", "RECEIVING_INITIAL_STATUS")

OnInitialisationCompleted ==
    /\ Dispatching({"STATUS_FINISH"})
    /\ Transition("RECEIVING_INITIAL_STATUS", "ESTABLISHED")

(* on_initial_aspect_status: an aspect status nobody waited for when the    *)
(* message was taken.                                                       *)
OnInitialAspectStatus ==
    /\ Dispatching({"SIGNAL_ASPECT_STATUS"}) /\ ~rcv.waiting
    /\ Transition("RECEIVING_INITIAL_STATUS", "RECEIVING_INITIAL_STATUS")

(* complete_signal_command *)
Complete(outcome) == Transition("WAIT_CONFIRMATION", outcome)

(* Mutation of OnAspectFeedback: any aspect confirms the command. *)
OnAspectFeedback_Uncompared ==
    /\ Dispatching({"SIGNAL_ASPECT_STATUS"}) /\ rcv.waiting
    /\ Complete("COMMAND_CONFIRMED")

(* The comparison with expected_signal_aspect_payload, which holds no lock. *)
OnAspectFeedback ==
    /\ Dispatching({"SIGNAL_ASPECT_STATUS"}) /\ rcv.waiting
    /\ Complete(IF rcv.msg.aspect = expected THEN "COMMAND_CONFIRMED"
                                             ELSE "COMMAND_MISMATCH")

OnExecutionError ==
    /\ Dispatching({"EXECUTION_ERROR"})
    /\ Complete("COMMAND_REJECTED")

(* Mutation of OnBrightnessStatus: not expected while a command is pending. *)
OnBrightnessStatus_Narrow ==
    /\ Dispatching({"LUMINOSITY_STATUS"})
    /\ pdi_state' = IF pdi_state \in {"RECEIVING_INITIAL_STATUS", "ESTABLISHED"}
                    THEN pdi_state ELSE "FAILED"
    /\ rcv' = Idle

OnBrightnessStatus ==
    /\ Dispatching({"LUMINOSITY_STATUS"})
    /\ pdi_state' = IF pdi_state \in LuminosityAllowed THEN pdi_state ELSE "FAILED"
    /\ rcv' = Idle

-------------------------------------------------------------------------------
(* The main thread.                                                         *)

Main(from) ==
    /\ pc = from
    /\ UNCHANGED <<handshake, recvVars, ocVars>>

(* main up to rastalist_addConnection in sr_connect. *)
Connect ==
    /\ Main("connect")
    /\ pdi_state' = "WAIT_RASTA_HANDSHAKE"
    /\ conn' = "START"
    /\ pc' = "fire_start"
    /\ UNCHANGED <<ixlVars, cmd, expected, commands, notices, toOC, toIXL>>

(* The end of sr_connect: the notification copies the connection as it is   *)
(* by now. A copy in UP makes on_connection_change do nothing.              *)
FireStart ==
    /\ Main("fire_start")
    /\ CASE conn = "START"  -> Notify("START")
         [] conn = "CLOSED" -> Notify("CLOSED")
         [] OTHER           -> UNCHANGED notices
    /\ pc' = "establishing"
    /\ UNCHANGED <<ixlVars, pdi_state, cmd, expected, commands, conn, toOC, toIXL>>

(* Mutation of Established: an accepted version counts as established. *)
Established_Early ==
    /\ Main("establishing")
    /\ \/ pdi_state \in {"WAIT_INITIALISATION_START", "ESTABLISHED"} /\ pc' = "send_day"
       \/ pdi_state = "FAILED" /\ pc' = "exited"
    /\ UNCHANGED <<ixlVars, pdi_state, cmd, expected, commands, linkVars>>

(* wait_for_pdi_establishment, woken. *)
Established ==
    /\ Main("establishing")
    /\ \/ pdi_state = "ESTABLISHED" /\ pc' = "send_day"
       \/ pdi_state = "FAILED" /\ pc' = "exited"
    /\ UNCHANGED <<ixlVars, pdi_state, cmd, expected, commands, linkVars>>

(* Mutation of PdiTimeout: the wait for the feedback has no deadline. *)
PdiTimeout_EstablishmentOnly ==
    /\ PdiTimeouts
    /\ Main("establishing")
    /\ Fail
    /\ pc' = "exited"
    /\ UNCHANGED <<ixlVars, cmd, expected, commands, linkVars>>

(* A timed wait that runs out, here or in wait_for_signal_confirmation,     *)
(* fails the session without a second look at pdi_state: an answer that     *)
(* came between the timeout and the lock is lost.                           *)
PdiTimeout ==
    /\ PdiTimeouts
    /\ Main("establishing") \/ Main("awaiting")
    /\ Fail
    /\ pc' = "exited"
    /\ UNCHANGED <<ixlVars, cmd, expected, commands, linkVars>>

(* cloud_ixl_state_init has run by now; the first command is luminosity DAY. *)
SendDay ==
    /\ Main("send_day")
    /\ SrSend(Plain("LUMINOSITY"))
    /\ pc' = "prompt"
    /\ UNCHANGED <<ixlVars, pdi_state, cmd, expected, commands>>

Quit ==
    /\ Main("prompt")
    /\ pc' = "exited"
    /\ UNCHANGED <<ixlVars, pdi_state, cmd, expected, commands, linkVars>>

(* Sent without looking at pdi_state, and without waiting for the answer.   *)
OrderLuminosity ==
    /\ Main("prompt") /\ commands < MaxCommands
    /\ commands' = commands + 1
    /\ SrSend(Plain("LUMINOSITY"))
    /\ UNCHANGED <<ixlVars, pdi_state, pc, cmd, expected>>

(* Mutation of Order: the payload to expect is left as it was. *)
Order_OldExpected(c) ==
    /\ Main("prompt") /\ commands < MaxCommands
    /\ commands' = commands + 1
    /\ cmd' = c
    /\ pc' = "begin"
    /\ UNCHANGED <<pdi_state, expected, linkVars>>

(* A command for the signal: the payload to expect is written, without the  *)
(* lock, before the command is begun.                                       *)
Order(c) ==
    /\ Main("prompt") /\ commands < MaxCommands
    /\ commands' = commands + 1
    /\ cmd' = c
    /\ expected' = c.aspect
    /\ pc' = "begin"
    /\ UNCHANGED <<pdi_state, linkVars>>

OrderAspect(a) ==
    /\ Order([cmd EXCEPT !.aspect = a, !.release = FALSE])
    /\ UNCHANGED ixlVars

(* Mutation of OrderRelease: the route is given up before the feedback. *)
OrderRelease_Eager(r) ==
    /\ Order([aspect |-> "PARADA", route |-> r, release |-> TRUE])
    /\ release_route(r)

OrderRelease(r) ==
    /\ Order([aspect |-> "PARADA", route |-> r, release |-> TRUE])
    /\ UNCHANGED ixlVars

(* ls_request_command: GO is VIA_LIBRE and STOP is PARADA. *)
OrderRoute(r) ==
    /\ Order([aspect  |-> IF Decision(r) = "GO" THEN "VIA_LIBRE" ELSE "PARADA",
              route   |-> r,
              release |-> FALSE])
    /\ request_route_decision(r)

(* begin_signal_confirmation *)
BeginConfirmation ==
    /\ Main("begin")
    /\ \/ /\ pdi_state = "ESTABLISHED"
          /\ pdi_state' = "WAIT_CONFIRMATION"
          /\ pc' = "send"
       \/ /\ pdi_state # "ESTABLISHED"
          /\ pc' = "exited"
          /\ UNCHANGED pdi_state
    /\ UNCHANGED <<ixlVars, cmd, expected, commands, linkVars>>

SendAspect ==
    /\ Main("send")
    /\ SrSend(Show(cmd.aspect))
    /\ pc' = "awaiting"
    /\ UNCHANGED <<ixlVars, pdi_state, cmd, expected, commands>>

(* Mutation of CommandDone: any result releases the route. *)
CommandDone_AnyResult ==
    /\ Main("awaiting") /\ pdi_state \in CommandResults
    /\ pdi_state' = "ESTABLISHED"
    /\ IF cmd.release THEN release_route(cmd.route) ELSE UNCHANGED ixlVars
    /\ pc' = "prompt"
    /\ UNCHANGED <<cmd, expected, commands, linkVars>>

(* wait_for_signal_confirmation returns a result, and main acts on it. *)
CommandDone ==
    /\ Main("awaiting") /\ pdi_state \in CommandResults
    /\ pdi_state' = "ESTABLISHED"
    /\ IF pdi_state = "COMMAND_CONFIRMED" /\ cmd.release
       THEN release_route(cmd.route)
       ELSE UNCHANGED ixlVars
    /\ pc' = "prompt"
    /\ UNCHANGED <<cmd, expected, commands, linkVars>>

(* Mutation of CommandFailed: back to the prompt instead of ending. *)
CommandFailed_Continues ==
    /\ Main("awaiting") /\ pdi_state \notin CommandResults \cup {"WAIT_CONFIRMATION"}
    /\ Fail
    /\ pc' = "prompt"
    /\ UNCHANGED <<ixlVars, cmd, expected, commands, linkVars>>

(* It returns any other state: the command failed and the program ends. *)
CommandFailed ==
    /\ Main("awaiting") /\ pdi_state \notin CommandResults \cup {"WAIT_CONFIRMATION"}
    /\ Fail
    /\ pc' = "exited"
    /\ UNCHANGED <<ixlVars, cmd, expected, commands, linkVars>>

-------------------------------------------------------------------------------
Environment ==
    RastaUp \/ RastaRetransmission \/ RastaClose \/ RastaTimeout \/ RastaDeliver
        \/ OcObey \/ OcDisobey

Notification ==
    OnClosed \/ OnStart \/ OnTimeout \/ OnHandshake \/ SendVersionRequest

Receiver ==
    Receive \/ ReceiveNothing \/ OnInvalid \/ OnUnknown \/ OnVersionResponse
        \/ AcceptVersion \/ SendStatusRequest \/ OnInitialisationStart \/ OnInitialisationCompleted
        \/ OnInitialAspectStatus \/ OnAspectFeedback \/ OnExecutionError
        \/ OnBrightnessStatus

Establishment == Connect \/ FireStart \/ Established \/ SendDay

Operator ==
    \/ Quit \/ OrderLuminosity
    \/ \E a \in DirectAspects : OrderAspect(a)
    \/ \E r \in Routes : OrderRoute(r) \/ OrderRelease(r)

Command == BeginConfirmation \/ SendAspect \/ CommandDone \/ CommandFailed

MainThread == Establishment \/ PdiTimeout \/ Operator \/ Command

Next == Environment \/ Notification \/ Receiver \/ MainThread

Spec == Init /\ [][Next]_vars

(* The threads the scheduler runs: the main thread, except that nobody      *)
(* obliges the operator to type, the notification threads and the receivers.*)
Fairness ==
    /\ WF_vars(Establishment) /\ WF_vars(Command) /\ WF_vars(PdiTimeout)
    /\ WF_vars(Notification) /\ WF_vars(Receiver)

FairSpec == Spec /\ Fairness
-------------------------------------------------------------------------------
Carries(queue, types) == \E i \in DOMAIN queue : queue[i].type \in types

AspectOrdered == Carries(toOC, {"SHOW_SIGNAL_ASPECT"})

AspectAnswers == {"SIGNAL_ASPECT_STATUS", "EXECUTION_ERROR", "INVALID"}

AspectAnswered ==
    \/ Carries(toIXL, AspectAnswers) \/ Carries(rx, AspectAnswers)
    \/ rcv.step = "dispatch" /\ rcv.msg.type \in AspectAnswers

(* As long as nobody gives direct aspects, the signal shows VIA_LIBRE, or   *)
(* is about to be told to, only while some route is reserved: over every    *)
(* refusal, mismatch, loss of the connection and timeout.                   *)
ProceedIsReserved ==
    DirectAspects = {} /\ (\/ ocAspect = "VIA_LIBRE"
                           \/ \E i \in DOMAIN toOC : toOC[i] = Show("VIA_LIBRE"))
        => \E r \in Routes : route[r] = "RESERVED"

(* A confirmation is the answer to the command that waits for it: when the  *)
(* main thread is about to read COMMAND_CONFIRMED, the signal shows what    *)
(* was ordered and neither an order nor an answer is still under way.       *)
ConfirmationIsOwn ==
    pdi_state = "COMMAND_CONFIRMED"
        => ocAspect = cmd.aspect /\ ~AspectOrdered /\ ~AspectAnswered

(* Nothing is ordered before the Object Controller has been asked for its   *)
(* version and its status, in that order, and has sent the latter.          *)
OrderedAfterInitialisation ==
    /\ Carries(toOC, {"STATUS_REQUEST"}) => ocPhase # "idle"
    /\ Carries(toOC, {"LUMINOSITY", "SHOW_SIGNAL_ASPECT"}) => ocPhase = "initialised"

(* expected_signal_aspect_payload is compared without the lock: a receive   *)
(* thread that is about to compare it never races the main thread writing   *)
(* the next one, and compares the payload of the command that was pending.  *)
ExpectedIsStable ==
    rcv.step = "dispatch" /\ rcv.waiting /\ rcv.msg.type = "SIGNAL_ASPECT_STATUS"
        => pc \notin {"prompt", "begin"} /\ expected = cmd.aspect

(* A route is given up only when the signal is at PARADA and no order that  *)
(* could change it is under way.                                            *)
ReleaseIsBacked ==
    [][\A r \in Routes : route[r] = "RESERVED" /\ route'[r] # "RESERVED"
          => ocAspect = "PARADA" /\ ~AspectOrdered]_vars

(* README.md, "libera la ruta solo si el feedback coincide": when a route    *)
(* is given up, the signal shows PARADA. (ReleaseIsBacked asks for more.)   *)
ReleaseShowsStop ==
    [][\A r \in Routes : route[r] = "RESERVED" /\ route'[r] # "RESERVED"
          => ocAspect = "PARADA"]_vars

(* RASTA_EVALUATION.md: the timeout and CLOSED callbacks run in any order,  *)
(* and a session that FAILED is never taken for a mere disconnection.       *)
FailedIsNotDisconnected ==
    [][pdi_state = "FAILED" => pdi_state' # "DISCONNECTED"]_vars

(* A healthy session: with a peer that answers, a link that holds and the   *)
(* START notification run before the handshake's, no order of the threads   *)
(* and no luminosity command in between makes it fail.                      *)
NeverFailed == pdi_state # "FAILED"

(* Neither wait of the main thread lasts for ever, whatever the peer and    *)
(* the link do and whatever becomes of the notification threads.            *)
WaitsEnd ==
    /\ pc = "establishing" ~> pc # "establishing"
    /\ pc = "awaiting" ~> pc # "awaiting"

(* A link and an Object Controller that do their part.                      *)
LinkFairness == WF_vars(RastaUp) /\ WF_vars(RastaDeliver) /\ WF_vars(OcObey)

HealthySpec == FairSpec /\ LinkFairness

(* The session is established, whatever the order of the threads, and every *)
(* aspect ordered is confirmed.                                             *)
HealthyProgress ==
    /\ <>(pdi_state = "ESTABLISHED")
    /\ pc = "awaiting" ~> pdi_state = "COMMAND_CONFIRMED"

===============================================================================
