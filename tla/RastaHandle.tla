------------------------------ MODULE RastaHandle ------------------------------
(***************************************************************************)
(* The handle of the RaSTA stack (rasta/c/rastahandle.c, and sr_start,     *)
(* sr_cleanup in rasta_new.c) in the Cloud IXL's main: main starts the     *)
(* three threads of the SR layer, sets the notification pointers and at    *)
(* last cleans up; the receive and the heartbeat thread fire               *)
(* notifications, each of which runs in a detached thread that nobody      *)
(* waits for. All of them log.                                             *)
(*                                                                         *)
(* The threads of the SR layer are cancelled asynchronously: one keeps the *)
(* locks it holds at that moment.                                          *)
(***************************************************************************)
EXTENDS Logger, FiniteSets

CONSTANTS
    Notifications,   \* the notification threads that can run at once
    MaxFired         \* bound on the notifications that are fired

ASSUME HandleAssumption ==
    /\ MaxFired \in Nat /\ IsFiniteSet(Notifications)
    /\ Loggers = {"main", "recv", "hb", "send"} \union Notifications

Threads == {"recv", "hb", "send"}

(* What main does next, in this order: it has the threads started and sets  *)
(* the pointers; the threads run until they are cancelled; it frees what    *)
(* they used.                                                               *)
Starting == {"load", "start recv", "start hb", "start send", "callbacks"}
Running  == {"run", "cancel recv", "cancel send", "cancel hb"}
Freeing  == {"null", "free", "log", "logging", "drain", "cancel writer", "fifo", "scils", "exit"}

(* struct rasta_notification_ptr.                                           *)
Kinds == {"state", "receive", "discreq", "diagnostic", "handshake", "timeout"}

VARIABLES
    pc,
    alive,           \* the threads that have been started and not cancelled
    callbacks,       \* callbacks[k]: "NULL", "set", or "unset": never written
    running_notifications,
    notification_lock,
    firing,          \* firing[t]: the notification t is firing
    notes,           \* notes[n]: what the notification thread n does
    fired,           \* how many notifications have been fired
    raced,           \* whether an update of running_notifications has been lost
    crashed

handle == <<callbacks, running_notifications, notification_lock, firing, notes, fired, raced>>
vars == <<logVars, handle, pc, alive, crashed>>

NoNote == [at |-> "none", kind |-> NULL, count |-> 0]

(* rasta_handle_init: two of the notification pointers are forgotten.       *)
Init ==
    /\ LoggerInit
    /\ pc = "load" /\ alive = {} /\ crashed = FALSE
    /\ callbacks = [k \in Kinds |-> IF k \in {"handshake", "timeout"} THEN "unset" ELSE "NULL"]
    /\ running_notifications = 0 /\ notification_lock = NULL
    /\ firing = [t \in Threads |-> NoNote]
    /\ notes = [n \in Notifications |-> NoNote]
    /\ fired = 0 /\ raced = FALSE

---------------------------------------------------------------------------
(* Notifications.                                                           *)

(* A fire_* function up to its check of the pointer: it copies the counter  *)
(* to add one to it.                                                        *)
Fire(t, k) ==
    /\ t \in alive /\ buffer_lock # t /\ fired < MaxFired
    /\ firing[t] = NoNote
    /\ notification_lock = NULL
    /\ notification_lock' = t
    /\ firing' = [firing EXCEPT ![t] =
                     [at |-> "locked", kind |-> k, count |-> running_notifications]]
    /\ fired' = fired + 1
    /\ UNCHANGED <<logVars, callbacks, running_notifications, notes, raced, pc, alive, crashed>>

FireStateChange(t) == t \in {"recv", "hb"} /\ Fire(t, "state")
FireReceive == Fire("recv", "receive")
FireDiscRequest == Fire("recv", "discreq")
FireDiagnostic == Fire("recv", "diagnostic")
FireHandshake == Fire("recv", "handshake")
FireHeartbeatTimeout == Fire("hb", "timeout")

Unlocks(t) == firing' = [firing EXCEPT ![t] = NoNote] /\ notification_lock' = NULL

NotSet(t) ==
    /\ t \in alive /\ firing[t].at = "locked"
    /\ callbacks[firing[t].kind] = "NULL"
    /\ Unlocks(t)
    /\ UNCHANGED <<logVars, callbacks, running_notifications, notes, fired, raced, pc, alive, crashed>>

(* Mutation of Creates: the pointer is not looked at.                       *)
Creates_Always(t, n) ==
    /\ t \in alive /\ firing[t].at = "locked" /\ notes[n] = NoNote
    /\ running_notifications' = firing[t].count + 1
    /\ raced' = (raced \/ firing[t].count # running_notifications)
    /\ notes' = [notes EXCEPT ![n] = [NoNote EXCEPT !.at = "created", !.kind = firing[t].kind]]
    /\ Unlocks(t)
    /\ UNCHANGED <<logVars, callbacks, fired, pc, alive, crashed>>

(* The counter is written and a thread for the call created.                *)
Creates(t, n) ==
    /\ t \in alive /\ firing[t].at = "locked" /\ notes[n] = NoNote
    /\ callbacks[firing[t].kind] # "NULL"
    /\ running_notifications' = firing[t].count + 1
    /\ raced' = (raced \/ firing[t].count # running_notifications)
    /\ notes' = [notes EXCEPT ![n] = [NoNote EXCEPT !.at = "created", !.kind = firing[t].kind]]
    /\ Unlocks(t)
    /\ UNCHANGED <<logVars, callbacks, fired, pc, alive, crashed>>

(* An on_*_call function calls through the pointer as it is now ...         *)
Calls(n) ==
    /\ notes[n].at = "created" /\ pc # "exit"
    /\ IF callbacks[notes[n].kind] = "set"
       THEN notes' = [notes EXCEPT ![n].at = "calling"] /\ UNCHANGED crashed
       ELSE crashed' = TRUE /\ UNCHANGED notes
    /\ UNCHANGED <<logVars, callbacks, running_notifications, notification_lock, firing, fired,
                   raced, pc, alive>>

(* ... the callback uses the connections, the handle, the logger or scils,  *)
(* which may have been freed ...                                            *)
UsesFreed(n) ==
    /\ notes[n].at = "calling" /\ pc \in Freeing \ {"exit"}
    /\ crashed' = TRUE
    /\ UNCHANGED <<logVars, handle, pc, alive>>

(* ... and then the thread reads the counter, without the lock ...          *)
Returns(n) ==
    /\ notes[n].at = "calling" /\ buffer_lock # n /\ pc # "exit"
    /\ notes' = [notes EXCEPT ![n].at = "counting", ![n].count = running_notifications]
    /\ UNCHANGED <<logVars, callbacks, running_notifications, notification_lock, firing, fired,
                   raced, pc, alive, crashed>>

(* Mutation of Counts: the call that is over still counts.                  *)
Counts_Not(n) ==
    /\ notes[n].at = "counting" /\ pc # "exit"
    /\ notes' = [notes EXCEPT ![n] = NoNote]
    /\ UNCHANGED <<logVars, callbacks, running_notifications, notification_lock, firing, fired,
                   raced, pc, alive, crashed>>

(* ... and writes one less.                                                 *)
Counts(n) ==
    /\ notes[n].at = "counting" /\ pc # "exit"
    /\ running_notifications' = notes[n].count - 1
    /\ raced' = (raced \/ notes[n].count # running_notifications)
    /\ notes' = [notes EXCEPT ![n] = NoNote]
    /\ UNCHANGED <<logVars, callbacks, notification_lock, firing, fired, pc, alive, crashed>>

---------------------------------------------------------------------------
(* main.                                                                    *)

(* The threads log as long as there is a logger.                            *)
CanLog(t) ==
    \/ t \in alive /\ firing[t] = NoNote
    \/ t \in Notifications /\ notes[t].at = "calling" /\ pc \notin {"scils", "exit"}

Goes(p, q) == pc = p /\ pc' = q

Load ==
    /\ Goes("load", "start recv")
    /\ StartWriting
    /\ UNCHANGED <<handle, alive, crashed>>

(* sr_start_receiving, sr_start_heartbeats and sr_start_sending, whose      *)
(* running flags are 0 here.                                                *)
Start(t, p, q) ==
    /\ Goes(p, q)
    /\ alive' = alive \union {t}
    /\ UNCHANGED <<logVars, handle, crashed>>

SrStart ==
    \/ Start("recv", "start recv", "start hb")
    \/ Start("hb", "start hb", "start send")
    \/ Start("send", "start send", "callbacks")

(* main, while the threads run.                                             *)
SetCallbacks ==
    /\ Goes("callbacks", "run")
    /\ callbacks' = [k \in Kinds |-> IF k \in {"discreq", "diagnostic"} THEN callbacks[k] ELSE "set"]
    /\ UNCHANGED <<logVars, running_notifications, notification_lock, firing, notes, fired, raced,
                   alive, crashed>>

CleanUp == Goes("run", "cancel recv") /\ UNCHANGED <<logVars, handle, alive, crashed>>

(* Mutation of Cancel: the heartbeat thread is forgotten.                   *)
Cancel_NotHb(t, p, q) ==
    /\ Goes(p, q)
    /\ alive' = IF t = "hb" THEN alive ELSE alive \ {t}
    /\ UNCHANGED <<logVars, handle, crashed>>

Cancel(t, p, q) ==
    /\ Goes(p, q)
    /\ alive' = alive \ {t}
    /\ \/ UNCHANGED logVars
       \/ CanLog(t) /\ buffer_lock # t /\ CancelLogger(t)
    /\ UNCHANGED <<handle, crashed>>

SrCancel ==
    \/ Cancel("recv", "cancel recv", "cancel send")
    \/ Cancel("send", "cancel send", "cancel hb")
    \/ Cancel("hb", "cancel hb", "null")

(* The fifos of the connections are freed, five pointers are set to NULL.   *)
SetNull ==
    /\ Goes("null", "free")
    /\ callbacks' = [k \in Kinds |-> IF k \in {"handshake", "timeout"} THEN callbacks[k] ELSE "NULL"]
    /\ UNCHANGED <<logVars, running_notifications, notification_lock, firing, notes, fired, raced,
                   alive, crashed>>

(* The mux, the configuration, the handles and the list of connections.     *)
FreeHandle == Goes("free", "log") /\ UNCHANGED <<logVars, handle, alive, crashed>>

(* That sr_cleanup and redundancy_mux_close log is modelled once.           *)
CleanupLogs ==
    /\ \/ Goes("log", "logging") /\ Log("main", 3)
       \/ /\ Goes("log", "drain")
          /\ mutex = NULL
          /\ ~Keeps(3) \/ logged + lost = MaxLogs
          /\ UNCHANGED logVars
       \/ Goes("logging", "drain") /\ Push("main")
    /\ UNCHANGED <<handle, alive, crashed>>

LoggerDestroy ==
    /\ \/ Drain /\ pc = "drain" /\ UNCHANGED pc
       \/ Drained /\ Goes("drain", "cancel writer")
       \/ CancelWriter /\ Goes("cancel writer", "fifo")
       \/ FifoDestroy /\ Goes("fifo", "scils")
    /\ UNCHANGED <<handle, alive, crashed>>

(* scils_cleanup, and the end of the process.                               *)
Exit == Goes("scils", "exit") /\ UNCHANGED <<logVars, handle, alive, crashed>>

Mains == Load \/ SrStart \/ SetCallbacks \/ CleanupLogs \/ SrCancel \/ SetNull
         \/ FreeHandle \/ LoggerDestroy \/ Exit

---------------------------------------------------------------------------
(* The other threads log.                                                   *)

Logs(t) ==
    /\ t # "main" /\ CanLog(t)
    /\ buffer_lock # t
    /\ \E level \in Levels : Log(t, level)
    /\ UNCHANGED <<handle, pc, alive, crashed>>

Pushes(t) ==
    /\ t # "main" /\ CanLog(t)
    /\ Push(t)
    /\ UNCHANGED <<handle, pc, alive, crashed>>

Writes == (WriterTakes \/ WriterPops \/ WriterWrites) /\ UNCHANGED <<handle, pc, alive, crashed>>

Fires ==
    \/ \E t \in Threads : FireStateChange(t) \/ NotSet(t) \/ \E n \in Notifications : Creates(t, n)
    \/ FireReceive \/ FireDiscRequest \/ FireDiagnostic \/ FireHandshake \/ FireHeartbeatTimeout

Next ==
    /\ ~crashed
    /\ \/ Mains \/ CleanUp
       \/ Fires
       \/ \E n \in Notifications : Calls(n) \/ UsesFreed(n) \/ Returns(n) \/ Counts(n)
       \/ \E t \in Loggers : Logs(t) \/ Pushes(t)
       \/ Writes

(* The system's scheduler lets every thread run.                            *)
Spec ==
    /\ Init /\ [][Next]_vars
    /\ SF_vars(~crashed /\ Mains)
    /\ \A t \in Loggers : WF_vars(~crashed /\ Pushes(t))
    /\ WF_vars(~crashed /\ WriterPops /\ UNCHANGED <<handle, pc, alive, crashed>>)

---------------------------------------------------------------------------
(* Properties.                                                              *)

Notes == [at : {"none", "locked", "created", "calling", "counting"}, kind : Kinds \union {NULL},
          count : Int]

TypeOK ==
    /\ logger \in [type : Types, max_log_level : Levels, running : BOOLEAN]
    /\ buffer \in Seq(Nat) /\ Len(buffer) <= BufferSize
    /\ mutex \in Threads \union {NULL} /\ buffer_lock \in Loggers \union {Writer, NULL}
    /\ writing \in Nat /\ written \in Seq(Nat)
    /\ logged \in Nat /\ lost \in Nat /\ logged + lost <= MaxLogs
    /\ pc \in Starting \union Running \union Freeing
    /\ alive \subseteq Threads
    /\ callbacks \in [Kinds -> {"NULL", "unset", "set"}]
    /\ running_notifications \in Int
    /\ notification_lock \in Threads \union {NULL}
    /\ firing \in [Threads -> Notes] /\ notes \in [Notifications -> Notes]
    /\ fired \in 0 .. MaxFired
    /\ raced \in BOOLEAN /\ crashed \in BOOLEAN

(* running_notifications counts the notification threads that run, until    *)
(* two updates of it overlap: only the one that adds holds the lock         *)
(* (fire_on_*, on_*_call).                                                  *)
CounterCountsRunning ==
    ~raced => running_notifications = Cardinality({n \in Notifications : notes[n] # NoNote})

(* No notification is called through a pointer that is not set, but for two *)
(* times when main races with the threads: before it has set the pointers,  *)
(* and when it cleans up without waiting for the calls that run.            *)
CrashOnlyOutOfTime == crashed => pc \notin Running

(* Once sr_cleanup frees what the callbacks use, no further notification    *)
(* thread is created.                                                       *)
NoneAfterCancel ==
    [][(pc \in Freeing) =>
           \A n \in Notifications : notes[n] = NoNote => notes'[n] = NoNote]_vars

(* The program ends when it cleans up, unless a thread was cancelled in the *)
(* logger, which every message of the cleanup goes through.                 *)
HeldForEver ==
    \/ mutex # NULL
    \/ buffer_lock \in Threads \ alive
    \/ buffer_lock = Writer /\ ~logger.running
ShutdownEnds == pc = "cancel recv" ~> pc = "exit" \/ crashed \/ HeldForEver
=============================================================================
