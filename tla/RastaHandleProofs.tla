--------------------------- MODULE RastaHandleProofs ---------------------------
(***************************************************************************)
(* Proofs about RastaHandle for every number of notification threads, of   *)
(* notifications and of messages, and every size of the logger's fifo.     *)
(***************************************************************************)
EXTENDS RastaHandle, FiniteSetTheorems, TLAPS

USE LoggerAssumption, HandleAssumption

-------------------------------------------------------------------------------
(* Types, of the logger and then of the handle.                             *)

LoggerTypeOK ==
    /\ logger \in [type : Types, max_log_level : Levels, running : BOOLEAN]
    /\ buffer \in Seq(Nat) /\ Len(buffer) <= BufferSize
    /\ mutex \in Threads \union {NULL} /\ buffer_lock \in Loggers \union {Writer, NULL}
    /\ writing \in Nat /\ written \in Seq(Nat)
    /\ logged \in Nat /\ lost \in Nat /\ logged + lost <= MaxLogs
    /\ buffer_lock \in Loggers => logged + lost < MaxLogs

HandleTypeOK ==
    /\ pc \in Starting \union Running \union Freeing
    /\ alive \subseteq Threads
    /\ callbacks \in [Kinds -> {"NULL", "unset", "set"}]
    /\ running_notifications \in Int
    /\ notification_lock \in Threads \union {NULL}
    /\ firing \in [Threads -> Notes] /\ notes \in [Notifications -> Notes]
    /\ fired \in 0 .. MaxFired
    /\ raced \in BOOLEAN /\ crashed \in BOOLEAN

LEMMA LogType ==
  ASSUME LoggerTypeOK, NEW t \in Loggers, NEW level \in Levels, Log(t, level)
  PROVE  LoggerTypeOK'
<1>1. /\ buffer_lock' = t /\ logged + lost < MaxLogs
      /\ UNCHANGED <<logger, mutex, buffer, writing, written, logged, lost>>
  BY DEF Log, Acquire
<1>2. QED
  BY <1>1 DEF LoggerTypeOK

LEMMA PushType ==
  ASSUME LoggerTypeOK, NEW t \in Loggers, Push(t)
  PROVE  LoggerTypeOK'
<1>1. /\ buffer_lock = t /\ buffer_lock' = NULL
      /\ UNCHANGED <<logger, mutex, writing, written>>
  BY DEF Push
<1>2. logged + lost < MaxLogs /\ logged \in Nat /\ lost \in Nat /\ Len(buffer) \in Nat
  BY <1>1 DEF LoggerTypeOK
<1>3. CASE Len(buffer) = BufferSize
  <2>1. lost' = lost + 1 /\ UNCHANGED <<buffer, logged>>
    BY <1>3 DEF Push
  <2>2. QED
    BY <1>1, <1>2, <2>1 DEF LoggerTypeOK
<1>4. CASE Len(buffer) # BufferSize
  <2>1. buffer' = Append(buffer, logged + lost + 1) /\ logged' = logged + 1 /\ lost' = lost
    BY <1>4 DEF Push
  <2>2. buffer' \in Seq(Nat) /\ Len(buffer') = Len(buffer) + 1
    BY <1>2, <2>1 DEF LoggerTypeOK
  <2>3. QED
    BY <1>1, <1>2, <1>4, <2>1, <2>2 DEF LoggerTypeOK
<1>5. QED
  BY <1>3, <1>4

LEMMA TailType ==
  ASSUME LoggerTypeOK, buffer # <<>>
  PROVE  /\ Tail(buffer) \in Seq(Nat) /\ Len(Tail(buffer)) <= BufferSize
         /\ Head(buffer) \in Nat
BY DEF LoggerTypeOK

LEMMA WriterType ==
  ASSUME LoggerTypeOK, WriterTakes \/ WriterPops \/ WriterWrites
  PROVE  LoggerTypeOK'
<1>1. CASE WriterTakes
  BY <1>1 DEF WriterTakes, Acquire, LoggerTypeOK
<1>2. CASE WriterPops
  <2>1. /\ buffer_lock' = NULL /\ UNCHANGED <<logger, mutex, written, logged, lost>>
        /\ \/ UNCHANGED <<buffer, writing>>
           \/ buffer # <<>> /\ writing' = Head(buffer) /\ buffer' = Tail(buffer)
    BY <1>2 DEF WriterPops
  <2>2. QED
    BY <2>1, TailType DEF LoggerTypeOK
<1>3. CASE WriterWrites
  <2>1. written' \in Seq(Nat) /\ writing' = 0
    BY <1>3 DEF WriterWrites, LoggerTypeOK
  <2>2. QED
    BY <1>3, <2>1 DEF WriterWrites, fifo, LoggerTypeOK
<1>4. QED
  BY <1>1, <1>2, <1>3

LEMMA MainLogType ==
  ASSUME LoggerTypeOK,
         \/ StartWriting \/ Drain \/ Drained \/ CancelWriter \/ FifoDestroy
         \/ \E t \in Threads : CancelLogger(t)
  PROVE  LoggerTypeOK'
<1>1. CASE StartWriting
  <2>1. logger' = [logger EXCEPT !.running = logger.running \/ logger.type \in {"console", "file"}]
    BY <1>1 DEF StartWriting
  <2>2. logger' \in [type : Types, max_log_level : Levels, running : BOOLEAN]
    BY <2>1, Zenon DEF LoggerTypeOK
  <2>3. QED
    BY <1>1, <2>2 DEF StartWriting, fifo, LoggerTypeOK
<1>2. CASE Drain
  BY <1>2, TailType DEF Drain, LoggerTypeOK
<1>3. CASE Drained \/ FifoDestroy
  BY <1>3 DEF Drained, FifoDestroy, logVars, fifo, LoggerTypeOK
<1>4. CASE CancelWriter
  <2>1. logger' = [logger EXCEPT !.running = FALSE]
    BY <1>4 DEF CancelWriter
  <2>2. logger' \in [type : Types, max_log_level : Levels, running : BOOLEAN]
    BY <2>1, Zenon DEF LoggerTypeOK
  <2>3. QED
    BY <1>4, <2>2 DEF CancelWriter, fifo, LoggerTypeOK
<1>5. CASE \E t \in Threads : CancelLogger(t)
  BY <1>5 DEF CancelLogger, fifo, LoggerTypeOK
<1>6. QED
  BY <1>1, <1>2, <1>3, <1>4, <1>5

LEMMA LoggerStep ==
  ASSUME LoggerTypeOK, [Next]_vars
  PROVE  LoggerTypeOK'
<1>1. CASE UNCHANGED logVars
  BY <1>1 DEF logVars, fifo, LoggerTypeOK
<1>2. CASE Load \/ SrCancel \/ CleanupLogs \/ LoggerDestroy
  <2>1. CASE Load
    BY <2>1, MainLogType DEF Load
  <2>2. CASE SrCancel
    <3>1. UNCHANGED logVars \/ \E t \in Threads : CancelLogger(t)
      BY <2>2 DEF SrCancel, Cancel, Threads
    <3>2. QED
      BY <1>1, <3>1, MainLogType
  <2>3. CASE CleanupLogs
    <3>1. 3 \in Levels /\ "main" \in Loggers
      BY DEF Levels
    <3>2. UNCHANGED logVars \/ Log("main", 3) \/ Push("main")
      BY <2>3 DEF CleanupLogs
    <3>3. QED
      BY <1>1, <3>1, <3>2, LogType, PushType
  <2>4. CASE LoggerDestroy
    BY <2>4, MainLogType DEF LoggerDestroy
  <2>5. QED
    BY <1>2, <2>1, <2>2, <2>3, <2>4
<1>3. ASSUME NEW t \in Loggers, Logs(t) \/ Pushes(t) PROVE LoggerTypeOK'
  BY <1>3, LogType, PushType DEF Logs, Pushes
<1>4. CASE Writes
  BY <1>4, WriterType DEF Writes
<1>5. CASE \/ SrStart \/ SetCallbacks \/ SetNull \/ FreeHandle \/ Exit \/ CleanUp \/ Fires
           \/ \E n \in Notifications : Calls(n) \/ UsesFreed(n) \/ Returns(n) \/ Counts(n)
  <2>1. UNCHANGED logVars
    BY <1>5 DEF SrStart, Start, SetCallbacks, SetNull, FreeHandle, Exit, CleanUp, Fires, Fire,
                FireStateChange, FireReceive, FireDiscRequest, FireDiagnostic, FireHandshake,
                FireHeartbeatTimeout, NotSet, Creates, Calls, UsesFreed, Returns, Counts
  <2>2. QED
    BY <1>1, <2>1
<1>6. QED
  BY <1>1, <1>2, <1>3, <1>4, <1>5 DEF Next, Mains, vars

LEMMA NoNoteType == NoNote \in Notes
BY DEF NoNote, Notes

LEMMA NoteType ==
  ASSUME NEW x \in Notes, NEW count \in Int, NEW k \in Kinds \union {NULL},
         NEW at \in {"none", "locked", "created", "calling", "counting"}
  PROVE  /\ [at |-> at, kind |-> k, count |-> count] \in Notes
         /\ [x EXCEPT !.at = at] \in Notes
         /\ [x EXCEPT !.at = at, !.count = count] \in Notes
         /\ [x EXCEPT !.at = at, !.kind = k] \in Notes
BY DEF Notes

(* What the steps of main do to the handle.                                 *)
LEMMA MainsHandle ==
  ASSUME HandleTypeOK, Mains \/ CleanUp
  PROVE  /\ pc' \in Starting \union Running \union Freeing /\ alive' \subseteq Threads
         /\ callbacks' \in [Kinds -> {"NULL", "unset", "set"}]
         /\ UNCHANGED <<running_notifications, notification_lock, firing, notes, fired, raced,
                        crashed>>
<1>1. UNCHANGED <<running_notifications, notification_lock, firing, notes, fired, raced, crashed>>
  BY DEF Mains, CleanUp, Load, SrStart, Start, SetCallbacks, CleanupLogs, SrCancel, Cancel,
         SetNull, FreeHandle, LoggerDestroy, Exit, handle
<1>2. pc' \in Starting \union Running \union Freeing
  BY DEF Mains, CleanUp, Load, SrStart, Start, SetCallbacks, CleanupLogs, SrCancel, Cancel,
         SetNull, FreeHandle, LoggerDestroy, Exit, Goes, HandleTypeOK, Starting, Running, Freeing
<1>3. alive' \subseteq Threads
  BY DEF Mains, CleanUp, Load, SrStart, Start, SetCallbacks, CleanupLogs, SrCancel, Cancel,
         SetNull, FreeHandle, LoggerDestroy, Exit, HandleTypeOK, Threads
<1>4. callbacks' \in [Kinds -> {"NULL", "unset", "set"}]
  BY DEF Mains, CleanUp, Load, SrStart, Start, SetCallbacks, CleanupLogs, SrCancel, Cancel,
         SetNull, FreeHandle, LoggerDestroy, Exit, HandleTypeOK, handle
<1>5. QED
  BY <1>1, <1>2, <1>3, <1>4

(* A notification that is fired, up to the thread that runs it.             *)
LEMMA FiresType ==
  ASSUME HandleTypeOK, Fires
  PROVE  HandleTypeOK'
<1>1. ASSUME NEW t \in Threads, NEW k \in Kinds, Fire(t, k) PROVE HandleTypeOK'
  <2>1. firing' \in [Threads -> Notes]
    BY <1>1, NoteType DEF Fire, HandleTypeOK
  <2>2. fired' \in 0 .. MaxFired
    BY <1>1 DEF Fire, HandleTypeOK
  <2>3. QED
    BY <1>1, <2>1, <2>2 DEF Fire, HandleTypeOK
<1>2. ASSUME NEW t \in Threads, NotSet(t) PROVE HandleTypeOK'
  BY <1>2, NoNoteType DEF NotSet, Unlocks, HandleTypeOK
<1>3. ASSUME NEW t \in Threads, NEW n \in Notifications, Creates(t, n) PROVE HandleTypeOK'
  <2>1. firing[t] \in Notes /\ callbacks[firing[t].kind] # "NULL"
    BY <1>3 DEF Creates, HandleTypeOK
  <2>2. firing' \in [Threads -> Notes] /\ notification_lock' = NULL
    BY <1>3, NoNoteType DEF Creates, Unlocks, HandleTypeOK
  <2>3. notes' \in [Notifications -> Notes]
    <3>1. [NoNote EXCEPT !.at = "created", !.kind = firing[t].kind] \in Notes
      BY <2>1, NoteType, NoNoteType, ZenonT(40) DEF Notes
    <3>2. QED
      BY <1>3, <3>1 DEF Creates, HandleTypeOK
  <2>4. running_notifications' \in Int
    BY <1>3, <2>1 DEF Creates, Notes
  <2>5. raced' \in BOOLEAN
    BY <1>3, Zenon DEF Creates
  <2>6. QED
    BY <1>3, <2>2, <2>3, <2>4, <2>5 DEF Creates, HandleTypeOK
<1>4. \/ \E t \in Threads, k \in Kinds : Fire(t, k)
      \/ \E t \in Threads : NotSet(t) \/ \E n \in Notifications : Creates(t, n)
  BY DEF Fires, FireStateChange, FireReceive, FireDiscRequest, FireDiagnostic, FireHandshake,
         FireHeartbeatTimeout, Threads, Kinds
<1>5. QED
  BY <1>1, <1>2, <1>3, <1>4

LEMMA NotesType ==
  ASSUME HandleTypeOK, NEW n \in Notifications, Calls(n) \/ UsesFreed(n) \/ Returns(n) \/ Counts(n)
  PROVE  HandleTypeOK'
<1>1. CASE Calls(n)
  <2>1. notes[n] \in Notes /\ notes \in [Notifications -> Notes] /\ running_notifications \in Int
    BY DEF HandleTypeOK
  <2>2. notes' \in [Notifications -> Notes]
    BY <1>1, <2>1, NoteType DEF Calls
  <2>3. crashed' \in BOOLEAN
    BY <1>1 DEF Calls, HandleTypeOK
  <2>4. QED
    BY <1>1, <2>2, <2>3 DEF Calls, HandleTypeOK
<1>2. CASE UsesFreed(n)
  BY <1>2 DEF UsesFreed, handle, HandleTypeOK
<1>3. CASE Returns(n)
  <2>1. notes[n] \in Notes /\ notes \in [Notifications -> Notes] /\ running_notifications \in Int
    BY DEF HandleTypeOK
  <2>2. notes' \in [Notifications -> Notes]
    BY <1>3, <2>1, NoteType DEF Returns
  <2>3. QED
    BY <1>3, <2>2 DEF Returns, HandleTypeOK
<1>4. CASE Counts(n)
  <2>1. notes' \in [Notifications -> Notes] /\ running_notifications' \in Int
    BY <1>4, NoNoteType DEF Counts, HandleTypeOK, Notes
  <2>2. raced' \in BOOLEAN
    BY <1>4, Zenon DEF Counts
  <2>3. QED
    BY <1>4, <2>1, <2>2 DEF Counts, HandleTypeOK
<1>5. QED
  BY <1>1, <1>2, <1>3, <1>4

LEMMA HandleStep ==
  ASSUME HandleTypeOK, [Next]_vars
  PROVE  HandleTypeOK'
<1>1. CASE Mains \/ CleanUp
  BY <1>1, MainsHandle DEF HandleTypeOK
<1>2. CASE Writes \/ (\E t \in Loggers : Logs(t) \/ Pushes(t)) \/ UNCHANGED vars
  BY <1>2 DEF Writes, Logs, Pushes, vars, handle, HandleTypeOK
<1>3. QED
  BY <1>1, <1>2, FiresType, NotesType DEF Next

LEMMA InitType ==
  ASSUME Init
  PROVE  LoggerTypeOK /\ HandleTypeOK
<1>1. logger \in [type : Types, max_log_level : Levels, running : BOOLEAN]
  <2>1. logger \in [type : Types, max_log_level : {1, 3}, running : {FALSE}]
    BY DEF Init, LoggerInit
  <2>2. {1, 3} \subseteq Levels /\ {FALSE} \subseteq BOOLEAN
    BY DEF Levels
  <2>3. QED
    BY <2>1, <2>2, Zenon
<1>2. buffer \in Seq(Nat) /\ Len(buffer) = 0 /\ written \in Seq(Nat) /\ buffer_lock = NULL
  BY DEF Init, LoggerInit
<1>3. LoggerTypeOK
  BY <1>1, <1>2 DEF Init, LoggerInit, LoggerTypeOK
<1>4. raced \in BOOLEAN /\ crashed \in BOOLEAN
  BY Zenon DEF Init
<1>5. /\ pc \in Starting /\ alive = {} /\ running_notifications = 0 /\ fired = 0
      /\ notification_lock = NULL
  BY DEF Init, Starting
<1>6. callbacks \in [Kinds -> {"NULL", "unset", "set"}]
  BY DEF Init
<1>7. firing \in [Threads -> Notes] /\ notes \in [Notifications -> Notes]
  BY NoNoteType DEF Init
<1>8. QED
  BY <1>3, <1>4, <1>5, <1>6, <1>7 DEF HandleTypeOK

LEMMA TypesInvariant == Spec => [](LoggerTypeOK /\ HandleTypeOK)
BY InitType, LoggerStep, HandleStep, PTL DEF Spec

(* The variables of the handle and of its logger have their types.          *)
THEOREM TypeCorrect == Spec => []TypeOK
<1>1. LoggerTypeOK /\ HandleTypeOK => TypeOK
  BY DEF LoggerTypeOK, HandleTypeOK, TypeOK
<1>2. QED
  BY <1>1, TypesInvariant, PTL

-------------------------------------------------------------------------------
(* The counter. Where no update of it has been lost, adding one goes with a *)
(* thread that is created, and taking one away with a thread that ends.     *)

Busy == {n \in Notifications : notes[n] # NoNote}

LEMMA BusyFinite == IsFiniteSet(Busy) /\ Cardinality(Busy) \in Nat
<1>1. IsFiniteSet(Busy)
  BY FS_Subset DEF Busy
<1>2. QED
  BY <1>1, FS_CardinalityType

LEMMA CounterStep ==
  ASSUME HandleTypeOK, CounterCountsRunning, [Next]_vars
  PROVE  CounterCountsRunning'
<1> USE DEF HandleTypeOK
<1>0. CounterCountsRunning <=> (~raced => running_notifications = Cardinality(Busy))
  BY DEF CounterCountsRunning, Busy
<1>1. ASSUME NEW t \in Threads, NEW n \in Notifications, Creates(t, n)
      PROVE  CounterCountsRunning'
  <2>1. /\ notes[n] = NoNote /\ running_notifications' = firing[t].count + 1
        /\ ~raced' => ~raced /\ firing[t].count = running_notifications
    BY <1>1 DEF Creates
  <2>2. notes'[n].at = "created" /\ \A m \in Notifications \ {n} : notes'[m] = notes[m]
    BY <1>1 DEF Creates, NoNote
  <2>3. Busy' = Busy \union {n} /\ n \notin Busy
    BY <2>1, <2>2 DEF Busy, NoNote
  <2>4. Cardinality(Busy') = Cardinality(Busy) + 1
    BY <2>3, BusyFinite, FS_AddElement
  <2>5. QED
    BY <1>0, <2>1, <2>4, BusyFinite DEF CounterCountsRunning, Busy
<1>2. ASSUME NEW n \in Notifications, Counts(n) PROVE CounterCountsRunning'
  <2>1. /\ notes[n].at = "counting" /\ running_notifications' = notes[n].count - 1
        /\ ~raced' => ~raced /\ notes[n].count = running_notifications
    BY <1>2 DEF Counts
  <2>2. notes'[n] = NoNote /\ \A m \in Notifications \ {n} : notes'[m] = notes[m]
    BY <1>2 DEF Counts
  <2>3. Busy' = Busy \ {n} /\ n \in Busy
    BY <2>1, <2>2 DEF Busy, NoNote
  <2>4. Cardinality(Busy') = Cardinality(Busy) - 1
    BY <2>3, BusyFinite, FS_RemoveElement
  <2>5. QED
    BY <1>0, <2>1, <2>4, BusyFinite DEF CounterCountsRunning, Busy
<1>3. ASSUME NEW n \in Notifications, Calls(n) \/ Returns(n) PROVE CounterCountsRunning'
  <2>1. /\ notes[n].at # "none"
        /\ notes' = notes \/ notes'[n].at # "none"
        /\ \A m \in Notifications \ {n} : notes'[m] = notes[m]
        /\ UNCHANGED <<running_notifications, raced>>
    BY <1>3 DEF Calls, Returns, Notes
  <2>2. notes[n] # NoNote /\ (notes' = notes \/ notes'[n] # NoNote)
    <3>1. NoNote.at = "none"
      BY DEF NoNote
    <3>2. QED
      BY <2>1, <3>1
  <2>3. Busy' = Busy
    BY <2>1, <2>2 DEF Busy
  <2>4. QED
    BY <1>0, <2>1, <2>3 DEF CounterCountsRunning, Busy
<1>4. CASE UNCHANGED <<running_notifications, raced, notes>>
  BY <1>4 DEF CounterCountsRunning
<1>5. \/ UNCHANGED <<running_notifications, raced, notes>>
      \/ \E t \in Threads, n \in Notifications : Creates(t, n)
      \/ \E n \in Notifications : Counts(n) \/ Calls(n) \/ Returns(n)
  <2>1. CASE Fires
    BY <2>1 DEF Fires, FireStateChange, FireReceive, FireDiscRequest, FireDiagnostic, FireHandshake,
                FireHeartbeatTimeout, Fire, NotSet
  <2>2. CASE Writes \/ (\E t \in Loggers : Logs(t) \/ Pushes(t))
             \/ (\E n \in Notifications : UsesFreed(n)) \/ UNCHANGED vars
    BY <2>2 DEF Writes, Logs, Pushes, UsesFreed, vars, handle
  <2>3. QED
    BY <2>1, <2>2, MainsHandle DEF Next
<1>6. QED
  BY <1>1, <1>2, <1>3, <1>4, <1>5

(* The counter counts the threads that run, until two updates overlap.      *)
THEOREM CounterIsRight == Spec => []CounterCountsRunning
<1>1. Init => CounterCountsRunning
  <2> SUFFICES ASSUME Init PROVE CounterCountsRunning
    OBVIOUS
  <2>1. {n \in Notifications : notes[n] # NoNote} = {} /\ running_notifications = 0
    BY DEF Init
  <2>2. QED
    BY <2>1, FS_EmptySet DEF CounterCountsRunning
<1>2. QED
  BY <1>1, TypesInvariant, CounterStep, PTL DEF Spec

-------------------------------------------------------------------------------
(* The threads that fire are gone before main frees anything.               *)

AliveInv ==
    /\ pc = "cancel send" => "recv" \notin alive
    /\ pc = "cancel hb" => alive \subseteq {"hb"}
    /\ pc \in Freeing => alive = {}

LEMMA AliveStep ==
  ASSUME HandleTypeOK, AliveInv, [Next]_vars
  PROVE  AliveInv'
<1>1. CASE SrCancel
  BY <1>1 DEF SrCancel, Cancel, Goes, AliveInv, HandleTypeOK, Threads, Freeing
<1>2. CASE Load \/ SrStart \/ SetCallbacks \/ CleanUp
  BY <1>2 DEF Load, SrStart, Start, SetCallbacks, CleanUp, Goes, AliveInv, Freeing
<1>3. CASE CleanupLogs \/ SetNull \/ FreeHandle \/ LoggerDestroy \/ Exit
  <2>1. pc \in Freeing /\ pc' \in Freeing /\ alive' = alive
    BY <1>3 DEF CleanupLogs, SetNull, FreeHandle, LoggerDestroy, Exit, Goes, Freeing
  <2>2. pc' \notin {"cancel send", "cancel hb"}
    BY <2>1 DEF Freeing
  <2>3. QED
    BY <2>1, <2>2 DEF AliveInv
<1>4. CASE \/ Fires \/ Writes \/ (\E t \in Loggers : Logs(t) \/ Pushes(t)) \/ UNCHANGED vars
           \/ \E n \in Notifications : Calls(n) \/ UsesFreed(n) \/ Returns(n) \/ Counts(n)
  <2>1. UNCHANGED <<pc, alive>>
    BY <1>4 DEF Fires, FireStateChange, FireReceive, FireDiscRequest, FireDiagnostic, FireHandshake,
                FireHeartbeatTimeout, Fire, NotSet, Creates, Writes, Logs, Pushes, Calls, UsesFreed,
                Returns, Counts, vars
  <2>2. QED
    BY <2>1 DEF AliveInv
<1>5. QED
  BY <1>1, <1>2, <1>3, <1>4 DEF Next, Mains

LEMMA AliveInvariant == Spec => []AliveInv
<1>1. Init => AliveInv
  BY DEF Init, AliveInv
<1>2. QED
  BY <1>1, TypesInvariant, AliveStep, PTL DEF Spec

(* No notification thread is created once main frees what they use.         *)
THEOREM NoNotificationAfterCancel == Spec => NoneAfterCancel
<1>1. AliveInv /\ HandleTypeOK /\ [Next]_vars =>
          [(pc \in Freeing) =>
               \A n \in Notifications : notes[n] = NoNote => notes'[n] = NoNote]_vars
  <2> SUFFICES ASSUME AliveInv, HandleTypeOK, Next, pc \in Freeing,
                      NEW n \in Notifications, notes[n] = NoNote
               PROVE  notes'[n] = NoNote
    OBVIOUS
  <2>1. \A t \in Threads, m \in Notifications : ~Creates(t, m)
    BY DEF AliveInv, Creates
  <2>2. CASE \E m \in Notifications : Calls(m) \/ UsesFreed(m) \/ Returns(m) \/ Counts(m)
    BY <2>2 DEF Calls, UsesFreed, Returns, Counts, handle, NoNote, HandleTypeOK
  <2>3. CASE Fires \/ Writes \/ (\E t \in Loggers : Logs(t) \/ Pushes(t))
    BY <2>1, <2>3 DEF Fires, FireStateChange, FireReceive, FireDiscRequest, FireDiagnostic,
             FireHandshake, FireHeartbeatTimeout, Fire, NotSet, Writes, Logs, Pushes, handle
  <2>4. QED
    BY <2>2, <2>3, MainsHandle DEF Next
<1>2. QED
  BY <1>1, AliveInvariant, TypesInvariant, PTL DEF Spec, NoneAfterCancel

-------------------------------------------------------------------------------
(* The pointers: two kinds are never set and never called.                  *)

CallbackInv ==
    /\ \A k \in {"discreq", "diagnostic"} : callbacks[k] = "NULL"
    /\ pc \in Running => \A k \in Kinds \ {"discreq", "diagnostic"} : callbacks[k] = "set"
    /\ \A t \in Threads : firing[t].at = "locked" => firing[t].kind \in Kinds
    /\ \A n \in Notifications :
           notes[n].at = "created" => notes[n].kind \in Kinds \ {"discreq", "diagnostic"}
    /\ CrashOnlyOutOfTime

LEMMA CallbackStep ==
  ASSUME HandleTypeOK, CallbackInv, [Next]_vars
  PROVE  CallbackInv'
<1> USE DEF HandleTypeOK
<1>1. CASE Next /\ (Mains \/ CleanUp)
  <2>1. ~crashed /\ UNCHANGED <<firing, notes, crashed>>
    BY <1>1, MainsHandle DEF Next
  <2>2. CASE SetCallbacks
    BY <2>1, <2>2 DEF SetCallbacks, CallbackInv, CrashOnlyOutOfTime, Kinds
  <2>3. CASE SetNull
    BY <2>1, <2>3 DEF SetNull, Goes, CallbackInv, CrashOnlyOutOfTime, Kinds, Running
  <2>4. CASE Load \/ SrStart \/ CleanupLogs \/ SrCancel \/ FreeHandle \/ LoggerDestroy \/ Exit
             \/ CleanUp
    <3>1. callbacks' = callbacks /\ (pc' \in Running => pc \in Running)
      BY <2>4 DEF Load, SrStart, Start, CleanupLogs, SrCancel, Cancel, FreeHandle, LoggerDestroy,
                  Exit, CleanUp, Goes, handle, Running
    <3>2. QED
      BY <2>1, <3>1 DEF CallbackInv, CrashOnlyOutOfTime
  <2>5. QED
    BY <1>1, <2>2, <2>3, <2>4 DEF Mains
<1>2. ASSUME NEW t \in Threads, NEW k \in Kinds, Fire(t, k) PROVE CallbackInv'
  BY <1>2 DEF Fire, CallbackInv, CrashOnlyOutOfTime
<1>3. ASSUME NEW t \in Threads, NotSet(t) PROVE CallbackInv'
  BY <1>3 DEF NotSet, Unlocks, NoNote, CallbackInv, CrashOnlyOutOfTime
<1>4. ASSUME NEW t \in Threads, NEW n \in Notifications, Creates(t, n) PROVE CallbackInv'
  <2>1. firing[t].kind \in Kinds \ {"discreq", "diagnostic"}
    BY <1>4 DEF Creates, CallbackInv
  <2>2. notes'[n].kind = firing[t].kind /\ \A m \in Notifications \ {n} : notes'[m] = notes[m]
    BY <1>4 DEF Creates, NoNote
  <2>3. /\ firing'[t].at = "none" /\ \A u \in Threads \ {t} : firing'[u] = firing[u]
        /\ UNCHANGED <<callbacks, pc, crashed>>
    BY <1>4 DEF Creates, Unlocks, NoNote
  <2>4. QED
    BY <2>1, <2>2, <2>3 DEF CallbackInv, CrashOnlyOutOfTime
<1>5. ASSUME NEW n \in Notifications, Next, Calls(n) PROVE CallbackInv'
  <2>1. \/ notes' = [notes EXCEPT ![n].at = "calling"] /\ UNCHANGED crashed
        \/ callbacks[notes[n].kind] # "set" /\ UNCHANGED notes
    BY <1>5 DEF Calls
  <2>2. ~crashed /\ notes[n].at = "created" /\ UNCHANGED <<callbacks, firing, pc>>
    BY <1>5 DEF Calls, Next
  <2>3. CASE notes' = [notes EXCEPT ![n].at = "calling"] /\ UNCHANGED crashed
    BY <2>2, <2>3 DEF CallbackInv, CrashOnlyOutOfTime
  <2>4. CASE callbacks[notes[n].kind] # "set" /\ UNCHANGED notes
    BY <2>2, <2>4 DEF CallbackInv, CrashOnlyOutOfTime
  <2>5. QED
    BY <2>1, <2>3, <2>4
<1>6. ASSUME NEW n \in Notifications, UsesFreed(n) PROVE CallbackInv'
  BY <1>6 DEF UsesFreed, handle, CallbackInv, CrashOnlyOutOfTime, Running, Freeing
<1>7. ASSUME NEW n \in Notifications, Returns(n) \/ Counts(n) PROVE CallbackInv'
  <2>1. /\ notes'[n].at # "created" /\ \A m \in Notifications \ {n} : notes'[m] = notes[m]
        /\ UNCHANGED <<callbacks, firing, pc, crashed>>
    BY <1>7 DEF Returns, Counts, NoNote, Notes
  <2>2. QED
    BY <2>1 DEF CallbackInv, CrashOnlyOutOfTime
<1>8. CASE Writes \/ (\E t \in Loggers : Logs(t) \/ Pushes(t)) \/ UNCHANGED vars
  <2>1. UNCHANGED <<callbacks, firing, notes, pc, crashed>>
    BY <1>8 DEF Writes, Logs, Pushes, vars, handle
  <2>2. QED
    BY <2>1 DEF CallbackInv, CrashOnlyOutOfTime
<1>9. Fires => \/ \E t \in Threads, k \in Kinds : Fire(t, k)
               \/ \E t \in Threads : NotSet(t) \/ \E n \in Notifications : Creates(t, n)
  BY DEF Fires, FireStateChange, FireReceive, FireDiscRequest, FireDiagnostic, FireHandshake,
         FireHeartbeatTimeout, Threads, Kinds
<1>10. QED
  BY <1>1, <1>2, <1>3, <1>4, <1>5, <1>6, <1>7, <1>8, <1>9 DEF Next

(* No notification is called through a pointer that is not set while the    *)
(* threads run.                                                             *)
THEOREM NoCrashWhileRunning == Spec => []CrashOnlyOutOfTime
<1>1. Init => CallbackInv
  BY DEF Init, CallbackInv, CrashOnlyOutOfTime, NoNote, Kinds, Running
<1>2. CallbackInv => CrashOnlyOutOfTime
  BY DEF CallbackInv
<1>3. QED
  BY <1>1, <1>2, TypesInvariant, CallbackStep, PTL DEF Spec
=============================================================================
