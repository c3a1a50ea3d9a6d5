--------------------------------- MODULE Logger ---------------------------------
(***************************************************************************)
(* The logger (rasta/c/logging.c) and the fifo it is made of               *)
(* (rasta/c/fifo.c): the threads push their messages, a write thread pops  *)
(* and writes them, and logger_destroy drains what is left.                *)
(*                                                                         *)
(* The locks are variables of their own, because the threads that use them *)
(* are cancelled asynchronously, and one that holds a lock then keeps it.  *)
(* The actions are used by RastaHandle, which says when.                   *)
(***************************************************************************)
EXTENDS Integers, Sequences

CONSTANTS
    Loggers,      \* the threads that call logger_log
    Writer,       \* the write thread
    BufferSize,   \* LOGGER_BUFFER_SIZE
    MaxLogs,      \* bound on the messages that are logged
    Types,        \* the logger_type values looked at
    NULL

ASSUME LoggerAssumption ==
    /\ BufferSize \in Nat \ {0} /\ MaxLogs \in Nat
    /\ Types \subseteq {"console", "file", "both"}
    /\ Writer \notin Loggers /\ NULL \notin Loggers \union {Writer}

Levels == 1 .. 3       \* ERROR, INFO, DEBUG

VARIABLES
    logger,       \* type, max_log_level, and whether the write thread runs
    mutex,        \* who keeps logger->mutex: a thread that was cancelled with it, or NULL
    buffer,       \* the messages in the fifo: numbered in the order they are pushed
    buffer_lock,  \* who holds the fifo's lock, or NULL
    writing,      \* the message the write thread has popped, or 0
    written,      \* what has been put out
    logged,       \* how many messages have been kept
    lost          \* those that the full fifo dropped

fifo == <<buffer, buffer_lock>>
logVars == <<logger, mutex, fifo, writing, written, logged, lost>>

(* rasta_handle_init, logger_init, logger_set_log_file: the write thread of *)
(* a console logger starts at once, and that of a file logger when the file *)
(* is set. The file of a logger of both kinds never is.                     *)
LoggerInit ==
    /\ logger \in [type : Types, max_log_level : {1, 3}, running : {FALSE}]
    /\ mutex = NULL /\ buffer = <<>> /\ buffer_lock = NULL
    /\ writing = 0 /\ written = <<>> /\ logged = 0 /\ lost = 0

StartWriting ==
    /\ logger' = [logger EXCEPT !.running = @ \/ logger.type \in {"console", "file"}]
    /\ UNCHANGED <<mutex, fifo, writing, written, logged, lost>>

Acquire(t) == buffer_lock = NULL /\ buffer_lock' = t

(* get_log_message_string returns NULL for a message of a higher level.     *)
Keeps(level) == level <= logger.max_log_level

(* logger_log reads max_log_level under the logger's mutex, whatever the    *)
(* level of the message; one that is kept goes on to the lock in fifo_push. *)
Log(t, level) ==
    /\ mutex = NULL
    /\ logged + lost < MaxLogs
    /\ Keeps(level)
    /\ Acquire(t)
    /\ UNCHANGED <<logger, mutex, buffer, writing, written, logged, lost>>

(* Mutation of Push: the full fifo is left locked.                          *)
Push_Locked(t) ==
    /\ buffer_lock = t /\ t \in Loggers
    /\ IF Len(buffer) = BufferSize
       THEN lost' = lost + 1 /\ UNCHANGED <<buffer, buffer_lock, logged>>
       ELSE /\ buffer' = Append(buffer, logged + lost + 1)
            /\ logged' = logged + 1
            /\ buffer_lock' = NULL
            /\ UNCHANGED lost
    /\ UNCHANGED <<logger, mutex, writing, written>>

(* The rest of fifo_push.                                                   *)
Push(t) ==
    /\ buffer_lock = t /\ t \in Loggers
    /\ buffer_lock' = NULL
    /\ IF Len(buffer) = BufferSize
       THEN lost' = lost + 1 /\ UNCHANGED <<buffer, logged>>
       ELSE /\ buffer' = Append(buffer, logged + lost + 1)
            /\ logged' = logged + 1
            /\ UNCHANGED lost
    /\ UNCHANGED <<logger, mutex, writing, written>>

(* write_log_messages: fifo_pop and then the output, over and over.         *)
WriterTakes ==
    /\ logger.running /\ writing = 0 /\ buffer # <<>>
    /\ Acquire(Writer)
    /\ UNCHANGED <<logger, mutex, buffer, writing, written, logged, lost>>

WriterPops ==
    /\ logger.running /\ buffer_lock = Writer
    /\ buffer_lock' = NULL
    /\ IF buffer = <<>> THEN UNCHANGED <<buffer, writing>>
       ELSE writing' = Head(buffer) /\ buffer' = Tail(buffer)
    /\ UNCHANGED <<logger, mutex, written, logged, lost>>

WriterWrites ==
    /\ logger.running /\ writing # 0
    /\ written' = Append(written, writing)
    /\ writing' = 0
    /\ UNCHANGED <<logger, mutex, fifo, logged, lost>>

(* A thread that may be in logger_log is cancelled, and maybe at the moment *)
(* it has the mutex.                                                        *)
CancelLogger(t) ==
    /\ mutex' \in {mutex, IF mutex = NULL THEN t ELSE mutex}
    /\ UNCHANGED <<logger, fifo, writing, written, logged, lost>>

(* logger_destroy: what is left is thrown away, one fifo_pop at a time,     *)
(* until there is nothing; the write thread is cancelled wherever it is;    *)
(* and fifo_destroy, when messages have come in between, pops again.        *)
Drain ==
    /\ buffer_lock = NULL /\ buffer # <<>>
    /\ buffer' = Tail(buffer)
    /\ UNCHANGED <<logger, mutex, buffer_lock, writing, written, logged, lost>>

Drained == buffer_lock = NULL /\ buffer = <<>> /\ UNCHANGED logVars

CancelWriter ==
    /\ logger' = [logger EXCEPT !.running = FALSE]
    /\ UNCHANGED <<mutex, fifo, writing, written, logged, lost>>

FifoDestroy ==
    /\ buffer # <<>> => buffer_lock = NULL
    /\ UNCHANGED logVars
=============================================================================
