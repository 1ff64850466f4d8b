--------------------------- MODULE HandlerLogging ---------------------------
(***************************************************************************)
(* SocketHandler with its Logger: the threads that log                     *)
(* (shared/SocketLogger.hpp, src/SocketLogger.cpp) and handleLogThread,    *)
(* which hands the lines to loggerCallback.                                *)
(*                                                                         *)
(* A line is its writer and a number.  logQueue keeps the order of each    *)
(* writer and no order between them (module Producer); an enqueue that     *)
(* fails is tried again and is left out.  The thread is detached by the    *)
(* destructor and uses the handler until it sees active false: when the    *)
(* handler is gone by then, it crashes.                                    *)
(***************************************************************************)
EXTENDS SocketHandler, Sequences

CONSTANTS Writers,   \* threads that log
          MaxLines,  \* bound: lines of each writer
          TaskCount  \* taskCount: lines taken at once

ASSUME LoggingAssumption == MaxLines \in Nat /\ TaskCount \in Nat \ {0}

VARIABLES written,      \* how many lines each writer has queued
          logQueue,     \* the lines of each writer
          logPc,        \* handleLogThread
          logTasks,     \* the lines it has taken and not handed on
          printed       \* the lines loggerCallback got, by writer

logVars == <<written, logQueue, logPc, logTasks, printed>>
allVars == <<vars, logVars>>

LoggingInit ==
    /\ Init
    /\ written = [c \in Writers |-> 0]
    /\ logQueue = [c \in Writers |-> <<>>]
    /\ logPc = "loop" /\ logTasks = <<>>
    /\ printed = [c \in Writers |-> <<>>]

-----------------------------------------------------------------------------
\* The line goes to the producer of c in the queue.
QueueLogInternal(c, line) == logQueue' = [logQueue EXCEPT ![c] = Append(@, line)]

\* A debug line may be dropped instead, as DebugEnabled is never initialised.
WriteLog(c) ==
    /\ handler # "gone" /\ written[c] < MaxLines
    /\ written' = [written EXCEPT ![c] = @ + 1]
    /\ QueueLogInternal(c, written[c] + 1)
    /\ UNCHANGED <<vars, logPc, logTasks, printed>>

\* The test of while (active), and the end of the thread.
LogThread_Loop ==
    /\ handler # "gone" /\ logPc = "loop"
    /\ logPc' = IF active THEN "dequeue" ELSE "ended"
    /\ UNCHANGED <<vars, written, logQueue, logTasks, printed>>

\* wait_dequeue_bulk_timed goes from writer to writer.
LogThread_Take(c) ==
    /\ handler # "gone" /\ logPc = "dequeue"
    /\ logQueue[c] # <<>> /\ Len(logTasks) < TaskCount
    /\ logTasks' = Append(logTasks, [writer |-> c, line |-> Head(logQueue[c])])
    /\ logQueue' = [logQueue EXCEPT ![c] = Tail(@)]
    /\ UNCHANGED <<vars, written, logPc, printed>>

\* It returns what it has; with nothing in time the loop goes on.
LogThread_Dequeued ==
    /\ handler # "gone" /\ logPc = "dequeue"
    /\ logPc' = IF logTasks = <<>> THEN "loop" ELSE "print"
    /\ UNCHANGED <<vars, written, logQueue, logTasks, printed>>

\* The last line of a batch is left out.
LogThread_Print_Short ==
    /\ handler # "gone" /\ logPc = "print"
    /\ LET task == Head(logTasks) IN
       printed' = [printed EXCEPT ![task.writer] =
                      IF Len(logTasks) = 1 /\ TaskCount > 1 THEN @ ELSE Append(@, task.line)]
    /\ logTasks' = Tail(logTasks)
    /\ logPc' = IF Len(logTasks) = 1 THEN "loop" ELSE "print"
    /\ UNCHANGED <<vars, written, logQueue>>

LogThread_Print ==
    /\ handler # "gone" /\ logPc = "print"
    /\ LET task == Head(logTasks) IN
       printed' = [printed EXCEPT ![task.writer] = Append(@, task.line)]
    /\ logTasks' = Tail(logTasks)
    /\ logPc' = IF Len(logTasks) = 1 THEN "loop" ELSE "print"
    /\ UNCHANGED <<vars, written, logQueue>>

\* The detached thread uses a handler that is gone.
LogThread_Outlives ==
    /\ handler = "gone" /\ logPc # "ended"
    /\ Crash /\ UNCHANGED logVars

Logging ==
    \/ \E c \in Writers : WriteLog(c) \/ LogThread_Take(c)
    \/ LogThread_Loop \/ LogThread_Dequeued \/ LogThread_Print \/ LogThread_Outlives

LoggingNext == (Next /\ UNCHANGED logVars) \/ (~crashed /\ Logging)

LoggingSpec == LoggingInit /\ [][LoggingNext]_allVars

-----------------------------------------------------------------------------
\* How many lines of c the thread has taken out of the queue, and those of
\* them that are still in its batch.
Taken(c) == written[c] - Len(logQueue[c])
InBatch(c) == {i \in DOMAIN logTasks : logTasks[i].writer = c}

\* Every line that was queued is printed once, in the order of its writer, and
\* until then is in the batch of the log thread or in the queue: whatever
\* callers create and destroy meanwhile.  Of the lines 1, 2, ... of a writer
\* the first are printed, the next are in the batch, in order, and the rest
\* in the queue.  What the destructor finds in either is never printed.
LinesInOrder ==
    \A c \in Writers :
        /\ \A i \in 1 .. Len(printed[c]) : printed[c][i] = i
        /\ Len(printed[c]) <= Taken(c)
        /\ {logTasks[i].line : i \in InBatch(c)} = Len(printed[c]) + 1 .. Taken(c)
        /\ \A i, j \in InBatch(c) : i < j => logTasks[i].line < logTasks[j].line
        /\ \A i \in 1 .. Len(logQueue[c]) : logQueue[c][i] = Taken(c) + i
=============================================================================
