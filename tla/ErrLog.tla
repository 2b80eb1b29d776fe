------------------------------- MODULE ErrLog -------------------------------
(***************************************************************************)
(* The error log (errlog.c): threads put messages into a buffer without    *)
(* ever waiting for the console, errlogThread sends them to it and to      *)
(* listeners, and errlogFlush waits until it has.                          *)
(*                                                                         *)
(* The buffer is filled from its start to its end and starts again when it *)
(* is empty.  A message that finds no room is counted and dropped.  One    *)
(* action is one section of msgQueueLock and the signal after it.          *)
(*                                                                         *)
(* Left out: what messages say, the listeners' list, direct output of the  *)
(* calling thread, and the exit of the IOC.                                *)
(***************************************************************************)
EXTENDS Naturals, Sequences

CONSTANTS
    Threads,        \* threads that log and flush
    BufferSize,     \* in units, of which a message has
    MaxMessage,     \* at most these
    MaxMissed,      \* bound: messages dropped before the thread is told
    NoThread

\* A message fits, with the one that tells of those missed: errlogInitPvt sees
\* to a buffer of BUFFER_SIZE at least.
ErrLogAssumption ==
    /\ BufferSize \in Nat /\ MaxMessage \in Nat \ {0} /\ MaxMissed \in Nat
    /\ BufferSize > MaxMessage + 1
    /\ NoThread \notin Threads

VARIABLES
    msgQueue,       \* the messages in the buffer
    missedMessages,
    waitForWork, flush, waitForFlush,   \* binary events
    flushLock,
    pc,             \* in errlogFlush
    tpc             \* errlogThread

vars == <<msgQueue, missedMessages, waitForWork, flush, waitForFlush, flushLock, pc, tpc>>
flushVars == <<flush, waitForFlush, flushLock, pc>>

End(m) == m.start + m.length

Message == [start : 0..BufferSize, length : 1..MaxMessage]

\* Messages lie behind each other, inside the buffer.
Packed(queue) ==
    /\ queue \in Seq(Message)
    /\ \A i \in 1..Len(queue) :
        /\ End(queue[i]) <= BufferSize
        /\ i > 1 => End(queue[i - 1]) <= queue[i].start

\* A message was dropped only while others were in the buffer.
TypeOK ==
    /\ Packed(msgQueue)
    /\ missedMessages \in 0..MaxMissed
    /\ {waitForWork, flush, waitForFlush} \subseteq BOOLEAN
    /\ flushLock \in Threads \cup {NoThread}
    /\ pc \in [Threads -> {"idle", "lock", "signal", "wait"}]
    /\ \A t \in Threads : flushLock = t <=> pc[t] \in {"signal", "wait"}
    /\ tpc \in {"wait", "look", "send", "try", "delay"}
    /\ tpc = "send" => msgQueue # << >>

Init ==
    /\ msgQueue = << >> /\ missedMessages = 0
    /\ waitForWork = FALSE /\ flush = FALSE /\ waitForFlush = FALSE
    /\ flushLock = NoThread
    /\ pc = [t \in Threads |-> "idle"]
    /\ tpc = "wait"

-----------------------------------------------------------------------------
(* Logging *)

\* msgbufGetNode: where the next message would start.
NextStart(queue) == IF queue = << >> THEN 0 ELSE End(queue[Len(queue)])

HasRoom(queue) == queue = << >> \/ BufferSize - NextStart(queue) > MaxMessage

\* An empty buffer first gets the message that tells of those missed; it has
\* room for that and another, errlogInitPvt sees to it.
Told == IF msgQueue = << >> /\ missedMessages > 0
        THEN <<[start |-> 0, length |-> 1]>> ELSE msgQueue

\* errlogVprintf: msgbufGetFree and msgbufSetSize
Log(length) ==
    /\ HasRoom(Told)
    /\ msgQueue' = Append(Told, [start |-> NextStart(Told), length |-> length])
    /\ missedMessages' = IF msgQueue = << >> THEN 0 ELSE missedMessages
    /\ waitForWork' = TRUE
    /\ UNCHANGED <<flushVars, tpc>>

LogMissed ==
    /\ ~HasRoom(Told) /\ missedMessages < MaxMissed
    /\ missedMessages' = missedMessages + 1
    /\ UNCHANGED <<msgQueue, waitForWork, flushVars, tpc>>

-----------------------------------------------------------------------------
(* errlogFlush *)

Flush(t) ==
    /\ pc[t] = "idle" /\ msgQueue # << >>
    /\ pc' = [pc EXCEPT ![t] = "lock"]
    /\ UNCHANGED <<msgQueue, missedMessages, waitForWork, flush, waitForFlush, flushLock, tpc>>

FlushLocks(t) ==
    /\ pc[t] = "lock" /\ flushLock = NoThread
    /\ flushLock' = t
    /\ flush' = TRUE
    /\ pc' = [pc EXCEPT ![t] = "signal"]
    /\ UNCHANGED <<msgQueue, missedMessages, waitForWork, waitForFlush, tpc>>

FlushSignals(t) ==
    /\ pc[t] = "signal"
    /\ waitForWork' = TRUE
    /\ pc' = [pc EXCEPT ![t] = "wait"]
    /\ UNCHANGED <<msgQueue, missedMessages, flush, waitForFlush, flushLock, tpc>>

FlushReturns(t) ==
    /\ pc[t] = "wait" /\ waitForFlush
    /\ waitForFlush' = FALSE
    /\ flushLock' = NoThread
    /\ pc' = [pc EXCEPT ![t] = "idle"]
    /\ UNCHANGED <<msgQueue, missedMessages, waitForWork, flush, tpc>>

-----------------------------------------------------------------------------
(* errlogThread *)

ThreadGoes(from, next) == tpc = from /\ tpc' = next

ThreadWakes ==
    /\ waitForWork /\ waitForWork' = FALSE
    /\ ThreadGoes("wait", "look")
    /\ UNCHANGED <<msgQueue, missedMessages, flushVars>>

\* msgbufGetSend: the message stays in the queue while it is sent.
ThreadLooks ==
    /\ ThreadGoes("look", IF msgQueue = << >> THEN "try" ELSE "send")
    /\ UNCHANGED <<msgQueue, missedMessages, waitForWork, flushVars>>

\* msgbufFreeSend
ThreadSent ==
    /\ ThreadGoes("send", "look")
    /\ msgQueue' = Tail(msgQueue)
    /\ UNCHANGED <<missedMessages, waitForWork, flushVars>>

\* Fault: a message that came meanwhile is sent first.
AfterFlushSends == IF msgQueue = << >> THEN "delay" ELSE "look"
AfterFlush == "delay"

\* The queue was found empty before: a message and a flush for it may have come
\* since, and the flush is answered before the message is sent.
ThreadTries ==
    /\ ThreadGoes("try", IF flush THEN AfterFlush ELSE "wait")
    /\ flush' = FALSE
    /\ UNCHANGED <<msgQueue, missedMessages, waitForWork, waitForFlush, flushLock, pc>>

ThreadAnswers ==
    /\ ThreadGoes("delay", "wait")
    /\ waitForFlush' = TRUE
    /\ UNCHANGED <<msgQueue, missedMessages, waitForWork, flush, flushLock, pc>>

-----------------------------------------------------------------------------
errlogThread == ThreadWakes \/ ThreadLooks \/ ThreadSent \/ ThreadTries \/ ThreadAnswers

Next ==
    \/ \E length \in 1..MaxMessage : Log(length)
    \/ LogMissed
    \/ \E t \in Threads : Flush(t) \/ FlushLocks(t) \/ FlushSignals(t) \/ FlushReturns(t)
    \/ errlogThread

Spec == Init /\ [][Next]_vars

-----------------------------------------------------------------------------
Asleep == tpc = "wait" /\ ~waitForWork

\* Each flush is answered, once: the thread has a request of the flush that
\* waits, or its answer is on the way; none is left over when nobody flushes.
\* And the thread does not sleep on messages, which nothing else would send.
FlushAnswered ==
    /\ flush \/ tpc = "delay" \/ waitForFlush <=> flushLock # NoThread
    /\ flush => tpc # "delay" /\ ~waitForFlush
    /\ tpc = "delay" => ~waitForFlush
    /\ \A t \in Threads : pc[t] = "wait" /\ flush => ~Asleep
    /\ msgQueue # << >> => ~Asleep

\* The inductive invariant: a message that comes after the thread found the
\* queue empty wakes it again.
IInv ==
    /\ TypeOK /\ FlushAnswered
    /\ tpc \in {"try", "delay"} /\ msgQueue # << >> => waitForWork
=============================================================================
