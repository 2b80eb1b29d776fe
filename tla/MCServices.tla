----------------------------- MODULE MCServices -----------------------------
(***************************************************************************)
(* The services that drivers and records use, for TLC: callback tasks,     *)
(* timers, scan lists, asynchronous ports, Channel Access links, the error *)
(* log and state programs.  They share no state, so a behaviour is one of  *)
(* one of them, the part; the others stay as they start.                   *)
(***************************************************************************)
EXTENDS CallbackQueue, FiniteSets, TLC

CONSTANTS
    Timers, TimerUsers, TimerTask, MaxDelay, MaxLag, NoTimer,
    Records, LockSets, LockSetOf, Scanner, Putters, MaxPhas, NoRecord, NoThread,
    AsynUsers, Requests, Blockers, Connector, MaxBlock, NoUser,
    CaLinks, NoLink,
    LogThreads, BufferSize, MaxMessage, MaxMissed,
    NumSS, NoHolder,
    s1, s2, r1, r2, r3, u1, u2

VARIABLES
    part,
    exp, curState, pNotify, timerList, pExpireTmr, cancelPending,
    cancelBlockingEvent, rescheduleEvent, lag, delay, timerQueuePc, tmr, awaited,
    list, modified, phas, owner, pse, prev, next, scanPc, moving, onList, done,
    twice, rejoined,
    queueList, isQueued, state, callbackDone, timeout, blockPortCount,
    pblockProcessHolder, queueStateChange, notifyPortThread, enabled, connected,
    portPc, portUser, fromLow, portTimeout, ret, armed, timerUser, timerPc,
    connectArmed, connectPc, driverPc, asynPc, found, overlap, hurried, refused,
    input, pvt, pvlOptInpNative, pact, recordPc, removed, pca, workList,
    workListEvent, taskPc, taskLink, taskAction, calls, caUser, dropped, owed,
    msgQueue, missedMessages, waitForWork, flush, waitForFlush, flushLock, logPc,
    logThreadPc,
    created, destroyed, seqConnected, gotFirstConnect, gotFirstMonitor, pMask,
    threadId, syncSemId, allFirstSemId, death1SemId, death2SemId, death3SemId,
    death4SemId, caSemId, wake, ssPc, cbPc, cbChan, stopPc, stopSS, changed, gaveUp

\* Two records share a lock set.
MCLockSetOf == r1 :> s1 @@ r2 :> s1 @@ r3 :> s2

\* u1 queues with a timeout; u2 queues without one, and to connect.
MCRequests == {<<u1, "low", TRUE>>, <<u2, "low", FALSE>>, <<u2, "connect", FALSE>>}

Timer == INSTANCE TimerQueue WITH
    Users <- TimerUsers, Task <- TimerTask, pc <- timerQueuePc

Scan == INSTANCE ScanLists WITH pc <- scanPc

Asyn == INSTANCE AsynPort WITH
    Users <- AsynUsers, pc <- asynPc

\* Bounds: a port that nobody disables, where only u1 waits for a callback it
\* cancels; and one that is disabled and enabled, with u1 alone.
AsynBound ==
    /\ part = "asyn" => enabled' /\ asynPc'[u2] = "idle"
    /\ part = "switched" => ~isQueued'[u2] /\ blockPortCount'[u2] = 0

Ca == INSTANCE DbCa

Log == INSTANCE ErrLog WITH
    Threads <- LogThreads, pc <- logPc, tpc <- logThreadPc


\* The flag 2 is synchronized with the channel 1.
MCFlagOf(c) == 2

\* A state program with states that listen to either; one that is stopped, with
\* a second channel that is not monitored.
Program == INSTANCE Sequencer WITH
    Events <- {1, 2}, Channels <- {1}, Monitored <- {1}, Flags <- {2}, FlagOf <- MCFlagOf,
    Masks <- {{1}, {2}}, OptConn <- TRUE, MayStop <- FALSE,
    connected <- seqConnected, pc <- ssPc

NoFlag(c) == 0

Stopped == INSTANCE Sequencer WITH
    Events <- {1}, Channels <- {1, 2}, Monitored <- {1}, Flags <- {}, FlagOf <- NoFlag,
    Masks <- {{1}}, OptConn <- TRUE, MayStop <- TRUE,
    connected <- seqConnected, pc <- ssPc

ASSUME ServicesAssumption ==
    /\ Log!ErrLogAssumption /\ Timer!TimerQueueAssumption
    /\ Program!SequencerAssumption /\ Stopped!SequencerAssumption
    /\ Ca!CaLinkAssumption /\ Scan!ScanListsAssumption /\ Asyn!AsynPortAssumption

timerVars == <<exp, curState, pNotify, timerList, pExpireTmr, cancelPending,
    cancelBlockingEvent, rescheduleEvent, lag, delay, timerQueuePc, tmr, awaited>>
scanVars == <<list, modified, phas, owner, pse, prev, next, scanPc, moving, onList,
    done, twice, rejoined>>
asynVars == <<queueList, isQueued, state, callbackDone, timeout, blockPortCount,
    pblockProcessHolder, queueStateChange, notifyPortThread, enabled, connected,
    portPc, portUser, fromLow, portTimeout, ret, armed, timerUser, timerPc,
    connectArmed, connectPc, driverPc, asynPc, found, overlap, hurried, refused>>
caVars == <<input, pvt, pvlOptInpNative, pact, recordPc, removed, pca, workList,
    workListEvent, taskPc, taskLink, taskAction, calls, caUser, dropped, owed>>
logVars == <<msgQueue, missedMessages, waitForWork, flush, waitForFlush, flushLock,
    logPc, logThreadPc>>
seqVars == <<created, destroyed, seqConnected, gotFirstConnect, gotFirstMonitor, pMask,
    threadId, syncSemId, allFirstSemId, death1SemId, death2SemId, death3SemId,
    death4SemId, caSemId, wake, ssPc, cbPc, cbChan, stopPc, stopSS, changed, gaveUp>>

PortParts == {"asyn", "switched"}
Parts == {"callbacks", "timers", "scan", "calinks", "errlog", "program", "stopped"}
    \cup PortParts
serviceVars == <<part, vars, timerVars, scanVars, asynVars, caVars, logVars, seqVars>>

ServicesInit ==
    /\ part \in Parts
    /\ Init /\ Timer!Init /\ Scan!Init /\ Asyn!Init /\ Ca!Init
    /\ Log!Init /\ Program!Init
    /\ part # "calinks" => input

ServicesNext ==
    \/ /\ part = "callbacks" /\ Next
       /\ UNCHANGED <<part, timerVars, scanVars, asynVars, caVars, logVars, seqVars>>
    \/ /\ part = "timers" /\ Timer!Next
       /\ UNCHANGED <<part, vars, scanVars, asynVars, caVars, logVars, seqVars>>
    \/ /\ part = "scan" /\ Scan!Next
       /\ UNCHANGED <<part, vars, timerVars, asynVars, caVars, logVars, seqVars>>
    \/ /\ part \in PortParts /\ Asyn!Next /\ AsynBound
       /\ UNCHANGED <<part, vars, timerVars, scanVars, caVars, logVars, seqVars>>
    \/ /\ part = "calinks" /\ Ca!Next
       /\ UNCHANGED <<part, vars, timerVars, scanVars, asynVars, logVars, seqVars>>
    \/ /\ part = "errlog" /\ Log!Next
       /\ UNCHANGED <<part, vars, timerVars, scanVars, asynVars, caVars, seqVars>>
    \/ /\ \/ part = "program" /\ Program!Next
          \/ part = "stopped" /\ Stopped!Next
       /\ UNCHANGED <<part, vars, timerVars, scanVars, asynVars, caVars, logVars>>

ServicesSpec == ServicesInit /\ [][ServicesNext]_serviceVars

\* Every service keeps the types of its structures: the indices of the ring
\* stay in its buffer, lists hold what is marked as queued, sorted.
ServicesTypeOK ==
    CASE part = "callbacks" -> TypeOK
      [] part = "timers" -> Timer!TypeOK
      [] part = "scan" -> Scan!TypeOK
      [] part \in PortParts -> Asyn!TypeOK
      [] part = "calinks" -> Ca!TypeOK
      [] part = "errlog" -> Log!TypeOK
      [] part = "program" -> Program!TypeOK
      [] part = "stopped" -> Stopped!TypeOK

\* callback.c: the callback task does not sleep on a queued callback.
CallbacksServed == part = "callbacks" => NoLostWakeup

\* timer.cpp: a cancel that found a callback running waits for it.
WaitsOut == part = "timers" => Timer!WaitsOut

\* timerQueue.cpp: the task never sleeps past the first timer.
NeverOversleeps == part = "timers" => Timer!NeverOversleeps

\* dbScan.c: a scan of a changing list processes each record once.
ScansOnce == part = "scan" => Scan!ScansOnce

\* asynManager.c: cancelRequest waits for the callback that is active.
CancelOutwaits == part \in PortParts => Asyn!CancelOutwaits

\* asynManager.c: a request with a timeout does not stay queued for good.
QueuedTimesOut == part \in PortParts => Asyn!QueuedTimesOut

\* asynManager.c: the port thread never sleeps on a request it could serve.
PortServes == part \in PortParts => Asyn!PortServes

\* asynManager.c: a port without a connection goes on trying.
ConnectRetried == part \in PortParts => Asyn!ConnectRetried

\* dbCa.c: nothing under way leads to a block that was freed.
NothingFreed == part = "calinks" => Ca!NothingFreed

\* dbCa.c: the callback of a put is called exactly once.
CalledOnce == part = "calinks" => Ca!CalledOnce

\* dbCa.c: a link that has been read gets its monitor.
MonitorComes == part = "calinks" => Ca!MonitorComes

\* errlog.c: each errlogFlush that waits is answered, once.
FlushAnswered == part = "errlog" => Log!FlushAnswered

\* seq_task.c, seq_ca.c: state sets do not sleep on what they listen to, and a
\* stopped program is freed when nobody uses it.
StateSetsServed ==
    /\ part = "program" => Program!StateSetsServed
    /\ part = "stopped" => Stopped!StateSetsServed
=============================================================================
