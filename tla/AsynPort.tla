------------------------------ MODULE AsynPort ------------------------------
(***************************************************************************)
(* A port of asynManager that can block: user threads queue requests, the  *)
(* port thread (portThread) calls their callbacks one at a time, the timer *)
(* thread takes requests off the queue that waited too long, the driver    *)
(* reports that the port connects and disconnects, and a connect timer     *)
(* (portConnectTimerCallback) queues requests of its own, the Connector's, *)
(* until the port is connected again.                                      *)
(*                                                                         *)
(* Each critical section of asynManagerLock is one action; the port thread *)
(* keeps the lock between a callback and its next choice, PortLocked.  The *)
(* signal that follows an unlock at once is part of its action.            *)
(*                                                                         *)
(* Left out: devices (one address, so the port's dpCommon is the only      *)
(* one), ports that cannot block, lockPort with its synchronousLock,       *)
(* exception users, autoConnect being switched off, users being freed,     *)
(* cancelRequest called by a callback of the same user, and priorities:    *)
(* High, Medium and Low are one.                                           *)
(***************************************************************************)
EXTENDS Naturals, SequencesExt

CONSTANTS
    Users,          \* asynUsers, each with one thread that makes its calls
    Requests,       \* what they queue: user, priority, with a timeout or not
    Blockers,       \* the users that call blockProcessCallback
    Connector,      \* pport->pconnectUser
    MaxBlock,       \* bound: calls of blockProcessCallback not yet undone
    NoUser

All == Users \cup {Connector}

VARIABLES
    queueList,          \* by priority
    isQueued, state, callbackDone, timeout,
    blockPortCount, pblockProcessHolder,
    queueStateChange,
    notifyPortThread,   \* binary event the port thread sleeps on
    enabled, connected,
    portPc, portUser,   \* the port thread and the user it serves
    fromLow,            \* that user's request was not a connect request
    portTimeout,        \* its timeout, read before the unlock
    ret,                \* where the port thread goes on after a connect
    armed, timerUser, timerPc,      \* the users' timers and their thread
    connectArmed, connectPc,        \* connectTimer and its thread
    driverPc,
    pc,                 \* the user threads
    found,              \* history: callbacks that cancelRequest found active
                        \* and that have not returned yet; no more asked for
                        \* when a call returns that took a request off
    overlap,            \* history: users with two callbacks active at once
    hurried,            \* history: users queued again before the timer of the
                        \* request before was stopped
    refused             \* history: the Connector met a disabled port

portVars == <<portPc, portUser, fromLow, portTimeout, ret>>
timerVars == <<armed, timerUser, timerPc>>
connectVars == <<connectArmed, connectPc, refused>>
blockVars == <<blockPortCount, pblockProcessHolder>>
dpcVars == <<enabled, connected>>
userVars == <<pc, found, overlap>>
requestVars == <<queueList, isQueued, hurried, state, callbackDone, timeout>>
vars == <<requestVars, blockVars, queueStateChange, notifyPortThread, dpcVars,
          portVars, timerVars, connectVars, driverPc, userVars>>

Priorities == {"connect", "low"}
PortLocked == portPc \in {"connects", "connects_done", "scan", "pick", "tried",
                          "callback_end"}

AsynPortAssumption ==
    /\ Connector \notin Users /\ NoUser \notin All
    /\ Requests \subseteq Users \X Priorities \X BOOLEAN
    /\ MaxBlock \in Nat

\* Who is queued is so once.
QueueTypes ==
    /\ queueList \in [Priorities -> Seq(All)]
    /\ \A p \in Priorities : IsInjective(queueList[p])
    /\ ToSet(queueList["connect"]) \cap ToSet(queueList["low"]) = {}
    /\ Connector \notin ToSet(queueList["low"])
    /\ isQueued \in [All -> BOOLEAN]
    /\ \A u \in All : isQueued[u] <=> \E p \in Priorities : u \in ToSet(queueList[p])

CallTypes ==
    /\ state \in [All -> {"idle", "active", "canceled"}]
    /\ {callbackDone, timeout, armed} \subseteq [Users -> BOOLEAN]
    /\ found \in [Users -> SUBSET {"process", "timeout"}]
    /\ overlap \subseteq Users /\ hurried \subseteq Users
    /\ pc \in [Users -> {"idle", "wait", "dequeued", "timer_wait"}]
    /\ timerUser \in Users \cup {NoUser}
    /\ timerUser = NoUser <=> timerPc = "idle"
    /\ timerPc \in {"idle", "expired", "timeoutUser"}

BlockTypes ==
    /\ blockPortCount \in [Users -> 0..MaxBlock]
    /\ pblockProcessHolder \in Users \cup {NoUser}
    /\ pblockProcessHolder # NoUser => blockPortCount[pblockProcessHolder] > 0

\* The port thread serves a user, from its choice to the end of the callback.
Serving ==
    \/ portPc \in {"timer", "timer_wait", "process", "callback_end"}
    \/ portPc = "announce" /\ ret = "callback_end"

PortTypes ==
    /\ portPc \in {"sleep", "connects", "connects_done", "attempt", "announce", "scan",
                   "pick", "tried", "timer", "timer_wait", "process", "callback_end"}
    /\ ret \in {"connects_done", "pick", "tried", "callback_end"}
    /\ portPc = "attempt" => ret \in {"connects_done", "tried"}
    /\ portPc = "announce" => ret # "pick"
    /\ portUser \in IF Serving THEN All ELSE {NoUser}
    /\ {fromLow, portTimeout} \subseteq BOOLEAN
    /\ fromLow \/ portTimeout => portUser \in Users

FlagTypes ==
    /\ {queueStateChange, notifyPortThread, enabled, connected, connectArmed,
        refused} \subseteq BOOLEAN
    /\ connectPc \in {"idle", "queue"}
    /\ driverPc \in {"idle", "announce"}

TypeOK == QueueTypes /\ CallTypes /\ BlockTypes /\ PortTypes /\ FlagTypes

Init ==
    /\ queueList = [p \in Priorities |-> << >>]
    /\ isQueued = [u \in All |-> FALSE]
    /\ state = [u \in All |-> "idle"]
    /\ callbackDone = [u \in Users |-> FALSE]
    /\ timeout = [u \in Users |-> FALSE]
    /\ blockPortCount = [u \in Users |-> 0]
    /\ pblockProcessHolder = NoUser
    /\ queueStateChange = FALSE
    /\ notifyPortThread = FALSE
    /\ enabled = TRUE
    /\ connected = FALSE
    /\ portPc = "sleep" /\ portUser = NoUser /\ fromLow = FALSE
    /\ portTimeout = FALSE /\ ret = "pick"
    /\ armed = [u \in Users |-> FALSE] /\ timerUser = NoUser /\ timerPc = "idle"
    /\ connectArmed = TRUE /\ connectPc = "idle" /\ refused = FALSE
    /\ driverPc = "idle"
    /\ pc = [u \in Users |-> "idle"]
    /\ found = [u \in Users |-> {}]
    /\ overlap = {} /\ hurried = {}

-----------------------------------------------------------------------------
(* Requests *)

ProcessRuns(u) == portPc = "process" /\ portUser = u
TimeoutRuns(u) == timerPc = "timeoutUser" /\ timerUser = u

\* u's thread, or a callback of u, makes a call to asynManager.
MayCall(u) ==
    /\ ~PortLocked
    /\ pc[u] = "idle" \/ ProcessRuns(u) \/ TimeoutRuns(u)

Accepted(u, p) ==
    /\ enabled
    /\ p = "connect" \/ connected
    /\ ~isQueued[u]

Enqueue(u, p, front) ==
    /\ queueList' = [queueList EXCEPT ![p] = IF front THEN <<u>> \o @ ELSE Append(@, u)]
    /\ isQueued' = [isQueued EXCEPT ![u] = TRUE]
    /\ queueStateChange' = TRUE
    /\ notifyPortThread' = TRUE

\* Fault: epicsTimerStartDelay is not called.
StartTimerNot(u, timed) == UNCHANGED armed
StartTimer(u, timed) == armed' = [armed EXCEPT ![u] = @ \/ timed]

\* The user's last request is off the queue, its timer not stopped yet.
TimerUnstopped(u) ==
    \/ portPc = "timer" /\ portUser = u /\ portTimeout
    \/ pc[u] = "dequeued"

\* The user that blocks the port goes to the front.  Nobody asks whether a
\* callback of the user is active.
queueRequest(u, p, timed) ==
    /\ MayCall(u)
    /\ Accepted(u, p)
    /\ Enqueue(u, p, blockPortCount[u] > 0 /\ pblockProcessHolder = u)
    /\ timeout' = [timeout EXCEPT ![u] = timed]
    /\ StartTimer(u, timed)
    /\ hurried' = IF TimerUnstopped(u) THEN hurried \cup {u} ELSE hurried
    /\ UNCHANGED <<state, callbackDone, blockVars, dpcVars, portVars, timerUser,
                   timerPc, connectVars, driverPc, userVars>>

Dequeue(u) ==
    /\ queueList' = [p \in Priorities |-> RemoveFirst(queueList[p], u)]
    /\ isQueued' = [isQueued EXCEPT ![u] = FALSE]
    /\ hurried' = hurried \ {u}

ActiveCallbacks(u) ==
    {c \in {"process", "timeout"} :
        IF c = "process" THEN portUser = u ELSE TimeoutRuns(u)}

\* A queued request is taken off; else an active callback is waited for.
cancelRequest(u) ==
    /\ ~PortLocked /\ pc[u] = "idle"
    /\ \/ /\ isQueued[u]
          /\ Dequeue(u)
          /\ queueStateChange' = TRUE
          /\ IF timeout[u]
             THEN /\ pc' = [pc EXCEPT ![u] = "dequeued"]
                  /\ found' = [found EXCEPT ![u] = ActiveCallbacks(u)]
                  /\ UNCHANGED notifyPortThread
             ELSE /\ notifyPortThread' = TRUE
                  /\ found' = [found EXCEPT ![u] = {}]
                  /\ UNCHANGED pc
          /\ UNCHANGED state
       \/ /\ ~isQueued[u]
          /\ IF state[u] = "active"
             THEN /\ state' = [state EXCEPT ![u] = "canceled"]
                  /\ pc' = [pc EXCEPT ![u] = "wait"]
             ELSE UNCHANGED <<state, pc>>
          /\ found' = [found EXCEPT ![u] = ActiveCallbacks(u)]
          /\ UNCHANGED <<queueList, isQueued, hurried, queueStateChange, notifyPortThread>>
    /\ UNCHANGED <<callbackDone, timeout, blockVars, dpcVars, portVars, timerVars,
                   connectVars, driverPc, overlap>>

\* epicsEventMustWait(puserPvt->callbackDone)
CancelWaited(u) ==
    /\ pc[u] = "wait" /\ callbackDone[u]
    /\ callbackDone' = [callbackDone EXCEPT ![u] = FALSE]
    /\ pc' = [pc EXCEPT ![u] = "idle"]
    /\ overlap' = IF ActiveCallbacks(u) = {} THEN overlap \ {u} ELSE overlap
    /\ UNCHANGED <<queueList, isQueued, hurried, state, timeout, blockVars, queueStateChange,
                   notifyPortThread, dpcVars, portVars, timerVars, connectVars, driverPc,
                   found>>

\* epicsTimerCancel: the timer is stopped, its callback waited for.
StopTimer(u) == armed' = [armed EXCEPT ![u] = FALSE]
TimerStopped(u) == timerUser # u

CancelTimer(u) ==
    /\ pc[u] = "dequeued"
    /\ StopTimer(u)
    /\ pc' = [pc EXCEPT ![u] = "timer_wait"]
    /\ UNCHANGED <<requestVars, blockVars, queueStateChange, notifyPortThread, dpcVars,
                   portVars, timerUser, timerPc, connectVars, driverPc, found,
                   overlap>>

CancelSignal(u) ==
    /\ pc[u] = "timer_wait" /\ TimerStopped(u)
    /\ notifyPortThread' = TRUE
    /\ pc' = [pc EXCEPT ![u] = "idle"]
    /\ found' = [found EXCEPT ![u] = {}]
    /\ UNCHANGED <<requestVars, blockVars, queueStateChange, dpcVars, portVars,
                   timerVars, connectVars, driverPc, overlap>>

blockProcessCallback(u) ==
    /\ u \in Blockers /\ MayCall(u) /\ ~isQueued[u]
    /\ blockPortCount[u] < MaxBlock
    /\ blockPortCount' = [blockPortCount EXCEPT ![u] = @ + 1]
    /\ UNCHANGED <<requestVars, pblockProcessHolder, queueStateChange, notifyPortThread,
                   dpcVars, portVars, timerVars, connectVars, driverPc, userVars>>

unblockProcessCallback(u) ==
    /\ MayCall(u) /\ ~isQueued[u]
    /\ blockPortCount[u] > 0
    /\ blockPortCount' = [blockPortCount EXCEPT ![u] = @ - 1]
    /\ IF blockPortCount[u] = 1 /\ pblockProcessHolder = u
       THEN pblockProcessHolder' = NoUser /\ notifyPortThread' = TRUE
       ELSE UNCHANGED <<pblockProcessHolder, notifyPortThread>>
    /\ UNCHANGED <<requestVars, queueStateChange, dpcVars, portVars, timerVars,
                   connectVars, driverPc, userVars>>

-----------------------------------------------------------------------------
(* The timers of the requests: queueTimeoutCallback *)

TimerFires(u) ==
    /\ timerPc = "idle" /\ armed[u]
    /\ armed' = [armed EXCEPT ![u] = FALSE]
    /\ timerUser' = u
    /\ timerPc' = "expired"
    /\ UNCHANGED <<requestVars, blockVars, queueStateChange, notifyPortThread, dpcVars,
                   portVars, connectVars, driverPc, userVars>>

TimeoutBegin ==
    /\ timerPc = "expired" /\ ~PortLocked
    /\ IF isQueued[timerUser]
       THEN /\ Dequeue(timerUser)
            /\ queueStateChange' = TRUE
            /\ state' = [state EXCEPT ![timerUser] = "active"]
            /\ timerPc' = "timeoutUser"
            /\ overlap' = IF portUser = timerUser THEN overlap \cup {timerUser} ELSE overlap
            /\ UNCHANGED timerUser
       ELSE /\ timerPc' = "idle" /\ timerUser' = NoUser
            /\ UNCHANGED <<queueList, isQueued, hurried, queueStateChange, state, overlap>>
    /\ UNCHANGED <<callbackDone, timeout, blockVars, notifyPortThread, dpcVars, portVars,
                   armed, connectVars, driverPc, pc, found>>

\* For the histories; who waits for a signal that does not come, stays in overlap.
Returned(u, c) ==
    /\ found' = [v \in Users |-> IF v = u THEN found[v] \ {c} ELSE found[v]]
    /\ overlap' = {v \in overlap : v # u \/ ActiveCallbacks(u) # {c} \/ pc[v] = "wait"}

\* Fault: callbackDone is signalled whether a cancel waits or not.
EndCallbackSignals(u, c) ==
    /\ callbackDone' = [v \in Users |-> v = u \/ callbackDone[v]]
    /\ state' = [state EXCEPT ![u] = "idle"]
    /\ Returned(u, c)

\* Callback c of u is over, for the port thread and the timer thread alike.
EndCallback(u, c) ==
    /\ callbackDone' = IF state[u] = "canceled"
                       THEN [callbackDone EXCEPT ![u] = TRUE] ELSE callbackDone
    /\ state' = [state EXCEPT ![u] = "idle"]
    /\ Returned(u, c)

TimeoutEnd ==
    /\ timerPc = "timeoutUser" /\ ~PortLocked
    /\ EndCallback(timerUser, "timeout")
    /\ timerPc' = "idle" /\ timerUser' = NoUser
    /\ notifyPortThread' = TRUE
    /\ UNCHANGED <<queueList, isQueued, hurried, timeout, blockVars, queueStateChange,
                   dpcVars, portVars, armed, connectVars, driverPc, pc>>

-----------------------------------------------------------------------------
(* Connections: the driver's reports, enable, and the connect timer *)

\* Fault: the connect timer is not started.
DisconnectsQuietly == connected' = FALSE /\ refused' = FALSE /\ UNCHANGED connectArmed

Connects == connected' = TRUE /\ refused' = FALSE
Disconnects == connected' = FALSE /\ connectArmed' = TRUE /\ refused' = FALSE

\* exceptionConnect, exceptionDisconnect or enable, called by the driver or an
\* operator: the change, for which no lock is taken, and then its announcement.
Reports ==
    /\ driverPc = "idle"
    /\ driverPc' = "announce"
    /\ \/ connected /\ Disconnects /\ UNCHANGED enabled
       \/ ~connected /\ Connects /\ UNCHANGED <<enabled, connectArmed>>
       \/ enabled' = ~enabled /\ UNCHANGED <<connected, connectArmed, refused>>
    /\ UNCHANGED <<requestVars, blockVars, queueStateChange, notifyPortThread, portVars,
                   timerVars, connectPc, userVars>>

\* Fault: the port thread is not signalled.
AnnounceQuietly == queueStateChange' = TRUE /\ UNCHANGED notifyPortThread

\* announceExceptionOccurred
Announce ==
    /\ queueStateChange' = TRUE
    /\ notifyPortThread' = TRUE

DriverAnnounces ==
    /\ driverPc = "announce" /\ ~PortLocked
    /\ Announce
    /\ driverPc' = "idle"
    /\ UNCHANGED <<requestVars, blockVars, dpcVars, portVars, timerVars, connectVars,
                   userVars>>

ConnectTimerFires ==
    /\ connectPc = "idle" /\ connectArmed
    /\ connectArmed' = FALSE
    /\ connectPc' = IF connected THEN "idle" ELSE "queue"
    /\ UNCHANGED <<requestVars, blockVars, queueStateChange, notifyPortThread, dpcVars,
                   portVars, timerVars, driverPc, userVars, refused>>

ConnectorQueues ==
    /\ connectPc = "queue" /\ ~PortLocked
    /\ IF Accepted(Connector, "connect")
       THEN Enqueue(Connector, "connect", FALSE)
       ELSE UNCHANGED <<queueList, isQueued, queueStateChange, notifyPortThread>>
    /\ connectPc' = "idle"
    /\ refused' = ~enabled
    /\ UNCHANGED <<hurried, state, callbackDone, timeout, blockVars, dpcVars, portVars, timerVars,
                   connectArmed, driverPc, userVars>>

-----------------------------------------------------------------------------
(* The port thread *)

PortWake ==
    /\ portPc = "sleep" /\ notifyPortThread
    /\ notifyPortThread' = FALSE
    /\ portPc' = IF enabled THEN "connects" ELSE "sleep"
    /\ UNCHANGED <<requestVars, blockVars, queueStateChange, dpcVars, portUser, fromLow,
                   portTimeout, ret, timerVars, connectVars, driverPc, userVars>>

\* The request of u leaves the queue and its callback is next.
Take(u, p) ==
    /\ queueList' = [queueList EXCEPT ![p] = RemoveFirst(@, u)]
    /\ isQueued' = [isQueued EXCEPT ![u] = FALSE]
    /\ hurried' = hurried \ {u}
    /\ state' = [state EXCEPT ![u] = "active"]
    /\ overlap' = IF TimeoutRuns(u) THEN overlap \cup {u} ELSE overlap
    /\ portUser' = u
    /\ fromLow' = (p = "low")
    /\ portTimeout' = (u \in Users /\ timeout[u])
    /\ portPc' = "timer" /\ ret' = "pick"

\* autoConnectDevice tries to connect, or not when the last try was too recent.
Tries(next, otherwise) ==
    /\ \/ portPc' = "attempt" /\ ret' = next
       \/ portPc' = otherwise /\ ret' = "pick"
    /\ UNCHANGED <<queueList, isQueued, hurried, state, overlap, portUser, fromLow,
                   portTimeout>>

GoesTo(next) ==
    /\ portPc' = next /\ ret' = "pick"
    /\ UNCHANGED <<queueList, isQueued, hurried, state, overlap, portUser, fromLow,
                   portTimeout>>

\* All connect requests first; then a port that is not connected tries to be.
PortConnects ==
    /\ portPc = "connects"
    /\ IF queueList["connect"] # << >>
       THEN Take(Head(queueList["connect"]), "connect")
       ELSE IF connected THEN GoesTo("scan") ELSE Tries("connects_done", "sleep")
    /\ UNCHANGED <<callbackDone, timeout, blockVars, queueStateChange, notifyPortThread,
                   dpcVars, timerVars, connectVars, driverPc, pc, found>>

PortConnectsDone ==
    /\ portPc = "connects_done"
    /\ GoesTo(IF connected THEN "scan" ELSE "sleep")
    /\ UNCHANGED <<callbackDone, timeout, blockVars, queueStateChange, notifyPortThread,
                   dpcVars, timerVars, connectVars, driverPc, pc, found>>

\* Without a connection the first request of the queue makes it try, once.
PortScan ==
    /\ portPc = "scan"
    /\ queueStateChange' = FALSE
    /\ IF enabled /\ ~connected /\ queueList["low"] # << >>
       THEN Tries("tried", "pick") ELSE GoesTo("pick")
    /\ UNCHANGED <<callbackDone, timeout, blockVars, notifyPortThread, dpcVars,
                   timerVars, connectVars, driverPc, pc, found>>

MayRun(u) == pblockProcessHolder \in {NoUser, u}

\* The request for which the port thread tried to connect was found enabled
\* before it tried.
PortPick ==
    /\ portPc \in {"pick", "tried"}
    /\ LET low == queueList["low"]
           Runs(i) == MayRun(low[i]) /\ (enabled \/ (portPc = "tried" /\ i = 1))
       IN \/ /\ ~queueStateChange
             /\ \E i \in DOMAIN low :
                    /\ Runs(i) /\ \A j \in 1..i - 1 : ~Runs(j)
                    /\ Take(low[i], "low")
          \/ /\ queueStateChange \/ \A i \in DOMAIN low : ~Runs(i)
             /\ GoesTo("sleep")
    /\ UNCHANGED <<callbackDone, timeout, blockVars, queueStateChange, notifyPortThread,
                   dpcVars, timerVars, connectVars, driverPc, pc, found>>

PortTimer ==
    /\ portPc = "timer"
    /\ portPc' = IF portTimeout THEN "timer_wait" ELSE "process"
    /\ IF portTimeout THEN StopTimer(portUser) ELSE UNCHANGED armed
    /\ UNCHANGED <<requestVars, blockVars, queueStateChange, notifyPortThread, dpcVars,
                   portUser, fromLow, portTimeout, ret, timerUser, timerPc, connectVars,
                   driverPc, userVars>>

PortTimerStopped ==
    /\ portPc = "timer_wait" /\ TimerStopped(portUser)
    /\ portPc' = "process"
    /\ UNCHANGED <<requestVars, blockVars, queueStateChange, notifyPortThread, dpcVars,
                   portUser, fromLow, portTimeout, ret, timerVars, connectVars, driverPc,
                   userVars>>

\* portConnectProcessCallback: a connect that fails starts the timer again.
ConnectorProcessed(ok) ==
    /\ portPc = "process" /\ portUser = Connector
    /\ IF ok /\ ~connected
       THEN /\ Connects
            /\ portPc' = "announce" /\ ret' = "callback_end"
            /\ UNCHANGED connectArmed
       ELSE /\ connectArmed' = TRUE /\ refused' = FALSE
            /\ portPc' = "callback_end"
            /\ UNCHANGED <<connected, ret>>
    /\ UNCHANGED <<requestVars, blockVars, queueStateChange, notifyPortThread, enabled,
                   portUser, fromLow, portTimeout, timerVars, connectPc, driverPc,
                   userVars>>

\* connectAttempt
PortAttempts(ok) ==
    /\ portPc = "attempt"
    /\ IF ok /\ ~connected THEN Connects /\ portPc' = "announce"
                           ELSE portPc' = ret /\ UNCHANGED <<connected, refused>>
    /\ UNCHANGED <<requestVars, blockVars, queueStateChange, notifyPortThread, enabled,
                   portUser, fromLow, portTimeout, ret, timerVars, connectArmed, connectPc, driverPc,
                   userVars>>

PortAnnounces ==
    /\ portPc = "announce"
    /\ Announce
    /\ portPc' = ret
    /\ UNCHANGED <<requestVars, blockVars, dpcVars, portUser, fromLow, portTimeout, ret,
                   timerVars, connectVars, driverPc, userVars>>

\* A user that blocks holds the port from here on.
PortCallbackEnd ==
    /\ portPc = "callback_end" \/ (portPc = "process" /\ portUser \in Users)
    /\ pblockProcessHolder' =
            IF fromLow /\ blockPortCount[portUser] > 0 THEN portUser
            ELSE pblockProcessHolder
    /\ EndCallback(portUser, "process")
    /\ portPc' = IF ~fromLow THEN "connects" ELSE IF queueStateChange THEN "sleep" ELSE "scan"
    /\ portUser' = NoUser /\ fromLow' = FALSE /\ portTimeout' = FALSE /\ ret' = "pick"
    /\ UNCHANGED <<queueList, isQueued, hurried, timeout, blockPortCount, queueStateChange,
                   notifyPortThread, dpcVars, timerVars,
                   connectVars, driverPc, pc>>

-----------------------------------------------------------------------------
PortThread ==
    \/ PortWake \/ PortConnects \/ PortConnectsDone \/ PortScan \/ PortPick
    \/ PortTimer \/ PortTimerStopped
    \/ \E ok \in BOOLEAN : ConnectorProcessed(ok) \/ PortAttempts(ok)
    \/ PortAnnounces \/ PortCallbackEnd

TimerThread == (\E u \in Users : TimerFires(u)) \/ TimeoutBegin \/ TimeoutEnd
ConnectTimerThread == ConnectTimerFires \/ ConnectorQueues
CancelThread(u) == CancelWaited(u) \/ CancelTimer(u) \/ CancelSignal(u)

Next ==
    \/ PortThread \/ TimerThread \/ ConnectTimerThread
    \/ Reports \/ DriverAnnounces
    \/ \E r \in Requests : queueRequest(r[1], r[2], r[3])
    \/ \E u \in Users :
        \/ cancelRequest(u) \/ CancelThread(u)
        \/ blockProcessCallback(u) \/ unblockProcessCallback(u)

Spec == Init /\ [][Next]_vars

-----------------------------------------------------------------------------
\* "If either the process or timeout callback is active when cancelRequest is
\* called than cancelRequest will not return until the callback completes"
\* (asynDriver.html:1384).
CancelWaits ==
    [][\A u \in Users : pc[u] # "idle" /\ pc'[u] = "idle" => found[u] = {}]_vars

\* What remains of that when users queue again at any time: a cancelRequest that
\* takes nothing off the queue returns after the callback that was active when it
\* was called, and is told when that returns, unless a second callback of the user
\* runs at the same time.
CancelOutwaits ==
    \A u \in Users \ overlap :
        /\ pc[u] = "idle" => found[u] = {}
        /\ pc[u] = "wait" => callbackDone[u] \/ (state[u] = "canceled" /\ ActiveCallbacks(u) # {})

\* A request queued with a timeout has its timer running for as long as it is
\* queued, whatever happened to the timers of earlier requests of the user; unless
\* it was queued before the timer of the request before it was stopped, for then
\* its own is.
QueuedTimesOut ==
    \A u \in Users \ hurried :
        isQueued[u] /\ timeout[u] => armed[u] \/ (timerUser = u /\ timerPc = "expired")

\* Somebody is going to signal the port thread.
SignalComes ==
    \/ notifyPortThread
    \/ timerPc = "timeoutUser"
    \/ driverPc = "announce"
    \/ \E u \in Users : pc[u] \in {"dequeued", "timer_wait"}

\* The port thread never sleeps on a request that it could serve.
PortServes ==
    portPc = "sleep" /\ enabled /\ ~SignalComes =>
        /\ queueList["connect"] = << >>
        /\ connected => \A u \in ToSet(queueList["low"]) : ~MayRun(u)

\* A port without a connection goes on trying: the timer runs, or a request of
\* the Connector is on its way -- unless one was refused because the port was
\* disabled, when nothing tries again until the next disconnect.
ConnectRetried ==
    connected \/ refused \/ connectArmed \/ connectPc = "queue"
    \/ isQueued[Connector] \/ portUser = Connector

-----------------------------------------------------------------------------
(* The inductive invariant, for the proofs *)

\* Two callbacks of a user at once are remembered; else a callback that is active
\* has its user's state, which only a cancel that waits changes.  What a cancel
\* found active, and has outwaited, is no more.
CallTrue(u) ==
    /\ portUser = u /\ TimeoutRuns(u) => u \in overlap
    /\ ActiveCallbacks(u) # {} => state[u] # "idle" \/ u \in overlap
    /\ state[u] # "idle" => ActiveCallbacks(u) # {}
    /\ state[u] = "canceled" \/ callbackDone[u] => pc[u] = "wait"
    /\ ~(state[u] = "canceled" /\ callbackDone[u])
    /\ found[u] \subseteq ActiveCallbacks(u)
    /\ pc[u] = "idle" \/ callbackDone[u] => found[u] = {} \/ u \in overlap

CallsTrue == \A u \in Users : CallTrue(u)

\* Who queues before the last timer is stopped is remembered.
HurriedTrue == \A u \in Users \ hurried : ~(isQueued[u] /\ TimerUnstopped(u))

\* What the port thread found it may rely on until it sleeps, or a signal is
\* on its way: there was no connect request,
ConnectsSeen ==
    portPc \notin {"sleep", "connects"} /\ (Serving => fromLow) /\ ~SignalComes =>
        queueList["connect"] = << >>

\* and the queue did not change.
ChangeSeen ==
    queueStateChange =>
        \/ SignalComes
        \/ portPc \in {"sleep", "connects", "connects_done", "scan"}
        \/ portPc \in {"attempt", "announce"} /\ ret = "connects_done"
        \/ Serving /\ ~fromLow

\* A try to connect is under way until its callback has connected the port, or
\* started the timer.
TryUnderWay ==
    \/ connected \/ refused \/ connectArmed \/ connectPc = "queue" \/ isQueued[Connector]
    \/ portUser = Connector /\ portPc \in {"timer", "timer_wait", "process"}

IInv ==
    /\ TypeOK
    /\ ConnectsSeen /\ ChangeSeen /\ PortServes
    /\ TryUnderWay
    /\ CallsTrue /\ CancelOutwaits
    /\ HurriedTrue /\ QueuedTimesOut
=============================================================================
