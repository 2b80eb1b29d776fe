----------------------------- MODULE TimerQueue -----------------------------
(***************************************************************************)
(* The timer queue of libCom/timer: timers (timer.cpp), the queue's        *)
(* process function (timerQueue.cpp) and the task that runs it             *)
(* (timerQueueActive.cpp).  Other threads, and the callbacks themselves,   *)
(* start and cancel timers; a cancel waits for a callback that runs.       *)
(*                                                                         *)
(* Each critical section of the queue's mutex is one action.  Time is      *)
(* relative: exp[t] is what is left until timer t is due, lag is the age   *)
(* of the currentTime that process works with, delay what is left of the   *)
(* task's sleep; Tick makes time pass.                                     *)
(*                                                                         *)
(* Left out: the rounding of exp by half a quantum, the destruction of     *)
(* timers and queues, and the passive queue, whose process may be called   *)
(* by several threads.                                                     *)
(***************************************************************************)
EXTENDS Integers, SequencesExt

CONSTANTS
    Timers,
    Users,      \* the threads that start and cancel timers
    Task,       \* the thread of timerQueueActive::run
    MaxDelay,   \* bound: delays are 1..MaxDelay ticks
    MaxLag,     \* bound: the callbacks of one process call take that long
    NoTimer

TimerQueueAssumption ==
    /\ MaxDelay \in Nat \ {0} /\ MaxLag \in Nat
    /\ Task \notin Users /\ NoTimer \notin Timers

VARIABLES
    exp,                    \* ticks left, negative when overdue
    curState,               \* limbo, pending or active
    pNotify,                \* whom to notify is set
    timerList,              \* pending timers, the earliest first
    pExpireTmr,             \* the timer whose callback runs
    cancelPending,
    cancelBlockingEvent,    \* binary event of the cancelling threads
    rescheduleEvent,        \* binary event the task sleeps on
    lag, delay, pc,
    tmr,                    \* the timer a thread cancels
    awaited                 \* history: a cancel that found this callback running

vars == <<exp, curState, pNotify, timerList, pExpireTmr, cancelPending,
          cancelBlockingEvent, rescheduleEvent, lag, delay, pc, tmr, awaited>>
eventVars == <<cancelBlockingEvent, rescheduleEvent>>
cancelVars == <<tmr, awaited>>

Delays == 1..MaxDelay
Forever == MaxDelay + MaxLag + 1
NoRestart == 0

TimerTypes ==
    /\ exp \in [Timers -> (-MaxLag)..MaxDelay]
    /\ curState \in [Timers -> {"limbo", "pending", "active"}]
    /\ pNotify \in [Timers -> BOOLEAN]
    /\ \A t \in Timers : curState[t] = "pending" => pNotify[t]

\* The timers in the order of the list are due in the order of due.
Sorted(seq, due) == \A i, j \in DOMAIN seq : i < j => due[seq[i]] <= due[seq[j]]

\* The timers of T are on the list, once and sorted.
IsTimerList(seq, T, due) ==
    /\ seq \in Seq(Timers) /\ IsInjective(seq)
    /\ ToSet(seq) = T
    /\ Sorted(seq, due)

Pending(st) == {t \in Timers : st[t] = "pending"}

ListTypes == IsTimerList(timerList, Pending(curState), exp)

TaskTypes ==
    /\ pExpireTmr \in Timers \cup {NoTimer}
    /\ pExpireTmr # NoTimer <=> pc[Task] = "expire"
    /\ \A t \in Timers : curState[t] = "active" => pExpireTmr = t
    /\ lag \in 0..MaxLag
    /\ delay \in 0..Forever

PcTypes ==
    /\ pc \in [Users \cup {Task} -> {"run", "process", "expire", "sleep",
                                      "idle", "cancel_wait", "cancel_check", "cancel_signal"}]
    /\ pc[Task] \in {"run", "process", "expire", "sleep"}
    /\ \A u \in Users : pc[u] \in {"idle", "cancel_wait", "cancel_check", "cancel_signal"}

CancelTypes ==
    /\ {cancelPending, cancelBlockingEvent, rescheduleEvent} \subseteq BOOLEAN
    /\ tmr \in [Users -> Timers \cup {NoTimer}]
    /\ awaited \in [Users -> BOOLEAN]

TypeOK == TimerTypes /\ ListTypes /\ TaskTypes /\ PcTypes /\ CancelTypes

Init ==
    /\ exp = [t \in Timers |-> 0]
    /\ curState = [t \in Timers |-> "limbo"]
    /\ pNotify = [t \in Timers |-> FALSE]
    /\ timerList = << >>
    /\ pExpireTmr = NoTimer
    /\ cancelPending = FALSE
    /\ cancelBlockingEvent = FALSE
    /\ rescheduleEvent = FALSE
    /\ lag = 0
    /\ delay = 0
    /\ pc = [th \in Users \cup {Task} |-> IF th = Task THEN "run" ELSE "idle"]
    /\ tmr = [u \in Users |-> NoTimer]
    /\ awaited = [u \in Users |-> FALSE]

\* Time passes; an overdue timer is counted no further than lag can tell.
Tick ==
    /\ pc[Task] \in {"process", "expire"} => lag < MaxLag
    /\ exp' = [t \in Timers |->
                 IF pNotify[t] /\ exp[t] > -MaxLag THEN exp[t] - 1 ELSE exp[t]]
    /\ lag' = IF pc[Task] \in {"process", "expire"} THEN lag + 1 ELSE 0
    /\ delay' = IF pc[Task] = "sleep" /\ delay \in 1..Forever - 1
                THEN delay - 1 ELSE delay
    /\ UNCHANGED <<curState, pNotify, timerList, pExpireTmr, cancelPending,
                   eventVars, pc, cancelVars>>

\* Fault: new timers go to the end.
InsertedLast(list, due, t, e) == Append(list, t)

\* The last of the list that is due before e or with it
LastBefore(list, due, e) ==
    CHOOSE n \in 0..Len(list) :
        /\ n > 0 => due[list[n]] <= e
        /\ \A i \in n + 1..Len(list) : due[list[i]] > e

\* The list with timer t added behind it
Inserted(list, due, t, e) == InsertAt(list, LastBefore(list, due, e) + 1, t)

\* Fault: the task is signalled only when the list was empty.
AtFrontAlone(list, t) == list = <<t>>
AtFront(list, t) == list # << >> /\ Head(list) = t

-----------------------------------------------------------------------------
(* The task *)

\* process takes the first timer of the list when it is due by currentTime,
\* or returns how long to sleep.
TakeFirst(list, due, state, notify) ==
    IF list # << >> /\ due[Head(list)] <= -lag
    THEN /\ pExpireTmr' = Head(list)
         /\ timerList' = Tail(list)
         /\ exp' = [due EXCEPT ![Head(list)] = 0]
         /\ curState' = [state EXCEPT ![Head(list)] = "active"]
         /\ pNotify' = [notify EXCEPT ![Head(list)] = FALSE]
         /\ pc' = [pc EXCEPT ![Task] = "expire"]
         /\ UNCHANGED <<lag, delay>>
    ELSE /\ pExpireTmr' = NoTimer
         /\ timerList' = list
         /\ exp' = due
         /\ curState' = state
         /\ pNotify' = notify
         /\ delay' = IF list = << >> THEN Forever ELSE due[Head(list)] + lag
         /\ lag' = 0
         /\ pc' = [pc EXCEPT ![Task] = "sleep"]

\* run reads the time before process locks the mutex.
Run ==
    /\ pc[Task] = "run"
    /\ lag' = 0
    /\ pc' = [pc EXCEPT ![Task] = "process"]
    /\ UNCHANGED <<exp, curState, pNotify, timerList, pExpireTmr, cancelPending,
                   eventVars, delay, cancelVars>>

Process ==
    /\ pc[Task] = "process"
    /\ TakeFirst(timerList, exp, curState, pNotify)
    /\ UNCHANGED <<cancelPending, eventVars, cancelVars>>

\* The callback returned r, a delay to restart with or NoRestart.  A cancel
\* meanwhile wins over a restart, a start meanwhile over r.
ExpireEnd(r) ==
    /\ pc[Task] = "expire"
    /\ LET t == pExpireTmr
           restarts == ~cancelPending /\ (pNotify[t] \/ r # NoRestart)
           e == IF pNotify[t] THEN exp[t] ELSE r - lag
           list == IF restarts THEN Inserted(timerList, exp, t, e) ELSE timerList
           state == IF restarts THEN "pending"
                    ELSE IF cancelPending THEN curState[t] ELSE "limbo"
       IN /\ TakeFirst(list,
                       IF restarts THEN [exp EXCEPT ![t] = e] ELSE exp,
                       [curState EXCEPT ![t] = state],
                       [pNotify EXCEPT ![t] = @ \/ restarts])
          /\ rescheduleEvent' = (rescheduleEvent \/ (restarts /\ AtFront(list, t)))
          /\ awaited' = [u \in Users |-> awaited[u] /\ tmr[u] # t]
    /\ cancelPending' = FALSE
    /\ cancelBlockingEvent' = (cancelBlockingEvent \/ cancelPending)
    /\ UNCHANGED tmr

\* The sleep ends by its delay or by the event.
Wake ==
    /\ pc[Task] = "sleep"
    /\ rescheduleEvent \/ delay = 0
    /\ rescheduleEvent' = FALSE
    /\ delay' = 0
    /\ pc' = [pc EXCEPT ![Task] = "run"]
    /\ UNCHANGED <<exp, curState, pNotify, timerList, pExpireTmr, cancelPending,
                   cancelBlockingEvent, lag, cancelVars>>

-----------------------------------------------------------------------------
(* Threads, and callbacks of the task, that start and cancel timers *)

MayCall(th) == pc[th] = IF th = Task THEN "expire" ELSE "idle"

\* A timer whose callback runs is only marked for a restart.
Start(th, t, d) ==
    /\ MayCall(th)
    /\ pNotify' = [pNotify EXCEPT ![t] = TRUE]
    /\ exp' = [exp EXCEPT ![t] = d]
    /\ IF curState[t] = "active"
       THEN UNCHANGED <<timerList, curState, rescheduleEvent>>
       ELSE /\ timerList' = Inserted(RemoveFirst(timerList, t), exp, t, d)
            /\ curState' = [curState EXCEPT ![t] = "pending"]
            /\ rescheduleEvent' = (rescheduleEvent \/ AtFront(timerList', t))
    /\ UNCHANGED <<pExpireTmr, cancelPending, cancelBlockingEvent, lag, delay, pc,
                   cancelVars>>

\* While the callback runs, a cancel from another thread waits; one from the
\* callback itself only keeps the timer from being restarted.
Cancel(th, t) ==
    /\ MayCall(th)
    /\ curState[t] # "limbo"
    /\ pNotify' = [pNotify EXCEPT ![t] = FALSE]
    /\ exp' = [exp EXCEPT ![t] = 0]
    /\ timerList' = RemoveFirst(timerList, t)
    /\ curState' = [curState EXCEPT ![t] = "limbo"]
    /\ cancelPending' = (cancelPending \/ curState[t] = "active")
    /\ IF curState[t] = "active" /\ th # Task
       THEN /\ pc' = [pc EXCEPT ![th] = "cancel_wait"]
            /\ tmr' = [tmr EXCEPT ![th] = t]
            /\ awaited' = [awaited EXCEPT ![th] = TRUE]
       ELSE UNCHANGED <<pc, tmr, awaited>>
    /\ UNCHANGED <<pExpireTmr, eventVars, lag, delay>>

\* cancelBlockingEvent.wait()
CancelWait(u) ==
    /\ pc[u] = "cancel_wait"
    /\ cancelBlockingEvent
    /\ cancelBlockingEvent' = FALSE
    /\ pc' = [pc EXCEPT ![u] = "cancel_check"]
    /\ UNCHANGED <<exp, curState, pNotify, timerList, pExpireTmr, cancelPending,
                   rescheduleEvent, lag, delay, cancelVars>>

\* Fault: the event is taken as meant for this thread.
StillRunsNot(u) == FALSE
StillRuns(u) == cancelPending /\ pExpireTmr = tmr[u]

\* The event may have been meant for another thread.
CancelCheck(u) ==
    /\ pc[u] = "cancel_check"
    /\ pc' = [pc EXCEPT ![u] = IF StillRuns(u) THEN "cancel_wait" ELSE "cancel_signal"]
    /\ UNCHANGED <<exp, curState, pNotify, timerList, pExpireTmr, cancelPending,
                   eventVars, lag, delay, cancelVars>>

\* In case other threads are waiting.
CancelSignal(u) ==
    /\ pc[u] = "cancel_signal"
    /\ cancelBlockingEvent' = TRUE
    /\ pc' = [pc EXCEPT ![u] = "idle"]
    /\ tmr' = [tmr EXCEPT ![u] = NoTimer]
    /\ UNCHANGED <<exp, curState, pNotify, timerList, pExpireTmr, cancelPending,
                   rescheduleEvent, lag, delay, awaited>>

-----------------------------------------------------------------------------
Next ==
    \/ Tick \/ Run \/ Process \/ Wake
    \/ \E r \in {NoRestart} \cup Delays : ExpireEnd(r)
    \/ \E th \in Users \cup {Task}, t \in Timers :
            Cancel(th, t) \/ \E d \in Delays : Start(th, t, d)
    \/ \E u \in Users : CancelWait(u) \/ CancelCheck(u) \/ CancelSignal(u)

Spec == Init /\ [][Next]_vars

-----------------------------------------------------------------------------
\* "make certain timer expire() does not run after cancel () returns"
\* (timer.cpp:160): a cancel that found the callback running does not return
\* before that callback has, whoever took the event meant for it.
WaitsOut ==
    \A u \in Users : awaited[u] => pc[u] \in {"cancel_wait", "cancel_check"}

\* The task never sleeps past the first timer: its delay is at most what is
\* left until that timer is due, and the time that callbacks took before the
\* sleep, for which process does not read the clock again.
NeverOversleeps ==
    pc[Task] = "sleep" /\ timerList # << >> /\ ~rescheduleEvent =>
        delay <= exp[Head(timerList)] + MaxLag

\* The inductive invariant: a timer whose callback runs is active unless it was
\* cancelled, and the callback that a cancel found running is the one that runs.
IInv ==
    /\ TypeOK /\ NeverOversleeps
    /\ cancelPending => pc[Task] = "expire"
    /\ pc[Task] = "expire" => (cancelPending <=> curState[pExpireTmr] # "active")
    /\ \A u \in Users : awaited[u] =>
            /\ pc[u] \in {"cancel_wait", "cancel_check"}
            /\ pExpireTmr = tmr[u] /\ cancelPending
=============================================================================
