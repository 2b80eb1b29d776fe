------------------------------- MODULE DbEvent -------------------------------
(***************************************************************************)
(* Monitor events of the IOC database: base/src/db/dbEvent.c, with the     *)
(* calls its clients make in base/src/rsrv/camessage.c and                 *)
(* base/src/db/dbSubscriptionIO.cpp.                                       *)
(*                                                                         *)
(* One event_user: a chain of event queues, each a ring buffer, read by    *)
(* one event task that calls the subscribers back.  Record processing      *)
(* posts events under the record's scan lock; callers subscribe, cancel    *)
(* and switch flow control.  A caller may be the event task itself, inside *)
(* a callback.  All events are on fields of one record.                    *)
(*                                                                         *)
(* An action is one critical section of a queue's writelock, one blocking  *)
(* call, or one access outside the locks.  The event task keeps the        *)
(* writelock of its queue from one callback to the next (label "read").    *)
(***************************************************************************)
EXTENDS Integers, FiniteSets

CONSTANTS
    Events,         \* evSubscrip blocks of the free list
    Callers,        \* threads that subscribe and cancel
    Task,           \* the event task, which may be one of them
    Scan,           \* the thread that processes the record
    EVENTSPERQUE, EVENTENTRIES,
    MaxQueues,      \* bound: event_que structures there is memory for
    MaxVal,         \* bound: number of values the record takes
    FlowControl,    \* BOOLEAN: clients send events_off and events_on
    NoEvent, CanceledEvent, NoThread

EVENTQUESIZE == EVENTENTRIES * EVENTSPERQUE
Queues == 1..MaxQueues
Slots == 0..EVENTQUESIZE - 1
NoQueue == 0
NoSlot == -1

ASSUME DbEventAssumption ==
    /\ IsFiniteSet(Events)
    /\ EVENTSPERQUE \in Nat \ {0} /\ EVENTENTRIES \in Nat \ {0}
    /\ MaxQueues \in Nat \ {0} /\ MaxVal \in Nat \ {0}
    /\ FlowControl \in BOOLEAN
    /\ Scan \notin Callers \cup {Task}
    /\ NoThread \notin Callers \cup {Scan, Task}
    /\ {NoEvent, CanceledEvent} \cap Events = {} /\ NoEvent # CanceledEvent

VARIABLES
    evque, valque, putix, getix, quota, nDuplicates, nCanceled, nextque,
                    \* event_que fields; an empty slot's stale value is left out
    made,           \* the event_que structures allocated
    ev_que, npend, pLastLog, user_sub, byValue, callBackInProgress, enabled,
                    \* evSubscrip fields (byValue is its valque); ev_que is
                    \* NoQueue for a block on the free list
    pSuicideEvent, flowCtrlMode, ppendsem, pflush_sem, queovr, pendexit,
                    \* event_user fields; queovr only as zero or not
    tpc, tque, event, fl,
                    \* the event task: label, queue, event and local value
    cpc, cev, cque, \* each caller: label, event, and queue of db_add_event
    poster,         \* the thread with the record's scan lock
    todo,           \* the events it has still to post
    wake,           \* it has still to signal ppendsem
    val,            \* the record's value
    sent, seen,     \* per subscription: last value posted, last delivered
    live            \* the subscription called back still exists

queues == <<evque, valque, putix, getix, quota, nDuplicates, nCanceled>>
chain == <<nextque, made>>
pending == <<npend, pLastLog>>
blocks == <<ev_que, user_sub, byValue, callBackInProgress, enabled>>
sems == <<ppendsem, pflush_sem>>
task == <<tpc, tque, event, fl, live>>
calls == <<cpc, cev, cque>>
posting == <<poster, todo, wake>>
values == <<val, sent, seen>>
vars == <<queues, chain, pending, blocks, pSuicideEvent, flowCtrlMode, sems,
          queovr, pendexit, task, calls, posting, values>>

RNGINC(i) == IF i >= EVENTQUESIZE - 1 THEN 0 ELSE i + 1

ringSpace(q) ==
    IF evque[q][putix[q]] # NoEvent THEN 0
    ELSE IF getix[q] > putix[q] THEN getix[q] - putix[q]
    ELSE EVENTQUESIZE + getix[q] - putix[q]

Goto(c, label) == cpc' = [cpc EXCEPT ![c] = label]
\* The call is done.
Finish(c) ==
    /\ Goto(c, "idle")
    /\ cev' = [cev EXCEPT ![c] = NoEvent]
    /\ cque' = [cque EXCEPT ![c] = NoQueue]

\* A thread can start a call; the event task only from a callback.
Free(c) ==
    /\ cpc[c] = "idle"
    /\ ~pendexit
    /\ c = Task => tpc = "callback"

\* The writelock of the queue and the mlok of the record can be had.
QueueFree(q) == ~(tpc = "read" /\ tque = q)
ListFree == poster # Scan

-----------------------------------------------------------------------------
\* db_init_events and db_start_events have been called.
Init ==
    /\ evque = [q \in Queues |-> [i \in Slots |-> NoEvent]]
    /\ valque = [q \in Queues |-> [i \in Slots |-> 0]]
    /\ putix = [q \in Queues |-> 0] /\ getix = [q \in Queues |-> 0]
    /\ quota = [q \in Queues |-> 0]
    /\ nDuplicates = [q \in Queues |-> 0] /\ nCanceled = [q \in Queues |-> 0]
    /\ nextque = [q \in Queues |-> NoQueue] /\ made = {1}
    /\ ev_que = [e \in Events |-> NoQueue]
    /\ npend = [e \in Events |-> 0] /\ pLastLog = [e \in Events |-> NoSlot]
    /\ user_sub = [e \in Events |-> FALSE] /\ byValue = [e \in Events |-> FALSE]
    /\ callBackInProgress = [e \in Events |-> FALSE]
    /\ enabled = [e \in Events |-> FALSE]
    /\ pSuicideEvent = NoEvent /\ flowCtrlMode = FALSE
    /\ ppendsem = FALSE /\ pflush_sem = FALSE
    /\ queovr = FALSE /\ pendexit = FALSE
    /\ tpc = "wait" /\ tque = 1 /\ event = NoEvent /\ fl = 0
    /\ live = FALSE
    /\ cpc = [c \in Callers |-> "idle"] /\ cev = [c \in Callers |-> NoEvent]
    /\ cque = [c \in Callers |-> NoQueue]
    /\ poster = NoThread /\ todo = {} /\ wake = FALSE
    /\ val = 1
    /\ sent = [e \in Events |-> 0] /\ seen = [e \in Events |-> 0]

-----------------------------------------------------------------------------
(* Subscribing: db_add_event, db_post_single_event, db_event_enable *)

HasRoom(q) == quota[q] + nCanceled[q] < EVENTQUESIZE - EVENTENTRIES

\* freeListCalloc of the block, and the first queue
AddEvent(c) ==
    /\ Free(c)
    /\ \E e \in Events :
        /\ ev_que[e] = NoQueue /\ \A d \in Callers : cev[d] # e
        /\ cev' = [cev EXCEPT ![c] = e]
        /\ callBackInProgress' = [callBackInProgress EXCEPT ![e] = FALSE]
        /\ \E v \in BOOLEAN : byValue' = [byValue EXCEPT ![e] = v]
    /\ cque' = [cque EXCEPT ![c] = 1]
    /\ Goto(c, "walk")
    /\ UNCHANGED <<queues, chain, pending, ev_que, user_sub, enabled,
                   pSuicideEvent, flowCtrlMode, sems, queovr, pendexit, task,
                   posting, values>>

\* The block's fields are set: it belongs to queue q.
Install(c, q) ==
    /\ ev_que' = [ev_que EXCEPT ![cev[c]] = q]
    /\ user_sub' = [user_sub EXCEPT ![cev[c]] = TRUE]

\* "find an event que block with enough quota"
AddFind(c) ==
    /\ cpc[c] = "walk"
    /\ \/ /\ HasRoom(cque[c])
          /\ Install(c, cque[c])
          /\ Goto(c, "quota")
          /\ UNCHANGED cque
       \/ /\ ~HasRoom(cque[c])
          /\ nextque[cque[c]] # NoQueue
          /\ cque' = [cque EXCEPT ![c] = nextque[cque[c]]]
          /\ UNCHANGED <<cpc, ev_que, user_sub>>
    /\ UNCHANGED <<queues, chain, pending, byValue, callBackInProgress,
                   enabled, pSuicideEvent, flowCtrlMode, sems, queovr,
                   pendexit, task, cev, posting, values>>

\* "otherwise add a new one to the list"
AddQueue(c) ==
    /\ cpc[c] = "walk"
    /\ ~HasRoom(cque[c])
    /\ nextque[cque[c]] = NoQueue
    /\ \E q \in Queues \ made :
        /\ made' = made \cup {q}
        /\ Install(c, q)
    /\ Goto(c, "chain")
    /\ UNCHANGED <<queues, nextque, pending, byValue, callBackInProgress,
                   enabled, pSuicideEvent, flowCtrlMode, sems, queovr,
                   pendexit, task, cev, cque, posting, values>>

\* no memory for a queue: the block goes back and NULL is returned
AddFails(c) ==
    /\ cpc[c] = "walk"
    /\ ~HasRoom(cque[c])
    /\ nextque[cque[c]] = NoQueue
    /\ made = Queues
    /\ Finish(c)
    /\ UNCHANGED <<queues, chain, pending, blocks, pSuicideEvent,
                   flowCtrlMode, sems, queovr, pendexit, task, posting, values>>

Linked(q, new) == [nextque EXCEPT ![q] = new]

AddChain(c) ==
    /\ cpc[c] = "chain"
    /\ nextque' = Linked(cque[c], ev_que[cev[c]])
    /\ Goto(c, "quota")
    /\ UNCHANGED <<queues, made, pending, blocks, pSuicideEvent, flowCtrlMode,
                   sems, queovr, pendexit, task, cev, cque, posting, values>>

AddQuota(c) ==
    /\ cpc[c] = "quota"
    /\ QueueFree(ev_que[cev[c]])
    /\ quota' = [quota EXCEPT ![ev_que[cev[c]]] = @ + EVENTENTRIES]
    /\ cque' = [cque EXCEPT ![c] = NoQueue]
    /\ Goto(c, "first")
    /\ UNCHANGED <<evque, valque, putix, getix, nDuplicates, nCanceled, chain,
                   pending, blocks, pSuicideEvent, flowCtrlMode, sems, queovr,
                   pendexit, task, cev, posting, values>>

\* db_post_single_event of the value the record has now
PostFirst(c) ==
    /\ cpc[c] = "first"
    /\ poster = NoThread
    /\ poster' = c
    /\ todo' = {cev[c]}
    /\ Goto(c, "post")
    /\ UNCHANGED <<queues, chain, pending, blocks, pSuicideEvent,
                   flowCtrlMode, sems, queovr, pendexit, task, cev, cque, wake,
                   values>>

EnableEvent(c) ==
    /\ cpc[c] = "enable"
    /\ ListFree
    /\ enabled' = [enabled EXCEPT ![cev[c]] = TRUE]
    /\ Finish(c)
    /\ UNCHANGED <<queues, chain, pending, ev_que, user_sub, byValue,
                   callBackInProgress, pSuicideEvent, flowCtrlMode, sems,
                   queovr, pendexit, task, posting, values>>

-----------------------------------------------------------------------------
(* db_post_events and db_post_single_event_private *)

\* Record processing changes the value and posts it to the record's list.
PostEvents ==
    /\ poster = NoThread
    /\ ~pendexit
    /\ val < MaxVal
    /\ val' = val + 1
    /\ poster' = Scan
    /\ todo' = {e \in Events : enabled[e]}
    /\ UNCHANGED <<queues, chain, pending, blocks, pSuicideEvent, flowCtrlMode,
                   sems, queovr, pendexit, task, calls, wake, sent, seen>>

\* The post e comes next, and its queue's writelock can be had.
Posting(e) ==
    /\ e \in todo
    /\ ~wake
    /\ QueueFree(ev_que[e])
    /\ todo' = todo \ {e}
    /\ UNCHANGED <<quota, nCanceled, getix, chain, blocks, pSuicideEvent,
                   flowCtrlMode, sems, pendexit, task, calls, poster, val, seen>>

\* Fault: a second value is ignored like a second notification.
IgnoresDuplicate(e) == npend[e] > 0
\* "not saving the current value": one entry is enough.
Ignores(e) == ~byValue[e] /\ npend[e] > 0

PostIgnored(e) ==
    /\ Posting(e)
    /\ Ignores(e)
    /\ sent' = [sent EXCEPT ![e] = val]
    /\ UNCHANGED <<evque, valque, putix, nDuplicates, pending, queovr, wake>>

Replaces(e) ==
    npend[e] > 0 /\ (flowCtrlMode \/ ringSpace(ev_que[e]) <= EVENTSPERQUE)

PostReplace(e) ==
    /\ Posting(e)
    /\ ~Ignores(e) /\ Replaces(e)
    /\ valque' = [valque EXCEPT ![ev_que[e]][pLastLog[e]] = val]
    /\ sent' = [sent EXCEPT ![e] = val]
    /\ UNCHANGED <<evque, putix, nDuplicates, pending, queovr, wake>>

\* Faults: a used slot is overwritten; the last entry is not remembered; the
\* task is woken at the second entry.
SlotFreeAlways(q) == TRUE
LastLogFirst(e, i) == IF byValue[e] /\ npend[e] = 0 THEN i ELSE pLastLog[e]
WasEmptyButOne(q) == ringSpace(q) = EVENTQUESIZE - 1

SlotFree(q) == evque[q][putix[q]] = NoEvent
LastLog(e, i) == IF byValue[e] THEN i ELSE pLastLog[e]
WasEmpty(q) == ringSpace(q) = EVENTQUESIZE

PostPush(e) ==
    LET q == ev_que[e]
        i == putix[q]
    IN
    /\ Posting(e)
    /\ ~Ignores(e) /\ ~Replaces(e) /\ SlotFree(q)
    /\ evque' = [evque EXCEPT ![q][i] = e]
    /\ valque' = [valque EXCEPT ![q][i] = IF byValue[e] THEN val ELSE @]
    /\ pLastLog' = [pLastLog EXCEPT ![e] = LastLog(e, i)]
    /\ nDuplicates' = [nDuplicates EXCEPT ![q] = IF npend[e] > 0 THEN @ + 1 ELSE @]
    /\ npend' = [npend EXCEPT ![e] = @ + 1]
    /\ wake' = WasEmpty(q)
    /\ putix' = [putix EXCEPT ![q] = RNGINC(i)]
    /\ sent' = [sent EXCEPT ![e] = val]
    /\ UNCHANGED queovr

\* "this should never occur if this is bug free": the event is lost
PostOverflow(e) ==
    /\ Posting(e)
    /\ ~Ignores(e) /\ ~Replaces(e) /\ ~SlotFree(ev_que[e])
    /\ queovr' = TRUE
    /\ UNCHANGED <<evque, valque, putix, nDuplicates, pending, wake, sent>>

PostSignal ==
    /\ wake
    /\ ppendsem' = TRUE
    /\ wake' = FALSE
    /\ UNCHANGED <<queues, chain, pending, blocks, pSuicideEvent, flowCtrlMode,
                   pflush_sem, queovr, pendexit, task, calls, poster, todo,
                   values>>

\* mlok and the scan lock are released
PostDone ==
    /\ poster # NoThread
    /\ todo = {} /\ ~wake
    /\ poster' = NoThread
    /\ cpc' = [c \in Callers |-> IF c = poster THEN "enable" ELSE cpc[c]]
    /\ UNCHANGED <<queues, chain, pending, blocks, pSuicideEvent, flowCtrlMode,
                   sems, queovr, pendexit, task, cev, cque, todo, wake, values>>
-----------------------------------------------------------------------------
(* db_cancel_event *)

\* db_event_disable; nobody else cancels the same event
CancelEvent(c) ==
    /\ Free(c)
    /\ ListFree
    /\ \E e \in Events :
        /\ ev_que[e] # NoQueue /\ \A d \in Callers : cev[d] # e
        /\ cev' = [cev EXCEPT ![c] = e]
        /\ enabled' = [enabled EXCEPT ![e] = FALSE]
    /\ Goto(c, "cancel")
    /\ UNCHANGED <<queues, chain, pending, ev_que, user_sub, byValue,
                   callBackInProgress, pSuicideEvent, flowCtrlMode, sems,
                   queovr, pendexit, task, cque, posting, values>>

\* quota is given back and the block goes to the free list.
Release(c) ==
    LET e == cev[c] IN
    /\ quota' = [quota EXCEPT ![ev_que[e]] = @ - EVENTENTRIES]
    /\ ev_que' = [ev_que EXCEPT ![e] = NoQueue]
    /\ byValue' = [byValue EXCEPT ![e] = FALSE]
    /\ sent' = [sent EXCEPT ![e] = 0]
    /\ seen' = [seen EXCEPT ![e] = 0]
    /\ live' = IF e = event THEN FALSE ELSE live
    /\ Finish(c)

\* Fault: the canceller does not wait for a callback in progress.
MustWaitNever(c) == FALSE
\* The event task does not wait for itself.
MustWait(c) == c # Task /\ callBackInProgress[cev[c]]

\* The event's entries become placeholders.
CancelPurge(c) ==
    LET e == cev[c]
        q == ev_que[e]
    IN
    /\ cpc[c] = "cancel"
    /\ QueueFree(q)
    /\ user_sub' = [user_sub EXCEPT ![e] = FALSE]
    /\ evque' = [evque EXCEPT ![q] =
                    [i \in Slots |-> IF @[i] = e THEN CanceledEvent ELSE @[i]]]
    /\ valque' = [valque EXCEPT ![q] =
                    [i \in Slots |-> IF evque[q][i] = e THEN 0 ELSE @[i]]]
    /\ nCanceled' = [nCanceled EXCEPT ![q] = @ + npend[e]]
    /\ nDuplicates' = [nDuplicates EXCEPT ![q] =
                            IF npend[e] > 1 THEN @ - (npend[e] - 1) ELSE @]
    /\ npend' = [npend EXCEPT ![e] = 0]
    /\ pLastLog' = [pLastLog EXCEPT ![e] = NoSlot]
    /\ pSuicideEvent' = IF c = Task THEN e ELSE pSuicideEvent
    /\ \/ /\ MustWait(c)
          /\ Goto(c, "cancel_wait")
          /\ UNCHANGED <<quota, ev_que, byValue, sent, seen, live,
                         cev, cque>>
       \/ ~MustWait(c) /\ Release(c)
    /\ UNCHANGED <<putix, getix, chain, callBackInProgress, enabled,
                   flowCtrlMode, sems, queovr, pendexit, tpc, tque, event, fl, posting, val>>

\* epicsEventMustWait(pflush_sem) returns
CancelWait(c) ==
    /\ cpc[c] = "cancel_wait"
    /\ pflush_sem
    /\ pflush_sem' = FALSE
    /\ Goto(c, "cancel_check")
    /\ UNCHANGED <<queues, chain, pending, blocks, pSuicideEvent, flowCtrlMode,
                   ppendsem, queovr, pendexit, task, cev, cque, posting, values>>

CancelCheck(c) ==
    /\ cpc[c] = "cancel_check"
    /\ QueueFree(ev_que[cev[c]])
    /\ \/ /\ callBackInProgress[cev[c]]
          /\ Goto(c, "cancel_wait")
          /\ UNCHANGED <<quota, ev_que, byValue, sent, seen, live,
                         cev, cque>>
       \/ ~callBackInProgress[cev[c]] /\ Release(c)
    /\ UNCHANGED <<evque, valque, putix, getix, nDuplicates, nCanceled, chain,
                   pending, user_sub, callBackInProgress, enabled,
                   pSuicideEvent, flowCtrlMode, sems, queovr, pendexit, tpc,
                   tque, event, fl, posting, val>>

-----------------------------------------------------------------------------
(* db_event_flow_ctrl_mode_on and _off, db_close_events *)

FlowCtrl(c) ==
    /\ FlowControl
    /\ Free(c) /\ c # Task
    /\ flowCtrlMode' = ~flowCtrlMode
    /\ Goto(c, "signal")
    /\ UNCHANGED <<queues, chain, pending, blocks, pSuicideEvent, sems, queovr,
                   pendexit, task, cev, cque, posting, values>>

\* Fault: the event task is not signalled.
ClosingUnsignalled(c) == pendexit' = TRUE /\ Goto(c, "idle")
Closing(c) == pendexit' = TRUE /\ Goto(c, "signal")

\* The caller has canceled its events.
CloseEvents(c) ==
    /\ Free(c) /\ c # Task
    /\ \A e \in Events : ev_que[e] = NoQueue
    /\ \A d \in Callers : cpc[d] = "idle"
    /\ poster = NoThread
    /\ Closing(c)
    /\ UNCHANGED <<queues, chain, pending, blocks, pSuicideEvent, flowCtrlMode,
                   sems, queovr, task, cev, cque, posting, values>>

\* "notify the event handler task"
CallerSignal(c) ==
    /\ cpc[c] = "signal"
    /\ ppendsem' = TRUE
    /\ Finish(c)
    /\ UNCHANGED <<queues, chain, pending, blocks, pSuicideEvent, flowCtrlMode,
                   pflush_sem, queovr, pendexit, task, posting,
                   values>>

-----------------------------------------------------------------------------
(* event_task and event_read *)

TaskWake ==
    /\ tpc = "wait"
    /\ ppendsem
    /\ ppendsem' = FALSE
    /\ tpc' = "enter" /\ tque' = 1
    /\ UNCHANGED <<queues, chain, pending, blocks, pSuicideEvent, flowCtrlMode,
                   pflush_sem, queovr, pendexit, event, fl, live,
                   calls, posting, values>>

\* event_read returns: the next queue of the chain, or the end of the pass
NextQueue ==
    IF nextque[tque] = NoQueue THEN tpc' = "pass" /\ tque' = 1
    ELSE tpc' = "enter" /\ tque' = nextque[tque]

\* the queue is locked; in flow control only duplicates make it read
ReadEnter ==
    /\ tpc = "enter"
    /\ IF flowCtrlMode /\ nDuplicates[tque] = 0 THEN NextQueue
       ELSE tpc' = "read" /\ UNCHANGED tque
    /\ UNCHANGED <<queues, chain, pending, blocks, pSuicideEvent, flowCtrlMode,
                   sems, queovr, pendexit, event, fl, live, calls,
                   posting, values>>

AtSlot == evque[tque][getix[tque]]
TakeSlot ==
    /\ evque' = [evque EXCEPT ![tque][getix[tque]] = NoEvent]
    /\ valque' = [valque EXCEPT ![tque][getix[tque]] = 0]
    /\ getix' = [getix EXCEPT ![tque] = RNGINC(@)]

ReadCanceled ==
    /\ tpc = "read"
    /\ AtSlot = CanceledEvent
    /\ TakeSlot
    /\ nCanceled' = [nCanceled EXCEPT ![tque] = @ - 1]
    /\ UNCHANGED <<putix, quota, nDuplicates, chain, pending, blocks,
                   pSuicideEvent, flowCtrlMode, sems, queovr, pendexit, task,
                   calls, posting, values>>

\* event_remove of e, which leaves the ring at slot getix
Removed(e) ==
    /\ npend' = [npend EXCEPT ![e] = @ - 1]
    /\ pLastLog' = [pLastLog EXCEPT ![e] = IF npend[e] = 1 THEN NoSlot ELSE @]
    /\ nDuplicates' = [nDuplicates EXCEPT ![tque] =
                            IF npend[e] = 1 THEN @ ELSE @ - 1]

\* The entry is taken out of the ring and the writelock released.
ReadTake ==
    /\ tpc = "read"
    /\ AtSlot \in Events
    /\ TakeSlot
    /\ Removed(AtSlot)
    /\ event' = AtSlot
    /\ fl' = valque[tque][getix[tque]]
    /\ IF user_sub[AtSlot]
       THEN /\ callBackInProgress' = [callBackInProgress EXCEPT ![AtSlot] = TRUE]
            /\ tpc' = "call" /\ live' = TRUE
       ELSE UNCHANGED <<callBackInProgress, tpc, live>>
    /\ UNCHANGED <<putix, quota, nCanceled, chain, ev_que, user_sub, byValue,
                   enabled, pSuicideEvent, flowCtrlMode, sems, queovr,
                   pendexit, tque, calls, posting, values>>

ReadEnd ==
    /\ tpc = "read"
    /\ AtSlot = NoEvent
    /\ NextQueue
    /\ UNCHANGED <<queues, chain, pending, blocks, pSuicideEvent, flowCtrlMode,
                   sems, queovr, pendexit, event, fl, live, calls,
                   posting, values>>

\* The subscriber gets the value queued, or under the scan lock the value the
\* record has.
Call ==
    /\ tpc = "call"
    /\ tpc' = "callback"
    /\ ~byValue[event] => poster = NoThread
    /\ seen' = [seen EXCEPT ![event] = IF byValue[event] THEN fl ELSE val]
    /\ fl' = 0
    /\ UNCHANGED <<queues, chain, pending, blocks, pSuicideEvent, flowCtrlMode,
                   sems, queovr, pendexit, tque, event, live, calls, posting,
                   val, sent>>

\* Fault: the end of a callback is not told to a canceller.
CallReturnsQuietly(e) == FALSE
\* The event was canceled during its callback.
CallReturnsFlush(e) == ~user_sub[e] /\ npend[e] = 0

\* The callback returns and the queue is locked again.
CallReturns ==
    /\ tpc = "callback"
    /\ Task \in Callers => cpc[Task] = "idle"
    /\ IF pSuicideEvent = event
       THEN pSuicideEvent' = NoEvent /\ UNCHANGED <<callBackInProgress, pflush_sem>>
       ELSE /\ callBackInProgress' = [callBackInProgress EXCEPT ![event] = FALSE]
            /\ pflush_sem' = (pflush_sem \/ CallReturnsFlush(event))
            /\ UNCHANGED pSuicideEvent
    /\ tpc' = "read" /\ event' = NoEvent /\ live' = FALSE
    /\ UNCHANGED <<queues, chain, pending, ev_que, user_sub, byValue, enabled,
                   flowCtrlMode, ppendsem, queovr, pendexit, tque, fl,
                   calls, posting, values>>

\* The overflow is reported; the task exits or waits again.
PassDone ==
    /\ tpc = "pass"
    /\ queovr' = FALSE
    /\ tpc' = IF pendexit THEN "done" ELSE "wait"
    /\ UNCHANGED <<queues, chain, pending, blocks, pSuicideEvent, flowCtrlMode,
                   sems, pendexit, tque, event, fl, live, calls,
                   posting, values>>

-----------------------------------------------------------------------------
AddNext(c) ==
    \/ AddFind(c) \/ AddQueue(c) \/ AddFails(c) \/ AddChain(c) \/ AddQuota(c)
    \/ PostFirst(c) \/ EnableEvent(c)
CancelNext(c) == CancelPurge(c) \/ CancelWait(c) \/ CancelCheck(c)
CallerNext(c) == AddNext(c) \/ CancelNext(c) \/ CallerSignal(c)

PostNext ==
    \/ \E e \in Events :
        PostIgnored(e) \/ PostReplace(e) \/ PostPush(e) \/ PostOverflow(e)
    \/ PostSignal \/ PostDone

TaskNext ==
    \/ TaskWake \/ ReadEnter \/ ReadCanceled \/ ReadTake \/ ReadEnd \/ Call
    \/ CallReturns \/ PassDone

Next ==
    \/ \E c \in Callers :
        \/ AddEvent(c) \/ CancelEvent(c) \/ FlowCtrl(c) \/ CloseEvents(c)
        \/ CallerNext(c)
    \/ PostEvents \/ PostNext
    \/ TaskNext

Spec == Init /\ [][Next]_vars

\* Threads are scheduled, callbacks return, and a thread that waits for a
\* mutex that is released again and again gets it.
Fairness ==
    /\ SF_vars(TaskNext)
    /\ SF_vars(PostNext)
    /\ \A c \in Callers : SF_vars(CallerNext(c))

FairSpec == Spec /\ Fairness

-----------------------------------------------------------------------------
(* Properties *)

CallLabels == {"idle", "walk", "chain", "quota", "first", "post", "enable",
               "cancel", "cancel_wait", "cancel_check", "signal"}
TaskLabels == {"wait", "enter", "read", "call", "callback", "pass", "done"}

\* The variables keep the types of the code's structures: indices stay inside
\* the arrays, and the counters, unsigned in the code, never go below zero.
Types ==
    /\ evque \in [Queues -> [Slots -> Events \cup {NoEvent, CanceledEvent}]]
    /\ valque \in [Queues -> [Slots -> 0..MaxVal]]
    /\ putix \in [Queues -> Slots] /\ getix \in [Queues -> Slots]
    /\ nextque \in [Queues -> Queues \cup {NoQueue}] /\ made \subseteq Queues
    /\ ev_que \in [Events -> Queues \cup {NoQueue}]
    /\ pLastLog \in [Events -> Slots \cup {NoSlot}]
    /\ user_sub \in [Events -> BOOLEAN] /\ byValue \in [Events -> BOOLEAN]
    /\ callBackInProgress \in [Events -> BOOLEAN]
    /\ enabled \in [Events -> BOOLEAN]
    /\ pSuicideEvent \in Events \cup {NoEvent}
    /\ {flowCtrlMode, ppendsem, pflush_sem, queovr, pendexit, wake,
        live} \subseteq BOOLEAN
    /\ tpc \in TaskLabels /\ tque \in Queues
    /\ event \in Events \cup {NoEvent} /\ fl \in 0..MaxVal
    /\ cpc \in [Callers -> CallLabels] /\ cev \in [Callers -> Events \cup {NoEvent}]
    /\ cque \in [Callers -> Queues \cup {NoQueue}]
    /\ poster \in Callers \cup {Scan, NoThread} /\ todo \subseteq Events
    /\ val \in 1..MaxVal
    /\ sent \in [Events -> 0..MaxVal] /\ seen \in [Events -> 0..MaxVal]

TypeOK ==
    /\ Types
    /\ quota \in [Queues -> Nat]
    /\ nDuplicates \in [Queues -> Nat] /\ nCanceled \in [Queues -> Nat]
    /\ npend \in [Events -> Nat]

Used(q) == EVENTQUESIZE - ringSpace(q)
\* the place of a slot, counted from the one to be read next
Offset(q, i) == (i - getix[q]) % EVENTQUESIZE
Entries(q, x) == {i \in Slots : evque[q][i] = x}

\* The entries between getix and putix are all in use and no other is: a
\* reader that stops at the first empty slot has read everything.
Contiguous(q) ==
    \A i \in Slots : evque[q][i] # NoEvent <=> Offset(q, i) < Used(q)

\* npend, nCanceled and pLastLog tell the truth about the ring.
Counted ==
    /\ \A q \in Queues : nCanceled[q] = Cardinality(Entries(q, CanceledEvent))
    /\ \A e \in Events, q \in Queues :
            Cardinality(Entries(q, e)) = IF q = ev_que[e] THEN npend[e] ELSE 0
    /\ \A e \in Events : (byValue[e] /\ npend[e] > 0) =>
            LET q == ev_que[e] IN
            /\ evque[q][pLastLog[e]] = e
            /\ \A i \in Entries(q, e) : Offset(q, i) <= Offset(q, pLastLog[e])

\* nDuplicates is the number of entries beyond the first of each event, which
\* is what flow control goes by.
DuplicatesCounted ==
    \A q \in Queues :
        nDuplicates[q] + Cardinality({e \in Events : Entries(q, e) # {}})
            = Cardinality({i \in Slots : evque[q][i] \in Events})

\* The ring buffer of every queue is in order whenever its lock is free, and no
\* counter has gone below zero.
RingInOrder ==
    TypeOK /\ (\A q \in Queues : Contiguous(q)) /\ Counted /\ DuplicatesCounted

\* When db_cancel_event has returned to another thread, no callback of the
\* subscription is running or about to run; and a block on the free list is
\* in no ring.
NoCallbackAfterCancel ==
    /\ (tpc = "call" \/ (tpc = "callback" /\ live)) => ev_que[event] # NoQueue
    /\ \A q \in Queues, e \in Events :
            ev_que[e] = NoQueue => Entries(q, e) = {}

\* A subscriber never gets an older value after a newer one, although posts
\* overwrite entries that the event task is reading towards.
DeliveredInOrder ==
    [][\A e \in Events :
            (ev_que[e] # NoQueue /\ ev_que'[e] # NoQueue) => seen'[e] >= seen[e]]_vars

\* db_add_event puts a new queue on the list, where the event task finds it, if
\* threads do not subscribe at the same time.
OnChain(q) ==
    \/ q = 1
    \/ \E p \in made : nextque[p] = q
    \/ \E c \in Callers : cpc[c] = "chain" /\ ev_que[cev[c]] = q

\* A post replaces nothing but an older value of the same subscription: until
\* the subscription is canceled, the last value posted has been delivered or is
\* on its way, in a queue that the event task reads (queovr is nonzero after an
\* overflow).
NothingLost ==
    \A e \in Events : (ev_que[e] # NoQueue /\ user_sub[e] /\ ~queovr) =>
        \/ seen[e] >= sent[e]
        \/ npend[e] > 0 /\ OnChain(ev_que[e])
        \/ tpc = "call" /\ event = e

\* Every value posted is delivered or replaced by a later one, unless the
\* subscription is canceled or the client is in flow control.
PostsDelivered ==
    \A e \in Events : \A v \in 1..MaxVal :
        (ev_que[e] # NoQueue /\ sent[e] = v) ~>
            (seen[e] >= v \/ ev_que[e] = NoQueue \/ flowCtrlMode)

\* db_cancel_event waits on a semaphore that all cancellers of the event_user
\* share (pflush_sem): while a canceller waits, its callback is still in progress
\* or there is a signal to wake it, unless another canceller takes that signal.
\* The end of its callback never goes by without one.
Told(c) == callBackInProgress[cev[c]] \/ pflush_sem
FlushComes ==
    [][\A c \in Callers :
        (cpc[c] = "cancel_wait" /\ cpc'[c] = "cancel_wait" /\ Told(c)) =>
            \/ Told(c)'
            \/ \E d \in Callers \ {c} :
                    cpc[d] = "cancel_wait" /\ cpc'[d] = "cancel_check"]_vars

\* After db_close_events the event task ends.
CloseEnds == pendexit ~> tpc = "done"

\* dbEvent.c: callBackInProgress "provides a way to test to see if an event is
\* in use": db_cancel_event waits for the end of a callback that runs, and for
\* no other.
InUseFlagTrue ==
    \A e \in Events : (ev_que[e] # NoQueue /\ callBackInProgress[e]) =>
        tpc \in {"call", "callback"} /\ event = e
-----------------------------------------------------------------------------
(* The inductive invariant *)

Adding == {"chain", "quota", "first", "post", "enable"}
Canceling == {"cancel", "cancel_wait", "cancel_check"}

\* What a caller has, by where it is.
CallerOwns(c) ==
    /\ cev[c] = NoEvent <=> cpc[c] \in {"idle", "signal"}
    /\ cpc[c] = "walk" => ev_que[cev[c]] = NoQueue /\ cque[c] # NoQueue
    /\ cpc[c] \in Adding => ev_que[cev[c]] # NoQueue
    /\ cpc[c] = "chain" => cque[c] # NoQueue
    /\ cpc[c] \in Canceling => ev_que[cev[c]] # NoQueue /\ ~enabled[cev[c]]
    /\ cpc[c] \in {"cancel_wait", "cancel_check"} => npend[cev[c]] = 0 /\ ~user_sub[cev[c]]
    /\ cpc[c] = "post" <=> poster = c
    /\ c = Task => /\ cpc[c] # "idle" => tpc = "callback"
                   /\ cpc[c] \notin {"cancel_wait", "cancel_check"}

\* A post under way is for a block that nobody cancels.
PostOwned(e) ==
    /\ ev_que[e] # NoQueue
    /\ \/ poster = Scan /\ enabled[e]
       \/ poster \in Callers /\ cev[poster] = e

BlockKept(e) ==
    /\ enabled[e] => ev_que[e] # NoQueue
    /\ ev_que[e] = NoQueue => npend[e] = 0 /\ sent[e] = 0 /\ seen[e] = 0

\* One thread at a time has a block that is being added or canceled, and no
\* post goes to a block that is canceled or free.
CallsOwn ==
    /\ \A c \in Callers : CallerOwns(c)
    /\ \A c, d \in Callers : cev[c] = cev[d] /\ cev[c] # NoEvent => c = d
    /\ \A e \in Events : BlockKept(e)
    /\ \A e \in todo : PostOwned(e)
    /\ poster = NoThread => todo = {} /\ ~wake

\* The callback that is about to run, or runs, holds off a canceller.
InCallback ==
    /\ tpc = "call" => event # NoEvent /\ ev_que[event] # NoQueue /\ callBackInProgress[event]
    /\ tpc = "callback" => event # NoEvent
    /\ tpc = "callback" /\ live => ev_que[event] # NoQueue /\ callBackInProgress[event]

\* The blocks whose quota is counted in their queue.
Charged(q) ==
    {e \in Events : ev_que[e] = q /\ \A c \in Callers : cev[c] = e => cpc[c] \notin {"chain", "quota"}}
QuotaCounted == \A q \in Queues : quota[q] = EVENTENTRIES * Cardinality(Charged(q))

\* Where a post finds its slot in use the ring is full.
FullRing == \A q \in Queues : evque[q][putix[q]] # NoEvent => putix[q] = getix[q]

LastLogInRing ==
    \A e \in Events : byValue[e] /\ npend[e] > 0 => pLastLog[e] \in Slots

\* The values of a subscription lie in its queue from old to new: what was seen,
\* what is being delivered, the entries, and at last what was posted last.
ValuesInOrder ==
    \A e \in Events :
        /\ seen[e] <= val /\ sent[e] <= val
        /\ byValue[e] /\ ev_que[e] # NoQueue =>
            LET q == ev_que[e] IN
            /\ \A i, j \in Entries(q, e) :
                Offset(q, i) <= Offset(q, j) => valque[q][i] <= valque[q][j]
            /\ \A i \in Entries(q, e) : seen[e] <= valque[q][i] /\ valque[q][i] <= val
            /\ npend[e] > 0 => valque[q][pLastLog[e]] >= sent[e]
            /\ tpc = "call" /\ event = e =>
                /\ seen[e] <= fl /\ fl <= val
                /\ \A i \in Entries(q, e) : fl <= valque[q][i]
                /\ npend[e] = 0 /\ user_sub[e] => fl >= sent[e]

IInv == RingInOrder /\ CallsOwn /\ InCallback /\ QuotaCounted /\ FullRing
    /\ LastLogInRing /\ ValuesInOrder

\* With one subscriber at a time, its new queue is on the list before it looks
\* again.
ChainKept ==
    /\ 1 \in made
    /\ \A q \in Queues \ made : nextque[q] = NoQueue
    /\ \A q \in made : nextque[q] \in made \cup {NoQueue} /\ OnChain(q)
    /\ \A e \in Events : ev_que[e] # NoQueue => ev_que[e] \in made
    /\ \A c \in Callers :
        /\ cpc[c] \in {"walk", "chain"} => cque[c] \in made
        /\ cpc[c] = "chain" => nextque[cque[c]] = NoQueue /\ ev_que[cev[c]] # 1
=============================================================================
