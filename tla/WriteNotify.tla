----------------------------- MODULE WriteNotify -----------------------------
(***************************************************************************)
(* Put callbacks of one CA server circuit: write_notify_action and what it *)
(* sets in motion in base/src/rsrv/camessage.c and caservertask.c, the     *)
(* extra labor interface of base/src/db/dbEvent.c that carries the reply,  *)
(* and base/src/db/dbNotify.c for puts that do not compete for a record.   *)
(*                                                                         *)
(* Three threads: the client's thread (camsgtask) reads requests and may   *)
(* clear a channel or close; the callback thread runs the user callback of *)
(* a put that is complete, as the client's thread does for a put that      *)
(* processes nothing; the event task sends the replies.                    *)
(*                                                                         *)
(* An action is one critical section of putNotifyLock, of evUser->lock or  *)
(* of pnotifyGlobal->lock, one wait, or one access outside the locks.      *)
(***************************************************************************)
EXTENDS Integers, FiniteSets, Sequences, SequencesExt

CONSTANTS
    Channels,
    NoChannel,
    MaxRequests     \* bound: write notify requests of the client

ASSUME WriteNotifyAssumption ==
    /\ IsFiniteSet(Channels)
    /\ NoChannel \notin Channels
    /\ MaxRequests \in Nat

Requests == 1..MaxRequests
\* threads that run user callbacks
Runners == {"client", "callback"}

VARIABLES
    pPutNotify,     \* per channel: "null", "allocated" or "freed"
    busy, onExtraLaborQueue, msg,
                    \* its fields; msg is the number of the request served
    state, cancelWait, userCallbackWait,
                    \* dbNotify's private structure; "none" is a null pointer
    cancelEvent, userCallbackEvent,
    requested,      \* the callback task has a callback for the put
    putNotifyQue, blockSem,
                    \* of the client
    extra_labor, extralabor_sub, extraLaborBusy, ppendsem, pendexit,
                    \* event_user fields; extralabor_sub is TRUE if not NULL
    asked, replies, \* per channel: requests read; replies to each request
    open,           \* channels in the client's addrq
    pc, pch, next,  \* client's thread: label, channel, label after a cancel
    upc, uch,       \* user callback of each runner: label and channel
    callUser,       \* it was called from callUser, not for a disabled put
    tpc, tmsg, ret  \* event task: label, reply to send, label after labor

notifies == <<pPutNotify, busy, onExtraLaborQueue, msg, putNotifyQue>>
puts == <<state, cancelWait, userCallbackWait, cancelEvent, userCallbackEvent,
          requested>>
labor == <<extra_labor, extralabor_sub, extraLaborBusy>>
sems == <<blockSem, ppendsem, pendexit>>
history == <<asked, replies, open>>
client == <<pc, pch, next>>
users == <<upc, uch, callUser>>
task == <<tpc, tmsg, ret>>
vars == <<notifies, puts, labor, sems, history, client, users, task>>

Reply(ch, n) == replies' = [replies EXCEPT ![ch][n] = @ + 1]
Closing == ~extralabor_sub

Init ==
    /\ pPutNotify = [ch \in Channels |-> "null"]
    /\ busy = [ch \in Channels |-> FALSE]
    /\ onExtraLaborQueue = [ch \in Channels |-> FALSE]
    /\ msg = [ch \in Channels |-> 0] /\ putNotifyQue = <<>>
    /\ state = [ch \in Channels |-> "none"]
    /\ cancelWait = [ch \in Channels |-> FALSE]
    /\ userCallbackWait = [ch \in Channels |-> FALSE]
    /\ cancelEvent = [ch \in Channels |-> FALSE]
    /\ userCallbackEvent = [ch \in Channels |-> FALSE]
    /\ requested = [ch \in Channels |-> FALSE]
    /\ extra_labor = FALSE /\ extralabor_sub = TRUE /\ extraLaborBusy = FALSE
    /\ blockSem = FALSE /\ ppendsem = FALSE /\ pendexit = FALSE
    /\ asked = [ch \in Channels |-> 0]
    /\ replies = [ch \in Channels |-> [n \in Requests |-> 0]]
    /\ open = Channels
    /\ pc = "idle" /\ pch = NoChannel /\ next = "idle"
    /\ upc = [r \in Runners |-> "none"]
    /\ uch = [r \in Runners |-> NoChannel]
    /\ callUser = [r \in Runners |-> FALSE]
    /\ tpc = "wait" /\ tmsg = <<NoChannel, 0>> /\ ret = "idle"

-----------------------------------------------------------------------------
(* write_notify_action *)

\* the requests read
Asked == {r \in Channels \X Requests : r[2] <= asked[r[1]]}

WriteNotify ==
    /\ pc = "idle"
    /\ \E ch \in open :
        /\ Cardinality(Asked) < MaxRequests
        /\ asked' = [asked EXCEPT ![ch] = @ + 1]
        /\ pch' = ch
        /\ pPutNotify' = [pPutNotify EXCEPT ![ch] = "allocated"]
        /\ pc' = IF pPutNotify[ch] = "null" THEN "start" ELSE "serialize"
    /\ UNCHANGED <<busy, onExtraLaborQueue, msg, putNotifyQue, puts, labor,
                   sems, replies, open, next, users, task>>

\* Fault: puts of a channel are not serialized.
MustBlockNever(ch) == FALSE
MustBlock(ch) == busy[ch]

\* "serialize concurrent put notifies"
Serialize ==
    /\ pc = "serialize"
    /\ pc' = IF MustBlock(pch) THEN "block" ELSE "start"
    /\ UNCHANGED <<notifies, puts, labor, sems, history, pch, next, users, task>>

BlockWake ==
    /\ pc = "block"
    /\ blockSem
    /\ blockSem' = FALSE
    /\ pc' = "serialize"
    /\ UNCHANGED <<notifies, puts, labor, ppendsem, pendexit, history, pch,
                   next, users, task>>

\* 60 seconds have passed; "if any possibility of put notify still running
\* then cancel it"
BlockTimeout ==
    /\ pc = "block"
    /\ pc' = IF busy[pch] THEN "cancel" ELSE "expire"
    /\ next' = "expire"
    /\ UNCHANGED <<notifies, puts, labor, sems, history, pch, users, task>>

\* Fault: the put is not taken off the reply queue.
DequeuedNot(ch) == putNotifyQue
Dequeued(ch) == IF onExtraLaborQueue[ch] THEN RemoveFirst(putNotifyQue, ch)
                ELSE putNotifyQue

\* Fault: the put is answered even if it has been answered.
ExpiresAnyway(ch) == TRUE
Expires(ch) == busy[ch]

\* "put call back time out", unless the reply was taken meanwhile
Expire ==
    /\ pc = "expire"
    /\ pc' = "serialize"
    /\ IF Expires(pch)
       THEN /\ putNotifyQue' = Dequeued(pch)
            /\ busy' = [busy EXCEPT ![pch] = FALSE]
            /\ Reply(pch, msg[pch])
       ELSE UNCHANGED <<putNotifyQue, busy, replies>>
    /\ UNCHANGED <<pPutNotify, onExtraLaborQueue, msg, puts, labor, sems,
                   asked, open, pch, next, users, task>>

Kept(ch) == asked[ch]

Start ==
    /\ pc = "start"
    /\ onExtraLaborQueue' = [onExtraLaborQueue EXCEPT ![pch] = FALSE]
    /\ msg' = [msg EXCEPT ![pch] = Kept(pch)]
    /\ \/ /\ busy' = [busy EXCEPT ![pch] = TRUE]
          /\ pc' = "put"
          /\ UNCHANGED <<replies, pch>>
       \/ \* dbPutNotifyMapType fails
          /\ Reply(pch, asked[pch])
          /\ pc' = "idle" /\ pch' = NoChannel
          /\ UNCHANGED busy
    /\ UNCHANGED <<pPutNotify, putNotifyQue, puts, labor, sems, asked, open,
                   next, users, task>>

-----------------------------------------------------------------------------
(* dbPutNotify, dbNotifyCompletion, notifyCallback, callUser, dbNotifyCancel *)

\* Runner r calls write_notify_call_back for channel ch.
CallBack(r, ch, user) ==
    /\ upc' = [upc EXCEPT ![r] = "add"]
    /\ uch' = [uch EXCEPT ![r] = ch]
    /\ callUser' = [callUser EXCEPT ![r] = user]

\* The put is made.  The record is processed, or else the user is called.
PutCommon ==
    /\ cancelWait' = [cancelWait EXCEPT ![pch] = FALSE]
    /\ userCallbackWait' = [userCallbackWait EXCEPT ![pch] = FALSE]
    /\ \/ /\ state' = [state EXCEPT ![pch] = "PutInProgress"]
          /\ pc' = "idle" /\ pch' = NoChannel
          /\ UNCHANGED users
       \/ /\ state' = [state EXCEPT ![pch] = "UserCallbackActive"]
          /\ CallBack("client", pch, TRUE)
          /\ pc' = "called" /\ UNCHANGED pch

\* the record's DISP field is set, or the field is a link
PutDisabled ==
    /\ pc = "put"
    /\ CallBack("client", pch, FALSE)
    /\ pc' = "called"
    /\ UNCHANGED <<notifies, puts, labor, sems, history, pch, next, task>>

Put ==
    /\ pc = "put"
    /\ state[pch] = "none"
    /\ PutCommon
    /\ UNCHANGED <<notifies, cancelEvent, userCallbackEvent, requested, labor,
                   sems, history, next, task>>

\* The user callback of the last put has not returned to dbNotify.
PutWait ==
    /\ pc = "put"
    /\ state[pch] # "none"
    /\ userCallbackWait' = [userCallbackWait EXCEPT ![pch] = TRUE]
    /\ pc' = "putwait"
    /\ UNCHANGED <<notifies, state, cancelWait, cancelEvent, userCallbackEvent,
                   requested, labor, sems, history, pch, next, users, task>>

PutWaited ==
    /\ pc = "putwait"
    /\ userCallbackEvent[pch]
    /\ userCallbackEvent' = [userCallbackEvent EXCEPT ![pch] = FALSE]
    /\ PutCommon
    /\ UNCHANGED <<notifies, cancelEvent, requested, labor, sems, history,
                   next, task>>

Completion(ch) ==
    /\ state[ch] = "PutInProgress"
    /\ state' = [state EXCEPT ![ch] = "UserCallbackRequested"]
    /\ requested' = [requested EXCEPT ![ch] = TRUE]
    /\ UNCHANGED <<notifies, cancelWait, userCallbackWait, cancelEvent,
                   userCallbackEvent, labor, sems, history, client, users, task>>

notifyCallback(ch) ==
    /\ upc["callback"] = "none"
    /\ requested[ch]
    /\ requested' = [requested EXCEPT ![ch] = FALSE]
    /\ IF cancelWait[ch]
       THEN /\ cancelEvent' = [cancelEvent EXCEPT ![ch] = TRUE]
            /\ UNCHANGED <<state, users>>
       ELSE /\ state' = [state EXCEPT ![ch] = "UserCallbackActive"]
            /\ CallBack("callback", ch, TRUE)
            /\ UNCHANGED cancelEvent
    /\ UNCHANGED <<notifies, cancelWait, userCallbackWait, userCallbackEvent,
                   labor, sems, history, client, task>>

\* Fault: a canceller is not told that the user callback has returned.
SignalsCancelNot(ch) == FALSE
SignalsCancel(ch) == cancelWait[ch]

\* The user callback returns: to callUser, or to dbPutNotify.
UserEnd(r) ==
    LET ch == uch[r] IN
    /\ upc[r] = "end"
    /\ upc' = [upc EXCEPT ![r] = "none"]
    /\ uch' = [uch EXCEPT ![r] = NoChannel]
    /\ callUser' = [callUser EXCEPT ![r] = FALSE]
    /\ cancelEvent' = [cancelEvent EXCEPT
                            ![ch] = @ \/ (callUser[r] /\ SignalsCancel(ch))]
    /\ userCallbackEvent' = [userCallbackEvent EXCEPT
            ![ch] = @ \/ (callUser[r] /\ ~cancelWait[ch] /\ userCallbackWait[ch])]
    /\ IF callUser[r]
       THEN /\ cancelWait' = [cancelWait EXCEPT ![ch] = FALSE]
            /\ userCallbackWait' = [userCallbackWait EXCEPT ![ch] = FALSE]
            /\ state' = [state EXCEPT ![ch] =
                    IF cancelWait[ch] \/ userCallbackWait[ch] THEN @ ELSE "none"]
       ELSE UNCHANGED <<cancelWait, userCallbackWait, state>>
    /\ IF r = "client" THEN pc' = "idle" /\ pch' = NoChannel
       ELSE UNCHANGED <<pc, pch>>
    /\ UNCHANGED <<notifies, requested, labor, sems, history, next, task>>

NotifyCancel ==
    /\ pc = "cancel"
    /\ IF state[pch] \in {"UserCallbackRequested", "UserCallbackActive"}
       THEN /\ cancelWait' = [cancelWait EXCEPT ![pch] = TRUE]
            /\ pc' = "cancelwait"
            /\ UNCHANGED state
       ELSE /\ state' = [state EXCEPT ![pch] = "none"]
            /\ pc' = next
            /\ UNCHANGED cancelWait
    /\ UNCHANGED <<notifies, userCallbackWait, cancelEvent, userCallbackEvent,
                   requested, labor, sems, history, pch, next, users, task>>

NotifyCancelled ==
    /\ pc = "cancelwait"
    /\ cancelEvent[pch]
    /\ cancelEvent' = [cancelEvent EXCEPT ![pch] = FALSE]
    /\ state' = [state EXCEPT ![pch] = "none"]
    /\ pc' = next
    /\ UNCHANGED <<notifies, cancelWait, userCallbackWait, userCallbackEvent,
                   requested, labor, sems, history, pch, next, users, task>>

-----------------------------------------------------------------------------
(* write_notify_call_back and db_post_extra_labor *)

\* The condition of "Double DB put notify call back!!"
Double(ch) == ~busy[ch] \/ onExtraLaborQueue[ch]

UserAdd(r) ==
    LET ch == uch[r] IN
    /\ upc[r] = "add"
    /\ IF Double(ch)
       THEN /\ upc' = [upc EXCEPT ![r] = "end"]
            /\ UNCHANGED <<putNotifyQue, onExtraLaborQueue>>
       ELSE /\ putNotifyQue' = Append(putNotifyQue, ch)
            /\ onExtraLaborQueue' = [onExtraLaborQueue EXCEPT ![ch] = TRUE]
            /\ upc' = [upc EXCEPT ![r] = "post"]
    /\ UNCHANGED <<pPutNotify, busy, msg, puts, labor, sems, history, client,
                   uch, callUser, task>>

\* Fault: a busy event task is not told of more labor.
PostedIfBusy == extra_labor \/ extraLaborBusy
Posted == extra_labor

UserPost(r) ==
    /\ upc[r] = "post"
    /\ upc' = [upc EXCEPT ![r] = IF Posted THEN "end" ELSE "lock"]
    /\ UNCHANGED <<notifies, puts, labor, sems, history, client, uch,
                   callUser, task>>

UserLock(r) ==
    /\ upc[r] = "lock"
    /\ extra_labor' = TRUE
    /\ upc' = [upc EXCEPT ![r] = IF extra_labor THEN "end" ELSE "signal"]
    /\ UNCHANGED <<notifies, puts, extralabor_sub, extraLaborBusy, sems,
                   history, client, uch, callUser, task>>

UserSignal(r) ==
    /\ upc[r] = "signal"
    /\ ppendsem' = TRUE
    /\ upc' = [upc EXCEPT ![r] = "end"]
    /\ UNCHANGED <<notifies, puts, labor, blockSem, pendexit, history, client,
                   uch, callUser, task>>

-----------------------------------------------------------------------------
(* clear_channel_reply, rsrvFreePutNotify, destroy_tcp_client *)

ClearChannel ==
    /\ pc = "idle"
    /\ \E ch \in open : pch' = ch
    /\ pc' = "release"
    /\ UNCHANGED <<notifies, puts, labor, sems, history, next, users, task>>

\* "turn off extra labor callbacks from the event thread"
Disconnect ==
    /\ pc = "idle"
    /\ extralabor_sub' = FALSE
    /\ pc' = "flush1"
    /\ UNCHANGED <<notifies, puts, extra_labor, extraLaborBusy, sems, history,
                   pch, next, users, task>>

\* db_flush_extra_labor_event
Flush(from, to) ==
    /\ pc = from
    /\ ~extraLaborBusy
    /\ pc' = to

FlushClosing ==
    /\ Flush("flush1", "flush2") \/ Flush("flush2", "closing")
    /\ UNCHANGED <<notifies, puts, labor, sems, history, pch, next, users, task>>

CloseChannel ==
    /\ pc = "closing"
    /\ \E ch \in open : pch' = ch
    /\ pc' = "release"
    /\ UNCHANGED <<notifies, puts, labor, sems, history, next, users, task>>

\* rsrvFreePutNotify: "if any possiblity that the put notify is outstanding
\* then cancel it"
Release ==
    /\ pc = "release"
    /\ pc' = IF busy[pch] THEN "cancel" ELSE "free"
    /\ next' = "free"
    /\ UNCHANGED <<notifies, puts, labor, sems, history, pch, users, task>>

Free ==
    /\ pc = "free"
    /\ IF pPutNotify[pch] = "null" THEN UNCHANGED <<putNotifyQue, pPutNotify>>
       ELSE /\ putNotifyQue' = Dequeued(pch)
            /\ pPutNotify' = [pPutNotify EXCEPT ![pch] = "freed"]
    /\ IF Closing
       THEN open' = open \ {pch} /\ pc' = "closing" /\ pch' = NoChannel
       ELSE pc' = "flush" /\ UNCHANGED <<open, pch>>
    /\ UNCHANGED <<busy, onExtraLaborQueue, msg, puts, labor, sems, asked,
                   replies, next, users, task>>

Cleared ==
    /\ Flush("flush", "idle")
    /\ open' = open \ {pch}
    /\ pch' = NoChannel
    /\ UNCHANGED <<notifies, puts, labor, sems, asked, replies, next, users,
                   task>>

\* db_close_events; the client structure is freed.
Close ==
    /\ pc = "closing"
    /\ open = {}
    /\ pendexit' = TRUE /\ ppendsem' = TRUE
    /\ pc' = "gone"
    /\ UNCHANGED <<notifies, puts, labor, blockSem, history, pch, next, users,
                   task>>

-----------------------------------------------------------------------------
(* event_task without its events, and write_notify_reply *)

Step(from, to) == tpc = from /\ tpc' = to
HasLabor == extra_labor /\ extralabor_sub

\* An event is posted: the task wakes although no labor is.
PostEvent ==
    /\ ~pendexit /\ ~ppendsem
    /\ ppendsem' = TRUE
    /\ UNCHANGED <<notifies, puts, labor, blockSem, pendexit, history, client,
                   users, task>>

TaskWake ==
    /\ Step("wait", "begin")
    /\ ppendsem
    /\ ppendsem' = FALSE
    /\ UNCHANGED <<notifies, puts, labor, blockSem, pendexit, history, client,
                   users, tmsg, ret>>

TaskBusy ==
    /\ Step("begin", "check")
    /\ extraLaborBusy' = TRUE
    /\ UNCHANGED <<notifies, puts, extra_labor, extralabor_sub, sems, history,
                   client, users, tmsg, ret>>

\* the unlocked test, and the test and reset with the lock
TaskCheck ==
    /\ Step("check", IF HasLabor THEN "take" ELSE "unbusy")
    /\ UNCHANGED <<notifies, puts, labor, sems, history, client, users, tmsg, ret>>

TaskTake ==
    /\ Step("take", IF HasLabor THEN "labor" ELSE "unbusy")
    /\ extra_labor' = (extra_labor /\ ~HasLabor)
    /\ ret' = "unbusy"
    /\ UNCHANGED <<notifies, puts, extralabor_sub, extraLaborBusy, sems,
                   history, client, users, tmsg>>

TaskUnbusy ==
    /\ Step("unbusy", "again")
    /\ extraLaborBusy' = FALSE
    /\ UNCHANGED <<notifies, puts, extra_labor, extralabor_sub, sems, history,
                   client, users, tmsg, ret>>

\* the second test, which takes no lock
TaskAgain ==
    /\ Step("again", IF HasLabor THEN "clear" ELSE "events")
    /\ UNCHANGED <<notifies, puts, labor, sems, history, client, users, tmsg, ret>>

TaskClear ==
    /\ Step("clear", "call")
    /\ extra_labor' = FALSE
    /\ UNCHANGED <<notifies, puts, extralabor_sub, extraLaborBusy, sems,
                   history, client, users, tmsg, ret>>

\* A call of a null pointer ends the task.
TaskCall ==
    /\ Step("call", IF extralabor_sub THEN "labor" ELSE "null")
    /\ ret' = "events"
    /\ UNCHANGED <<notifies, puts, labor, sems, history, client, users, tmsg>>

ReplyTake ==
    /\ Step("labor", "reply")
    /\ putNotifyQue # <<>>
    /\ LET ch == Head(putNotifyQue) IN
        /\ putNotifyQue' = Tail(putNotifyQue)
        /\ tmsg' = <<ch, msg[ch]>>
        /\ onExtraLaborQueue' = [onExtraLaborQueue EXCEPT ![ch] = FALSE]
        /\ busy' = [busy EXCEPT ![ch] = FALSE]
    /\ UNCHANGED <<pPutNotify, msg, puts, labor, sems, history, client, users, ret>>

ReplySend ==
    /\ Step("reply", "labor")
    /\ Reply(tmsg[1], tmsg[2])
    /\ tmsg' = <<NoChannel, 0>>
    /\ UNCHANGED <<notifies, puts, labor, sems, asked, open, client, users, ret>>

\* "wakeup the TCP thread if it is waiting for a cb to complete"
ReplyEnd ==
    /\ Step("labor", ret)
    /\ putNotifyQue = <<>>
    /\ blockSem' = TRUE
    /\ UNCHANGED <<notifies, puts, labor, ppendsem, pendexit, history, client,
                   users, tmsg, ret>>

TaskEvents ==
    /\ Step("events", IF pendexit THEN "done" ELSE "wait")
    /\ UNCHANGED <<notifies, puts, labor, sems, history, client, users, tmsg, ret>>

-----------------------------------------------------------------------------
ClientCall == WriteNotify \/ ClearChannel \/ Disconnect
ClientNext ==
    \/ Serialize \/ BlockWake \/ Expire \/ Start
    \/ PutDisabled \/ Put \/ PutWait \/ PutWaited
    \/ NotifyCancel \/ NotifyCancelled
    \/ FlushClosing \/ CloseChannel \/ Release \/ Free \/ Cleared \/ Close
UserNext(r) == UserAdd(r) \/ UserPost(r) \/ UserLock(r) \/ UserSignal(r) \/ UserEnd(r)
CallbackNext == \E ch \in Channels : notifyCallback(ch)
TaskNext ==
    \/ TaskWake \/ TaskBusy \/ TaskCheck \/ TaskTake \/ TaskUnbusy \/ TaskAgain
    \/ TaskClear \/ TaskCall \/ ReplyTake \/ ReplySend \/ ReplyEnd \/ TaskEvents

Next ==
    \/ ClientCall \/ BlockTimeout \/ ClientNext
    \/ \E ch \in Channels : Completion(ch)
    \/ CallbackNext \/ \E r \in Runners : UserNext(r)
    \/ PostEvent \/ TaskNext

Spec == Init /\ [][Next]_vars

\* Threads are scheduled and records complete their processing.  A thread that
\* polls for the end of labor finds a moment without any, labor being bounded.
Fairness ==
    /\ SF_vars(ClientNext) /\ WF_vars(CallbackNext) /\ WF_vars(TaskNext)
    /\ \A ch \in Channels : WF_vars(Completion(ch))
    /\ \A r \in Runners : WF_vars(UserNext(r))

FairSpec == Spec /\ Fairness

-----------------------------------------------------------------------------
(* Properties *)

NotifyTypes ==
    /\ pPutNotify \in [Channels -> {"null", "allocated", "freed"}]
    /\ busy \in [Channels -> BOOLEAN] /\ onExtraLaborQueue \in [Channels -> BOOLEAN]
    /\ msg \in [Channels -> 0..MaxRequests]
    /\ putNotifyQue \in Seq(Channels)

PutTypes ==
    /\ state \in [Channels -> {"none", "PutInProgress", "UserCallbackRequested",
                               "UserCallbackActive"}]
    /\ cancelWait \in [Channels -> BOOLEAN] /\ userCallbackWait \in [Channels -> BOOLEAN]
    /\ cancelEvent \in [Channels -> BOOLEAN] /\ userCallbackEvent \in [Channels -> BOOLEAN]
    /\ requested \in [Channels -> BOOLEAN]

LaborTypes ==
    /\ extra_labor \in BOOLEAN /\ extralabor_sub \in BOOLEAN /\ extraLaborBusy \in BOOLEAN
    /\ blockSem \in BOOLEAN /\ ppendsem \in BOOLEAN /\ pendexit \in BOOLEAN

HistoryTypes ==
    /\ asked \in [Channels -> 0..MaxRequests]
    /\ replies \in [Channels -> [Requests -> Nat]]
    /\ open \subseteq Channels

ClientTypes ==
    /\ pc \in {"idle", "serialize", "block", "cancel", "cancelwait", "expire", "start",
              "put", "putwait", "called", "release", "free", "flush", "flush1",
              "flush2", "closing", "gone"}
    /\ pch \in Channels \cup {NoChannel} /\ next \in {"idle", "expire", "free"}

UserTypes ==
    /\ upc \in [Runners -> {"none", "add", "post", "lock", "signal", "end"}]
    /\ uch \in [Runners -> Channels \cup {NoChannel}]
    /\ callUser \in [Runners -> BOOLEAN]

TaskTypes ==
    /\ tpc \in {"wait", "begin", "check", "take", "labor", "reply", "unbusy", "again",
               "clear", "call", "events", "null", "done"}
    /\ tmsg \in (Channels \X Requests) \cup {<<NoChannel, 0>>}
    /\ ret \in {"idle", "unbusy", "events"}

\* The variables have the types of the code's structures, and the event task
\* replies only to requests there are.
TypeOK ==
    /\ NotifyTypes /\ PutTypes /\ LaborTypes /\ HistoryTypes
    /\ ClientTypes /\ UserTypes /\ TaskTypes

\* A put is in the reply queue exactly when it is complete and not answered,
\* and never when its block has been freed; and what is taken off the queue
\* with a block that is freed is on it.
QueueTrue ==
    /\ TypeOK
    /\ IsInjective(putNotifyQue)
    /\ \A ch \in ToSet(putNotifyQue) : pPutNotify[ch] = "allocated"
    /\ \A ch \in Channels : pPutNotify[ch] = "allocated" =>
            (ch \in ToSet(putNotifyQue) <=> busy[ch] /\ onExtraLaborQueue[ch])
    /\ pc = "free" /\ pPutNotify[pch] # "null" /\ onExtraLaborQueue[pch] =>
            pch \in ToSet(putNotifyQue)

\* No request is answered twice, by the event task and by a timeout; and none
\* is overtaken by the next one on its channel without an answer.
AnsweredOnce ==
    /\ \A ch \in Channels, n \in Requests : replies[ch][n] <= 1
    /\ pc = "start" => \A n \in 1..asked[pch] - 1 :
            replies[pch][n] = 1 \/ tmsg = <<pch, n>>

\* The code's own checks hold: "Double DB put notify call back!!" and "both
\* cancelWait and userCallbackWait true" are never reported, and the asserts
\* on the put's state in dbPutNotify and notifyCallback hold.
ChecksHold ==
    /\ \A r \in Runners : upc[r] = "add" => ~Double(uch[r])
    /\ \A ch \in Channels : ~(cancelWait[ch] /\ userCallbackWait[ch])
    /\ (pc = "put" /\ state[pch] # "none") => state[pch] = "UserCallbackActive"
    /\ \A ch \in Channels : requested[ch] => state[ch] = "UserCallbackRequested"

-----------------------------------------------------------------------------
(* The inductive invariant *)

\* The client's thread is at work on a channel it has in its addrq.
AtWork ==
    /\ pch \in open \cup {NoChannel}
    /\ pch = NoChannel <=> pc \in {"idle", "flush1", "flush2", "closing", "gone"}
    /\ pc \in {"cancel", "cancelwait"} => next \in {"expire", "free"}

\* A block is allocated with the first request and freed with the channel.
BlocksTrue ==
    /\ pc \in {"serialize", "block", "cancel", "cancelwait", "expire", "start", "put",
              "putwait", "called"} => pPutNotify[pch] = "allocated"
    /\ \A ch \in Channels :
        /\ pPutNotify[ch] = "null" => ~busy[ch]
        /\ pPutNotify[ch] = "freed" /\ ch \in open => pc = "flush" /\ pch = ch

\* Runner r is in the user callback, called from callUser; or about to queue.
CallsUser(r, ch) == callUser[r] /\ uch[r] = ch
Adds(r, ch) == upc[r] = "add" /\ uch[r] = ch

\* A user callback that dbNotify knows of is the only one of its put.
UsersTrue ==
    /\ upc["client"] # "none" <=> pc = "called"
    /\ pc = "called" => uch["client"] = pch
    /\ \A r \in Runners :
        /\ uch[r] = NoChannel <=> upc[r] = "none"
        /\ callUser[r] => upc[r] # "none" /\ state[uch[r]] = "UserCallbackActive"
        /\ upc[r] # "none" /\ ~callUser[r] => r = "client"
    /\ \A ch \in Channels, q, r \in Runners :
        (CallsUser(q, ch) /\ CallsUser(r, ch)) \/ (Adds(q, ch) /\ Adds(r, ch)) => q = r

\* Who waits for the end of a user callback waits for one that comes, or its
\* event has been signalled and none comes.
WaitsTrue ==
    /\ \A ch \in Channels :
        /\ requested[ch] => state[ch] = "UserCallbackRequested"
        /\ state[ch] = "UserCallbackRequested" =>
                requested[ch] \/ (pc = "cancelwait" /\ pch = ch)
        /\ cancelWait[ch] => (pc = "cancelwait" /\ pch = ch) \/ state[ch] = "none"
        /\ userCallbackWait[ch] => pc = "putwait" /\ pch = ch
        /\ cancelEvent[ch] => pc = "cancelwait" /\ pch = ch /\ ~requested[ch]
        /\ userCallbackEvent[ch] => pc = "putwait" /\ pch = ch
        /\ cancelEvent[ch] \/ userCallbackEvent[ch] =>
                \A r \in Runners : ~CallsUser(r, ch)
    /\ pc = "cancelwait" => /\ cancelWait[pch] \/ cancelEvent[pch]
                            /\ state[pch] \in {"UserCallbackRequested",
                                               "UserCallbackActive"}
    /\ pc = "putwait" => /\ userCallbackWait[pch] \/ userCallbackEvent[pch]
                         /\ state[pch] = "UserCallbackActive"

\* The put of ch is under way: the user callback is still to queue it.
UnderWay(ch) ==
    \/ state[ch] = "PutInProgress" \/ requested[ch]
    \/ \E r \in Runners : Adds(r, ch)

\* One put of a channel is under way, from when it starts until it is queued.
OneUnderWay ==
    /\ \A ch \in Channels :
        /\ UnderWay(ch) =>
            pPutNotify[ch] = "allocated" /\ busy[ch] /\ ~onExtraLaborQueue[ch]
        /\ onExtraLaborQueue[ch] => busy[ch] \/ (pc \in {"serialize", "start"} /\ pch = ch)
    /\ \A r \in Runners : upc[r] = "add" =>
            state[uch[r]] \in {"none", "UserCallbackActive"}
    /\ pc = "start" => ~busy[pch]
    /\ pc \in {"expire", "free"} => ~UnderWay(pch)
    /\ pc \in {"put", "putwait"} =>
            busy[pch] /\ ~onExtraLaborQueue[pch] /\ ~UnderWay(pch)

\* The client's thread has read the request and not yet started its put.
ToStart(ch) ==
    /\ pch = ch
    /\ \/ pc \in {"serialize", "block", "expire", "start"}
       \/ pc \in {"cancel", "cancelwait"} /\ next = "expire"

\* Request n of ch is not answered yet.
Owed(ch, n) == n > msg[ch] \/ (n = msg[ch] /\ busy[ch]) \/ tmsg = <<ch, n>>

\* A request is owed its reply until that is sent.
RepliesTrue ==
    /\ \A ch \in Channels :
        /\ asked[ch] = msg[ch] + (IF ToStart(ch) THEN 1 ELSE 0)
        /\ busy[ch] => msg[ch] > 0
        /\ \A n \in Requests : replies[ch][n] = IF Owed(ch, n) THEN 0 ELSE 1
    /\ tpc = "reply" <=> tmsg # <<NoChannel, 0>>
    /\ tpc = "reply" => \/ tmsg[2] < msg[tmsg[1]]
                        \/ tmsg[2] = msg[tmsg[1]] /\ ~busy[tmsg[1]]
    /\ tpc \in {"labor", "reply"} => ret # "idle"

IInv ==
    /\ QueueTrue /\ AtWork /\ BlocksTrue /\ UsersTrue /\ WaitsTrue /\ OneUnderWay
    /\ RepliesTrue

-----------------------------------------------------------------------------
\* Every write notify request is answered unless its channel is closed.
RequestAnswered ==
    \A ch \in Channels : \A n \in Requests :
        asked[ch] = n ~> (replies[ch][n] = 1 \/ pPutNotify[ch] = "freed" \/ Closing)

\* A client that clears a channel or closes gets through: it never waits for
\* a callback that waits for it.
CloseEnds == (pc # "idle") ~> pc \in {"idle", "gone"}

\* caservertask.c: destroy_tcp_client turns off "extra labor callbacks from the
\* event thread" and waits "for extra labor in progress": afterwards the event
\* task works for the client no more.
LaborFlushed ==
    (Closing /\ pc \notin {"flush1", "flush2"}) =>
        tpc \notin {"labor", "reply", "null"}
=============================================================================
