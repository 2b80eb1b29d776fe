------------------------------ MODULE DbNotify ------------------------------
(***************************************************************************)
(* base/src/db/dbNotify.c: puts that end when every record they set going  *)
(* has finished, and that compete for records.  A record belongs to one    *)
(* put at a time (ppn); other puts on it queue on its restart list, and    *)
(* the callback task starts them again when it is their turn.  Forward     *)
(* links are followed as dbProcess and recGblFwdLink do.                   *)
(*                                                                         *)
(* A step is what a thread does from dbScanLock to dbScanUnlock: the       *)
(* records here are of one lock set.  Each put has one user, a thread that *)
(* starts it, and may cancel it or start it again once told that it ended. *)
(***************************************************************************)
EXTENDS Integers, Sequences, SequencesExt, FiniteSets

CONSTANTS
    Records,
    Puts,
    NoPut,
    Target,     \* record of each put
    Chain,      \* the records forward links lead to from a record, itself first
    Async       \* records whose device may answer later

ASSUME DbNotifyAssumption ==
    /\ NoPut \notin Puts
    /\ Target \in [Puts -> Records]
    /\ Async \subseteq Records
    /\ \A r \in Records : Chain[r] \in Seq(Records) /\ Chain[r] # <<>> /\ Chain[r][1] = r

VARIABLES
    notify,     \* what pnotifyGlobal->lock protects, a record of
                \*   ppn, restartList      of each record
                \*   state, waitList       of each put; "none": no private part
                \*   callbackQ             callbacks requested, of all puts
                \*   failed                an assertion of dbNotify.c failed
    pact,       \* records that wait for their device
    cancelWait, userCallbackWait, cancelEvent, userCallbackEvent,
    pc,         \* of the user of each put
    cpc         \* the put whose user callback the callback task runs

waits == <<cancelWait, userCallbackWait>>
events == <<cancelEvent, userCallbackEvent>>
vars == <<notify, pact, waits, events, pc, cpc>>

States == {"none", "NotActive", "WaitForRestart", "RestartCallbackRequested",
           "RestartInProgress", "PutInProgress", "UserCallbackRequested",
           "UserCallbackActive"}

Init ==
    /\ notify = [ppn |-> [r \in Records |-> NoPut],
                 restartList |-> [r \in Records |-> <<>>],
                 state |-> [p \in Puts |-> "none"],
                 waitList |-> [p \in Puts |-> <<>>],
                 callbackQ |-> <<>>,
                 failed |-> FALSE]
    /\ pact = [r \in Records |-> FALSE]
    /\ cancelWait = [p \in Puts |-> FALSE]
    /\ userCallbackWait = [p \in Puts |-> FALSE]
    /\ cancelEvent = [p \in Puts |-> FALSE]
    /\ userCallbackEvent = [p \in Puts |-> FALSE]
    /\ pc = [p \in Puts |-> "idle"]
    /\ cpc = NoPut

-----------------------------------------------------------------------------
(* The routines that run under pnotifyGlobal->lock, on notify *)

Asserted(n, condition) == [n EXCEPT !.failed = @ \/ ~condition]
OnWaitList(n, r) == \E p \in Puts : Contains(n.waitList[p], r)
SetState(n, p, s) == [n EXCEPT !.state[p] = s]
SetOwner(n, r, p) == [n EXCEPT !.ppn[r] = p]
callbackRequest(n, p) == [n EXCEPT !.callbackQ = Append(@, p)]

\* ellSafeAdd and ellSafeDelete of the record's waitNode
AddWait(n, p, r) ==
    [Asserted(n, ~OnWaitList(n, r)) EXCEPT !.waitList[p] = Append(@, r)]
DeleteWait(n, p, r) ==
    [Asserted(n, OnWaitList(n, r)) EXCEPT !.waitList[p] = RemoveFirst(@, r)]

\* Fault: the record is left without an owner though puts wait for it.
restartCheckForgets(n, r) == SetOwner(n, r, NoPut)
\* The record's put gives it up: to the first put that waits for it, if any.
restartCheck(n, r) ==
    IF n.restartList[r] = <<>>
    THEN SetOwner(Asserted(n, n.ppn[r] # NoPut), r, NoPut)
    ELSE LET p == Head(n.restartList[r])
             a == Asserted(n, n.ppn[r] # NoPut /\ n.state[p] = "WaitForRestart")
         IN  callbackRequest([a EXCEPT !.restartList[r] = Tail(@), !.ppn[r] = p,
                                       !.state[p] = "RestartCallbackRequested"], p)

Adds(n, from, to, active) ==
    /\ ~active[to]
    /\ n.ppn[to] = NoPut
    /\ n.state[n.ppn[from]] = "PutInProgress"
    /\ to # Target[n.ppn[from]]

\* dbScanPassive calls it before it processes the record a link leads to.
dbNotifyAdd(n, from, to, active) ==
    IF n.ppn[from] # NoPut /\ Adds(n, from, to, active)
    THEN AddWait(SetOwner(n, to, n.ppn[from]), n.ppn[from], to)
    ELSE n

Waits(n, p) == n.state[p] \in {"RestartInProgress", "PutInProgress"}

\* Called for a record that has finished and has a put.
dbNotifyCompletion(n, r) ==
    LET p == n.ppn[r]
        a == DeleteWait(n, p, r)
        \* what follows when the last record of a put has finished
        ended == IF n.state[p] = "PutInProgress"
                 THEN restartCheck(SetState(a, p, "UserCallbackRequested"), r)
                 ELSE SetState(a, p, "RestartCallbackRequested")
    IN  IF p = NoPut \/ ~Waits(n, p) THEN n
        ELSE IF a.waitList[p] # <<>> THEN restartCheck(a, r)
        ELSE callbackRequest(ended, p)

-----------------------------------------------------------------------------
(* Processing: down the forward links to the first record that is active,  *)
(* or whose device answers later, and back up through those that finished. *)
(* A run is the records c on the way and the index stop at which it halts. *)

\* A link may be disabled, so the chain may end at any record of it.
Paths(r) == {SubSeq(Chain[r], 1, m) : m \in 1 .. Len(Chain[r])}

\* c[1] to c[stop - 1] finish; from: the first that is processed
Stops(c, from) ==
    {i \in from .. Len(c) + 1 :
        /\ \A j \in from .. i - 1 : ~pact[c[j]]
        /\ i = Len(c) + 1 \/ pact[c[i]] \/ c[i] \in Async}
Runs(r, from) == UNION {{c} \X Stops(c, from) : c \in Paths(r)}

\* Fault: a record is added before the test whether the link processes it.
LinkedNext(run) ==
    LET all == Chain[run[1][1]]
    IN  SubSeq(all, 1, IF run[2] < Len(all) THEN run[2] + 1 ELSE Len(all))
\* the records that forward links lead to and that are processed
Linked(run) ==
    LET c == run[1] IN SubSeq(c, 1, IF run[2] < Len(c) THEN run[2] ELSE Len(c))

\* n after the links from c[1] to the last record of c were followed
Added(n, c) ==
    LET down[i \in 0 .. Len(c) - 1] ==
            IF i = 0 THEN n ELSE dbNotifyAdd(down[i - 1], c[i], c[i + 1], pact)
    IN  down[Len(c) - 1]
\* n after c[k] to c[1] have finished
Completed(n, c, k) ==
    LET up[i \in 0 .. k] ==
            IF i = 0 THEN n ELSE dbNotifyCompletion(up[i - 1], c[k + 1 - i])
    IN  up[k]
\* n and pact after the run from state n
Followed(n, run) == Completed(Added(n, Linked(run)), run[1], run[2] - 1)
Activated(run, finished) ==
    [r \in Records |-> \/ run[2] <= Len(run[1]) /\ r = run[1][run[2]]
                       \/ pact[r] /\ r \notin finished]

dbProcess(n, r) ==
    \E run \in Runs(r, 1) :
        /\ notify' = Followed(n, run)
        /\ pact' = Activated(run, {})

\* A scan task, a CA put or another record processes r.
Scan(r) ==
    /\ ~pact[r]
    /\ dbProcess(notify, r)
    /\ UNCHANGED <<waits, events, pc, cpc>>

\* The device of r answers: the record is processed again and finishes.
DeviceAnswers(r) ==
    /\ pact[r]
    /\ \E run \in Runs(r, 2) :
        /\ notify' = Followed(notify, run)
        /\ pact' = Activated(run, {r})
    /\ UNCHANGED <<waits, events, pc, cpc>>

-----------------------------------------------------------------------------
(* Puts *)

MustQueue(n, p) ==
    n.ppn[Target[p]] # NoPut /\ n.state[p] # "RestartCallbackRequested"

\* another put has the record
CommonWait(n, p) ==
    /\ MustQueue(n, p)
    /\ notify' = SetState([n EXCEPT !.restartList[Target[p]] = Append(@, p)],
                          p, "WaitForRestart")
    /\ UNCHANGED pact

\* the record waits for its device: put and process when it has finished
CommonActive(n, p) ==
    /\ ~MustQueue(n, p)
    /\ pact[Target[p]]
    /\ notify' = SetState(AddWait(SetOwner(n, Target[p], p), p, Target[p]),
                          p, "RestartInProgress")
    /\ UNCHANGED pact

CommonProcess(n, p) ==
    /\ ~MustQueue(n, p)
    /\ ~pact[Target[p]]
    /\ dbProcess(SetState(AddWait(SetOwner(n, Target[p], p), p, Target[p]),
                          p, "PutInProgress"), Target[p])

\* dbPut failed, or the field processes nothing
CommonDone(n, p) ==
    /\ ~MustQueue(n, p)
    /\ ~pact[Target[p]]
    /\ notify' = LET a == IF n.state[p] = "RestartCallbackRequested"
                          THEN restartCheck(n, Target[p]) ELSE n
                 IN  Asserted(SetState(a, p, "UserCallbackActive"),
                            a.ppn[Target[p]] # p)
    /\ UNCHANGED pact

\* dbPutNotify of the user's thread: the put is initialized, then common.
Begin(n, p) ==
    LET i == SetState(n, p, "NotActive")
    IN  \/ /\ CommonWait(i, p) \/ CommonActive(i, p) \/ CommonProcess(i, p)
           /\ pc' = [pc EXCEPT ![p] = "busy"]
        \/ /\ CommonDone(i, p)
           /\ pc' = [pc EXCEPT ![p] = "calling"]

dbPutNotify(p) ==
    /\ pc[p] = "idle"
    /\ notify.state[p] = "none"
    /\ Begin(notify, p)
    /\ UNCHANGED <<waits, events, cpc>>

\* The user was told and starts again before callUser has finished.
PutWait(p) ==
    /\ pc[p] = "idle"
    /\ notify.state[p] # "none"
    /\ notify' = Asserted(notify, notify.state[p] = "UserCallbackActive")
    /\ userCallbackWait' = [userCallbackWait EXCEPT ![p] = TRUE]
    /\ pc' = [pc EXCEPT ![p] = "blocked"]
    /\ UNCHANGED <<pact, cancelWait, events, cpc>>

PutWaited(p) ==
    /\ pc[p] = "blocked"
    /\ userCallbackEvent[p]
    /\ userCallbackEvent' = [userCallbackEvent EXCEPT ![p] = FALSE]
    /\ Begin(notify, p)
    /\ UNCHANGED <<waits, cancelEvent, cpc>>

-----------------------------------------------------------------------------
(* The callback task *)

Callback(p) == cpc = NoPut /\ notify.callbackQ # <<>> /\ Head(notify.callbackQ) = p

\* notify when notifyCallback has the locks, with its assertions
Taken(p) ==
    Asserted([notify EXCEPT !.callbackQ = Tail(@)],
           /\ notify.state[p] \in {"RestartCallbackRequested", "UserCallbackRequested"}
           /\ notify.waitList[p] = <<>>)

\* Fault: a put that is canceled keeps the record that was given to it.
GivesUpNever(p) == FALSE
GivesUp(p) == notify.state[p] = "RestartCallbackRequested"

\* a cancel waits: let it go on
CallbackCanceled(p) ==
    /\ Callback(p)
    /\ cancelWait[p]
    /\ notify' = IF GivesUp(p) THEN restartCheck(Taken(p), Target[p]) ELSE Taken(p)
    /\ cancelEvent' = [cancelEvent EXCEPT ![p] = TRUE]
    /\ UNCHANGED <<pact, waits, userCallbackEvent, pc, cpc>>

Told(p) == pc' = [pc EXCEPT ![p] = IF @ = "busy" THEN "idle" ELSE @]

\* the record was given to the put: start it again
CallbackRestart(p) ==
    /\ Callback(p)
    /\ ~cancelWait[p]
    /\ notify.state[p] = "RestartCallbackRequested"
    /\ \/ /\ CommonWait(Taken(p), p) \/ CommonActive(Taken(p), p) \/ CommonProcess(Taken(p), p)
          /\ UNCHANGED <<pc, cpc>>
       \/ /\ CommonDone(Taken(p), p)
          /\ Told(p)
          /\ cpc' = p
    /\ UNCHANGED <<waits, events>>

\* the put has ended: tell the user
CallbackUser(p) ==
    /\ Callback(p)
    /\ ~cancelWait[p]
    /\ notify.state[p] = "UserCallbackRequested"
    /\ notify' = Asserted(SetState(Taken(p), p, "UserCallbackActive"),
                        notify.ppn[Target[p]] # p)
    /\ Told(p)
    /\ cpc' = p
    /\ UNCHANGED <<pact, waits, events>>

-----------------------------------------------------------------------------
(* callUser after the user callback has returned *)

\* Fault: the canceller is not signalled.
SignalsNever(p) == FALSE
Signals(p) == cancelWait[p]

CalledEnd(p) ==
    LET both == cancelWait[p] /\ userCallbackWait[p]
    IN  /\ cancelWait' = [cancelWait EXCEPT ![p] = FALSE]
        /\ userCallbackWait' = [userCallbackWait EXCEPT ![p] = FALSE]
        /\ cancelEvent' = [cancelEvent EXCEPT ![p] = @ \/ (~both /\ Signals(p))]
        /\ userCallbackEvent' = [userCallbackEvent EXCEPT ![p] =
               @ \/ (~both /\ userCallbackWait[p])]
        /\ notify' = IF both \/ ~(cancelWait[p] \/ userCallbackWait[p])
                     THEN SetState(notify, p, "none") ELSE notify
        /\ UNCHANGED pact

\* of the user's own thread, which is then told
UserCalled(p) ==
    /\ pc[p] = "calling"
    /\ CalledEnd(p)
    /\ pc' = [pc EXCEPT ![p] = "idle"]
    /\ UNCHANGED cpc

CallbackCalled ==
    /\ cpc # NoPut
    /\ CalledEnd(cpc)
    /\ cpc' = NoPut
    /\ UNCHANGED pc

-----------------------------------------------------------------------------
(* dbNotifyCancel of the user's thread *)

CallbackPending(p) ==
    notify.state[p] \in {"UserCallbackRequested", "RestartCallbackRequested",
                         "UserCallbackActive"}

CancelWait(p) ==
    /\ pc[p] \in {"idle", "busy"}
    /\ CallbackPending(p)
    /\ cancelWait' = [cancelWait EXCEPT ![p] = TRUE]
    /\ pc' = [pc EXCEPT ![p] = "cancel"]
    /\ UNCHANGED <<notify, pact, userCallbackWait, events, cpc>>

CancelWaited(p) ==
    /\ pc[p] = "cancel"
    /\ cancelEvent[p]
    /\ cancelEvent' = [cancelEvent EXCEPT ![p] = FALSE]
    /\ notify' = SetState(notify, p, "none")
    /\ cancelWait' = [cancelWait EXCEPT ![p] = FALSE]
    /\ pc' = [pc EXCEPT ![p] = "idle"]
    /\ UNCHANGED <<pact, userCallbackWait, userCallbackEvent, cpc>>

CancelQueued(p) ==
    /\ pc[p] \in {"idle", "busy"}
    /\ notify.state[p] = "WaitForRestart"
    /\ notify' = SetState([Asserted(notify, notify.ppn[Target[p]] \notin {NoPut, p})
                           EXCEPT !.restartList[Target[p]] = RemoveFirst(@, p)], p, "none")
    /\ pc' = [pc EXCEPT ![p] = "idle"]
    /\ UNCHANGED <<pact, waits, events, cpc>>

\* "Take all records out of wait list"
TakenOut(n, p) ==
    LET list == n.waitList[p]
        out[i \in 0 .. Len(list)] ==
            IF i = 0 THEN n
            ELSE restartCheck(DeleteWait(out[i - 1], p, list[i]), list[i])
    IN  out[Len(list)]

CancelRecords(p) ==
    /\ pc[p] \in {"idle", "busy"}
    /\ notify.state[p] \in {"RestartInProgress", "PutInProgress"}
    /\ notify' =
        LET n == TakenOut(notify, p)
        IN  SetState(IF n.ppn[Target[p]] = p THEN restartCheck(n, Target[p]) ELSE n,
                     p, "none")
    /\ pc' = [pc EXCEPT ![p] = "idle"]
    /\ UNCHANGED <<pact, waits, events, cpc>>

-----------------------------------------------------------------------------
Next ==
    \/ \E r \in Records : Scan(r) \/ DeviceAnswers(r)
    \/ \E p \in Puts :
        \/ dbPutNotify(p) \/ PutWait(p) \/ PutWaited(p)
        \/ CallbackCanceled(p) \/ CallbackRestart(p) \/ CallbackUser(p)
        \/ UserCalled(p)
        \/ CancelWait(p) \/ CancelWaited(p) \/ CancelQueued(p) \/ CancelRecords(p)
    \/ CallbackCalled

\* Devices answer, callbacks return, the callback task runs.
Fairness ==
    /\ \A r \in Records : WF_vars(DeviceAnswers(r))
    /\ \A p \in Puts :
        /\ WF_vars(PutWaited(p)) /\ WF_vars(CancelWaited(p)) /\ WF_vars(UserCalled(p))
        /\ WF_vars(CallbackCanceled(p) \/ CallbackRestart(p) \/ CallbackUser(p))
    /\ WF_vars(CallbackCalled)

Spec == Init /\ [][Next]_vars /\ Fairness

-----------------------------------------------------------------------------
(* Properties *)

Notifies ==
    [ppn : [Records -> Puts \cup {NoPut}], restartList : [Records -> Seq(Puts)],
     state : [Puts -> States], waitList : [Puts -> Seq(Records)],
     callbackQ : Seq(Puts), failed : BOOLEAN]

TypeOK ==
    /\ notify \in Notifies
    /\ IsInjective(notify.callbackQ)
    /\ pact \in [Records -> BOOLEAN]
    /\ cancelWait \in [Puts -> BOOLEAN] /\ userCallbackWait \in [Puts -> BOOLEAN]
    /\ cancelEvent \in [Puts -> BOOLEAN] /\ userCallbackEvent \in [Puts -> BOOLEAN]
    /\ pc \in [Puts -> {"idle", "busy", "blocked", "calling", "cancel"}]
    /\ cpc \in Puts \cup {NoPut}

\* No assertion of dbNotify.c fails, and a cancel and a new put never wait for
\* the same user callback ("both cancelWait and userCallbackWait true").
AssertionsHold ==
    /\ ~notify.failed
    /\ \A p \in Puts : ~(cancelWait[p] /\ userCallbackWait[p])

\* Records and puts agree on who has what: the records a put waits for are its
\* own, no put waits for a record that nobody has, a put whose turn has come
\* has its record, a finished one has none, and the callback task has a
\* callback for each put that counts on one.  The assertions of dbNotify.c say
\* parts of it.
OwnersTrue ==
    /\ TypeOK /\ AssertionsHold
    /\ \A p \in Puts : \A i \in DOMAIN notify.waitList[p] :
        notify.ppn[notify.waitList[p][i]] = p
    /\ \A r \in Records : notify.restartList[r] # <<>> => notify.ppn[r] # NoPut
    /\ \A p \in Puts :
        /\ (notify.state[p] = "WaitForRestart")
               <=> (\E r \in Records : Contains(notify.restartList[r], p))
        /\ notify.state[p] = "RestartCallbackRequested" /\ ~cancelEvent[p]
               => notify.ppn[Target[p]] = p
        /\ (\E r \in Records : notify.ppn[r] = p)
               => notify.state[p] \in {"RestartCallbackRequested", "RestartInProgress",
                                       "PutInProgress"}
        /\ (/\ notify.state[p] \in {"RestartCallbackRequested", "UserCallbackRequested"}
            /\ ~cancelEvent[p])
               <=> Contains(notify.callbackQ, p)

\* A put in progress waits for a record only while that record is active:
\* otherwise nothing would ever take it off the list.
WaitsForActive ==
    \A p \in Puts : \A i \in DOMAIN notify.waitList[p] : pact[notify.waitList[p][i]]

\* A put ends, its user told or canceling it, whatever other puts do to its
\* record; only a record that is active again each time the turn of one of
\* its puts comes can hold it up.
PutEnds ==
    \A p \in Puts :
        \/ pc[p] \in {"busy", "blocked"} ~> pc[p] = "idle"
        \/ []<>(pact[Target[p]] /\ \E q \in Puts :
                   Target[q] = Target[p] /\ notify.state[q] = "RestartCallbackRequested")

\* dbNotifyCancel returns.
CancelReturns == \A p \in Puts : pc[p] = "cancel" ~> pc[p] = "idle"

-----------------------------------------------------------------------------
(* The inductive invariant, for the proofs.  Its parts on records and puts  *)
(* hold of each state n that notify goes through within a step, as well; A  *)
(* are the records that are active or being processed, E the puts whose     *)
(* callback does not come again, F the records that are being given up.     *)

\* A put waits for the records it has while it is in progress.
WaitsTrue(n, A, F) ==
    \A p \in Puts :
        /\ IsInjective(n.waitList[p])
        /\ \A r \in Records : r \in ToSet(n.waitList[p]) <=>
            n.ppn[r] = p /\ r \notin F /\ Waits(n, p)
        /\ ToSet(n.waitList[p]) \subseteq A

\* Puts that wait for a record are on its restart list, and it has a put.
RestartsTrue(n) ==
    \A r \in Records :
        /\ IsInjective(n.restartList[r])
        /\ \A p \in Puts : p \in ToSet(n.restartList[r]) <=>
            Target[p] = r /\ n.state[p] = "WaitForRestart"
        /\ n.restartList[r] # <<>> => n.ppn[r] # NoPut

\* Who has a record: a put whose turn has come or that waits for it.
PutsTrue(n, E, F) ==
    /\ \A r \in Records \ F : n.ppn[r] # NoPut =>
        \/ n.state[n.ppn[r]] = "PutInProgress"
        \/ /\ n.state[n.ppn[r]] \in {"RestartCallbackRequested", "RestartInProgress"}
           /\ Target[n.ppn[r]] = r
    /\ \A p \in Puts : n.state[p] = "RestartCallbackRequested" =>
        (p \notin E <=> n.ppn[Target[p]] = p /\ Target[p] \notin F)

\* The callback task has a callback for each put that counts on one.
CallbacksTrue(n, E) ==
    /\ IsInjective(n.callbackQ)
    /\ \A p \in Puts : p \in ToSet(n.callbackQ) <=>
        p \notin E /\ n.state[p] \in {"RestartCallbackRequested", "UserCallbackRequested"}
    /\ \A p \in Puts : p \in E =>
        n.state[p] \in {"RestartCallbackRequested", "UserCallbackRequested",
                       "UserCallbackActive"}

Agrees(n, A, E, F) ==
    /\ n \in Notifies /\ ~n.failed
    /\ WaitsTrue(n, A, F) /\ RestartsTrue(n) /\ PutsTrue(n, E, F) /\ CallbacksTrue(n, E)

\* What the user of a put does fits the state of the put, and what it waits
\* for is on its way.
UserTrue(p, s) ==
    /\ cancelWait[p] \/ cancelEvent[p] => pc[p] = "cancel"
    /\ userCallbackWait[p] \/ userCallbackEvent[p] => pc[p] = "blocked"
    /\ cpc = p => s = "UserCallbackActive" /\ pc[p] \in {"idle", "blocked", "cancel"}
    /\ pc[p] = "idle" => s = "none" \/ cpc = p
    /\ pc[p] = "busy" => s \in {"WaitForRestart", "RestartCallbackRequested",
                                "RestartInProgress", "PutInProgress", "UserCallbackRequested"}
    /\ pc[p] \in {"calling", "blocked"} => s = "UserCallbackActive"
    /\ pc[p] = "blocked" => (userCallbackWait[p] <=> cpc = p) /\ (userCallbackEvent[p] <=> cpc # p)
    /\ pc[p] = "cancel" =>
        \/ s \in {"RestartCallbackRequested", "UserCallbackRequested"} /\ cancelWait[p]
        \/ s = "UserCallbackActive" /\ (cancelWait[p] <=> cpc = p) /\ (cancelEvent[p] <=> cpc # p)

Active == {r \in Records : pact[r]}
Canceled == {p \in Puts : cancelEvent[p]}

IInv ==
    /\ TypeOK
    /\ Agrees(notify, Active, Canceled, {})
    /\ \A p \in Puts : UserTrue(p, notify.state[p])
=============================================================================
