-------------------------------- MODULE DbCa --------------------------------
(***************************************************************************)
(* A database link that is a Channel Access client (dbCa.c): the record    *)
(* that owns it reads or writes it and is changed to other links, dbCaTask *)
(* works off the requests, the threads of the CA client library call back  *)
(* with its callback mutex held, and the blocks, caLink, are freed and     *)
(* allocated again.                                                        *)
(*                                                                         *)
(* One action is one section of pca->lock, with the addAction made in it.  *)
(* Whatever a record does, link changes included, it does inside           *)
(* dbScanLock: recordPc.                                                   *)
(*                                                                         *)
(* Left out: the string variants, attributes, access rights, puts without  *)
(* a callback, the scanOnce of CP links (records are processed at any      *)
(* time here), channels that reconnect with another type, the limit on     *)
(* removes, and the end of the IOC.                                        *)
(***************************************************************************)
EXTENDS Naturals, FiniteSets, SequencesExt

CONSTANTS
    CaLinks,        \* the blocks there are
    NoLink

VARIABLES
    input,          \* the link is read; otherwise written
    pvt,            \* plink->value.pv_link.pvt
    pvlOptInpNative,
    pact,           \* the caLink whose put made the record active, or NoLink
    recordPc,       \* "removing": inside dbCaRemoveLink
    removed,        \* the block it removes
    pca,            \* the blocks
    workList, workListEvent,
    taskPc, taskLink, taskAction,   \* dbCaTask, the block it serves
    calls,          \* the callbacks a thread of the client library makes next
    caUser,         \* the block whose user callback that thread runs
    dropped,        \* history: puts that dbCaTask dropped
    owed            \* history: puts whose user callback was not called yet

recordVars == <<pvt, pvlOptInpNative, pact, recordPc, removed>>
workVars == <<pca, workList, workListEvent>>
taskVars == <<taskPc, taskLink, taskAction>>
clientVars == <<calls, caUser>>
history == <<dropped, owed>>
vars == <<input, recordVars, workVars, taskVars, clientVars, history>>

\* A block as dbCalloc leaves it; chan, inflight and subscription are the client
\* library's: the channel, puts not answered yet, and the subscription.
Blank == [used |-> FALSE, plink |-> FALSE, link_action |-> {}, isConnected |-> FALSE,
          pgetNative |-> FALSE, gotInNative |-> FALSE, putCallback |-> FALSE,
          chan |-> "none", inflight |-> 0, subscription |-> "none"]

Actions == {"clear", "connect", "write", "monitor"}

CaLinkAssumption == NoLink \notin CaLinks

FlagTypes ==
    /\ input \in BOOLEAN /\ pvlOptInpNative \in BOOLEAN /\ workListEvent \in BOOLEAN
    /\ {pvt, pact, removed} \subseteq CaLinks \cup {NoLink}
    /\ recordPc \in {"idle", "removing"}
    /\ removed # NoLink <=> recordPc = "removing"
    /\ dropped \subseteq CaLinks /\ owed \subseteq CaLinks

BlockTypes ==
    pca \in [CaLinks -> [used : BOOLEAN, plink : BOOLEAN, link_action : SUBSET Actions,
                         isConnected : BOOLEAN, pgetNative : BOOLEAN,
                         gotInNative : BOOLEAN, putCallback : BOOLEAN,
                         chan : {"none", "disconnected", "connected"},
                         inflight : 0..1, subscription : {"none", "good", "wrong"}]]

\* A block is in the list when it has actions, once.
ListTypes ==
    /\ workList \in Seq(CaLinks) /\ IsInjective(workList)
    /\ \A l \in CaLinks : Contains(workList, l) <=> pca[l].link_action # {}

TaskTypes ==
    /\ taskPc \in {"sleep", "take", "act", "callback", "write", "monitor", "subscribe"}
    /\ taskLink \in CaLinks \cup {NoLink}
    /\ taskLink = NoLink <=> taskPc \in {"sleep", "take"}
    /\ taskAction \in SUBSET Actions

CallTypes ==
    /\ calls \in Seq({"connection", "put", "event"} \X CaLinks)
    /\ caUser \in CaLinks \cup {NoLink}

TypeOK == FlagTypes /\ BlockTypes /\ ListTypes /\ TaskTypes /\ CallTypes

Init ==
    /\ input \in BOOLEAN
    /\ pvt = NoLink /\ pvlOptInpNative = FALSE /\ pact = NoLink
    /\ recordPc = "idle" /\ removed = NoLink
    /\ pca = [l \in CaLinks |-> Blank]
    /\ workList = << >> /\ workListEvent = FALSE
    /\ taskPc = "sleep" /\ taskLink = NoLink /\ taskAction = {}
    /\ calls = << >> /\ caUser = NoLink
    /\ dropped = {} /\ owed = {}

-----------------------------------------------------------------------------
(* Requests to dbCaTask *)

\* Block l becomes b, and actions are requested for it unless it is being
\* cleared.
addAction(l, b, actions) ==
    LET added == IF "clear" \in b.link_action THEN {} ELSE actions
        callAdd == b.link_action = {} /\ added # {}
    IN /\ pca' = [pca EXCEPT ![l] = [b EXCEPT !.link_action = @ \cup added]]
       /\ workList' = IF callAdd THEN Append(workList, l) ELSE workList
       /\ workListEvent' = (workListEvent \/ callAdd)

Becomes(l, b) == pca' = [pca EXCEPT ![l] = b] /\ UNCHANGED <<workList, workListEvent>>

-----------------------------------------------------------------------------
(* The record, in dbScanLock *)

dbCaAddLink(l) ==
    /\ recordPc = "idle" /\ pvt = NoLink /\ ~pca[l].used
    /\ pvt' = l
    /\ addAction(l, [Blank EXCEPT !.used = TRUE, !.plink = TRUE], {"connect"})
    /\ UNCHANGED <<input, pvlOptInpNative, pact, recordPc, removed, taskVars,
                   clientVars, history>>

\* Fault: the action is added before the lock of the block is released.
DetachedEarly(l) == addAction(l, [pca[l] EXCEPT !.plink = FALSE], {"clear"})
Detached(l) == Becomes(l, [pca[l] EXCEPT !.plink = FALSE])

RemoveDetaches ==
    /\ recordPc = "idle" /\ pvt # NoLink
    /\ Detached(pvt)
    /\ recordPc' = "removing" /\ removed' = pvt
    /\ pvt' = NoLink
    /\ UNCHANGED <<input, pvlOptInpNative, pact, taskVars, clientVars, history>>

\* The rest of dbCaRemoveLink, and of the change of the link in dbPutFieldLink.
RemoveClears ==
    /\ recordPc = "removing"
    /\ addAction(removed, pca[removed], {"clear"})
    /\ recordPc' = "idle" /\ removed' = NoLink
    /\ pvlOptInpNative' = FALSE
    /\ pact' = NoLink
    /\ UNCHANGED <<input, pvt, taskVars, clientVars, history>>

\* The first value is asked for when the record first reads the link.
dbCaGetLink ==
    /\ input /\ recordPc = "idle" /\ pvt # NoLink
    /\ pca[pvt].isConnected /\ ~pca[pvt].pgetNative
    /\ pvlOptInpNative' = TRUE
    /\ addAction(pvt, pca[pvt], {"monitor"})
    /\ UNCHANGED <<input, pvt, pact, recordPc, removed, taskVars, clientVars, history>>

MayPut == ~input /\ pvt # NoLink /\ pca[pvt].isConnected

\* dbCaPutLinkCallback; the record stays active until the callback.
PutLink ==
    /\ addAction(pvt, [pca[pvt] EXCEPT !.putCallback = TRUE], {"write"})
    /\ pact' = pvt

\* dbProcess leaves an active record alone.
ProcessPuts ==
    /\ recordPc = "idle" /\ pact = NoLink /\ MayPut
    /\ PutLink
    /\ owed' = owed \cup {pvt}
    /\ UNCHANGED <<input, pvt, pvlOptInpNative, recordPc, removed, taskVars, clientVars,
                   dropped>>

\* The user callback of the put of l processes the record: one that is active
\* is completed, another one puts.
dbCaCallbackProcess(l) ==
    /\ recordPc = "idle"
    /\ IF pact = NoLink /\ MayPut
       THEN PutLink /\ owed' = (owed \ {l}) \cup {pvt}
       ELSE pact' = NoLink /\ owed' = owed \ {l} /\ UNCHANGED workVars
    /\ UNCHANGED <<input, pvt, pvlOptInpNative, recordPc, removed, dropped>>

-----------------------------------------------------------------------------
(* The client library and the callbacks it makes *)

CallbackMutexFree == calls = << >> /\ caUser = NoLink

CallsBack(l, b, callbacks) ==
    /\ CallbackMutexFree
    /\ Becomes(l, b)
    /\ calls' = callbacks
    /\ UNCHANGED <<input, recordVars, taskVars, caUser, history>>

ChannelConnects(l) ==
    /\ pca[l].chan = "disconnected"
    /\ CallsBack(l, [pca[l] EXCEPT !.chan = "connected"], <<<<"connection", l>>>>)

\* What was not answered is answered with ECA_DISCONN.
ChannelDisconnects(l) ==
    /\ pca[l].chan = "connected"
    /\ CallsBack(l, [pca[l] EXCEPT !.chan = "disconnected", !.inflight = 0],
                 Append([i \in 1..pca[l].inflight |-> <<"put", l>>], <<"connection", l>>))

ChannelAnswers(l) ==
    /\ pca[l].chan = "connected" /\ pca[l].inflight > 0
    /\ CallsBack(l, [pca[l] EXCEPT !.inflight = @ - 1], <<<<"put", l>>>>)

\* Events of a wrong type change nothing.
ChannelUpdates(l) ==
    /\ pca[l].chan = "connected" /\ pca[l].subscription = "good"
    /\ CallsBack(l, pca[l], <<<<"event", l>>>>)

\* A callback for a block that was removed does nothing.
CallOf(kind, l) ==
    /\ caUser = NoLink /\ calls # << >> /\ Head(calls) = <<kind, l>>
    /\ calls' = Tail(calls)
    /\ UNCHANGED <<input, recordVars, taskVars, history>>

\* Fault: nothing is requested for a link that was read before.
MonitorAfterNone(l) == {}
MonitorAfter(l) == {a \in {"monitor"} : pvlOptInpNative /\ ~pca[l].pgetNative}

\* A put is never requested again: dbCaPutLinkCallback marks a native one with
\* pvlOptOutString.
connectionCallback(l) ==
    /\ CallOf("connection", l)
    /\ IF ~pca[l].plink THEN UNCHANGED workVars
       ELSE LET conn == pca[l].chan = "connected"
            IN addAction(l, [pca[l] EXCEPT !.isConnected = conn],
                         IF conn THEN MonitorAfter(l) ELSE {})
    /\ UNCHANGED caUser

putCallback(l) ==
    /\ CallOf("put", l)
    /\ IF ~pca[l].plink THEN UNCHANGED <<workVars, caUser>>
       ELSE /\ Becomes(l, [pca[l] EXCEPT !.putCallback = FALSE])
            /\ caUser' = IF pca[l].putCallback THEN l ELSE NoLink

eventCallback(l) ==
    /\ CallOf("event", l)
    /\ IF pca[l].plink THEN Becomes(l, [pca[l] EXCEPT !.gotInNative = TRUE])
                       ELSE UNCHANGED workVars
    /\ UNCHANGED caUser

UserCallback ==
    /\ caUser # NoLink
    /\ dbCaCallbackProcess(caUser)
    /\ caUser' = NoLink
    /\ UNCHANGED <<taskVars, calls>>

-----------------------------------------------------------------------------
(* dbCaTask *)

TaskWakes ==
    /\ taskPc = "sleep" /\ workListEvent
    /\ workListEvent' = FALSE
    /\ taskPc' = "take"
    /\ UNCHANGED <<input, recordVars, pca, workList, taskLink, taskAction, clientVars,
                   history>>

TaskTakes ==
    /\ taskPc = "take"
    /\ IF workList = << >>
       THEN taskPc' = "sleep" /\ UNCHANGED <<workVars, taskLink, taskAction>>
       ELSE LET l == Head(workList)
            IN /\ taskPc' = "act" /\ taskLink' = l /\ taskAction' = pca[l].link_action
               /\ pca' = [pca EXCEPT ![l].link_action = {}]
               /\ workList' = Tail(workList)
               /\ UNCHANGED workListEvent
    /\ UNCHANGED <<input, recordVars, clientVars, history>>

TaskGoes(next) ==
    /\ taskPc' = next
    /\ IF next = "take" THEN taskLink' = NoLink /\ taskAction' = {}
                        ELSE UNCHANGED <<taskLink, taskAction>>
    /\ UNCHANGED <<input, recordVars, clientVars, owed>>

\* Fault: the callback of a put that was not answered is forgotten.
AfterClearForgets(l) == "take"
AfterClear(l) == IF pca[l].putCallback THEN "callback" ELSE "take"

\* ca_clear_channel waits for callbacks that run; the block is freed.
TaskClears ==
    /\ taskPc = "act" /\ "clear" \in taskAction
    /\ CallbackMutexFree \/ pca[taskLink].chan = "none"
    /\ Becomes(taskLink, Blank)
    /\ dropped' = dropped \ {taskLink}
    /\ TaskGoes(AfterClear(taskLink))

TaskCallsBack ==
    /\ taskPc = "callback"
    /\ dbCaCallbackProcess(taskLink)
    /\ taskPc' = "take" /\ taskLink' = NoLink /\ taskAction' = {}
    /\ UNCHANGED clientVars

TaskConnects ==
    /\ taskPc = "act" /\ "clear" \notin taskAction /\ "connect" \in taskAction
    /\ Becomes(taskLink, [pca[taskLink] EXCEPT !.chan = "disconnected"])
    /\ TaskGoes("take")
    /\ UNCHANGED dropped

Connected == pca[taskLink].chan = "connected"
Writes == "write" \in taskAction /\ pca[taskLink].putCallback
Drop == dropped' = IF Writes THEN dropped \cup {taskLink} ELSE dropped

\* Without a connection what was requested is forgotten.
TaskChecks ==
    /\ taskPc = "act" /\ taskAction \cap {"clear", "connect"} = {}
    /\ IF Connected THEN UNCHANGED dropped ELSE Drop
    /\ TaskGoes(IF Connected THEN "write" ELSE "take")
    /\ UNCHANGED workVars

\* putType is zero, and nothing sent, when the callback has been called.
TaskWrites ==
    /\ taskPc = "write"
    /\ IF Writes /\ Connected
       THEN Becomes(taskLink, [pca[taskLink] EXCEPT !.inflight = @ + 1]) /\ UNCHANGED dropped
       ELSE Drop /\ UNCHANGED workVars
    /\ TaskGoes(IF "monitor" \in taskAction THEN "monitor" ELSE "take")

TaskAllocates ==
    /\ taskPc = "monitor"
    /\ Becomes(taskLink, [pca[taskLink] EXCEPT !.pgetNative = TRUE])
    /\ TaskGoes("subscribe")
    /\ UNCHANGED dropped

\* Of a channel that has disconnected meanwhile the type is not known.
TaskSubscribes ==
    /\ taskPc = "subscribe"
    /\ Becomes(taskLink, [pca[taskLink] EXCEPT !.subscription =
                            IF Connected \/ @ = "good" THEN "good" ELSE "wrong"])
    /\ TaskGoes("take")
    /\ UNCHANGED dropped

-----------------------------------------------------------------------------
Record ==
    \/ \E l \in CaLinks : dbCaAddLink(l)
    \/ RemoveDetaches \/ RemoveClears \/ dbCaGetLink \/ ProcessPuts

Client ==
    \/ \E l \in CaLinks :
        \/ ChannelConnects(l) \/ ChannelDisconnects(l) \/ ChannelAnswers(l)
        \/ ChannelUpdates(l)
        \/ connectionCallback(l) \/ putCallback(l) \/ eventCallback(l)
    \/ UserCallback

dbCaTask ==
    \/ TaskWakes \/ TaskTakes \/ TaskClears \/ TaskCallsBack \/ TaskConnects
    \/ TaskChecks \/ TaskWrites \/ TaskAllocates \/ TaskSubscribes

Next == Record \/ Client \/ dbCaTask

Spec == Init /\ [][Next]_vars

-----------------------------------------------------------------------------
\* "It is essential that nothing trys to use a caLink that has been freed"
\* (dbCa.c:96): no list, thread, channel or callback under way leads to one;
\* and a value that arrives has a buffer.
NothingFreed ==
    \A l \in CaLinks :
        /\ \/ l \in {pvt, removed}
           \/ Contains(workList, l)
           \/ taskLink = l /\ taskPc # "callback"
           \/ pca[l].chan # "none"
           \/ \E kind \in {"connection", "put", "event"} : Contains(calls, <<kind, l>>)
           => pca[l].used
        /\ pca[l].gotInNative \/ Contains(calls, <<"event", l>>) => pca[l].pgetNative

TaskLooks == taskPc # "sleep" \/ workListEvent
Requested(l, a) ==
    \/ a \in pca[l].link_action /\ TaskLooks
    \/ taskLink = l /\ a \in taskAction /\ taskPc \in {"act", "write", a}

\* Who is going to call the user callback of l's put, a put that is under way
\* or a callback that has begun.
Callers(l) ==
    {c \in {"put", "client", "task"} :
        \/ c = "put" /\ pca[l].putCallback /\ pca[l].plink
            /\ \/ Requested(l, "write") \/ pca[l].inflight > 0
               \/ Contains(calls, <<"put", l>>) \/ l \in dropped
        \/ c = "put" /\ pca[l].putCallback /\ ~pca[l].plink
            /\ (Requested(l, "clear") \/ removed = l)
        \/ c = "client" /\ caUser = l
        \/ c = "task" /\ taskPc = "callback" /\ taskLink = l}

\* "Thus the users callback will get called exactly once" (dbCa.c:127), whether
\* the put is answered, the channel lost or the link removed; a record that
\* waits for the answer of a put is not completed by that of another.
CalledOnce ==
    /\ \A l \in CaLinks : Cardinality(Callers(l)) = (IF l \in owed THEN 1 ELSE 0)
    /\ pact # NoLink => owed = {pact}

\* A link that a record has read, and that is connected, has its subscription
\* or it is on its way, whatever connections came and went.
MonitorComes ==
    pvt # NoLink /\ pvlOptInpNative /\ pca[pvt].isConnected
    /\ ~Contains(calls, <<"connection", pvt>>)
    => \/ Requested(pvt, "monitor")
       \/ taskLink = pvt /\ taskPc = "subscribe"
       \/ pca[pvt].pgetNative /\ pca[pvt].subscription # "none"

-----------------------------------------------------------------------------
(* The inductive invariant *)

Wants(l, a) ==
    a \in pca[l].link_action \/ (taskLink = l /\ taskPc = "act" /\ a \in taskAction)

\* A block is the record's, or is being removed, or is going to be cleared; when
\* dbCaTask clears it nobody can add to its actions.
BlockTrue(l) ==
    /\ ~pca[l].used => pca[l] = Blank
    /\ pca[l].plink <=> l = pvt
    /\ l \in {pvt, removed} => pca[l].used /\ ~Wants(l, "clear")
    /\ pca[l].used => l \in {pvt, removed} \/ Wants(l, "clear")
    /\ taskLink = l /\ taskPc # "callback" => pca[l].used
    /\ taskLink = l /\ taskPc = "act" /\ "clear" \in taskAction => pca[l].link_action = {}
    /\ taskLink = l /\ "clear" \in taskAction => taskPc \in {"act", "callback"}

\* Nothing else is asked for before the channel exists.
ChannelTrue(l) ==
    /\ pca[l].chan = "none" =>
        /\ ~pca[l].isConnected /\ pca[l].inflight = 0 /\ pca[l].subscription = "none"
        /\ ~pca[l].pgetNative /\ ~pca[l].putCallback /\ l \notin dropped
        /\ ~Wants(l, "write") /\ ~Wants(l, "monitor")
        /\ taskLink = l => taskPc \in {"act", "callback"}
    /\ pca[l].chan # "none" => pca[l].used /\ ~Wants(l, "connect")
    /\ taskLink = l /\ taskPc = "act" /\ "connect" \in taskAction =>
        "connect" \notin pca[l].link_action
    /\ pca[l].inflight > 0 => pca[l].chan = "connected"
    /\ l = pvt /\ pca[l].isConnected =>
        pca[l].chan = "connected" \/ Contains(calls, <<"connection", l>>)

\* The client library makes callbacks for one channel at a time.
CallsTrue ==
    /\ \/ calls = << >>
       \/ \E l \in CaLinks :
            /\ pca[l].chan # "none"
            /\ \/ calls = <<<<"connection", l>>>>
               \/ calls = <<<<"put", l>>>> /\ caUser = NoLink
               \/ calls = <<<<"event", l>>>> /\ caUser = NoLink
               \/ calls = <<<<"put", l>>, <<"connection", l>>>> /\ caUser = NoLink
            /\ caUser \in {NoLink, l}
    /\ caUser # NoLink => pca[caUser].chan # "none"

\* Values have a buffer from the moment a subscription is made.
EventTrue(l) ==
    /\ pca[l].gotInNative \/ Contains(calls, <<"event", l>>) => pca[l].pgetNative
    /\ pca[l].subscription # "none" => pca[l].pgetNative
    /\ taskLink = l /\ taskPc = "subscribe" => pca[l].pgetNative
    /\ pca[l].pgetNative =>
        pca[l].subscription # "none" \/ (taskLink = l /\ taskPc = "subscribe")

\* Where a put is that was not answered: in one place only.
WriteQueued(l) == "write" \in pca[l].link_action
WriteTaken(l) == taskLink = l /\ taskPc \in {"act", "write"} /\ "write" \in taskAction
InFlight(l) == pca[l].inflight > 0
Answered(l) == Contains(calls, <<"put", l>>)

PutTrue(l) ==
    /\ WriteQueued(l) => ~WriteTaken(l) /\ ~InFlight(l) /\ ~Answered(l) /\ l \notin dropped
    /\ WriteTaken(l) => ~InFlight(l) /\ ~Answered(l) /\ l \notin dropped
    /\ InFlight(l) => ~Answered(l) /\ l \notin dropped
    /\ Answered(l) => l \notin dropped
    /\ WriteQueued(l) \/ WriteTaken(l) \/ InFlight(l) \/ Answered(l) \/ l \in dropped =>
        pca[l].putCallback
    /\ pca[l].putCallback /\ l = pvt =>
        /\ pact = l
        /\ WriteQueued(l) \/ WriteTaken(l) \/ InFlight(l) \/ Answered(l) \/ l \in dropped

OwedOf(l) ==
    /\ l \in owed <=>
        pca[l].putCallback \/ caUser = l \/ (taskPc = "callback" /\ taskLink = l)
    /\ pca[l].putCallback => caUser # l /\ ~(taskPc = "callback" /\ taskLink = l)
    /\ caUser = l => ~(taskPc = "callback" /\ taskLink = l)
    /\ l = pvt /\ pca[l].isConnected => owed \subseteq {pact}

LinkTrue ==
    \A l \in CaLinks :
        BlockTrue(l) /\ ChannelTrue(l) /\ EventTrue(l) /\ PutTrue(l) /\ OwedOf(l)

ActiveOwed == pact # NoLink => owed = {pact}

Before(seq, l, k) == \A i, j \in DOMAIN seq : seq[i] = l /\ seq[j] = k => i < j

\* The blocks of former links are cleared before that of the link is connected.
OrderTrue ==
    /\ recordPc = "removing" => pvt = NoLink
    /\ pvt # NoLink =>
        /\ \A l \in CaLinks \ {pvt} : pca[l].used =>
            "connect" \in pca[pvt].link_action /\ Before(workList, l, pvt)
        /\ taskPc = "callback" => "connect" \in pca[pvt].link_action

WorkSeen == workList # << >> => TaskLooks

IInv ==
    /\ TypeOK /\ LinkTrue /\ CallsTrue /\ ActiveOwed /\ OrderTrue /\ WorkSeen /\ MonitorComes
=============================================================================
