------------------------------ MODULE Sequencer ------------------------------
(***************************************************************************)
(* A state program of the sequencer (seq_task.c, seq_ca.c, seq_efSet of    *)
(* seq_if.c): state sets, each with a thread of its own that sleeps until  *)
(* something its state listens to happens, callbacks of the client library *)
(* that wake them, and seqStop, which ends the program and frees it.       *)
(*                                                                         *)
(* seqWakeup walks over the state sets without a lock, while they change   *)
(* their states and masks.  Event conditions and flags are under caSemId,  *)
(* callbacks that write values are not.                                    *)
(*                                                                         *)
(* Left out: values, get and put and their completion, queued monitors,    *)
(* clearing of flags, and what a program computes: a condition may be true *)
(* or false whenever it is evaluated.  Actions on entry and exit do what   *)
(* actions do.                                                             *)
(***************************************************************************)
EXTENDS Naturals

CONSTANTS
    NumSS,          \* state sets; the first runs in the program's own thread
    Events,         \* numbers of channels and event flags in masks, from 1
    Channels,       \* those that are channels
    Monitored,      \* those of the channels
    Flags,          \* those that are event flags
    FlagOf(_),      \* the flag synchronized with a channel, or 0
    Masks,          \* of the states
    OptConn,        \* option +c: wait for all channels
    MayStop,        \* whether seqStop is called
    NoHolder

SequencerAssumption ==
    /\ NumSS \in Nat \ {0}
    /\ Monitored \subseteq Channels \cap Events /\ Flags \subseteq Events
    /\ \A c \in Channels : FlagOf(c) \in Flags \cup {0}
    /\ NoHolder \notin 0..NumSS + 1

SS == 1..NumSS
Handler == 0            \* the thread of the client library's callbacks
Stopper == NumSS + 1    \* the thread that calls seqStop
AnyEvent == 0           \* wakes all state sets

VARIABLES
    created, destroyed, connected,      \* channels
    gotFirstConnect, gotFirstMonitor,
    pMask, threadId,                    \* of each state set
    syncSemId, allFirstSemId, death1SemId, death2SemId, death3SemId, death4SemId,
    caSemId,        \* who holds it
    wake,           \* who is in seqWakeup, for which event and next state set
    pc, cbPc, cbChan, stopPc, stopSS,
    changed,        \* history: what changed since a state set last looked
    gaveUp          \* history: seqStop passed over a thread or stopped waiting

chanVars == <<created, destroyed, connected, gotFirstConnect, gotFirstMonitor>>
deathVars == <<death1SemId, death2SemId, death3SemId, death4SemId>>
cbVars == <<cbPc, cbChan>>
stopVars == <<stopPc, stopSS, gaveUp>>
vars == <<chanVars, pMask, threadId, syncSemId, allFirstSemId, deathVars,
    caSemId, wake, pc, cbVars, stopVars, changed>>

Waking(t) == wake[t].next <= NumSS
NotWaking == [event |-> AnyEvent, next |-> NumSS + 1]

ChanTypes ==
    /\ created \subseteq Channels /\ destroyed \subseteq created
    /\ connected \subseteq created /\ gotFirstConnect \subseteq created
    /\ gotFirstMonitor \subseteq gotFirstConnect

StateSetTypes ==
    /\ pMask \in [SS -> Masks \cup {{}}] /\ threadId \subseteq SS
    /\ syncSemId \subseteq SS /\ allFirstSemId \subseteq SS
    /\ death1SemId \subseteq SS /\ death2SemId \subseteq SS
    /\ death3SemId \subseteq SS /\ death4SemId \subseteq SS
    /\ changed \in [SS -> SUBSET (Events \cup {AnyEvent})]

WakeTypes ==
    wake \in [0..Stopper -> [event : Events \cup {AnyEvent}, next : 1..(NumSS + 1)]]

LabelTypes ==
    /\ pc \in [SS -> {"connect", "spawn", "unborn", "init", "first", "begin", "enter",
        "wait", "check", "event", "triggered", "action", "setting", "exit",
        "dying", "dead"}]
    /\ cbPc \in {"idle", "monitor", "flag", "first", "connection"}
    /\ cbChan \in Channels
    /\ stopPc \in {"idle", "ask1", "wake", "wait2", "ask3", "wait4", "freed"}
    /\ stopSS \in SS
    /\ gaveUp \in BOOLEAN

\* The lock is held by who sets a flag.
HolderTrue ==
    /\ caSemId \in SS \cup {Handler, NoHolder}
    /\ \A s \in SS : caSemId = s <=> pc[s] = "setting"
    /\ caSemId = Handler <=> cbPc = "flag"

TypeOK == ChanTypes /\ StateSetTypes /\ WakeTypes /\ LabelTypes /\ HolderTrue

Init ==
    /\ created = {} /\ destroyed = {} /\ connected = {}
    /\ gotFirstConnect = {} /\ gotFirstMonitor = {}
    /\ pMask = [s \in SS |-> {}] /\ threadId = {1}
    /\ syncSemId = {} /\ allFirstSemId = {}
    /\ death1SemId = {} /\ death2SemId = {} /\ death3SemId = {} /\ death4SemId = {}
    /\ caSemId = NoHolder
    /\ wake = [t \in 0..Stopper |-> NotWaking]
    /\ pc = [s \in SS |-> IF s = 1 THEN "connect" ELSE "unborn"]
    /\ cbPc = "idle" /\ cbChan \in Channels
    /\ stopPc = "idle" /\ stopSS = 1 /\ gaveUp = FALSE
    /\ changed = [s \in SS |-> {}]

-----------------------------------------------------------------------------
(* seqWakeup *)

StartWakeup(t, event) ==
    wake' = [wake EXCEPT ![t] = [event |-> event, next |-> 1]]

Listens(s, event) == event = AnyEvent \/ event \in pMask[s]

\* One state set of the loop
seqWakeup(t) ==
    /\ Waking(t)
    /\ syncSemId' = IF Listens(wake[t].next, wake[t].event)
                    THEN syncSemId \cup {wake[t].next} ELSE syncSemId
    /\ wake' = [wake EXCEPT ![t].next = @ + 1]
    /\ UNCHANGED <<chanVars, pMask, threadId, allFirstSemId, deathVars, caSemId,
        pc, cbVars, stopVars, changed>>

\* Something a condition may depend on; it is noted where the state set may
\* come to sleep before it looks.
Change(event) ==
    changed' = [s \in SS |->
        IF \/ pc[s] \in {"triggered", "action", "setting", "enter"}
           \/ pc[s] = "wait" /\ s \notin syncSemId
        THEN changed[s] \cup {event} ELSE {}]

-----------------------------------------------------------------------------
(* Callbacks, one at a time: the client library has a lock for them. *)

Complete(connects, monitors) == connects = Channels /\ monitors = Monitored

\* seq_mon_handler, proc_db_events: the value is in place
Monitor(c) ==
    /\ cbPc = "idle" /\ c \in connected \ destroyed
    /\ cbPc' = "monitor" /\ cbChan' = c
    /\ Change(c) /\ StartWakeup(Handler, c)
    /\ UNCHANGED <<chanVars, pMask, threadId, syncSemId, allFirstSemId,
        deathVars, caSemId, pc, stopVars>>

\* seq_efSet of the channel's flag, if it has one
MonitorFlag ==
    /\ cbPc = "monitor" /\ ~Waking(Handler)
    /\ IF FlagOf(cbChan) = 0
       THEN /\ cbPc' = "first"
            /\ UNCHANGED <<caSemId, wake, changed>>
       ELSE /\ caSemId = NoHolder /\ caSemId' = Handler
            /\ cbPc' = "flag"
            /\ Change(FlagOf(cbChan)) /\ StartWakeup(Handler, FlagOf(cbChan))
    /\ UNCHANGED <<chanVars, pMask, threadId, syncSemId, allFirstSemId,
        deathVars, pc, cbChan, stopVars>>

MonitorFlagSet ==
    /\ cbPc = "flag" /\ ~Waking(Handler)
    /\ caSemId' = NoHolder /\ cbPc' = "first"
    /\ UNCHANGED <<chanVars, pMask, threadId, syncSemId, allFirstSemId,
        deathVars, wake, pc, cbChan, stopVars, changed>>

\* The last of the first monitors and connections lets waiting threads go.
MonitorFirst ==
    /\ cbPc = "first"
    /\ gotFirstMonitor' = gotFirstMonitor \cup {cbChan}
    /\ allFirstSemId' = IF /\ cbChan \notin gotFirstMonitor
                           /\ Complete(gotFirstConnect, gotFirstMonitor')
                        THEN SS ELSE allFirstSemId
    /\ cbPc' = "idle"
    /\ UNCHANGED <<created, destroyed, connected, gotFirstConnect, pMask, threadId,
        syncSemId, deathVars, caSemId, wake, pc, cbChan, stopVars, changed>>

\* seq_conn_handler
Connection(c) ==
    /\ cbPc = "idle" /\ c \in created \ destroyed
    /\ cbPc' = "connection" /\ cbChan' = c
    /\ Change(AnyEvent) /\ StartWakeup(Handler, AnyEvent)
    /\ IF c \in connected
       THEN /\ connected' = connected \ {c}
            /\ UNCHANGED <<gotFirstConnect, allFirstSemId>>
       ELSE /\ connected' = connected \cup {c}
            /\ gotFirstConnect' = gotFirstConnect \cup {c}
            /\ allFirstSemId' = IF /\ c \notin gotFirstConnect
                                   /\ Complete(gotFirstConnect', gotFirstMonitor)
                                THEN SS ELSE allFirstSemId
    /\ UNCHANGED <<created, destroyed, gotFirstMonitor, pMask, threadId, syncSemId,
        deathVars, caSemId, pc, stopVars>>

ConnectionReturns ==
    /\ cbPc = "connection" /\ ~Waking(Handler)
    /\ cbPc' = "idle"
    /\ UNCHANGED <<chanVars, pMask, threadId, syncSemId, allFirstSemId, deathVars,
        caSemId, wake, pc, cbChan, stopVars, changed>>

-----------------------------------------------------------------------------
(* State sets *)

Goto(s, label) == pc' = [pc EXCEPT ![s] = label]

\* sequencer: seq_connect
Connect ==
    /\ pc[1] = "connect"
    /\ created' = Channels
    /\ Goto(1, "spawn")
    /\ UNCHANGED <<destroyed, connected, gotFirstConnect, gotFirstMonitor, pMask,
        threadId, syncSemId, allFirstSemId, deathVars, caSemId, wake, cbVars, stopVars,
        changed>>

\* sequencer: a thread for each other state set
Spawn ==
    /\ pc[1] = "spawn"
    /\ pc' = [s \in SS |-> "init"]
    /\ UNCHANGED <<chanVars, pMask, threadId, syncSemId, allFirstSemId, deathVars,
        caSemId, wake, cbVars, stopVars, changed>>

ss_thread_init(s) ==
    /\ pc[s] = "init"
    /\ threadId' = threadId \cup {s}
    /\ Goto(s, IF OptConn THEN "first" ELSE "begin")
    /\ UNCHANGED <<chanVars, pMask, syncSemId, allFirstSemId, deathVars,
        caSemId, wake, cbVars, stopVars, changed>>

\* seq_waitConnect: a request to exit is seen only when the wait times out.
seq_waitConnect(s) ==
    /\ pc[s] = "first"
    /\ \/ /\ s \in allFirstSemId
          /\ allFirstSemId' = allFirstSemId \ {s}
          /\ Goto(s, "begin")
          /\ UNCHANGED death1SemId
       \/ /\ s \notin allFirstSemId /\ s \in death1SemId
          /\ death1SemId' = death1SemId \ {s}
          /\ Goto(s, "exit")
          /\ UNCHANGED allFirstSemId
    /\ UNCHANGED <<chanVars, pMask, threadId, syncSemId, death2SemId, death3SemId,
        death4SemId, caSemId, wake, cbVars, stopVars, changed>>

\* ss_entry: the first state
Begin(s) ==
    /\ pc[s] = "begin"
    /\ \E mask \in Masks : pMask' = [pMask EXCEPT ![s] = mask]
    /\ Goto(s, "enter")
    /\ UNCHANGED <<chanVars, threadId, syncSemId, allFirstSemId, deathVars,
        caSemId, wake, cbVars, stopVars, changed>>

\* Fault: entering a state does not look at its conditions.
EnterAndSleep(s) ==
    /\ pc[s] = "enter"
    /\ Goto(s, "wait")
    /\ UNCHANGED <<chanVars, pMask, threadId, syncSemId, allFirstSemId, deathVars,
        caSemId, wake, cbVars, stopVars, changed>>

\* ss_entry: a state that is entered looks at its conditions at least once.
Enter(s) ==
    /\ pc[s] = "enter"
    /\ syncSemId' = syncSemId \cup {s}
    /\ Goto(s, "wait")
    /\ UNCHANGED <<chanVars, pMask, threadId, allFirstSemId, deathVars,
        caSemId, wake, cbVars, stopVars, changed>>

\* Woken up, or a delay of the state is over: then a signal is left for later.
Wait(s) ==
    /\ pc[s] = "wait"
    /\ syncSemId' \in {syncSemId, syncSemId \ {s}}
    /\ Goto(s, "check")
    /\ UNCHANGED <<chanVars, pMask, threadId, allFirstSemId, deathVars,
        caSemId, wake, cbVars, stopVars, changed>>

Check(s) ==
    /\ pc[s] = "check"
    /\ death1SemId' = death1SemId \ {s}
    /\ Goto(s, IF s \in death1SemId THEN "exit" ELSE "event")
    /\ UNCHANGED <<chanVars, pMask, threadId, syncSemId, allFirstSemId,
        death2SemId, death3SemId, death4SemId, caSemId, wake, cbVars, stopVars, changed>>

\* eventFunc, under caSemId
EventFunc(s) ==
    /\ pc[s] = "event" /\ caSemId = NoHolder
    /\ changed' = [changed EXCEPT ![s] = {}]
    /\ \E label \in {"triggered", "wait"} : Goto(s, label)
    /\ UNCHANGED <<chanVars, pMask, threadId, syncSemId, allFirstSemId, deathVars,
        caSemId, wake, cbVars, stopVars>>

\* The mask of the next state, before the action and without a lock
Triggered(s) ==
    /\ pc[s] = "triggered"
    /\ \E mask \in Masks : pMask' = [pMask EXCEPT ![s] = mask]
    /\ Goto(s, "action")
    /\ UNCHANGED <<chanVars, threadId, syncSemId, allFirstSemId, deathVars,
        caSemId, wake, cbVars, stopVars, changed>>

\* An action that calls seq_efSet
seq_efSet(s, flag) ==
    /\ pc[s] = "action" /\ caSemId = NoHolder
    /\ caSemId' = s
    /\ Change(flag) /\ StartWakeup(s, flag)
    /\ Goto(s, "setting")
    /\ UNCHANGED <<chanVars, pMask, threadId, syncSemId, allFirstSemId, deathVars,
        cbVars, stopVars>>

seq_efSetReturns(s) ==
    /\ pc[s] = "setting" /\ ~Waking(s)
    /\ caSemId' = NoHolder
    /\ Goto(s, "action")
    /\ UNCHANGED <<chanVars, pMask, threadId, syncSemId, allFirstSemId, deathVars,
        wake, cbVars, stopVars, changed>>

ActionEnds(s) ==
    /\ pc[s] = "action"
    /\ Goto(s, "enter")
    /\ UNCHANGED <<chanVars, pMask, threadId, syncSemId, allFirstSemId, deathVars,
        caSemId, wake, cbVars, stopVars, changed>>

-----------------------------------------------------------------------------
(* The end of a thread *)

\* seq_disconnect in the first: pvVarDestroy waits for a callback that runs.
seq_disconnect(c) ==
    /\ pc[1] = "exit" /\ c \in created \ destroyed /\ cbPc = "idle"
    /\ destroyed' = destroyed \cup {c}
    /\ connected' = connected \ {c}
    /\ UNCHANGED <<created, gotFirstConnect, gotFirstMonitor, pMask, threadId,
        syncSemId, allFirstSemId, deathVars, caSemId, wake, pc, cbVars, stopVars, changed>>

Phase1(s) ==
    /\ pc[s] = "exit"
    /\ s = 1 => destroyed = created
    /\ death2SemId' = death2SemId \cup {s}
    /\ Goto(s, "dying")
    /\ UNCHANGED <<chanVars, pMask, threadId, syncSemId, allFirstSemId, death1SemId,
        death3SemId, death4SemId, caSemId, wake, cbVars, stopVars, changed>>

Phase2(s) ==
    /\ pc[s] = "dying" /\ s \in death3SemId
    /\ death3SemId' = death3SemId \ {s}
    /\ death4SemId' = death4SemId \cup {s}
    /\ Goto(s, "dead")
    /\ UNCHANGED <<chanVars, pMask, threadId, syncSemId, allFirstSemId, death1SemId,
        death2SemId, caSemId, wake, cbVars, stopVars, changed>>

-----------------------------------------------------------------------------
(* seqStop: four loops over the state sets *)

EndOfLoop(label) ==
    IF stopSS < NumSS THEN stopSS' = stopSS + 1 /\ UNCHANGED stopPc
    ELSE stopSS' = 1 /\ stopPc' = label

seqStop ==
    /\ MayStop /\ stopPc = "idle"
    /\ stopPc' = "ask1"
    /\ UNCHANGED <<chanVars, pMask, threadId, syncSemId, allFirstSemId, deathVars,
        caSemId, wake, pc, cbVars, stopSS, gaveUp, changed>>

\* A thread that has not started yet is passed over.
AskPhase1 ==
    /\ stopPc = "ask1"
    /\ EndOfLoop("wake")
    /\ death1SemId' = death1SemId \cup ({stopSS} \cap threadId)
    /\ gaveUp' = (gaveUp \/ stopSS \notin threadId)
    /\ IF stopPc' = "wake" THEN StartWakeup(Stopper, AnyEvent) ELSE UNCHANGED wake
    /\ UNCHANGED <<chanVars, pMask, threadId, syncSemId, allFirstSemId, death2SemId,
        death3SemId, death4SemId, caSemId, pc, cbVars, changed>>

Woken ==
    /\ stopPc = "wake" /\ ~Waking(Stopper)
    /\ stopPc' = "wait2"
    /\ UNCHANGED <<chanVars, pMask, threadId, syncSemId, allFirstSemId, deathVars,
        caSemId, wake, pc, cbVars, stopSS, gaveUp, changed>>

\* Ten seconds are waited for each.
WaitPhase1 ==
    /\ stopPc = "wait2"
    /\ EndOfLoop("ask3")
    /\ death2SemId' = death2SemId \ ({stopSS} \cap threadId)
    /\ gaveUp' = (gaveUp \/ stopSS \notin death2SemId \cap threadId)
    /\ UNCHANGED <<chanVars, pMask, threadId, syncSemId, allFirstSemId, death1SemId,
        death3SemId, death4SemId, caSemId, wake, pc, cbVars, changed>>

AskPhase2 ==
    /\ stopPc = "ask3"
    /\ EndOfLoop("wait4")
    /\ death3SemId' = death3SemId \cup ({stopSS} \cap threadId)
    /\ UNCHANGED <<chanVars, pMask, threadId, syncSemId, allFirstSemId, death1SemId,
        death2SemId, death4SemId, caSemId, wake, pc, cbVars, gaveUp, changed>>

\* After the last the semaphores are destroyed and the program is freed.
WaitPhase2 ==
    /\ stopPc = "wait4"
    /\ EndOfLoop("freed")
    /\ death4SemId' = death4SemId \ ({stopSS} \cap threadId)
    /\ gaveUp' = (gaveUp \/ stopSS \notin death4SemId \cap threadId)
    /\ UNCHANGED <<chanVars, pMask, threadId, syncSemId, allFirstSemId, death1SemId,
        death2SemId, death3SemId, caSemId, wake, pc, cbVars, changed>>

-----------------------------------------------------------------------------
HandlerNext ==
    \/ \E c \in Monitored : Monitor(c)
    \/ \E c \in Channels : Connection(c)
    \/ MonitorFlag \/ MonitorFlagSet \/ MonitorFirst \/ ConnectionReturns

StateSetNext ==
    \/ Connect \/ Spawn
    \/ \E c \in Channels : seq_disconnect(c)
    \/ \E s \in SS :
        \/ ss_thread_init(s) \/ seq_waitConnect(s) \/ Begin(s) \/ Enter(s)
        \/ Wait(s) \/ Check(s) \/ EventFunc(s) \/ Triggered(s)
        \/ \E flag \in Flags : seq_efSet(s, flag)
        \/ seq_efSetReturns(s) \/ ActionEnds(s) \/ Phase1(s) \/ Phase2(s)

StopNext ==
    seqStop \/ AskPhase1 \/ Woken \/ WaitPhase1 \/ AskPhase2 \/ WaitPhase2

\* What runs on when the program has been freed is undefined; when seqStop
\* passes over a thread or stops waiting for one, that is where it leads.
Next ==
    /\ stopPc # "freed" /\ ~gaveUp
    /\ HandlerNext \/ StateSetNext \/ StopNext \/ \E t \in 0..Stopper : seqWakeup(t)

Spec == Init /\ [][Next]_vars

-----------------------------------------------------------------------------
(* Properties *)

\* Somebody is on the way to wake s for an event.
AboutToWake(s, event) ==
    \E t \in 0..Stopper : wake[t].event = event /\ wake[t].next <= s

\* A state set does not sleep on what it listens to: of each change since its
\* conditions were evaluated, and of each request to exit, it is told
\* (seq_task.c:180-193 "guarantees that a when() is always executed at least
\* once", seqWakeup and the switch of pMask at line 227, all unlocked).
NoSleepOnChange ==
    \A s \in SS :
        pc[s] = "wait" /\ s \notin syncSemId =>
            /\ \A e \in changed[s] : Listens(s, e) => AboutToWake(s, e)
            /\ s \in death1SemId => stopPc = "ask1" \/ AboutToWake(s, AnyEvent)

\* A program that waits for its channels goes on when each has connected and
\* delivered its first value, in whatever order (seq_ca.c:171-182, 437-448).
FirstsNoticed ==
    \A s \in SS :
        pc[s] = "first" /\ Complete(gotFirstConnect, gotFirstMonitor) =>
            s \in allFirstSemId

\* seqStop frees the program when no thread and no callback uses it any more,
\* unless it passed over a thread or gave up waiting for one (seq_task.c:442-547).
FreedUnused ==
    stopPc = "freed" /\ ~gaveUp =>
        /\ \A s \in SS : pc[s] = "dead"
        /\ cbPc = "idle" /\ destroyed = created
        /\ \A t \in 0..Stopper : ~Waking(t)

StateSetsServed == NoSleepOnChange /\ FirstsNoticed /\ FreedUnused

-----------------------------------------------------------------------------
(* The inductive invariant *)

\* Only who is in a call that wakes the others is in seqWakeup.
WakersTrue ==
    /\ Waking(Handler) => cbPc \in {"monitor", "flag", "connection"}
    /\ \A s \in SS : Waking(s) => pc[s] = "setting"
    /\ Waking(Stopper) => stopPc = "wake" /\ wake[Stopper].event = AnyEvent

\* A request to exit that a state set has not seen and may have gone past has
\* been signalled, or will be.
ExitTold ==
    \A s \in SS :
        s \in death1SemId \ syncSemId /\ pc[s] \in {"event", "wait"} =>
            stopPc = "ask1" \/ (stopPc = "wake" /\ wake[Stopper].next <= s)

\* The channels in the order of their lives: values come from channels that have
\* connected, and none when the first thread has disconnected them all.
ChannelsTrue ==
    /\ pc[1] # "connect" => created = Channels
    /\ pc[1] = "connect" => created = {}
    /\ connected \subseteq gotFirstConnect
    /\ cbPc # "idle" => cbChan \in created \ destroyed
    /\ cbPc \in {"monitor", "flag", "first"} =>
            cbChan \in gotFirstConnect \cap Monitored
    /\ gotFirstMonitor \subseteq Monitored
    /\ pc[1] \in {"connect", "spawn"} => \A s \in SS \ {1} : pc[s] = "unborn"
    /\ pc[1] \in {"dying", "dead"} => destroyed = created

\* Who waits for the first connections and values, or is going to, finds the
\* signal when they have come.
FirstsKept ==
    Complete(gotFirstConnect, gotFirstMonitor) =>
        \A s \in SS :
            pc[s] \in {"connect", "spawn", "unborn", "init", "first"} => s \in allFirstSemId

\* How far seqStop is, each thread is.
PhasesTrue ==
    /\ stopPc \in {"idle", "wake"} => stopSS = 1
    /\ \A s \in SS :
        /\ s \in death2SemId => pc[s] \in {"dying", "dead"}
        /\ s \in death4SemId => pc[s] = "dead"
    /\ ~gaveUp =>
        /\ stopPc = "wait2" => \A s \in 1..stopSS - 1 : pc[s] \in {"dying", "dead"}
        /\ stopPc \in {"ask3", "wait4", "freed"} => \A s \in SS : pc[s] \in {"dying", "dead"}
        /\ stopPc = "wait4" => \A s \in 1..stopSS - 1 : pc[s] = "dead"
        /\ stopPc = "freed" => \A s \in SS : pc[s] = "dead"

IInv ==
    /\ TypeOK /\ NoSleepOnChange /\ WakersTrue /\ ExitTold /\ ChannelsTrue
    /\ FirstsKept /\ PhasesTrue
=============================================================================
