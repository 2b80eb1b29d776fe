--------------------------- MODULE Sequencer_proof ---------------------------
(***************************************************************************)
(* Proofs about a state program: its invariant, and that no state set      *)
(* sleeps on what it listens to, with any number of state sets, channels   *)
(* and masks.                                                              *)
(***************************************************************************)
EXTENDS Sequencer, TLAPS

-----------------------------------------------------------------------------
(* What a step of the lock-free walk does to who is about to be woken *)

\* A state set as the prover should see it.
LEMMA StateSets ==
    ASSUME SequencerAssumption
    PROVE  /\ SS \subseteq Nat \ {0} /\ 1 \in SS /\ NumSS \in Nat \ {0}
           /\ \A s \in SS : s <= NumSS /\ s \in 0..Stopper /\ s # Handler /\ s # Stopper
           /\ Handler \in 0..Stopper /\ Stopper \in 0..Stopper /\ Handler # Stopper
           /\ NoHolder \notin 0..Stopper
BY DEF SequencerAssumption, SS, Handler, Stopper

\* The parts of the invariant.
LEMMA Known ==
    ASSUME IInv
    PROVE  /\ ChanTypes /\ StateSetTypes /\ WakeTypes /\ LabelTypes /\ HolderTrue
           /\ NoSleepOnChange /\ WakersTrue /\ ExitTold /\ ChannelsTrue /\ FirstsKept
           /\ PhasesTrue
BY DEF IInv, TypeOK

\* Who starts to wake the state sets was not doing it, so nobody else's call is
\* lost, and is about to wake every one of them.
LEMMA WakingStarts ==
    ASSUME SequencerAssumption, WakeTypes, NEW t \in 0..Stopper, ~Waking(t),
           NEW event \in Events \cup {AnyEvent}, StartWakeup(t, event)
    PROVE  /\ WakeTypes'
           /\ wake'[t] = [event |-> event, next |-> 1]
           /\ \A u \in 0..Stopper \ {t} : wake'[u] = wake[u]
           /\ \A s \in SS :
                /\ AboutToWake(s, event)'
                /\ \A e \in Events \cup {AnyEvent} : AboutToWake(s, e) => AboutToWake(s, e)'
<1>1. WakeTypes'
  BY StateSets DEF WakeTypes, StartWakeup, SequencerAssumption
<1>2. wake'[t] = [event |-> event, next |-> 1]
  BY DEF WakeTypes, StartWakeup
<1>3. \A u \in 0..Stopper \ {t} : wake'[u] = wake[u]
  BY DEF WakeTypes, StartWakeup
<1>4. ASSUME NEW s \in SS PROVE AboutToWake(s, event)'
  BY <1>2, StateSets DEF AboutToWake
<1>5. ASSUME NEW s \in SS, NEW e \in Events \cup {AnyEvent}, AboutToWake(s, e)
      PROVE  AboutToWake(s, e)'
  <2>1. PICK u \in 0..Stopper : wake[u].event = e /\ wake[u].next <= s
    BY <1>5 DEF AboutToWake
  <2>2. wake[u].next \in Nat
    BY StateSets DEF WakeTypes
  <2>3. u # t
    BY <2>1, <2>2, StateSets DEF Waking
  <2>. QED BY <2>1, <2>3, <1>3 DEF AboutToWake
<1>. QED BY <1>1, <1>2, <1>3, <1>4, <1>5

\* A state set that slept before a step still is told of everything it has to
\* be, when nobody's call to wake it is lost.
LEMMA StillTold ==
    ASSUME NEW s \in SS, pc[s] = "wait", s \notin syncSemId, NoSleepOnChange, StateSetTypes,
           pMask'[s] = pMask[s],
           \A e \in changed'[s] : e \in changed[s] \/ AboutToWake(s, e)',
           \A e \in Events \cup {AnyEvent} :
               Listens(s, e) /\ AboutToWake(s, e) => AboutToWake(s, e)',
           s \in death1SemId' => s \in death1SemId \/ stopPc' = "ask1",
           stopPc = "ask1" => stopPc' = "ask1" \/ AboutToWake(s, AnyEvent)'
    PROVE  /\ \A e \in changed'[s] : Listens(s, e)' => AboutToWake(s, e)'
           /\ s \in death1SemId' => stopPc' = "ask1" \/ AboutToWake(s, AnyEvent)'
<1>1. \A e : Listens(s, e)' <=> Listens(s, e)
  BY DEF Listens
<1>2. changed[s] \subseteq Events \cup {AnyEvent}
  BY DEF StateSetTypes
<1>3. Listens(s, AnyEvent)
  BY DEF Listens
<1>. QED BY <1>1, <1>2, <1>3 DEF NoSleepOnChange

-----------------------------------------------------------------------------
(* seqWakeup *)

LEMMA WakeupStep ==
    ASSUME SequencerAssumption, IInv, NEW t \in 0..Stopper, seqWakeup(t)
    PROVE  IInv'
<1>. DEFINE n == wake[t].next
<1>1. /\ n \in SS /\ wake[t].event \in Events \cup {AnyEvent}
      /\ wake' \in [0..Stopper -> [event : Events \cup {AnyEvent}, next : 1..(NumSS + 1)]]
      /\ wake'[t].next = n + 1 /\ wake'[t].event = wake[t].event
      /\ \A u \in 0..Stopper \ {t} : wake'[u] = wake[u]
  BY Known DEF seqWakeup, Waking, WakeTypes, SequencerAssumption, SS
<1>2. /\ syncSemId \subseteq syncSemId' /\ syncSemId' \subseteq SS
      /\ Listens(n, wake[t].event) => n \in syncSemId'
  BY <1>1, Known DEF seqWakeup, StateSetTypes
<1>3. UNCHANGED <<chanVars, pMask, threadId, allFirstSemId, deathVars, caSemId, pc,
        cbVars, stopVars, changed>>
  BY DEF seqWakeup
<1>. USE DEF chanVars, deathVars, cbVars, stopVars
<1>4. ChanTypes' /\ LabelTypes' /\ HolderTrue' /\ ChannelsTrue' /\ FirstsKept' /\ PhasesTrue'
  BY <1>3, Known DEF ChanTypes, LabelTypes, HolderTrue, ChannelsTrue, FirstsKept, Complete,
    PhasesTrue
<1>5. StateSetTypes' /\ WakeTypes'
  BY <1>1, <1>2, <1>3, Known DEF StateSetTypes, WakeTypes
<1>6. ASSUME NEW s \in SS, s \notin syncSemId', NEW e \in Events \cup {AnyEvent},
             Listens(s, e), AboutToWake(s, e)
      PROVE  AboutToWake(s, e)'
  <2>1. PICK u \in 0..Stopper : wake[u].event = e /\ wake[u].next <= s
    BY <1>6 DEF AboutToWake
  <2>2. CASE u # t
    BY <2>1, <2>2, <1>1 DEF AboutToWake
  <2>3. CASE u = t
    <3>1. s # n
      BY <2>1, <2>3, <1>2, <1>6
    <3>2. n + 1 <= s
      BY <2>1, <2>3, <3>1, <1>1, StateSets
    <3>. QED BY <2>1, <2>3, <3>2, <1>1 DEF AboutToWake
  <2>. QED BY <2>2, <2>3
<1>7. NoSleepOnChange'
  <2>. SUFFICES ASSUME NEW s \in SS, pc'[s] = "wait", s \notin syncSemId'
                PROVE  /\ \A e \in changed'[s] : Listens(s, e)' => AboutToWake(s, e)'
                       /\ s \in death1SemId' => stopPc' = "ask1" \/ AboutToWake(s, AnyEvent)'
    BY DEF NoSleepOnChange
  <2>1. pc[s] = "wait" /\ s \notin syncSemId
    BY <1>2, <1>3
  <2>. QED BY <2>1, <1>3, <1>6, StillTold, Known
<1>8. WakersTrue'
  BY <1>1, <1>3, Known, StateSets DEF WakersTrue, Waking
<1>9. ExitTold'
  <2>. SUFFICES ASSUME NEW s \in SS, s \in death1SemId \ syncSemId', pc[s] \in {"event", "wait"}
                PROVE  stopPc = "ask1" \/ (stopPc = "wake" /\ wake'[Stopper].next <= s)
    BY <1>3 DEF ExitTold
  <2>1. stopPc = "ask1" \/ (stopPc = "wake" /\ wake[Stopper].next <= s)
    BY <1>2, Known DEF ExitTold
  <2>2. CASE t # Stopper
    BY <2>1, <2>2, <1>1, StateSets
  <2>3. CASE t = Stopper
    <3>1. wake[t].event = AnyEvent
      BY <2>3, <1>1, Known, StateSets DEF WakersTrue, Waking
    <3>2. s # n
      BY <3>1, <1>2 DEF Listens
    <3>. QED BY <2>1, <2>3, <3>2, <1>1, StateSets
  <2>. QED BY <2>2, <2>3
<1>. QED BY <1>4, <1>5, <1>7, <1>8, <1>9 DEF IInv, TypeOK

-----------------------------------------------------------------------------
(* Callbacks *)

\* A change is noted where a state set may come to sleep on it.
LEMMA Changes ==
    ASSUME StateSetTypes, NEW event \in Events \cup {AnyEvent}, Change(event)
    PROVE  /\ changed' \in [SS -> SUBSET (Events \cup {AnyEvent})]
           /\ \A s \in SS : changed'[s] \subseteq changed[s] \cup {event}
BY DEF StateSetTypes, Change

\* A change after which whoever made it wakes the state sets.
LEMMA ToldOfChange ==
    ASSUME SequencerAssumption, IInv, NEW t \in 0..Stopper, ~Waking(t),
           NEW event \in Events \cup {AnyEvent}, Change(event), StartWakeup(t, event),
           UNCHANGED <<pMask, syncSemId, death1SemId, stopPc>>,
           \A s \in SS : pc'[s] = "wait" => pc[s] = "wait"
    PROVE  NoSleepOnChange'
<1>. SUFFICES ASSUME NEW s \in SS, pc'[s] = "wait", s \notin syncSemId'
              PROVE  /\ \A e \in changed'[s] : Listens(s, e)' => AboutToWake(s, e)'
                     /\ s \in death1SemId' => stopPc' = "ask1" \/ AboutToWake(s, AnyEvent)'
  BY DEF NoSleepOnChange
<1>1. /\ AboutToWake(s, event)'
      /\ \A e \in Events \cup {AnyEvent} : AboutToWake(s, e) => AboutToWake(s, e)'
  BY WakingStarts, Known
<1>2. \A e \in changed'[s] : e \in changed[s] \/ AboutToWake(s, e)'
  BY <1>1, Changes, Known
<1>. QED BY <1>1, <1>2, StillTold, Known

LEMMA MonitorStep ==
    ASSUME SequencerAssumption, IInv, NEW c \in Monitored, Monitor(c)
    PROVE  IInv'
<1>1. /\ cbPc = "idle" /\ cbPc' = "monitor" /\ cbChan' = c /\ c \in connected \ destroyed
      /\ Change(c) /\ StartWakeup(Handler, c)
      /\ UNCHANGED <<created, destroyed, connected, gotFirstConnect, gotFirstMonitor,
            pMask, threadId, syncSemId, allFirstSemId, death1SemId, death2SemId,
            death3SemId, death4SemId, caSemId, pc, stopPc, stopSS, gaveUp>>
  BY DEF Monitor, chanVars, deathVars, stopVars
<1>2. ~Waking(Handler) /\ c \in Channels /\ c \in Events \cup {AnyEvent}
  BY <1>1, Known DEF WakersTrue, SequencerAssumption
<1>3. /\ WakeTypes' /\ \A u \in SS \cup {Stopper} : wake'[u] = wake[u]
  BY <1>1, <1>2, WakingStarts, StateSets, Known
<1>4. ChanTypes' /\ StateSetTypes' /\ LabelTypes' /\ HolderTrue'
  BY <1>1, <1>2, Changes, StateSets, Known
  DEF ChanTypes, StateSetTypes, LabelTypes, HolderTrue
<1>5. NoSleepOnChange'
  BY <1>1, <1>2, ToldOfChange, StateSets
<1>6. WakersTrue' /\ ExitTold'
  BY <1>1, <1>3, Known DEF WakersTrue, ExitTold, Waking
<1>7. ChannelsTrue' /\ FirstsKept' /\ PhasesTrue'
  BY <1>1, Known DEF ChannelsTrue, FirstsKept, Complete, PhasesTrue, ChanTypes
<1>. QED BY <1>3, <1>4, <1>5, <1>6, <1>7 DEF IInv, TypeOK

LEMMA ConnectionStep ==
    ASSUME SequencerAssumption, IInv, NEW c \in Channels, Connection(c)
    PROVE  IInv'
<1>1. /\ cbPc = "idle" /\ cbPc' = "connection" /\ cbChan' = c /\ c \in created \ destroyed
      /\ Change(AnyEvent) /\ StartWakeup(Handler, AnyEvent)
      /\ UNCHANGED <<created, destroyed, gotFirstMonitor, pMask, threadId, syncSemId,
            death1SemId, death2SemId, death3SemId, death4SemId, caSemId, pc, stopPc,
            stopSS, gaveUp>>
  BY DEF Connection, deathVars, stopVars
<1>2. ~Waking(Handler)
  BY <1>1, Known DEF WakersTrue
<1>3. /\ WakeTypes' /\ \A u \in SS \cup {Stopper} : wake'[u] = wake[u]
  BY <1>1, <1>2, WakingStarts, StateSets, Known
<1>4. /\ gotFirstConnect \subseteq gotFirstConnect'
      /\ gotFirstConnect' \subseteq gotFirstConnect \cup {c}
      /\ connected' \subseteq connected \cup {c}
      /\ connected' \subseteq gotFirstConnect'
      /\ allFirstSemId' \in {allFirstSemId, SS}
      /\ Complete(gotFirstConnect, gotFirstMonitor)' =>
            allFirstSemId' = SS \/ Complete(gotFirstConnect, gotFirstMonitor)
  BY Known DEF Connection, Complete, ChannelsTrue
<1>5. ChanTypes' /\ StateSetTypes' /\ LabelTypes' /\ HolderTrue'
  BY <1>1, <1>4, Changes, StateSets, Known
  DEF ChanTypes, StateSetTypes, LabelTypes, HolderTrue
<1>6. NoSleepOnChange'
  BY <1>1, <1>2, ToldOfChange, StateSets
<1>7. WakersTrue' /\ ExitTold'
  BY <1>1, <1>3, Known DEF WakersTrue, ExitTold, Waking
<1>8. ChannelsTrue' /\ PhasesTrue'
  BY <1>1, <1>4, Known DEF ChannelsTrue, PhasesTrue
<1>9. FirstsKept'
  BY <1>1, <1>4, Known, StateSets DEF FirstsKept
<1>. QED BY <1>3, <1>5, <1>6, <1>7, <1>8, <1>9 DEF IInv, TypeOK

LEMMA MonitorFlagStep ==
    ASSUME SequencerAssumption, IInv, MonitorFlag
    PROVE  IInv'
<1>. DEFINE flag == FlagOf(cbChan)
<1>1. /\ cbPc = "monitor" /\ ~Waking(Handler) /\ cbPc' \in {"flag", "first"}
      /\ UNCHANGED <<created, destroyed, connected, gotFirstConnect, gotFirstMonitor,
            pMask, threadId, syncSemId, allFirstSemId, death1SemId, death2SemId,
            death3SemId, death4SemId, pc, cbChan, stopPc, stopSS, gaveUp>>
  BY DEF MonitorFlag, chanVars, deathVars, stopVars
<1>2. ChannelsTrue' /\ FirstsKept' /\ PhasesTrue' /\ ChanTypes' /\ LabelTypes'
  BY <1>1, Known
  DEF ChannelsTrue, FirstsKept, Complete, PhasesTrue, ChanTypes, LabelTypes
<1>3. CASE flag = 0
  <2>1. UNCHANGED <<caSemId, wake, changed>> /\ cbPc' = "first"
    BY <1>3 DEF MonitorFlag
  <2>2. StateSetTypes' /\ WakeTypes' /\ HolderTrue' /\ WakersTrue' /\ ExitTold'
    BY <1>1, <2>1, Known DEF StateSetTypes, WakeTypes, HolderTrue, WakersTrue, Waking, ExitTold
  <2>3. NoSleepOnChange'
    BY <1>1, <2>1, Known DEF NoSleepOnChange, AboutToWake, Listens
  <2>. QED BY <1>2, <2>2, <2>3 DEF IInv, TypeOK
<1>4. CASE flag # 0
  <2>1. /\ caSemId = NoHolder /\ caSemId' = Handler /\ cbPc' = "flag"
        /\ Change(flag) /\ StartWakeup(Handler, flag)
    BY <1>4 DEF MonitorFlag
  <2>2. flag \in Events \cup {AnyEvent}
    BY <1>4, Known DEF LabelTypes, SequencerAssumption
  <2>. HIDE DEF flag
  <2>3. /\ WakeTypes' /\ \A u \in SS \cup {Stopper} : wake'[u] = wake[u]
    BY <1>1, <2>1, <2>2, WakingStarts, StateSets, Known
  <2>4. StateSetTypes' /\ HolderTrue'
    BY <1>1, <2>1, <2>2, Changes, StateSets, Known DEF StateSetTypes, HolderTrue
  <2>5. NoSleepOnChange'
    BY <1>1, <2>1, <2>2, ToldOfChange, StateSets
  <2>6. WakersTrue' /\ ExitTold'
    BY <1>1, <2>1, <2>3, Known DEF WakersTrue, ExitTold, Waking
  <2>. QED BY <1>2, <2>3, <2>4, <2>5, <2>6 DEF IInv, TypeOK
<1>. QED BY <1>3, <1>4

\* What a callback does when it has woken the state sets.
LEMMA CallbackEndsStep ==
    ASSUME SequencerAssumption, IInv, MonitorFlagSet \/ MonitorFirst \/ ConnectionReturns
    PROVE  IInv'
<1>1. /\ cbPc \in {"flag", "first", "connection"} /\ ~Waking(Handler)
      /\ cbPc' = (IF cbPc = "flag" THEN "first" ELSE "idle")
      /\ caSemId' = (IF cbPc = "flag" THEN NoHolder ELSE caSemId)
      /\ UNCHANGED <<created, destroyed, connected, gotFirstConnect, pMask, threadId,
            syncSemId, death1SemId, death2SemId, death3SemId, death4SemId, wake, pc,
            cbChan, stopPc, stopSS, gaveUp, changed>>
  BY Known DEF MonitorFlagSet, MonitorFirst, ConnectionReturns, chanVars, deathVars,
    stopVars, WakersTrue
<1>2. /\ gotFirstMonitor \subseteq gotFirstMonitor'
      /\ gotFirstMonitor' \subseteq
            gotFirstMonitor \cup (gotFirstConnect \cap Monitored)
      /\ allFirstSemId' \in {allFirstSemId, SS}
      /\ Complete(gotFirstConnect, gotFirstMonitor)' =>
            allFirstSemId' = SS \/ Complete(gotFirstConnect, gotFirstMonitor)
  BY Known DEF MonitorFlagSet, MonitorFirst, ConnectionReturns, chanVars, Complete,
    ChannelsTrue
<1>3. ChanTypes' /\ StateSetTypes' /\ WakeTypes' /\ LabelTypes'
  BY <1>1, <1>2, Known DEF ChanTypes, StateSetTypes, WakeTypes, LabelTypes
<1>4. HolderTrue'
  BY <1>1, Known, StateSets DEF HolderTrue
<1>5. NoSleepOnChange'
  BY <1>1, Known DEF NoSleepOnChange, AboutToWake, Listens
<1>6. WakersTrue' /\ ExitTold'
  BY <1>1, Known DEF WakersTrue, Waking, ExitTold
<1>7. ChannelsTrue' /\ PhasesTrue'
  BY <1>1, <1>2, Known DEF ChannelsTrue, PhasesTrue
<1>8. FirstsKept'
  BY <1>1, <1>2, Known DEF FirstsKept
<1>. QED BY <1>3, <1>4, <1>5, <1>6, <1>7, <1>8 DEF IInv, TypeOK

-----------------------------------------------------------------------------
(* The program starts *)

LEMMA StartStep ==
    ASSUME SequencerAssumption, IInv, Connect \/ Spawn
    PROVE  IInv'
<1>1. /\ pc[1] \in {"connect", "spawn"}
      /\ pc' = IF pc[1] = "connect" THEN [pc EXCEPT ![1] = "spawn"] ELSE [s \in SS |-> "init"]
      /\ created' = IF pc[1] = "connect" THEN Channels ELSE created
      /\ UNCHANGED <<destroyed, connected, gotFirstConnect, gotFirstMonitor, pMask,
            threadId, syncSemId, allFirstSemId, death1SemId, death2SemId, death3SemId,
            death4SemId, caSemId, wake, cbPc, cbChan, stopPc, stopSS, gaveUp, changed>>
  BY DEF Connect, Spawn, Goto, chanVars, deathVars, cbVars, stopVars
<1>2. /\ pc \in [SS -> {"connect", "spawn", "unborn", "init", "first", "begin", "enter",
            "wait", "check", "event", "triggered", "action", "setting", "exit", "dying",
            "dead"}]
      /\ \A s \in SS : pc[s] \in {"connect", "spawn", "unborn"}
  BY <1>1, Known, StateSets DEF ChannelsTrue, LabelTypes
<1>3. \A s \in SS : pc'[s] \in {"spawn", "unborn", "init"}
  BY <1>1, <1>2, Known, StateSets DEF ChannelsTrue
<1>4. ChanTypes' /\ StateSetTypes' /\ WakeTypes'
  BY <1>1, Known DEF ChanTypes, StateSetTypes, WakeTypes, ChannelsTrue
<1>5. LabelTypes'
  BY <1>1, <1>2, StateSets, Known DEF LabelTypes
<1>6. HolderTrue' /\ WakersTrue'
  BY <1>1, <1>2, <1>3, StateSets, Known DEF HolderTrue, WakersTrue, Waking
<1>7. NoSleepOnChange' /\ ExitTold'
  BY <1>3 DEF NoSleepOnChange, ExitTold
<1>8. ChannelsTrue'
  <2>1. CASE pc[1] = "connect"
    BY <2>1, <1>1, <1>2, StateSets, Known DEF ChannelsTrue, ChanTypes
  <2>2. CASE pc[1] = "spawn"
    BY <2>2, <1>1, <1>2, StateSets, Known DEF ChannelsTrue, ChanTypes
  <2>. QED BY <2>1, <2>2, <1>1
<1>9. FirstsKept'
  BY <1>1, <1>2, Known DEF FirstsKept, Complete
<1>10. PhasesTrue'
  BY <1>1, <1>2, <1>3, Known, StateSets DEF PhasesTrue, LabelTypes
<1>. QED BY <1>4, <1>5, <1>6, <1>7, <1>8, <1>9, <1>10 DEF IInv, TypeOK

-----------------------------------------------------------------------------
(* A state set runs *)

\* The labels of the other state sets stay.
LEMMA Goes ==
    ASSUME LabelTypes, NEW s \in SS, NEW label, Goto(s, label)
    PROVE  pc'[s] = label /\ \A u \in SS \ {s} : pc'[u] = pc[u]
BY DEF LabelTypes, Goto

\* A step of one state set that sends nobody to sleep.
LEMMA NobodyToSleep ==
    ASSUME SequencerAssumption, IInv, NEW s \in SS, NEW label, label # "wait", Goto(s, label),
           UNCHANGED <<stopPc, wake>>, death1SemId' \subseteq death1SemId,
           \A u \in SS \ {s} : pMask'[u] = pMask[u] /\ changed'[u] = changed[u]
                               /\ (u \in syncSemId <=> u \in syncSemId'),
           label = "event" => s \notin death1SemId'
    PROVE  NoSleepOnChange' /\ ExitTold'
<1>1. pc'[s] = label /\ \A u \in SS \ {s} : pc'[u] = pc[u]
  BY Goes, Known
<1>2. ExitTold'
  BY <1>1, Known DEF ExitTold
<1>3. NoSleepOnChange'
  <2>. SUFFICES ASSUME NEW u \in SS, pc'[u] = "wait", u \notin syncSemId'
                PROVE  /\ \A e \in changed'[u] : Listens(u, e)' => AboutToWake(u, e)'
                       /\ u \in death1SemId' => stopPc' = "ask1" \/ AboutToWake(u, AnyEvent)'
    BY DEF NoSleepOnChange
  <2>1. u # s /\ pc[u] = "wait" /\ u \notin syncSemId
    BY <1>1
  <2>2. \A e : AboutToWake(u, e) <=> AboutToWake(u, e)'
    BY DEF AboutToWake
  <2>. QED BY <2>1, <2>2, StillTold, Known
<1>. QED BY <1>2, <1>3

\* A thread that is dying stays so until it is dead, whatever seqStop waits for.
LEMMA PhasesKept ==
    ASSUME SequencerAssumption, PhasesTrue, LabelTypes,
           UNCHANGED <<stopPc, stopSS, gaveUp>>,
           \A u \in SS : pc[u] = "dying" => pc'[u] \in {"dying", "dead"},
           \A u \in SS : pc[u] = "dead" => pc'[u] = "dead",
           \A u \in SS : u \in death2SemId' => u \in death2SemId \/ pc'[u] = "dying",
           \A u \in SS : u \in death4SemId' => u \in death4SemId \/ pc'[u] = "dead"
    PROVE  PhasesTrue'
<1>1. \A u \in 1..stopSS - 1 : u \in SS
  BY StateSets DEF LabelTypes, SS
<1>2. \A u \in SS : /\ u \in death2SemId' => pc'[u] \in {"dying", "dead"}
                    /\ u \in death4SemId' => pc'[u] = "dead"
  BY DEF PhasesTrue
<1>. HIDE DEF SS
<1>3. ~gaveUp' =>
        /\ stopPc' = "wait2" => \A u \in 1..stopSS' - 1 : pc'[u] \in {"dying", "dead"}
        /\ stopPc' \in {"ask3", "wait4", "freed"} => \A u \in SS : pc'[u] \in {"dying", "dead"}
  BY <1>1 DEF PhasesTrue
<1>4. ~gaveUp' =>
        /\ stopPc' = "wait4" => \A u \in 1..stopSS' - 1 : pc'[u] = "dead"
        /\ stopPc' = "freed" => \A u \in SS : pc'[u] = "dead"
  BY <1>1 DEF PhasesTrue
<1>5. stopPc' \in {"idle", "wake"} => stopSS' = 1
  BY DEF PhasesTrue
<1>. QED BY <1>2, <1>3, <1>4, <1>5 DEF PhasesTrue

\* Steps that only go on to another label, and what stays in all of them.
LEMMA GoesOnStep ==
    ASSUME SequencerAssumption, IInv, NEW s \in SS,
           ss_thread_init(s) \/ Begin(s) \/ Triggered(s) \/ ActionEnds(s) \/ seq_efSetReturns(s)
    PROVE  IInv'
<1>1. PICK label \in {"first", "begin", "enter", "action"} :
         /\ Goto(s, label)
         /\ pc[s] \in {"init", "begin", "triggered", "action", "setting"}
         /\ label = "first" => pc[s] = "init"
         /\ ~Waking(s)
         /\ caSemId' = (IF pc[s] = "setting" THEN NoHolder ELSE caSemId)
  BY Known DEF ss_thread_init, Begin, Triggered, ActionEnds, seq_efSetReturns, WakersTrue
<1>2. /\ threadId' \in {threadId, threadId \cup {s}}
      /\ pMask' = pMask \/ \E mask \in Masks : pMask' = [pMask EXCEPT ![s] = mask]
      /\ UNCHANGED <<created, destroyed, connected, gotFirstConnect, gotFirstMonitor,
            syncSemId, allFirstSemId, death1SemId, death2SemId, death3SemId, death4SemId,
            wake, cbPc, cbChan, stopPc, stopSS, gaveUp, changed>>
  BY DEF ss_thread_init, Begin, Triggered, ActionEnds, seq_efSetReturns, chanVars, deathVars,
    cbVars, stopVars
<1>3. pc'[s] = label /\ \A u \in SS \ {s} : pc'[u] = pc[u]
  BY <1>1, Goes, Known
<1>4. ChanTypes' /\ StateSetTypes' /\ WakeTypes'
  BY <1>2, Known DEF ChanTypes, StateSetTypes, WakeTypes
<1>5. LabelTypes'
  BY <1>1, <1>2, Known DEF LabelTypes, Goto
<1>6. HolderTrue' /\ WakersTrue'
  BY <1>1, <1>2, <1>3, Known, StateSets DEF HolderTrue, WakersTrue, Waking
<1>7. NoSleepOnChange' /\ ExitTold'
  BY <1>1, <1>2, NobodyToSleep, Known DEF StateSetTypes
<1>8. ChannelsTrue' /\ FirstsKept' /\ PhasesTrue'
  <2>1. ChannelsTrue'
    BY <1>1, <1>2, <1>3, Known, StateSets DEF ChannelsTrue
  <2>2. FirstsKept'
    BY <1>1, <1>2, <1>3, Known DEF FirstsKept, Complete
  <2>3. PhasesTrue'
    BY <1>1, <1>2, <1>3, Known, PhasesKept
  <2>. QED BY <2>1, <2>2, <2>3
<1>. QED BY <1>4, <1>5, <1>6, <1>7, <1>8 DEF IInv, TypeOK

\* seq_waitConnect, the wait and the look at the request to exit.
LEMMA WaitsStep ==
    ASSUME SequencerAssumption, IInv, NEW s \in SS,
           seq_waitConnect(s) \/ Wait(s) \/ Check(s)
    PROVE  IInv'
<1>1. PICK label \in {"begin", "exit", "check", "event"} :
         /\ Goto(s, label)
         /\ pc[s] \in {"first", "wait", "check"}
         /\ label = "event" => s \notin death1SemId'
  BY DEF seq_waitConnect, Wait, Check
<1>2. /\ death1SemId' \in {death1SemId, death1SemId \ {s}}
      /\ syncSemId' \in {syncSemId, syncSemId \ {s}}
      /\ allFirstSemId' \in {allFirstSemId, allFirstSemId \ {s}}
      /\ UNCHANGED <<created, destroyed, connected, gotFirstConnect, gotFirstMonitor, pMask,
            threadId, death2SemId, death3SemId, death4SemId, caSemId, wake, cbPc, cbChan,
            stopPc, stopSS, gaveUp, changed>>
  BY DEF seq_waitConnect, Wait, Check, chanVars, deathVars, cbVars, stopVars
<1>3. pc'[s] = label /\ \A u \in SS \ {s} : pc'[u] = pc[u]
  BY <1>1, Goes, Known
<1>4. ChanTypes' /\ StateSetTypes' /\ WakeTypes'
  BY <1>2, Known DEF ChanTypes, StateSetTypes, WakeTypes
<1>5. LabelTypes'
  BY <1>1, <1>2, Known DEF LabelTypes, Goto
<1>6. HolderTrue' /\ WakersTrue'
  BY <1>1, <1>2, <1>3, Known, StateSets DEF HolderTrue, WakersTrue, Waking
<1>7. NoSleepOnChange' /\ ExitTold'
  BY <1>1, <1>2, NobodyToSleep
<1>8. ChannelsTrue' /\ FirstsKept' /\ PhasesTrue'
  <2>1. ChannelsTrue'
    BY <1>1, <1>2, <1>3, Known, StateSets DEF ChannelsTrue
  <2>2. FirstsKept'
    BY <1>1, <1>2, <1>3, Known DEF FirstsKept, Complete
  <2>3. PhasesTrue'
    BY <1>1, <1>2, <1>3, Known, PhasesKept
  <2>. QED BY <2>1, <2>2, <2>3
<1>. QED BY <1>4, <1>5, <1>6, <1>7, <1>8 DEF IInv, TypeOK

\* A state that is entered signals its own semaphore: it does not sleep at once.
LEMMA EnterStep ==
    ASSUME SequencerAssumption, IInv, NEW s \in SS, Enter(s)
    PROVE  IInv'
<1>1. /\ Goto(s, "wait") /\ pc[s] = "enter" /\ syncSemId' = syncSemId \cup {s}
      /\ UNCHANGED <<created, destroyed, connected, gotFirstConnect, gotFirstMonitor, pMask,
            threadId, allFirstSemId, death1SemId, death2SemId, death3SemId, death4SemId,
            caSemId, wake, cbPc, cbChan, stopPc, stopSS, gaveUp, changed>>
  BY DEF Enter, chanVars, deathVars, cbVars, stopVars
<1>3. pc'[s] = "wait" /\ \A u \in SS \ {s} : pc'[u] = pc[u]
  BY <1>1, Goes, Known
<1>4. ChanTypes' /\ StateSetTypes' /\ WakeTypes' /\ LabelTypes'
  BY <1>1, Known DEF ChanTypes, StateSetTypes, WakeTypes, LabelTypes, Goto
<1>6. HolderTrue' /\ WakersTrue'
  BY <1>1, <1>3, Known, StateSets DEF HolderTrue, WakersTrue, Waking
<1>7. ExitTold'
  BY <1>1, <1>3, Known DEF ExitTold
<1>8. NoSleepOnChange'
  <2>. SUFFICES ASSUME NEW u \in SS, pc'[u] = "wait", u \notin syncSemId'
                PROVE  /\ \A e \in changed'[u] : Listens(u, e)' => AboutToWake(u, e)'
                       /\ u \in death1SemId' => stopPc' = "ask1" \/ AboutToWake(u, AnyEvent)'
    BY DEF NoSleepOnChange
  <2>1. u # s /\ pc[u] = "wait" /\ u \notin syncSemId
    BY <1>1, <1>3
  <2>2. \A e : AboutToWake(u, e) <=> AboutToWake(u, e)'
    BY <1>1 DEF AboutToWake
  <2>. QED BY <1>1, <2>1, <2>2, StillTold, Known
<1>9. ChannelsTrue' /\ FirstsKept' /\ PhasesTrue'
  <2>1. ChannelsTrue'
    BY <1>1, <1>3, Known, StateSets DEF ChannelsTrue
  <2>2. FirstsKept'
    BY <1>1, <1>3, Known DEF FirstsKept, Complete
  <2>3. PhasesTrue'
    BY <1>1, <1>3, Known, PhasesKept
  <2>. QED BY <2>1, <2>2, <2>3
<1>. QED BY <1>4, <1>6, <1>7, <1>8, <1>9 DEF IInv, TypeOK

\* A state set that sleeps again after its conditions has seen every change.
LEMMA EventFuncStep ==
    ASSUME SequencerAssumption, IInv, NEW s \in SS, EventFunc(s)
    PROVE  IInv'
<1>1. PICK label \in {"triggered", "wait"} : Goto(s, label)
  BY DEF EventFunc
<1>2. /\ pc[s] = "event" /\ changed' = [changed EXCEPT ![s] = {}]
      /\ UNCHANGED <<created, destroyed, connected, gotFirstConnect, gotFirstMonitor, pMask,
            threadId, syncSemId, allFirstSemId, death1SemId, death2SemId, death3SemId,
            death4SemId, caSemId, wake, cbPc, cbChan, stopPc, stopSS, gaveUp>>
  BY DEF EventFunc, chanVars, deathVars, cbVars, stopVars
<1>3. pc'[s] = label /\ \A u \in SS \ {s} : pc'[u] = pc[u]
  BY <1>1, Goes, Known
<1>4. ChanTypes' /\ StateSetTypes' /\ WakeTypes' /\ LabelTypes'
  BY <1>1, <1>2, Known DEF ChanTypes, StateSetTypes, WakeTypes, LabelTypes, Goto
<1>5. changed'[s] = {} /\ \A u \in SS \ {s} : changed'[u] = changed[u]
  BY <1>2, Known DEF StateSetTypes
<1>6. HolderTrue' /\ WakersTrue'
  BY <1>1, <1>2, <1>3, Known, StateSets DEF HolderTrue, WakersTrue, Waking
<1>7. ExitTold'
  BY <1>2, <1>3, Known DEF ExitTold
<1>8. NoSleepOnChange'
  <2>. SUFFICES ASSUME NEW u \in SS, pc'[u] = "wait", u \notin syncSemId'
                PROVE  /\ \A e \in changed'[u] : Listens(u, e)' => AboutToWake(u, e)'
                       /\ u \in death1SemId' => stopPc' = "ask1" \/ AboutToWake(u, AnyEvent)'
    BY DEF NoSleepOnChange
  <2>1. CASE u = s
    <3>1. u \in death1SemId => stopPc = "ask1" \/ (stopPc = "wake" /\ wake[Stopper].next <= u)
      BY <1>2, <2>1, Known DEF ExitTold
    <3>2. stopPc = "wake" /\ wake[Stopper].next <= u => AboutToWake(u, AnyEvent)'
      <4>. SUFFICES ASSUME wake[Stopper].next <= u PROVE AboutToWake(u, AnyEvent)'
        OBVIOUS
      <4>1. Waking(Stopper)
        BY StateSets, Known DEF Waking, WakeTypes
      <4>2. wake[Stopper].event = AnyEvent
        BY <4>1, Known DEF WakersTrue
      <4>. QED BY <1>2, <4>2, StateSets DEF AboutToWake
    <3>. QED BY <1>2, <1>5, <2>1, <3>1, <3>2
  <2>2. CASE u # s
    <3>1. pc[u] = "wait" /\ u \notin syncSemId
      BY <1>2, <1>3, <2>2
    <3>2. \A e : AboutToWake(u, e) <=> AboutToWake(u, e)'
      BY <1>2 DEF AboutToWake
    <3>. QED BY <1>2, <1>5, <2>2, <3>1, <3>2, StillTold, Known
  <2>. QED BY <2>1, <2>2
<1>9. ChannelsTrue' /\ FirstsKept' /\ PhasesTrue'
  <2>1. ChannelsTrue'
    BY <1>2, <1>3, Known, StateSets DEF ChannelsTrue
  <2>2. FirstsKept'
    BY <1>2, <1>3, Known DEF FirstsKept, Complete
  <2>3. PhasesTrue'
    BY <1>2, <1>3, Known, PhasesKept
  <2>. QED BY <2>1, <2>2, <2>3
<1>. QED BY <1>4, <1>6, <1>7, <1>8, <1>9 DEF IInv, TypeOK

LEMMA EfSetStep ==
    ASSUME SequencerAssumption, IInv, NEW s \in SS, NEW flag \in Flags, seq_efSet(s, flag)
    PROVE  IInv'
<1>1. /\ pc[s] = "action" /\ caSemId = NoHolder /\ caSemId' = s
      /\ Change(flag) /\ StartWakeup(s, flag) /\ Goto(s, "setting")
      /\ UNCHANGED <<created, destroyed, connected, gotFirstConnect, gotFirstMonitor, pMask,
            threadId, syncSemId, allFirstSemId, death1SemId, death2SemId, death3SemId,
            death4SemId, cbPc, cbChan, stopPc, stopSS, gaveUp>>
  BY DEF seq_efSet, chanVars, deathVars, cbVars, stopVars
<1>2. ~Waking(s) /\ flag \in Events \cup {AnyEvent}
  BY <1>1, Known DEF WakersTrue, SequencerAssumption
<1>3. pc'[s] = "setting" /\ \A u \in SS \ {s} : pc'[u] = pc[u]
  BY <1>1, Goes, Known
<1>4. WakeTypes' /\ \A u \in (0..Stopper) \ {s} : wake'[u] = wake[u]
  BY <1>1, <1>2, WakingStarts, StateSets, Known
<1>5. ChanTypes' /\ StateSetTypes' /\ LabelTypes'
  BY <1>1, <1>2, Changes, Known DEF ChanTypes, StateSetTypes, LabelTypes, Goto
<1>6. HolderTrue' /\ WakersTrue' /\ ExitTold'
  BY <1>1, <1>3, <1>4, Known, StateSets DEF HolderTrue, WakersTrue, Waking, ExitTold
<1>7. NoSleepOnChange'
  <2>1. \A u \in SS : pc'[u] = "wait" => pc[u] = "wait"
    BY <1>1, <1>3
  <2>. QED BY <1>1, <1>2, <2>1, ToldOfChange, StateSets
<1>8. ChannelsTrue' /\ FirstsKept' /\ PhasesTrue'
  <2>1. ChannelsTrue'
    BY <1>1, <1>3, Known, StateSets DEF ChannelsTrue
  <2>2. FirstsKept'
    BY <1>1, <1>3, Known DEF FirstsKept, Complete
  <2>3. PhasesTrue'
    BY <1>1, <1>3, Known, PhasesKept
  <2>. QED BY <2>1, <2>2, <2>3
<1>. QED BY <1>4, <1>5, <1>6, <1>7, <1>8 DEF IInv, TypeOK

-----------------------------------------------------------------------------
(* A thread ends *)

LEMMA DisconnectStep ==
    ASSUME SequencerAssumption, IInv, NEW c \in Channels, seq_disconnect(c)
    PROVE  IInv'
<1>1. /\ pc[1] = "exit" /\ c \in created \ destroyed /\ cbPc = "idle"
      /\ destroyed' = destroyed \cup {c} /\ connected' = connected \ {c}
      /\ UNCHANGED <<created, gotFirstConnect, gotFirstMonitor, pMask, threadId, syncSemId,
            allFirstSemId, death1SemId, death2SemId, death3SemId, death4SemId, caSemId, wake,
            pc, cbPc, cbChan, stopPc, stopSS, gaveUp, changed>>
  BY DEF seq_disconnect, deathVars, cbVars, stopVars
<1>2. ChanTypes' /\ StateSetTypes' /\ WakeTypes' /\ LabelTypes' /\ HolderTrue'
  BY <1>1, Known DEF ChanTypes, StateSetTypes, WakeTypes, LabelTypes, HolderTrue
<1>3. WakersTrue' /\ ExitTold'
  BY <1>1, Known DEF WakersTrue, Waking, ExitTold
<1>4. NoSleepOnChange'
  BY <1>1, Known DEF NoSleepOnChange, AboutToWake, Listens
<1>5. ChannelsTrue' /\ FirstsKept' /\ PhasesTrue'
  BY <1>1, Known DEF ChannelsTrue, FirstsKept, Complete, PhasesTrue
<1>. QED BY <1>2, <1>3, <1>4, <1>5 DEF IInv, TypeOK

LEMMA DeathStep ==
    ASSUME SequencerAssumption, IInv, NEW s \in SS, Phase1(s) \/ Phase2(s)
    PROVE  IInv'
<1>1. PICK label \in {"dying", "dead"} :
         /\ Goto(s, label)
         /\ pc[s] = IF label = "dying" THEN "exit" ELSE "dying"
         /\ label = "dying" /\ s = 1 => destroyed = created
         /\ death2SemId' = IF label = "dying" THEN death2SemId \cup {s} ELSE death2SemId
         /\ death4SemId' = IF label = "dead" THEN death4SemId \cup {s} ELSE death4SemId
  BY DEF Phase1, Phase2
<1>2. /\ death3SemId' \in {death3SemId, death3SemId \ {s}}
      /\ UNCHANGED <<created, destroyed, connected, gotFirstConnect, gotFirstMonitor, pMask,
            threadId, syncSemId, allFirstSemId, death1SemId, caSemId, wake, cbPc, cbChan,
            stopPc, stopSS, gaveUp, changed>>
  BY DEF Phase1, Phase2, chanVars, cbVars, stopVars
<1>3. pc'[s] = label /\ \A u \in SS \ {s} : pc'[u] = pc[u]
  BY <1>1, Goes, Known
<1>4. ChanTypes' /\ StateSetTypes' /\ WakeTypes'
  BY <1>1, <1>2, Known DEF ChanTypes, StateSetTypes, WakeTypes
<1>5. LabelTypes'
  BY <1>1, <1>2, Known DEF LabelTypes, Goto
<1>6. HolderTrue' /\ WakersTrue'
  BY <1>1, <1>2, <1>3, Known, StateSets DEF HolderTrue, WakersTrue, Waking
<1>7. NoSleepOnChange' /\ ExitTold'
  BY <1>1, <1>2, NobodyToSleep
<1>8. ChannelsTrue' /\ FirstsKept'
  BY <1>1, <1>2, <1>3, Known, StateSets DEF ChannelsTrue, FirstsKept, Complete
<1>9. PhasesTrue'
  BY <1>1, <1>2, <1>3, Known, PhasesKept
<1>. QED BY <1>4, <1>5, <1>6, <1>7, <1>8, <1>9 DEF IInv, TypeOK

-----------------------------------------------------------------------------
(* seqStop *)

\* The loop over the state sets has an end.
LEMMA Loops ==
    ASSUME SequencerAssumption, LabelTypes, NEW label, EndOfLoop(label)
    PROVE  /\ stopSS' \in SS
           /\ \/ stopSS < NumSS /\ stopSS' = stopSS + 1 /\ stopPc' = stopPc
              \/ stopSS = NumSS /\ stopSS' = 1 /\ stopPc' = label
           /\ \A s \in SS : stopPc' = label /\ stopPc # label => s \in 1..stopSS
           /\ \A s \in 1..stopSS : s = stopSS \/ s \in 1..stopSS - 1
           /\ stopSS' # 1 => stopSS = stopSS' - 1
<1>1. stopSS \in 1..NumSS /\ NumSS \in Nat \ {0}
  BY DEF LabelTypes, SequencerAssumption, SS
<1>. QED BY <1>1 DEF EndOfLoop, SS

\* Steps that only change what seqStop knows.
LEMMA StopFrame ==
    ASSUME SequencerAssumption, IInv,
           UNCHANGED <<created, destroyed, connected, gotFirstConnect, gotFirstMonitor, pMask,
                threadId, syncSemId, allFirstSemId, caSemId, pc, cbPc, cbChan, changed>>,
           death1SemId' \subseteq SS, death2SemId' \subseteq death2SemId,
           death3SemId' \subseteq SS, death4SemId' \subseteq death4SemId
    PROVE  /\ ChanTypes' /\ StateSetTypes' /\ HolderTrue' /\ ChannelsTrue' /\ FirstsKept'
           /\ \A s \in SS : /\ s \in death2SemId' => pc'[s] \in {"dying", "dead"}
                            /\ s \in death4SemId' => pc'[s] = "dead"
<1>1. ChanTypes' /\ StateSetTypes' /\ HolderTrue'
  BY Known DEF ChanTypes, StateSetTypes, HolderTrue
<1>2. ChannelsTrue' /\ FirstsKept'
  BY Known DEF ChannelsTrue, FirstsKept, Complete
<1>3. \A s \in SS : /\ s \in death2SemId' => pc'[s] \in {"dying", "dead"}
                    /\ s \in death4SemId' => pc'[s] = "dead"
  BY Known DEF PhasesTrue
<1>. QED BY <1>1, <1>2, <1>3

\* Nobody loses a call that wakes it when the phase of seqStop goes on.
LEMMA StillAwake ==
    ASSUME SequencerAssumption, IInv,
           UNCHANGED <<pMask, syncSemId, death1SemId, wake, pc, changed>>, stopPc # "ask1"
    PROVE  NoSleepOnChange'
BY Known DEF NoSleepOnChange, AboutToWake, Listens

LEMMA StopBeginsStep ==
    ASSUME SequencerAssumption, IInv, seqStop \/ Woken
    PROVE  IInv'
<1>1. /\ \/ stopPc = "idle" /\ stopPc' = "ask1"
         \/ stopPc = "wake" /\ stopPc' = "wait2"
      /\ stopPc = "wake" => ~Waking(Stopper)
      /\ UNCHANGED <<created, destroyed, connected, gotFirstConnect, gotFirstMonitor, pMask,
            threadId, syncSemId, allFirstSemId, death1SemId, death2SemId, death3SemId,
            death4SemId, caSemId, wake, pc, cbPc, cbChan, stopSS, gaveUp, changed>>
  <2>1. CASE seqStop
    BY <2>1 DEF seqStop, chanVars, deathVars, cbVars
  <2>2. CASE Woken
    BY <2>2 DEF Woken, chanVars, deathVars, cbVars
  <2>. QED BY <2>1, <2>2
<1>2. ~Waking(Stopper)
  BY <1>1, Known DEF WakersTrue
<1>3. WakeTypes' /\ LabelTypes' /\ WakersTrue'
  BY <1>1, <1>2, Known DEF WakeTypes, LabelTypes, WakersTrue, Waking
<1>4. NoSleepOnChange'
  BY <1>1, StillAwake
<1>5. ExitTold'
  <2>1. \A s \in SS : ~(wake[Stopper].next <= s)
    BY <1>2, Known, StateSets DEF Waking, WakeTypes
  <2>. QED BY <1>1, <2>1, Known DEF ExitTold
<1>6. PhasesTrue'
  <2>1. stopSS' = 1
    BY <1>1, Known DEF PhasesTrue
  <2>2. 1..stopSS' - 1 = {}
    BY <2>1
  <2>. QED BY <1>1, <2>1, <2>2, Known DEF PhasesTrue
<1>7. ChanTypes' /\ StateSetTypes' /\ HolderTrue' /\ ChannelsTrue' /\ FirstsKept'
  BY <1>1, StopFrame, Known DEF StateSetTypes
<1>. QED BY <1>3, <1>4, <1>5, <1>6, <1>7 DEF IInv, TypeOK

LEMMA AskPhase1Step ==
    ASSUME SequencerAssumption, IInv, AskPhase1
    PROVE  IInv'
<1>1. /\ stopPc = "ask1" /\ EndOfLoop("wake") /\ gaveUp' \in BOOLEAN
      /\ death1SemId' = death1SemId \cup ({stopSS} \cap threadId)
      /\ IF stopPc' = "wake" THEN StartWakeup(Stopper, AnyEvent) ELSE UNCHANGED wake
      /\ UNCHANGED <<created, destroyed, connected, gotFirstConnect, gotFirstMonitor, pMask,
            threadId, syncSemId, allFirstSemId, death2SemId, death3SemId, death4SemId,
            caSemId, pc, cbPc, cbChan, changed>>
  BY DEF AskPhase1, chanVars, cbVars
<1>2. /\ stopSS' \in SS /\ stopPc' \in {"ask1", "wake"}
      /\ stopPc' = "wake" => stopSS' = 1
  BY <1>1, Loops, Known
<1>3. death1SemId' \subseteq SS
  BY <1>1, Known DEF LabelTypes, StateSetTypes
<1>4. /\ ChanTypes' /\ StateSetTypes' /\ HolderTrue' /\ ChannelsTrue' /\ FirstsKept'
      /\ \A s \in SS : /\ s \in death2SemId' => pc'[s] \in {"dying", "dead"}
                       /\ s \in death4SemId' => pc'[s] = "dead"
  BY <1>1, <1>3, StopFrame, Known DEF StateSetTypes
<1>5. LabelTypes'
  BY <1>1, <1>2, Known DEF LabelTypes
<1>6. PhasesTrue'
  BY <1>2, <1>4 DEF PhasesTrue
<1>7. ~Waking(Stopper)
  BY <1>1, Known DEF WakersTrue
<1>8. CASE stopPc' = "ask1"
  <2>1. UNCHANGED <<wake, stopPc>>
    BY <1>1, <1>8
  <2>2. WakeTypes' /\ WakersTrue' /\ ExitTold'
    BY <1>1, <1>8, <2>1, Known DEF WakeTypes, WakersTrue, Waking, ExitTold
  <2>3. NoSleepOnChange'
    BY <1>1, <1>8, <2>1, Known DEF NoSleepOnChange, AboutToWake, Listens
  <2>. QED BY <1>4, <1>5, <1>6, <2>2, <2>3 DEF IInv, TypeOK
<1>9. CASE stopPc' = "wake"
  <2>1. /\ WakeTypes' /\ wake'[Stopper] = [event |-> AnyEvent, next |-> 1]
        /\ \A u \in 0..Stopper \ {Stopper} : wake'[u] = wake[u]
        /\ \A s \in SS :
             /\ AboutToWake(s, AnyEvent)'
             /\ \A e \in Events \cup {AnyEvent} : AboutToWake(s, e) => AboutToWake(s, e)'
    BY <1>1, <1>7, <1>9, WakingStarts, StateSets, Known
  <2>2. WakersTrue'
    BY <1>1, <1>9, <2>1, StateSets, Known DEF WakersTrue, Waking
  <2>3. ExitTold'
    BY <1>1, <1>9, <2>1, StateSets, Known DEF ExitTold
  <2>4. NoSleepOnChange'
    <3>1. \A s \in SS : changed[s] \subseteq Events \cup {AnyEvent}
      BY Known DEF StateSetTypes
    <3>2. \A s \in SS : \A e : Listens(s, e)' <=> Listens(s, e)
      BY <1>1 DEF Listens
    <3>. QED BY <1>1, <2>1, <3>1, <3>2, Known DEF NoSleepOnChange
  <2>. QED BY <1>4, <1>5, <1>6, <2>1, <2>2, <2>3, <2>4 DEF IInv, TypeOK
<1>. QED BY <1>2, <1>8, <1>9

\* The loops that wait and the one between them.
LEMMA WaitPhaseStep ==
    ASSUME SequencerAssumption, IInv, WaitPhase1 \/ AskPhase2 \/ WaitPhase2
    PROVE  IInv'
<1>0. gaveUp' \in BOOLEAN
  BY Known DEF WaitPhase1, AskPhase2, WaitPhase2, LabelTypes
<1>10. ~gaveUp' => ~gaveUp
  BY DEF WaitPhase1, AskPhase2, WaitPhase2
<1>1. /\ death3SemId' \subseteq death3SemId \cup {stopSS}
      /\ death2SemId' \subseteq death2SemId /\ death4SemId' \subseteq death4SemId
      /\ UNCHANGED <<created, destroyed, connected, gotFirstConnect, gotFirstMonitor, pMask,
            threadId, syncSemId, allFirstSemId, death1SemId, caSemId, wake, pc, cbPc, cbChan,
            changed>>
  BY Known DEF WaitPhase1, AskPhase2, WaitPhase2, chanVars, cbVars, LabelTypes
<1>2. \/ /\ stopPc = "wait2" /\ EndOfLoop("ask3")
         /\ ~gaveUp' => pc[stopSS] \in {"dying", "dead"}
      \/ stopPc = "ask3" /\ EndOfLoop("wait4")
      \/ /\ stopPc = "wait4" /\ EndOfLoop("freed")
         /\ ~gaveUp' => pc[stopSS] = "dead"
  BY Known DEF WaitPhase1, AskPhase2, WaitPhase2, PhasesTrue, LabelTypes
<1>3. stopSS' \in SS /\ stopPc' \in {"wait2", "ask3", "wait4", "freed"}
  BY <1>2, Loops, Known
<1>4. /\ ChanTypes' /\ StateSetTypes' /\ HolderTrue' /\ ChannelsTrue' /\ FirstsKept'
      /\ \A s \in SS : /\ s \in death2SemId' => pc'[s] \in {"dying", "dead"}
                       /\ s \in death4SemId' => pc'[s] = "dead"
  BY <1>1, StopFrame, Known DEF StateSetTypes, LabelTypes
<1>5. LabelTypes' /\ WakeTypes'
  <2>1. LabelTypes'
    <3>1. cbPc' = cbPc /\ cbChan' = cbChan /\ pc' = pc
      BY <1>1
    <3>2. stopPc' \in {"idle", "ask1", "wake", "wait2", "ask3", "wait4", "freed"}
      BY <1>3
    <3>. QED BY <1>0, <1>3, <3>1, <3>2, Known, Zenon DEF LabelTypes
  <2>2. WakeTypes'
    BY <1>1, Known DEF WakeTypes
  <2>. QED BY <2>1, <2>2
<1>6. WakersTrue' /\ ExitTold'
  BY <1>1, <1>2, Known DEF WakersTrue, ExitTold, Waking
<1>7. NoSleepOnChange'
  <2>1. stopPc # "ask1"
    BY <1>2
  <2>. QED BY <1>1, <2>1, StillAwake
<1>8. ~gaveUp' =>
        /\ stopPc = "wait2" => \A s \in 1..stopSS - 1 : pc[s] \in {"dying", "dead"}
        /\ stopPc \in {"ask3", "wait4"} => \A s \in SS : pc[s] \in {"dying", "dead"}
        /\ stopPc = "wait4" => \A s \in 1..stopSS - 1 : pc[s] = "dead"
  <2>. SUFFICES ASSUME ~gaveUp'
                PROVE  /\ stopPc = "wait2" => \A s \in 1..stopSS - 1 : pc[s] \in {"dying", "dead"}
                       /\ stopPc \in {"ask3", "wait4"} => \A s \in SS : pc[s] \in {"dying", "dead"}
                       /\ stopPc = "wait4" => \A s \in 1..stopSS - 1 : pc[s] = "dead"
    OBVIOUS
  <2>1. ~gaveUp
    BY <1>10
  <2>. QED BY <2>1, Known DEF PhasesTrue
<1>9. PhasesTrue'
  <2>. DEFINE Past == 1..stopSS - 1
              Past2 == 1..stopSS' - 1
  <2>1. /\ stopPc = "wait2" /\ stopPc' # stopPc => stopPc' = "ask3"
        /\ stopPc = "ask3" /\ stopPc' # stopPc => stopPc' = "wait4"
        /\ stopPc = "wait4" /\ stopPc' # stopPc => stopPc' = "freed"
        /\ stopPc \in {"wait2", "ask3", "wait4"}
    BY <1>2, Loops, Known
  <2>2. /\ stopPc' = stopPc => \A s \in Past2 : s = stopSS \/ s \in Past
        /\ stopPc' # stopPc => Past2 = {} /\ \A s \in SS : s = stopSS \/ s \in Past
    <3>1. PICK label : EndOfLoop(label)
      BY <1>2
    <3>2. \/ stopSS < NumSS /\ stopSS' = stopSS + 1 /\ stopPc' = stopPc
          \/ stopSS = NumSS /\ stopSS' = 1
      BY <3>1, Loops, Known
    <3>3. stopSS \in 1..NumSS /\ NumSS \in Nat
      BY Known DEF LabelTypes, SS, SequencerAssumption
    <3>. QED BY <3>2, <3>3 DEF SS
  <2>. HIDE DEF Past, Past2
  <2>3. ~gaveUp' =>
          /\ stopPc' = "wait2" => \A s \in Past2 : pc[s] \in {"dying", "dead"}
          /\ stopPc' \in {"ask3", "wait4", "freed"} => \A s \in SS : pc[s] \in {"dying", "dead"}
          /\ stopPc' = "wait4" => \A s \in Past2 : pc[s] = "dead"
          /\ stopPc' = "freed" => \A s \in SS : pc[s] = "dead"
    <3>. USE DEF Past
    <3>1. CASE stopPc = "wait2"
      BY <1>2, <1>8, <2>1, <2>2, <3>1
    <3>2. CASE stopPc = "ask3"
      BY <1>2, <1>8, <2>1, <2>2, <3>2
    <3>3. CASE stopPc = "wait4"
      BY <1>2, <1>8, <2>1, <2>2, <3>3
    <3>. QED BY <2>1, <3>1, <3>2, <3>3
  <2>. QED BY <1>1, <1>3, <1>4, <2>3 DEF Past2, PhasesTrue
<1>. QED BY <1>4, <1>5, <1>6, <1>7, <1>9 DEF IInv, TypeOK

-----------------------------------------------------------------------------
(* The invariant *)

LEMMA StartsTrue ==
    ASSUME SequencerAssumption, Init
    PROVE  IInv
<1>1. ChanTypes /\ StateSetTypes
  BY StateSets DEF Init, ChanTypes, StateSetTypes
<1>2. WakeTypes
  BY DEF Init, WakeTypes, NotWaking, SequencerAssumption
<1>3. LabelTypes /\ HolderTrue
  BY StateSets DEF Init, LabelTypes, HolderTrue, SS, Handler, Stopper
<1>4. NoSleepOnChange /\ ExitTold
  BY DEF Init, NoSleepOnChange, ExitTold
<1>5. WakersTrue
  BY StateSets DEF Init, WakersTrue, Waking, NotWaking
<1>6. ChannelsTrue
  BY StateSets DEF Init, ChannelsTrue
<1>7. FirstsKept
  BY DEF Init, FirstsKept, Complete
<1>8. PhasesTrue
  BY DEF Init, PhasesTrue
<1>. QED BY <1>1, <1>2, <1>3, <1>4, <1>5, <1>6, <1>7, <1>8 DEF IInv, TypeOK

LEMMA StepsKeep ==
    ASSUME SequencerAssumption, IInv, [Next]_vars
    PROVE  IInv'
<1>1. CASE Next
  <2>1. CASE HandlerNext
    BY <2>1, MonitorStep, ConnectionStep, MonitorFlagStep, CallbackEndsStep DEF HandlerNext
  <2>2. CASE StateSetNext
    BY <2>2, StartStep, DisconnectStep, GoesOnStep, WaitsStep, EnterStep, EventFuncStep,
      EfSetStep, DeathStep DEF StateSetNext
  <2>3. CASE StopNext
    BY <2>3, StopBeginsStep, AskPhase1Step, WaitPhaseStep DEF StopNext
  <2>4. CASE \E t \in 0..Stopper : seqWakeup(t)
    BY <2>4, WakeupStep
  <2>. QED BY <1>1, <2>1, <2>2, <2>3, <2>4 DEF Next
<1>2. CASE UNCHANGED vars
  BY <1>2 DEF vars, chanVars, deathVars, cbVars, stopVars, IInv, TypeOK, ChanTypes,
    StateSetTypes, WakeTypes, LabelTypes, HolderTrue, NoSleepOnChange, AboutToWake, Listens,
    WakersTrue, Waking, ExitTold, ChannelsTrue, FirstsKept, Complete, PhasesTrue
<1>. QED BY <1>1, <1>2

\* When the program is freed its first thread has disconnected all channels, so
\* no callback runs, and who is in seqWakeup would be in a callback, in a state
\* set that is alive, or in an earlier phase of seqStop.
LEMMA Served ==
    ASSUME SequencerAssumption, IInv
    PROVE  StateSetsServed
<1>1. FirstsNoticed
  BY Known DEF FirstsNoticed, FirstsKept
<1>2. FreedUnused
  <2>. SUFFICES ASSUME stopPc = "freed", ~gaveUp
                PROVE  /\ \A s \in SS : pc[s] = "dead"
                       /\ cbPc = "idle" /\ destroyed = created
                       /\ \A t \in 0..Stopper : ~Waking(t)
    BY DEF FreedUnused
  <2>1. \A s \in SS : pc[s] = "dead"
    BY Known DEF PhasesTrue
  <2>2. destroyed = created /\ cbPc = "idle"
    BY <2>1, StateSets, Known DEF ChannelsTrue
  <2>3. \A t \in 0..Stopper : t \in SS \/ t = Handler \/ t = Stopper
    BY StateSets DEF SS, Handler, Stopper
  <2>4. \A t \in 0..Stopper : ~Waking(t)
    BY <2>1, <2>2, <2>3, Known DEF WakersTrue
  <2>. QED BY <2>1, <2>2, <2>4
<1>. QED BY <1>1, <1>2, Known DEF StateSetsServed

\* seq_task.c: a state set does not sleep on a change that its state listens to
\* nor on a request to exit, one that waits for the first connections and values
\* goes on when they are there, and seqStop frees a program nobody uses, with any
\* number of state sets and channels.
THEOREM StateSetsAreServed == SequencerAssumption => (Spec => []StateSetsServed)
<1>. SUFFICES ASSUME SequencerAssumption
              PROVE  Spec => []StateSetsServed
  OBVIOUS
<1>1. Init => IInv
  BY StartsTrue
<1>2. IInv /\ [Next]_vars => IInv'
  BY StepsKeep
<1>3. IInv => StateSetsServed
  BY Served
<1>. QED BY <1>1, <1>2, <1>3, PTL DEF Spec
=============================================================================
