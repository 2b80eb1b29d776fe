--------------------------- MODULE Services_proof ---------------------------
(***************************************************************************)
(* Proofs about the services of MCServices.  The timer queue: its types,   *)
(* that a cancel waits for the callback it found running, and that the     *)
(* task does not sleep past a timer.  The scan lists: their types, and     *)
(* that a scan processes each record once.  Then the ring buffer, the      *)
(* callback tasks, the error log, state programs, CA links and the port of *)
(* a device, and the types of all services.                                *)
(***************************************************************************)
EXTENDS MCServices, QueueLemmas

-----------------------------------------------------------------------------
(* The list of timers *)

\* The operators on sequences, as TimerQueue has them.
LEMMA SequencesSame ==
    ASSUME NEW seq, NEW n, NEW x
    PROVE  /\ Timer!RemoveFirst(seq, x) = RemoveFirst(seq, x)
           /\ Timer!InsertAt(seq, n, x) = InsertAt(seq, n, x)
           /\ Timer!IsInjective(seq) <=> IsInjective(seq)
           /\ Timer!ToSet(seq) = ToSet(seq)
<1>1. \A S : Timer!Min(S) = Min(S)
  BY DEF Timer!Min, Min
<1>2. \A i : Timer!RemoveAt(seq, i) = RemoveAt(seq, i)
  BY DEF Timer!RemoveAt, RemoveAt
<1>3. Timer!SelectInSeq(seq, LAMBDA v : v = x) = SelectInSeq(seq, LAMBDA v : v = x)
  BY <1>1 DEF Timer!SelectInSeq, SelectInSeq
<1>4. Timer!RemoveFirst(seq, x) = RemoveFirst(seq, x)
  BY <1>2, <1>3 DEF Timer!RemoveFirst, RemoveFirst
<1>5. Timer!InsertAt(seq, n, x) = InsertAt(seq, n, x)
  BY DEF Timer!InsertAt, InsertAt
<1>6. Timer!IsInjective(seq) <=> IsInjective(seq)
  BY DEF Timer!IsInjective, IsInjective
<1>7. Timer!ToSet(seq) = ToSet(seq)
  BY DEF Timer!ToSet, ToSet
<1>. QED BY <1>4, <1>5, <1>6, <1>7

\* A list of timers is a sequence without repetitions, sorted.
LEMMA TimerLists ==
    ASSUME NEW seq, NEW T, NEW due
    PROVE  Timer!IsTimerList(seq, T, due) <=>
                /\ seq \in Seq(Timers) /\ IsInjective(seq) /\ ToSet(seq) = T
                /\ Timer!Sorted(seq, due)
  BY SequencesSame DEF Timer!IsTimerList

\* The list is empty when no timer is on it, and its first is due first.
LEMMA FirstOfList ==
    ASSUME NEW seq, NEW T, NEW due, Timer!IsTimerList(seq, T, due), seq # << >>,
           NEW t \in T, \A s \in Timers : due[s] \in Int
    PROVE  Head(seq) \in T /\ Head(seq) \in Timers /\ due[Head(seq)] <= due[t]
<1>1. seq \in Seq(Timers) /\ IsInjective(seq) /\ ToSet(seq) = T /\ Timer!Sorted(seq, due)
  BY TimerLists
<1>2. /\ Head(seq) \in T /\ Head(seq) \in Timers /\ Head(seq) = seq[1]
      /\ Len(seq) \in Nat \ {0} /\ DOMAIN seq = 1..Len(seq)
  BY <1>1, HeadTaken, LenProperties
<1>3. PICK i \in DOMAIN seq : t = seq[i]
  BY <1>1 DEF ToSet
<1>4. i = 1 \/ 1 < i
  BY <1>2
<1>5. 1 \in DOMAIN seq
  BY <1>2
<1>6. due[Head(seq)] \in Int
  BY <1>2
<1>. QED BY <1>1, <1>2, <1>3, <1>4, <1>5, <1>6 DEF Timer!Sorted

\* Timers whose order stays stay sorted.
LEMMA SameOrder ==
    ASSUME NEW seq, NEW T, NEW due, NEW due2, Timer!IsTimerList(seq, T, due),
           \A s, t \in T : due[s] <= due[t] => due2[s] <= due2[t]
    PROVE  Timer!IsTimerList(seq, T, due2)
<1>1. seq \in Seq(Timers) /\ IsInjective(seq) /\ ToSet(seq) = T /\ Timer!Sorted(seq, due)
  BY TimerLists
<1>2. \A i \in DOMAIN seq : seq[i] \in T
  BY <1>1 DEF ToSet
<1>3. Timer!Sorted(seq, due2)
  BY <1>1, <1>2 DEF Timer!Sorted
<1>. QED BY <1>1, <1>3, TimerLists

\* The first timer is taken off the list.
LEMMA FirstOff ==
    ASSUME NEW seq, NEW T, NEW due, Timer!IsTimerList(seq, T, due), seq # << >>
    PROVE  Head(seq) \in T /\ Head(seq) \in Timers /\ Timer!IsTimerList(Tail(seq), T \ {Head(seq)}, due)
<1>1. seq \in Seq(Timers) /\ IsInjective(seq) /\ ToSet(seq) = T /\ Timer!Sorted(seq, due)
  BY TimerLists
<1>2. /\ Tail(seq) \in Seq(Timers) /\ IsInjective(Tail(seq)) /\ ToSet(Tail(seq)) = T \ {Head(seq)}
      /\ Head(seq) \in T /\ Head(seq) \in Timers
      /\ DOMAIN Tail(seq) = 1..Len(seq) - 1 /\ Len(seq) \in Nat \ {0} /\ DOMAIN seq = 1..Len(seq)
      /\ \A j \in 1..Len(seq) - 1 : Tail(seq)[j] = seq[j + 1]
  BY <1>1, HeadTaken, LenProperties
<1>. DEFINE n == Len(seq)
            r == Tail(seq)
<1>. HIDE DEF n, r
<1>3. \A j \in 1..n - 1 : j + 1 \in 1..n
  BY <1>2 DEF n
<1>4. Timer!Sorted(r, due)
  <2>. SUFFICES ASSUME NEW i \in DOMAIN r, NEW j \in DOMAIN r, i < j
                PROVE  due[r[i]] <= due[r[j]]
    BY DEF Timer!Sorted
  <2>1. i \in 1..n - 1 /\ j \in 1..n - 1
    BY <1>2 DEF n, r
  <2>2. r[i] = seq[i + 1] /\ r[j] = seq[j + 1] /\ i + 1 \in DOMAIN seq /\ j + 1 \in DOMAIN seq
    BY <1>2, <1>3, <2>1 DEF n, r
  <2>3. i + 1 < j + 1
    BY <2>1
  <2>. QED BY <1>1, <2>2, <2>3 DEF Timer!Sorted
<1>. QED BY <1>1, <1>2, <1>4, TimerLists DEF r

\* A timer is taken off the list, if it is on it.
LEMMA TakenOff ==
    ASSUME NEW seq, NEW T, NEW due, Timer!IsTimerList(seq, T, due), NEW t
    PROVE  Timer!IsTimerList(Timer!RemoveFirst(seq, t), T \ {t}, due)
<1>1. /\ seq \in Seq(Timers) /\ IsInjective(seq) /\ ToSet(seq) = T
      /\ Timer!RemoveFirst(seq, t) = RemoveFirst(seq, t)
  BY TimerLists, SequencesSame
<1>2. Ascending(seq, due)
  BY TimerLists DEF Timer!Sorted, Ascending
<1>3. /\ RemoveFirst(seq, t) \in Seq(Timers) /\ IsInjective(RemoveFirst(seq, t))
      /\ ToSet(RemoveFirst(seq, t)) = T \ {t} /\ Ascending(RemoveFirst(seq, t), due)
  BY <1>1, <1>2, RemovedAscending
<1>4. Timer!Sorted(RemoveFirst(seq, t), due)
  BY <1>3 DEF Timer!Sorted, Ascending
<1>. QED BY <1>1, <1>3, <1>4, TimerLists

\* A timer is put on the list in its place.
LEMMA PutOn ==
    ASSUME NEW seq, NEW T, NEW due, NEW due2, NEW t \in Timers, t \notin T, NEW e \in Int,
           Timer!IsTimerList(seq, T, due), \A s \in Timers : due[s] \in Int,
           due2[t] = e, \A s \in T : due2[s] = due[s]
    PROVE  Timer!IsTimerList(Timer!Inserted(seq, due, t, e), T \cup {t}, due2)
<1>. DEFINE n == Timer!LastBefore(seq, due, e)
            r == InsertAt(seq, n + 1, t)
<1>1. seq \in Seq(Timers) /\ IsInjective(seq) /\ ToSet(seq) = T
  BY TimerLists
<1>2. Ascending(seq, due)
  BY TimerLists DEF Timer!Sorted, Ascending
<1>3. IsPlace(seq, due, e, n) /\ n \in 0..Len(seq)
  <2>1. \E m : IsPlace(seq, due, e, m)
    BY <1>1, <1>2, PlaceIn
  <2>. QED BY <2>1 DEF Timer!LastBefore, IsPlace
<1>4. Timer!Inserted(seq, due, t, e) = r
  BY SequencesSame DEF Timer!Inserted
<1>. HIDE DEF n
<1>5. r \in Seq(Timers) /\ IsInjective(r) /\ ToSet(r) = T \cup {t}
  BY <1>1, <1>3, InsertedAt
<1>6. Ascending(r, due2)
  BY <1>1, <1>2, <1>3, InsertedAscending
<1>7. Timer!Sorted(r, due2)
  BY <1>6 DEF Timer!Sorted, Ascending
<1>. QED BY <1>4, <1>5, <1>7, TimerLists

-----------------------------------------------------------------------------
(* The steps *)

\* What process does with its arguments: the first timer becomes active, or the
\* task sleeps no longer than until the first is due.
LEMMA Taking ==
    ASSUME Timer!TimerQueueAssumption, Timer!PcTypes, lag \in 0..MaxLag, delay \in 0..Timer!Forever,
           NEW seq, NEW due, NEW st, NEW notify,
           due \in [Timers -> (-MaxLag)..MaxDelay],
           st \in [Timers -> {"limbo", "pending", "active"}],
           notify \in [Timers -> BOOLEAN],
           \A t \in Timers : st[t] = "pending" => notify[t],
           \A t \in Timers : st[t] # "active",
           Timer!IsTimerList(seq, Timer!Pending(st), due),
           Timer!TakeFirst(seq, due, st, notify)
    PROVE  /\ Timer!TimerTypes' /\ Timer!ListTypes' /\ Timer!TaskTypes' /\ Timer!PcTypes' /\ Timer!NeverOversleeps'
           /\ timerQueuePc' = [timerQueuePc EXCEPT ![TimerTask] = timerQueuePc'[TimerTask]]
           /\ timerQueuePc'[TimerTask] = "expire" => curState'[pExpireTmr'] = "active"
<1>. USE DEF Timer!TimerQueueAssumption
<1>1. \A t \in Timers : due[t] \in Int
  OBVIOUS
<1>2. CASE seq # << >> /\ due[Head(seq)] <= -lag
  <2>. DEFINE h == Head(seq)
  <2>1. h \in Timer!Pending(st) /\ h \in Timers /\ Timer!IsTimerList(Tail(seq), Timer!Pending(st) \ {h}, due)
    BY <1>2, FirstOff
  <2>. HIDE DEF h
  <2>2. /\ pExpireTmr' = h /\ timerList' = Tail(seq) /\ exp' = [due EXCEPT ![h] = 0]
        /\ curState' = [st EXCEPT ![h] = "active"] /\ pNotify' = [notify EXCEPT ![h] = FALSE]
        /\ timerQueuePc' = [timerQueuePc EXCEPT ![TimerTask] = "expire"] /\ lag' = lag /\ delay' = delay
    BY <1>2 DEF Timer!TakeFirst, h
  <2>3. Timer!Pending(curState') = Timer!Pending(st) \ {h}
    BY <2>1, <2>2 DEF Timer!Pending
  <2>4. \A s \in Timer!Pending(st) \ {h} : exp'[s] = due[s]
    BY <2>1, <2>2 DEF Timer!Pending
  <2>5. Timer!IsTimerList(timerList', Timer!Pending(curState'), exp')
    <3>1. \A s, t \in Timer!Pending(st) \ {h} : due[s] <= due[t] => exp'[s] <= exp'[t]
      BY <2>4
    <3>2. Timer!IsTimerList(Tail(seq), Timer!Pending(st) \ {h}, exp')
      BY <2>1, <3>1, SameOrder
    <3>. QED BY <2>2, <2>3, <3>2
  <2>6. Timer!TimerTypes'
    BY <2>1, <2>2 DEF Timer!TimerTypes
  <2>7. Timer!PcTypes' /\ timerQueuePc'[TimerTask] = "expire"
    BY <2>2 DEF Timer!PcTypes
  <2>8. Timer!TaskTypes'
    BY <2>1, <2>2, <2>7 DEF Timer!TaskTypes, Timer!Forever
  <2>. QED BY <2>1, <2>2, <2>5, <2>6, <2>7, <2>8 DEF Timer!ListTypes, Timer!NeverOversleeps
<1>3. CASE ~(seq # << >> /\ due[Head(seq)] <= -lag)
  <2>2. /\ pExpireTmr' = NoTimer /\ timerList' = seq /\ exp' = due
        /\ curState' = st /\ pNotify' = notify /\ lag' = 0
        /\ delay' = IF seq = << >> THEN Timer!Forever ELSE due[Head(seq)] + lag
        /\ timerQueuePc' = [timerQueuePc EXCEPT ![TimerTask] = "sleep"]
    BY <1>3 DEF Timer!TakeFirst
  <2>3. Timer!TimerTypes'
    BY <2>2 DEF Timer!TimerTypes
  <2>4. Timer!PcTypes' /\ timerQueuePc'[TimerTask] = "sleep"
    BY <2>2 DEF Timer!PcTypes
  <2>5. seq # << >> => Head(seq) \in Timers
    BY FirstOff
  <2>6. delay' \in 0..Timer!Forever /\ (seq # << >> => delay' <= due[Head(seq)] + MaxLag)
    <3>1. CASE seq = << >>
      BY <2>2, <3>1 DEF Timer!Forever
    <3>2. CASE seq # << >>
      <4>1. due[Head(seq)] \in (-MaxLag)..MaxDelay /\ ~(due[Head(seq)] <= -lag)
        BY <1>3, <2>5, <3>2
      <4>2. delay' = due[Head(seq)] + lag
        BY <2>2, <3>2
      <4>. QED BY <3>2, <4>1, <4>2 DEF Timer!Forever
    <3>. QED BY <3>1, <3>2
  <2>7. Timer!TaskTypes'
    BY <2>2, <2>4, <2>6 DEF Timer!TaskTypes
  <2>. QED BY <2>2, <2>3, <2>4, <2>6, <2>7 DEF Timer!ListTypes, Timer!NeverOversleeps
<1>. QED BY <1>2, <1>3

\* At the start nothing is pending and the task runs.
LEMMA TimerInit ==
    ASSUME Timer!TimerQueueAssumption, Timer!Init
    PROVE  Timer!IInv
<1>. USE DEF Timer!TimerQueueAssumption
<1>1. Timer!IsTimerList(timerList, Timer!Pending(curState), exp)
  <2>1. << >> \in Seq(Timers) /\ DOMAIN << >> = {}
    BY EmptySeq
  <2>2. Timer!Pending(curState) = {} /\ timerList = << >>
    BY DEF Timer!Init, Timer!Pending
  <2>3. IsInjective(<< >>) /\ ToSet(<< >>) = {} /\ Timer!Sorted(<< >>, exp)
    BY <2>1 DEF IsInjective, ToSet, Timer!Sorted
  <2>4. Timer!IsTimerList(<< >>, {}, exp)
    BY <2>1, <2>3, TimerLists
  <2>. QED BY <2>2, <2>4
<1>2. Timer!TimerTypes
  BY DEF Timer!Init, Timer!TimerTypes
<1>4. Timer!CancelTypes
  BY DEF Timer!Init, Timer!CancelTypes
<1>5. Timer!TaskTypes
  <2>1. timerQueuePc[TimerTask] = "run" /\ lag = 0 /\ delay = 0 /\ pExpireTmr = NoTimer
        /\ \A t \in Timers : curState[t] = "limbo"
    BY DEF Timer!Init
  <2>. QED BY <2>1 DEF Timer!TaskTypes, Timer!Forever
<1>3. Timer!PcTypes
  BY DEF Timer!Init, Timer!PcTypes
<1>. QED BY <1>1, <1>2, <1>3, <1>4, <1>5 DEF Timer!Init, Timer!TypeOK, Timer!ListTypes, Timer!IInv, Timer!NeverOversleeps

\* What is known of the timers in every state.
LEMMA TimersKnown ==
    ASSUME Timer!TimerQueueAssumption, Timer!IInv
    PROVE  /\ Timer!TimerTypes /\ Timer!ListTypes /\ Timer!TaskTypes /\ Timer!PcTypes /\ Timer!CancelTypes
           /\ \A t \in Timers : exp[t] \in Int /\ exp[t] \in (-MaxLag)..MaxDelay
           /\ timerQueuePc[TimerTask] # "expire" =>
                /\ \A t \in Timers : curState[t] # "active"
                /\ ~cancelPending
                /\ \A u \in TimerUsers : ~awaited[u]
           /\ \A u \in TimerUsers : awaited[u] =>
                /\ timerQueuePc[u] \in {"cancel_wait", "cancel_check"}
                /\ pExpireTmr = tmr[u] /\ cancelPending
           /\ timerQueuePc[TimerTask] = "expire" => pExpireTmr \in Timers
           /\ Len(timerList) \in Nat
<1>1. Timer!TimerTypes /\ Timer!ListTypes /\ Timer!TaskTypes /\ Timer!PcTypes /\ Timer!CancelTypes
  BY DEF Timer!IInv, Timer!TypeOK
<1>2. \A t \in Timers : exp[t] \in Int /\ exp[t] \in (-MaxLag)..MaxDelay
  BY <1>1 DEF Timer!TimerTypes, Timer!TimerQueueAssumption
<1>3. timerQueuePc[TimerTask] # "expire" => pExpireTmr = NoTimer /\ \A t \in Timers : curState[t] # "active"
  BY <1>1 DEF Timer!TaskTypes, Timer!TimerQueueAssumption
<1>4. timerList \in Seq(Timers)
  BY <1>1, TimerLists DEF Timer!ListTypes
<1>. QED BY <1>1, <1>2, <1>3, <1>4, LenProperties DEF Timer!IInv, Timer!TaskTypes, Timer!CancelTypes

\* While the task sleeps without a signal, no pending timer is due long before
\* the sleep ends.
LEMMA NoneOverslept ==
    ASSUME Timer!TimerQueueAssumption, Timer!IInv, timerQueuePc[TimerTask] = "sleep", ~rescheduleEvent,
           NEW t \in Timer!Pending(curState)
    PROVE  delay <= exp[t] + MaxLag
<1>1. Timer!IsTimerList(timerList, Timer!Pending(curState), exp) /\ \A s \in Timers : exp[s] \in Int
  BY TimersKnown DEF Timer!ListTypes
<1>2. timerList # << >>
  BY <1>1, EmptySeq, TimerLists DEF ToSet
<1>3. Head(timerList) \in Timers /\ exp[Head(timerList)] <= exp[t]
  BY <1>1, <1>2, FirstOfList
<1>4. delay <= exp[Head(timerList)] + MaxLag
  BY <1>2 DEF Timer!IInv, Timer!NeverOversleeps
<1>5. t \in Timers /\ delay \in Int /\ MaxLag \in Int
  BY TimersKnown DEF Timer!Pending, Timer!TaskTypes, Timer!TimerQueueAssumption, Timer!Forever
<1>6. exp[t] \in Int /\ exp[Head(timerList)] \in Int
  BY <1>1, <1>3, <1>5
<1>. QED BY <1>3, <1>4, <1>5, <1>6

\* And the other way round.
LEMMA NotOverslept ==
    ASSUME NEW seq, NEW T, NEW due, NEW d, Timer!IsTimerList(seq, T, due), seq # << >>,
           \A t \in T : d <= due[t] + MaxLag
    PROVE  d <= due[Head(seq)] + MaxLag
  BY FirstOff

\* Time passes for all pending timers alike.
LEMMA TickStep ==
    ASSUME Timer!TimerQueueAssumption, Timer!IInv, Timer!Tick
    PROVE  Timer!IInv'
<1>. USE DEF Timer!TimerQueueAssumption
<1>1. /\ exp' = [t \in Timers |-> IF pNotify[t] /\ exp[t] > -MaxLag THEN exp[t] - 1 ELSE exp[t]]
      /\ UNCHANGED <<curState, pNotify, timerList, pExpireTmr, cancelPending, rescheduleEvent,
                     cancelBlockingEvent, timerQueuePc, tmr, awaited>>
      /\ lag' \in 0..MaxLag
      /\ delay' = IF timerQueuePc[TimerTask] = "sleep" /\ delay \in 1..Timer!Forever - 1 THEN delay - 1 ELSE delay
  BY TimersKnown DEF Timer!Tick, Timer!eventVars, Timer!cancelVars, Timer!TaskTypes
<1>2. delay \in 0..Timer!Forever /\ Timer!Forever = MaxDelay + MaxLag + 1
  BY TimersKnown DEF Timer!TaskTypes, Timer!Forever
<1>3. \A t \in Timers : pNotify[t] \in BOOLEAN /\ exp[t] \in (-MaxLag)..MaxDelay /\ exp[t] \in Int
  BY TimersKnown DEF Timer!TimerTypes
<1>4. \A t \in Timer!Pending(curState) : t \in Timers /\ pNotify[t]
  BY TimersKnown DEF Timer!TimerTypes, Timer!Pending
<1>5. Timer!TimerTypes'
  <2>1. \A t \in Timers : (IF pNotify[t] /\ exp[t] > -MaxLag THEN exp[t] - 1 ELSE exp[t])
                            \in (-MaxLag)..MaxDelay
    BY <1>3
  <2>2. exp' \in [Timers -> (-MaxLag)..MaxDelay]
    BY <1>1, <2>1
  <2>. QED BY <1>1, <2>2, TimersKnown DEF Timer!TimerTypes
<1>6. \A t \in Timer!Pending(curState) : exp'[t] = IF exp[t] > -MaxLag THEN exp[t] - 1 ELSE exp[t]
  BY <1>1, <1>4
<1>7. Timer!IsTimerList(timerList, Timer!Pending(curState), exp')
  <2>1. ASSUME NEW s \in Timer!Pending(curState), NEW t \in Timer!Pending(curState), exp[s] <= exp[t]
        PROVE  exp'[s] <= exp'[t]
    BY <1>3, <1>4, <1>6, <2>1
  <2>2. Timer!IsTimerList(timerList, Timer!Pending(curState), exp)
    BY TimersKnown DEF Timer!ListTypes
  <2>. QED BY <2>1, <2>2, SameOrder
<1>8. Timer!ListTypes'
  BY <1>1, <1>7 DEF Timer!ListTypes, Timer!Pending
<1>9. delay' \in 0..Timer!Forever
  BY <1>1, <1>2
<1>10. Timer!TaskTypes' /\ Timer!PcTypes' /\ Timer!CancelTypes'
  BY <1>1, <1>9, TimersKnown DEF Timer!TaskTypes, Timer!PcTypes, Timer!CancelTypes
<1>11. Timer!NeverOversleeps'
  <2>. SUFFICES ASSUME timerQueuePc[TimerTask] = "sleep", timerList # << >>, ~rescheduleEvent
                PROVE  delay' <= exp'[Head(timerList)] + MaxLag
    BY <1>1 DEF Timer!NeverOversleeps
  <2>1. Head(timerList) \in Timer!Pending(curState)
    BY TimersKnown, FirstOff DEF Timer!ListTypes
  <2>. DEFINE h == Head(timerList)
  <2>2. delay <= exp[h] + MaxLag
    BY <2>1, NoneOverslept
  <2>. HIDE DEF h
  <2>3. h \in Timer!Pending(curState) /\ h \in Timers
    BY <1>4, <2>1 DEF h
  <2>4. delay' <= exp'[h] + MaxLag
    BY <1>1, <1>2, <1>3, <1>6, <2>2, <2>3
  <2>. QED BY <2>4 DEF h
<1>. QED BY <1>1, <1>5, <1>8, <1>10, <1>11 DEF Timer!IInv, Timer!TypeOK

\* process finds no callback running.
LEMMA ProcessStep ==
    ASSUME Timer!TimerQueueAssumption, Timer!IInv, Timer!Process
    PROVE  Timer!IInv'
<1>1. /\ timerQueuePc[TimerTask] = "process" /\ Timer!TakeFirst(timerList, exp, curState, pNotify)
      /\ UNCHANGED <<cancelPending, cancelBlockingEvent, rescheduleEvent, tmr, awaited>>
  BY DEF Timer!Process, Timer!eventVars, Timer!cancelVars
<1>2. /\ Timer!TimerTypes' /\ Timer!ListTypes' /\ Timer!TaskTypes' /\ Timer!PcTypes' /\ Timer!NeverOversleeps'
      /\ timerQueuePc'[TimerTask] = "expire" => curState'[pExpireTmr'] = "active"
  <2>1. Timer!IsTimerList(timerList, Timer!Pending(curState), exp)
    BY TimersKnown DEF Timer!ListTypes
  <2>2. /\ Timer!PcTypes /\ lag \in 0..MaxLag /\ delay \in 0..Timer!Forever
        /\ exp \in [Timers -> (-MaxLag)..MaxDelay]
        /\ curState \in [Timers -> {"limbo", "pending", "active"}]
        /\ pNotify \in [Timers -> BOOLEAN]
        /\ \A t \in Timers : curState[t] = "pending" => pNotify[t]
        /\ \A t \in Timers : curState[t] # "active"
    BY <1>1, TimersKnown DEF Timer!TimerTypes, Timer!TaskTypes
  <2>. QED BY <1>1, <2>1, <2>2, Taking
<1>3. Timer!CancelTypes'
  BY <1>1, TimersKnown DEF Timer!CancelTypes
<1>4. ~cancelPending' /\ \A u \in TimerUsers : ~awaited'[u]
  BY <1>1, TimersKnown
<1>. QED BY <1>2, <1>3, <1>4 DEF Timer!IInv, Timer!TypeOK

\* What happens to a timer when its callback has returned keeps it on the list
\* once, or off it.
LEMMA ExpireEndStep ==
    ASSUME Timer!TimerQueueAssumption, Timer!IInv, NEW r \in {Timer!NoRestart} \cup Timer!Delays, Timer!ExpireEnd(r)
    PROVE  Timer!IInv'
<1>. USE DEF Timer!TimerQueueAssumption
<1>. DEFINE t == pExpireTmr
            restarts == ~cancelPending /\ (pNotify[t] \/ r # Timer!NoRestart)
            e == IF pNotify[t] THEN exp[t] ELSE r - lag
            seq == IF restarts THEN Timer!Inserted(timerList, exp, t, e) ELSE timerList
            after == IF restarts THEN "pending" ELSE IF cancelPending THEN curState[t] ELSE "limbo"
            due == IF restarts THEN [exp EXCEPT ![t] = e] ELSE exp
            st == [curState EXCEPT ![t] = after]
            notify == [pNotify EXCEPT ![t] = @ \/ restarts]
<1>1. /\ timerQueuePc[TimerTask] = "expire" /\ Timer!TakeFirst(seq, due, st, notify)
      /\ rescheduleEvent' = (rescheduleEvent \/ (restarts /\ Timer!AtFront(seq, t)))
      /\ awaited' = [u \in TimerUsers |-> awaited[u] /\ tmr[u] # t]
      /\ cancelPending' = FALSE
      /\ cancelBlockingEvent' = (cancelBlockingEvent \/ cancelPending)
      /\ tmr' = tmr
  BY DEF Timer!ExpireEnd
<1>2. /\ t \in Timers /\ (cancelPending <=> curState[t] # "active")
      /\ \A s \in Timers : curState[s] = "active" => s = t
  BY <1>1, TimersKnown DEF Timer!IInv, Timer!TaskTypes
<1>3. /\ lag \in 0..MaxLag /\ delay \in 0..Timer!Forever /\ Timer!PcTypes /\ Timer!CancelTypes
      /\ exp \in [Timers -> (-MaxLag)..MaxDelay]
      /\ curState \in [Timers -> {"limbo", "pending", "active"}]
      /\ pNotify \in [Timers -> BOOLEAN]
      /\ \A s \in Timers : curState[s] = "pending" => pNotify[s]
  BY TimersKnown DEF Timer!TimerTypes, Timer!TaskTypes
<1>4. Timer!IsTimerList(timerList, Timer!Pending(curState), exp)
  BY TimersKnown DEF Timer!ListTypes
<1>. HIDE DEF t
<1>5. restarts => e \in (-MaxLag)..MaxDelay
  BY <1>2, <1>3 DEF Timer!NoRestart, Timer!Delays
<1>6. due \in [Timers -> (-MaxLag)..MaxDelay]
  BY <1>2, <1>3, <1>5
<1>7. after \in {"limbo", "pending", "active"} /\ after # "active"
  BY <1>2, <1>3
<1>8. restarts \in BOOLEAN
  OBVIOUS
<1>9. /\ restarts => Timer!Pending(st) = Timer!Pending(curState) \cup {t} /\ t \notin Timer!Pending(curState)
      /\ ~restarts => Timer!Pending(st) = Timer!Pending(curState)
  BY <1>2, <1>3 DEF Timer!Pending
<1>. HIDE DEF after
<1>10. st \in [Timers -> {"limbo", "pending", "active"}] /\ \A s \in Timers : st[s] # "active"
  BY <1>2, <1>3, <1>7
<1>11. notify \in [Timers -> BOOLEAN] /\ \A s \in Timers : st[s] = "pending" => notify[s]
  <2>1. notify \in [Timers -> BOOLEAN]
    BY <1>2, <1>3
  <2>2. \A s \in Timers \ {t} : notify[s] = pNotify[s] /\ st[s] = curState[s]
    BY <1>2, <1>3
  <2>3. notify[t] = (pNotify[t] \/ restarts) /\ st[t] = after
    BY <1>2, <1>3
  <2>4. after = "pending" => restarts \/ pNotify[t]
    BY <1>2, <1>3 DEF after
  <2>. QED BY <1>3, <2>1, <2>2, <2>3, <2>4
<1>12. Timer!IsTimerList(seq, Timer!Pending(st), due)
  <2>1. CASE restarts
    <3>1. \A s \in Timers : exp[s] \in Int
      BY <1>3
    <3>2. e \in Int
      BY <1>5, <2>1
    <3>3. due[t] = e /\ \A s \in Timer!Pending(curState) : due[s] = exp[s]
      BY <1>2, <1>3, <1>9, <2>1 DEF Timer!Pending
    <3>. HIDE DEF e, due, restarts
    <3>4. Timer!IsTimerList(Timer!Inserted(timerList, exp, t, e), Timer!Pending(curState) \cup {t}, due)
      BY <1>2, <1>4, <1>9, <2>1, <3>1, <3>2, <3>3, PutOn
    <3>. QED BY <1>9, <2>1, <3>4
  <2>2. CASE ~restarts
    BY <1>4, <1>9, <2>2
  <2>. QED BY <2>1, <2>2
<1>13. /\ Timer!TimerTypes' /\ Timer!ListTypes' /\ Timer!TaskTypes' /\ Timer!PcTypes' /\ Timer!NeverOversleeps'
       /\ timerQueuePc'[TimerTask] = "expire" => curState'[pExpireTmr'] = "active"
  <2>. HIDE DEF seq, due, st, notify
  <2>. QED BY <1>1, <1>3, <1>6, <1>10, <1>11, <1>12, Taking
<1>14. Timer!CancelTypes' /\ \A u \in TimerUsers : ~awaited'[u]
  <2>1. \A u \in TimerUsers : awaited[u] => tmr[u] = t
    BY TimersKnown DEF t
  <2>. QED BY <1>1, <1>3, <2>1 DEF Timer!CancelTypes
<1>. QED BY <1>1, <1>13, <1>14 DEF Timer!IInv, Timer!TypeOK

\* A timer that is started joins the list in its place, and the task is told when
\* it is the first; one whose callback runs joins it afterwards.
LEMMA StartStep ==
    ASSUME Timer!TimerQueueAssumption, Timer!IInv, NEW th \in TimerUsers \cup {TimerTask}, NEW t \in Timers,
           NEW d \in Timer!Delays, Timer!Start(th, t, d)
    PROVE  Timer!IInv'
<1>. USE DEF Timer!TimerQueueAssumption
<1>1. /\ Timer!MayCall(th)
      /\ pNotify' = [pNotify EXCEPT ![t] = TRUE] /\ exp' = [exp EXCEPT ![t] = d]
      /\ UNCHANGED <<pExpireTmr, cancelPending, cancelBlockingEvent, lag, delay, timerQueuePc, tmr, awaited>>
  BY DEF Timer!Start, Timer!cancelVars
<1>2. /\ exp \in [Timers -> (-MaxLag)..MaxDelay] /\ d \in (-MaxLag)..MaxDelay /\ d \in Int
      /\ curState \in [Timers -> {"limbo", "pending", "active"}]
      /\ pNotify \in [Timers -> BOOLEAN] /\ rescheduleEvent \in BOOLEAN
      /\ \A s \in Timers : exp[s] \in Int
      /\ \A s \in Timers : curState[s] = "pending" => pNotify[s]
  BY TimersKnown DEF Timer!TimerTypes, Timer!CancelTypes, Timer!Delays
<1>3. Timer!IsTimerList(timerList, Timer!Pending(curState), exp)
  BY TimersKnown DEF Timer!ListTypes
<1>4. \A s \in Timers : exp'[s] = IF s = t THEN d ELSE exp[s]
  BY <1>1, <1>2
<1>5. CASE curState[t] = "active"
  <2>1. UNCHANGED <<timerList, curState, rescheduleEvent>>
    BY <1>5 DEF Timer!Start
  <2>2. t \notin Timer!Pending(curState)
    BY <1>5 DEF Timer!Pending
  <2>3. \A s \in Timer!Pending(curState) : exp'[s] = exp[s] /\ s \in Timers
    BY <1>4, <2>2 DEF Timer!Pending
  <2>4. Timer!IsTimerList(timerList, Timer!Pending(curState), exp')
    <3>1. \A s, u \in Timer!Pending(curState) : exp[s] <= exp[u] => exp'[s] <= exp'[u]
      BY <2>3
    <3>. QED BY <1>3, <3>1, SameOrder
  <2>5. Timer!ListTypes'
    BY <2>1, <2>4 DEF Timer!ListTypes, Timer!Pending
  <2>6. Timer!TimerTypes'
    BY <1>1, <1>2, <2>1 DEF Timer!TimerTypes
  <2>7. Timer!TaskTypes' /\ Timer!PcTypes' /\ Timer!CancelTypes'
    BY <1>1, <2>1, TimersKnown DEF Timer!TaskTypes, Timer!PcTypes, Timer!CancelTypes
  <2>8. Timer!NeverOversleeps'
    <3>1. timerQueuePc[TimerTask] = "expire"
      BY <1>5, TimersKnown
    <3>. QED BY <1>1, <3>1 DEF Timer!NeverOversleeps
  <2>. QED BY <1>1, <2>1, <2>5, <2>6, <2>7, <2>8 DEF Timer!IInv, Timer!TypeOK
<1>6. CASE curState[t] # "active"
  <2>. DEFINE seq == Timer!RemoveFirst(timerList, t)
  <2>1. /\ timerList' = Timer!Inserted(seq, exp, t, d)
        /\ curState' = [curState EXCEPT ![t] = "pending"]
        /\ rescheduleEvent' = (rescheduleEvent \/ Timer!AtFront(timerList', t))
    BY <1>6 DEF Timer!Start
  <2>2. Timer!IsTimerList(seq, Timer!Pending(curState) \ {t}, exp)
    BY <1>3, TakenOff
  <2>. HIDE DEF seq
  <2>3. exp'[t] = d /\ \A s \in Timer!Pending(curState) \ {t} : exp'[s] = exp[s] /\ s \in Timers
    BY <1>4 DEF Timer!Pending
  <2>4. Timer!IsTimerList(Timer!Inserted(seq, exp, t, d), (Timer!Pending(curState) \ {t}) \cup {t}, exp')
    BY <1>2, <2>2, <2>3, PutOn
  <2>5. Timer!Pending(curState') = (Timer!Pending(curState) \ {t}) \cup {t}
    BY <1>2, <2>1 DEF Timer!Pending
  <2>6. Timer!IsTimerList(timerList', Timer!Pending(curState'), exp')
    BY <2>1, <2>4, <2>5
  <2>7. Timer!TimerTypes' /\ Timer!ListTypes'
    BY <1>1, <1>2, <2>1, <2>6 DEF Timer!TimerTypes, Timer!ListTypes
  <2>8. Timer!PcTypes' /\ Timer!CancelTypes'
    BY <1>1, <1>2, <2>1, TimersKnown DEF Timer!PcTypes, Timer!CancelTypes
  <2>9. Timer!TaskTypes' /\ (timerQueuePc[TimerTask] = "expire" => (cancelPending' <=> curState'[pExpireTmr'] # "active"))
    <3>1. \A s \in Timers : curState'[s] = "active" <=> curState[s] = "active"
      BY <1>2, <1>6, <2>1
    <3>2. Timer!TaskTypes'
      BY <1>1, <3>1, TimersKnown DEF Timer!TaskTypes
    <3>3. timerQueuePc[TimerTask] = "expire" => pExpireTmr \in Timers /\ (cancelPending <=> curState[pExpireTmr] # "active")
      BY TimersKnown DEF Timer!IInv
    <3>. QED BY <1>1, <3>1, <3>2, <3>3
  <2>10. Timer!NeverOversleeps'
    <3>. SUFFICES ASSUME timerQueuePc[TimerTask] = "sleep", timerList' # << >>, ~rescheduleEvent'
                  PROVE  delay <= exp'[Head(timerList')] + MaxLag
      BY <1>1 DEF Timer!NeverOversleeps
    <3>1. ~rescheduleEvent /\ Head(timerList') # t
      BY <2>1 DEF Timer!AtFront
    <3>2. Head(timerList') \in Timer!Pending(curState')
      BY <2>6, FirstOff
    <3>3. Head(timerList') \in Timer!Pending(curState) /\ exp'[Head(timerList')] = exp[Head(timerList')]
      BY <2>3, <2>5, <3>1, <3>2
    <3>. QED BY <3>1, <3>3, NoneOverslept
  <2>. QED BY <1>1, <2>7, <2>8, <2>9, <2>10 DEF Timer!IInv, Timer!TypeOK
<1>. QED BY <1>5, <1>6

\* A timer that is cancelled leaves the list; the thread waits when its callback
\* runs, which is the timer's the task works on.
LEMMA CancelStep ==
    ASSUME Timer!TimerQueueAssumption, Timer!IInv, NEW th \in TimerUsers \cup {TimerTask}, NEW t \in Timers, Timer!Cancel(th, t)
    PROVE  Timer!IInv'
<1>. USE DEF Timer!TimerQueueAssumption
<1>1. /\ Timer!MayCall(th) /\ curState[t] # "limbo"
      /\ pNotify' = [pNotify EXCEPT ![t] = FALSE] /\ exp' = [exp EXCEPT ![t] = 0]
      /\ timerList' = Timer!RemoveFirst(timerList, t) /\ curState' = [curState EXCEPT ![t] = "limbo"]
      /\ cancelPending' = (cancelPending \/ curState[t] = "active")
      /\ UNCHANGED <<pExpireTmr, cancelBlockingEvent, rescheduleEvent, lag, delay>>
  BY DEF Timer!Cancel, Timer!eventVars
<1>2. /\ exp \in [Timers -> (-MaxLag)..MaxDelay] /\ 0 \in (-MaxLag)..MaxDelay
      /\ curState \in [Timers -> {"limbo", "pending", "active"}]
      /\ pNotify \in [Timers -> BOOLEAN]
      /\ \A s \in Timers : exp[s] \in Int
      /\ \A s \in Timers : curState[s] = "pending" => pNotify[s]
  BY TimersKnown DEF Timer!TimerTypes
<1>3. Timer!IsTimerList(timerList, Timer!Pending(curState), exp)
  BY TimersKnown DEF Timer!ListTypes
<1>4. Timer!Pending(curState') = Timer!Pending(curState) \ {t}
  BY <1>1, <1>2 DEF Timer!Pending
<1>5. \A s \in Timer!Pending(curState) \ {t} : exp'[s] = exp[s] /\ s \in Timers
  BY <1>1, <1>2 DEF Timer!Pending
<1>6. Timer!IsTimerList(timerList', Timer!Pending(curState'), exp')
  <2>1. Timer!IsTimerList(timerList', Timer!Pending(curState) \ {t}, exp)
    BY <1>1, <1>3, TakenOff
  <2>2. \A s, u \in Timer!Pending(curState) \ {t} : exp[s] <= exp[u] => exp'[s] <= exp'[u]
    BY <1>5
  <2>3. Timer!IsTimerList(timerList', Timer!Pending(curState) \ {t}, exp')
    BY <2>1, <2>2, SameOrder
  <2>. QED BY <1>4, <2>3
<1>7. Timer!TimerTypes' /\ Timer!ListTypes'
  BY <1>1, <1>2, <1>6 DEF Timer!TimerTypes, Timer!ListTypes
<1>8. curState[t] = "active" => pExpireTmr = t /\ timerQueuePc[TimerTask] = "expire"
  BY TimersKnown DEF Timer!TaskTypes
<1>9. /\ timerQueuePc[TimerTask] = "expire" => pExpireTmr \in Timers /\ (cancelPending <=> curState[pExpireTmr] # "active")
      /\ cancelPending => timerQueuePc[TimerTask] = "expire"
  BY TimersKnown DEF Timer!IInv
<1>10. /\ timerQueuePc'[TimerTask] = timerQueuePc[TimerTask]
       /\ \A u \in TimerUsers :
            \/ timerQueuePc'[u] = timerQueuePc[u] /\ tmr'[u] = tmr[u] /\ awaited'[u] = awaited[u]
            \/ timerQueuePc'[u] = "cancel_wait" /\ tmr'[u] = t /\ curState[t] = "active"
       /\ Timer!PcTypes' /\ Timer!CancelTypes'
  <2>1. CASE curState[t] = "active" /\ th # TimerTask
    <3>1. /\ timerQueuePc' = [timerQueuePc EXCEPT ![th] = "cancel_wait"] /\ tmr' = [tmr EXCEPT ![th] = t]
          /\ awaited' = [awaited EXCEPT ![th] = TRUE] /\ th \in TimerUsers
      BY <2>1 DEF Timer!Cancel
    <3>2. Timer!PcTypes'
      BY <3>1, TimersKnown DEF Timer!PcTypes
    <3>3. Timer!CancelTypes'
      BY <1>1, <3>1, TimersKnown DEF Timer!CancelTypes
    <3>. QED BY <2>1, <3>1, <3>2, <3>3, TimersKnown DEF Timer!PcTypes, Timer!CancelTypes
  <2>2. CASE ~(curState[t] = "active" /\ th # TimerTask)
    <3>1. UNCHANGED <<timerQueuePc, tmr, awaited>>
      BY <2>2 DEF Timer!Cancel
    <3>. QED BY <1>1, <3>1, TimersKnown DEF Timer!PcTypes, Timer!CancelTypes
  <2>. QED BY <2>1, <2>2
<1>11. \A s \in Timers : curState'[s] = IF s = t THEN "limbo" ELSE curState[s]
  BY <1>1, <1>2
<1>12. Timer!TaskTypes'
  BY <1>1, <1>10, <1>11, TimersKnown DEF Timer!TaskTypes
<1>13. Timer!NeverOversleeps'
  <2>. SUFFICES ASSUME timerQueuePc[TimerTask] = "sleep", timerList' # << >>, ~rescheduleEvent
                PROVE  delay <= exp'[Head(timerList')] + MaxLag
    BY <1>1, <1>10 DEF Timer!NeverOversleeps
  <2>1. Head(timerList') \in Timer!Pending(curState')
    BY <1>6, FirstOff
  <2>2. Head(timerList') \in Timer!Pending(curState) /\ exp'[Head(timerList')] = exp[Head(timerList')]
    BY <1>4, <1>5, <2>1
  <2>. QED BY <2>2, NoneOverslept
<1>14. /\ cancelPending' => timerQueuePc'[TimerTask] = "expire"
       /\ timerQueuePc'[TimerTask] = "expire" => (cancelPending' <=> curState'[pExpireTmr'] # "active")
  <2>1. cancelPending' => timerQueuePc'[TimerTask] = "expire"
    BY <1>1, <1>8, <1>9, <1>10
  <2>2. ASSUME timerQueuePc[TimerTask] = "expire"
        PROVE  cancelPending' <=> curState'[pExpireTmr] # "active"
    <3>1. curState'[pExpireTmr] = IF pExpireTmr = t THEN "limbo" ELSE curState[pExpireTmr]
      BY <1>9, <1>11, <2>2
    <3>2. cancelPending' <=> cancelPending \/ curState[t] = "active"
      BY <1>1
    <3>. QED BY <1>8, <1>9, <2>2, <3>1, <3>2
  <2>. QED BY <1>1, <1>10, <2>1, <2>2
<1>15. ASSUME NEW u \in TimerUsers, awaited'[u]
       PROVE  /\ timerQueuePc'[u] \in {"cancel_wait", "cancel_check"}
              /\ pExpireTmr' = tmr'[u] /\ cancelPending'
  BY <1>1, <1>8, <1>10, <1>15, TimersKnown
<1>. QED BY <1>7, <1>10, <1>12, <1>13, <1>14, <1>15 DEF Timer!IInv, Timer!TypeOK

\* The other steps touch no timer: the task goes to process or wakes up, a thread
\* that waits looks whether the callback it waits for runs on.
LEMMA OtherStep ==
    ASSUME Timer!TimerQueueAssumption, Timer!IInv,
           \/ Timer!Run \/ Timer!Wake \/ UNCHANGED Timer!vars
           \/ \E u \in TimerUsers : Timer!CancelWait(u) \/ Timer!CancelCheck(u) \/ Timer!CancelSignal(u)
    PROVE  Timer!IInv'
<1>. USE DEF Timer!TimerQueueAssumption
<1>1. /\ UNCHANGED <<exp, curState, pNotify, timerList, pExpireTmr, cancelPending, awaited>>
      /\ lag' \in {0, lag} /\ delay' \in {0, delay}
  BY DEF Timer!Run, Timer!Wake, Timer!CancelWait, Timer!CancelCheck, Timer!CancelSignal, Timer!vars, Timer!eventVars, Timer!cancelVars
<1>2. Timer!TimerTypes' /\ Timer!ListTypes'
  BY <1>1, TimersKnown DEF Timer!TimerTypes, Timer!ListTypes, Timer!Pending
<1>3. /\ timerQueuePc'[TimerTask] = "expire" <=> timerQueuePc[TimerTask] = "expire"
      /\ Timer!PcTypes'
      /\ timerQueuePc'[TimerTask] = "sleep" => timerQueuePc[TimerTask] = "sleep" /\ (rescheduleEvent => rescheduleEvent') /\ delay' = delay
      /\ Timer!CancelTypes'
      /\ \A u \in TimerUsers : awaited[u] => timerQueuePc'[u] \in {"cancel_wait", "cancel_check"} /\ tmr'[u] = tmr[u]
  <2>1. CASE Timer!Run \/ Timer!Wake
    BY <1>1, <2>1, TimersKnown DEF Timer!Run, Timer!Wake, Timer!PcTypes, Timer!CancelTypes, Timer!eventVars, Timer!cancelVars
  <2>2. CASE UNCHANGED Timer!vars
    BY <2>2, TimersKnown DEF Timer!vars, Timer!PcTypes, Timer!CancelTypes
  <2>3. ASSUME NEW u \in TimerUsers, Timer!CancelWait(u)
        PROVE  <1>3!:
    BY <1>1, <2>3, TimersKnown DEF Timer!CancelWait, Timer!PcTypes, Timer!CancelTypes, Timer!cancelVars
  <2>4. ASSUME NEW u \in TimerUsers, Timer!CancelCheck(u)
        PROVE  <1>3!:
    <3>1. awaited[u] => Timer!StillRuns(u)
      BY TimersKnown DEF Timer!StillRuns, Timer!IInv
    <3>. QED BY <1>1, <2>4, <3>1, TimersKnown DEF Timer!CancelCheck, Timer!PcTypes, Timer!CancelTypes, Timer!eventVars, Timer!cancelVars
  <2>5. ASSUME NEW u \in TimerUsers, Timer!CancelSignal(u)
        PROVE  <1>3!:
    BY <1>1, <2>5, TimersKnown DEF Timer!CancelSignal, Timer!PcTypes, Timer!CancelTypes
  <2>. QED BY <2>1, <2>2, <2>3, <2>4, <2>5
<1>4. Timer!TaskTypes'
  <2>1. 0 \in 0..MaxLag /\ 0 \in 0..Timer!Forever
    BY DEF Timer!Forever
  <2>. QED BY <1>1, <1>3, <2>1, TimersKnown DEF Timer!TaskTypes
<1>5. Timer!NeverOversleeps'
  BY <1>1, <1>3 DEF Timer!NeverOversleeps, Timer!IInv
<1>. QED BY <1>1, <1>2, <1>3, <1>4, <1>5 DEF Timer!IInv, Timer!TypeOK

\* The timers' part of a behaviour.
LEMMA TimerParts == ServicesSpec => Timer!Init /\ [][Timer!Next]_(Timer!vars)
<1>1. ServicesInit => Timer!Init
  BY DEF ServicesInit
<1>2. [ServicesNext]_serviceVars => [Timer!Next]_(Timer!vars)
  BY DEF ServicesNext, serviceVars, timerVars, Timer!vars
<1>. QED BY <1>1, <1>2, PTL DEF ServicesSpec

\* Every step of the timer queue keeps the invariant.
LEMMA TimerStep ==
    ASSUME Timer!TimerQueueAssumption, Timer!IInv, [Timer!Next]_(Timer!vars)
    PROVE  Timer!IInv'
<1>1. CASE Timer!Run \/ Timer!Wake \/ UNCHANGED Timer!vars
            \/ \E u \in TimerUsers : Timer!CancelWait(u) \/ Timer!CancelCheck(u) \/ Timer!CancelSignal(u)
  BY <1>1, OtherStep
<1>. QED BY <1>1, TickStep, ProcessStep, ExpireEndStep, StartStep, CancelStep DEF Timer!Next

\* timer.cpp, timerQueue.cpp: in every state of the timer queue the invariant
\* holds.
LEMMA TimerInvariance == ServicesSpec => []Timer!IInv
<1>1. Timer!Init => Timer!IInv
  BY TimerInit, ServicesAssumption
<1>2. Timer!IInv /\ [Timer!Next]_(Timer!vars) => Timer!IInv'
  BY TimerStep, ServicesAssumption
<1>. QED BY <1>1, <1>2, TimerParts, PTL

\* The structures of timer.cpp keep their types: for every number of timers and
\* threads, the list holds the pending timers, once and sorted by their times.
THEOREM TimersTypeCorrect == ServicesSpec => []Timer!TypeOK
<1>1. Timer!IInv => Timer!TypeOK
  BY DEF Timer!IInv
<1>. QED BY <1>1, TimerInvariance, PTL

\* timer.cpp:160: a cancel that found its timer's callback running does not
\* return before the callback has, however many threads cancel and start timers.
THEOREM CancelWaitsOut == ServicesSpec => []WaitsOut
<1>1. Timer!IInv => WaitsOut
  BY DEF Timer!IInv, Timer!WaitsOut, WaitsOut
<1>. QED BY <1>1, TimerInvariance, PTL

\* timerQueue.cpp: the task sleeps no longer than until the first timer is due,
\* and the time that callbacks took.
THEOREM SleepIsShort == ServicesSpec => []NeverOversleeps
<1>1. Timer!IInv => NeverOversleeps
  BY DEF Timer!IInv, NeverOversleeps
<1>. QED BY <1>1, TimerInvariance, PTL

-----------------------------------------------------------------------------
(* Scan lists *)

\* The list, and how it is read: as a sequence of the lemmas.
LEMMA ScanOperators ==
    ASSUME NEW seq, NEW n, NEW x
    PROVE  /\ Scan!RemoveFirst(seq, x) = RemoveFirst(seq, x)
           /\ Scan!InsertAt(seq, n, x) = InsertAt(seq, n, x)
           /\ Scan!ToSet(seq) = ToSet(seq)
           /\ Scan!Contains(seq, x) <=> Contains(seq, x)
<1>1. \A S : Scan!Min(S) = Min(S)
  BY DEF Scan!Min, Min
<1>2. \A i : Scan!RemoveAt(seq, i) = RemoveAt(seq, i)
  BY DEF Scan!RemoveAt, RemoveAt
<1>3. Scan!SelectInSeq(seq, LAMBDA v : v = x) = SelectInSeq(seq, LAMBDA v : v = x)
  BY <1>1 DEF Scan!SelectInSeq, SelectInSeq
<1>4. Scan!RemoveFirst(seq, x) = RemoveFirst(seq, x)
  BY <1>2, <1>3 DEF Scan!RemoveFirst, RemoveFirst
<1>5. Scan!InsertAt(seq, n, x) = InsertAt(seq, n, x)
  BY DEF Scan!InsertAt, InsertAt
<1>6. Scan!ToSet(seq) = ToSet(seq)
  BY DEF Scan!ToSet, ToSet
<1>7. Scan!Contains(seq, x) <=> Contains(seq, x)
  BY DEF Scan!Contains, Contains
<1>. QED BY <1>4, <1>5, <1>6, <1>7

\* TypeOK in parts: the list is sorted and without repetitions,
ListTyped ==
    /\ list \in Seq(Records) /\ IsInjective(list) /\ Ascending(list, phas)
    /\ phas \in [Records -> 0..MaxPhas]
    /\ onList \subseteq ToSet(list)
\* the locals of the scan have values when they are used,
ScanTyped ==
    /\ modified \in BOOLEAN /\ rejoined \in BOOLEAN /\ twice \in BOOLEAN
    /\ pse \in Records \cup {NoRecord}
    /\ prev \in Records \cup {NoRecord} /\ next \in Records \cup {NoRecord}
    /\ scanPc \in {"idle", "lock", "process", "step", "early"}
    /\ pse = NoRecord <=> scanPc \in {"idle", "early"}
    /\ done \subseteq Records
\* and who moves a record has its lock.
MovesTyped ==
    /\ owner \in [LockSets -> Scan!Threads \cup {NoThread}]
    /\ moving \in [Scan!Threads -> Records \cup {NoRecord}]
    /\ \A th \in Scan!Threads : moving[th] # NoRecord =>
            moving[th] \notin ToSet(list) /\ owner[LockSetOf[moving[th]]] = th

LEMMA ScanTypes ==
    Scan!TypeOK <=> ListTyped /\ ScanTyped /\ MovesTyped
<1>1. ASSUME list \in Seq(Records)
      PROVE  /\ (\A i, j \in DOMAIN list : i < j => list[i] # list[j] /\ phas[list[i]] <= phas[list[j]])
                <=> IsInjective(list) /\ Ascending(list, phas)
             /\ \A r : Scan!Contains(list, r) <=> r \in ToSet(list)
             /\ Scan!ToSet(list) = ToSet(list)
  <2>1. DOMAIN list = 1..Len(list) /\ Len(list) \in Nat
    BY <1>1, LenProperties
  <2>. DEFINE n == Len(list)
  <2>. HIDE DEF n
  <2>a. DOMAIN list = 1..n /\ n \in Nat
    BY <2>1 DEF n
  <2>2. IsInjective(list) <=> \A i, j \in DOMAIN list : i < j => list[i] # list[j]
    BY <2>a DEF IsInjective
  <2>3. \A r : Scan!Contains(list, r) <=> r \in ToSet(list)
    BY <2>1 DEF Scan!Contains, ToSet
  <2>4. Scan!ToSet(list) = ToSet(list)
    BY ScanOperators
  <2>. QED BY <2>2, <2>3, <2>4 DEF Ascending
<1>2. CASE list \in Seq(Records)
  BY <1>1, <1>2 DEF Scan!TypeOK, ListTyped, ScanTyped, MovesTyped
<1>3. CASE list \notin Seq(Records)
  BY <1>3 DEF Scan!TypeOK, ListTyped
<1>. QED BY <1>2, <1>3

LEMMA ScanTypesNext ==
    Scan!TypeOK' <=> ListTyped' /\ ScanTyped' /\ MovesTyped'
  BY ScanTypes, PTL

\* Positions on the list, its elements and its order, with the operators of the
\* lemmas about sequences.
LEMMA ScanOrder ==
    ASSUME Scan!ScanListsAssumption, ListTyped
    PROVE  /\ DOMAIN list = 1..Len(list) /\ Len(list) \in Nat
           /\ \A i \in DOMAIN list : list[i] \in Records
           /\ \A i, j \in DOMAIN list : list[i] = list[j] => i = j
           /\ \A r : Scan!OnList(r) <=> r \in ToSet(list)
           /\ \A r : r \in ToSet(list) <=> \E i \in DOMAIN list : r = list[i]
           /\ ToSet(list) \subseteq Records
           /\ \A a, b : Scan!Ahead(a, b) <=> Precedes(list, a, b)
           /\ \A i, j \in DOMAIN list : Scan!Ahead(list[i], list[j]) <=> i < j
           /\ Scan!Others = ToSet(list) \ {pse}
           /\ \A i \in DOMAIN list, d \in {1, -1} :
                Scan!Neighbour(list[i], d) = IF i + d \in DOMAIN list THEN list[i + d] ELSE NoRecord
<1>1. DOMAIN list = 1..Len(list) /\ Len(list) \in Nat /\ \A i \in DOMAIN list : list[i] \in Records
  BY LenProperties, ElementOfSeq DEF ListTyped
<1>2. \A i, j \in DOMAIN list : list[i] = list[j] => i = j
  BY DEF ListTyped, IsInjective
<1>3. \A r : r \in ToSet(list) <=> \E i \in DOMAIN list : r = list[i]
  BY DEF ToSet
<1>4. \A r : Scan!Contains(list, r) <=> r \in ToSet(list)
  BY <1>1, <1>3 DEF Scan!Contains
<1>5. ToSet(list) \subseteq Records
  BY <1>1, <1>3
<1>6. \A r : Scan!OnList(r) <=> r \in ToSet(list)
  BY <1>4, <1>5 DEF Scan!OnList, Scan!ScanListsAssumption
<1>7. \A a, b : Scan!Ahead(a, b) <=> Precedes(list, a, b)
  BY DEF Scan!Ahead, Precedes
<1>8. \A i, j \in DOMAIN list : Scan!Ahead(list[i], list[j]) <=> i < j
  BY <1>2 DEF Scan!Ahead
<1>9. Scan!Others = ToSet(list) \ {pse}
  BY ScanOperators DEF Scan!Others
<1>10. ASSUME NEW i \in DOMAIN list, NEW d \in {1, -1}
       PROVE  Scan!Neighbour(list[i], d) = IF i + d \in DOMAIN list THEN list[i + d] ELSE NoRecord
  <2>1. (CHOOSE j \in DOMAIN list : list[j] = list[i]) = i
    BY <1>2
  <2>. QED BY <2>1 DEF Scan!Neighbour
<1>. HIDE DEF Scan!Neighbour
<1>. QED BY <1>1, <1>2, <1>3, <1>5, <1>6, <1>7, <1>8, <1>9, <1>10

\* The scan goes on at a position that has the records processed ahead of it.
LEMMA GoesOnAt ==
    ASSUME Scan!ScanListsAssumption, ListTyped, ListTyped', list' = list, NEW i \in DOMAIN list,
           pse' = list[i], scanPc' = "lock", ~twice',
           prev' = IF i + (-1) \in DOMAIN list THEN list[i + (-1)] ELSE NoRecord,
           next' = IF i + 1 \in DOMAIN list THEN list[i + 1] ELSE NoRecord,
           \A j \in DOMAIN list : list[j] \in done' => j < i,
           \A j \in DOMAIN list : list[j] \in onList' \ done' => i <= j
    PROVE  Scan!InOrder'
<1>1. /\ DOMAIN list = 1..Len(list) /\ Len(list) \in Nat /\ DOMAIN list \subseteq Int
      /\ \A j, k \in DOMAIN list : list[j] = list[k] => j = k
      /\ \A r : Scan!OnList(r)' <=> r \in ToSet(list)
      /\ \A r : r \in ToSet(list) <=> \E j \in DOMAIN list : r = list[j]
      /\ \A j, k \in DOMAIN list : Scan!Ahead(list[j], list[k])' <=> j < k
      /\ Scan!Others' = ToSet(list) \ {pse'}
  <2>1. \A j, k \in DOMAIN list : Scan!Ahead(list[j], list[k])' <=> Scan!Ahead(list[j], list[k])
    BY DEF Scan!Ahead
  <2>2. \A r : Scan!OnList(r)' <=> Scan!OnList(r)
    BY DEF Scan!OnList
  <2>3. Scan!Others' = ToSet(list) \ {pse'}
    BY ScanOperators DEF Scan!Others
  <2>. QED BY <2>1, <2>2, <2>3, ScanOrder
<1>2. ASSUME NEW k \in DOMAIN list, \A j \in DOMAIN list : j # i => (list[j] \in done' => j <= k) /\ (list[j] \in onList' \ done' => k < j)
      PROVE  Scan!Behind(list[k])'
  <2>. SUFFICES ASSUME NEW j \in DOMAIN list, j # i
                PROVE  /\ list[j] \in done' => list[j] = list[k] \/ Scan!Ahead(list[j], list[k])'
                       /\ list[j] \in onList' \ done' => Scan!Ahead(list[k], list[j])'
    BY <1>1 DEF Scan!Behind, Scan!ToDo
  <2>1. j <= k => j = k \/ j < k
    BY <1>1
  <2>. QED BY <1>1, <1>2, <2>1
<1>3. ASSUME NEW k \in DOMAIN list, \A j \in DOMAIN list : j # i => (list[j] \in done' => j < k) /\ (list[j] \in onList' \ done' => k <= j)
      PROVE  Scan!From(list[k])'
  <2>. SUFFICES ASSUME NEW j \in DOMAIN list, j # i
                PROVE  /\ list[j] \in done' => Scan!Ahead(list[j], list[k])'
                       /\ list[j] \in onList' \ done' => list[j] = list[k] \/ Scan!Ahead(list[k], list[j])'
    BY <1>1 DEF Scan!From, Scan!ToDo
  <2>1. k <= j => j = k \/ k < j
    BY <1>1
  <2>. QED BY <1>1, <1>3, <2>1
<1>4. Scan!Behind(pse)'
  <2>1. \A j \in DOMAIN list : j # i => (j < i => j <= i) /\ (i <= j => i < j)
    BY <1>1
  <2>2. Scan!Behind(list[i])'
    BY <1>2, <2>1
  <2>. QED BY <2>2 DEF Scan!Behind, Scan!Ahead
<1>5. Scan!OnList(prev)' => Scan!Behind(prev)'
  <2>. DEFINE k == i + (-1)
  <2>1. CASE k \in DOMAIN list
    <3>1. \A j \in DOMAIN list : j # i => (j < i => j <= k) /\ (i <= j => k < j)
      BY <1>1
    <3>. HIDE DEF k
    <3>2. Scan!Behind(list[k])'
      BY <1>2, <2>1, <3>1
    <3>3. prev' = list[k]
      BY <2>1 DEF k
    <3>. QED BY <3>2, <3>3 DEF Scan!Behind, Scan!Ahead
  <2>2. CASE k \notin DOMAIN list
    BY <2>2 DEF Scan!OnList
  <2>. QED BY <2>1, <2>2
<1>6. Scan!OnList(next)' => Scan!From(next)'
  <2>. DEFINE k == i + 1
  <2>1. CASE k \in DOMAIN list
    <3>1. \A j \in DOMAIN list : j # i => (j < i => j < k) /\ (i <= j => k <= j)
      BY <1>1
    <3>. HIDE DEF k
    <3>2. Scan!From(list[k])'
      BY <1>3, <2>1, <3>1
    <3>3. next' = list[k]
      BY <2>1 DEF k
    <3>. QED BY <3>2, <3>3 DEF Scan!From, Scan!Ahead
  <2>2. CASE k \notin DOMAIN list
    BY <2>2 DEF Scan!OnList
  <2>. QED BY <2>1, <2>2
<1>7. pse' \notin done'
  BY <1>1
<1>. QED BY <1>4, <1>5, <1>6, <1>7 DEF Scan!InOrder

\* What goes on with records that the scan does not go by leaves it in order.
LEMMA ListMoves ==
    ASSUME Scan!ScanListsAssumption, ListTyped, ListTyped', Scan!InOrder,
           UNCHANGED <<pse, prev, next, scanPc, done, twice>>, onList' \subseteq onList,
           \A a, b \in ToSet(list) \cap ToSet(list') : Precedes(list, a, b) => Precedes(list', a, b),
           \A r \in ToSet(list') \ ToSet(list) : r \notin done /\ r \notin onList' /\ r \notin {pse, prev, next}
    PROVE  Scan!InOrder'
<1>1. /\ \A r : Scan!OnList(r) <=> r \in ToSet(list)
      /\ \A r : Scan!OnList(r)' <=> r \in ToSet(list')
      /\ Scan!Others = ToSet(list) \ {pse} /\ Scan!Others' = ToSet(list') \ {pse}
      /\ \A a, b : Scan!Ahead(a, b) <=> Precedes(list, a, b)
      /\ \A a, b : Scan!Ahead(a, b)' <=> Precedes(list', a, b)
  <2>1. /\ \A r : Scan!OnList(r) <=> r \in ToSet(list)
        /\ Scan!Others = ToSet(list) \ {pse}
        /\ \A a, b : Scan!Ahead(a, b) <=> Precedes(list, a, b)
    BY ScanOrder
  <2>2. \A r : Scan!OnList(r)' <=> r \in ToSet(list')
    <3>1. list' \in Seq(Records)
      BY DEF ListTyped
    <3>2. \A r : Scan!Contains(list', r) <=> r \in ToSet(list')
      BY <3>1, LenProperties DEF Scan!Contains, ToSet
    <3>3. NoRecord \notin ToSet(list')
      BY <3>1, LenProperties, ElementOfSeq DEF ToSet, Scan!ScanListsAssumption
    <3>. QED BY <3>2, <3>3 DEF Scan!OnList
  <2>3. /\ Scan!Others' = ToSet(list') \ {pse'}
        /\ \A a, b : Scan!Ahead(a, b)' <=> Precedes(list', a, b)
    BY ScanOperators DEF Scan!Others, Scan!Ahead, Precedes
  <2>. QED BY <2>1, <2>2, <2>3
<1>2. ASSUME NEW rec \in {pse, prev}, Scan!OnList(rec) => Scan!Behind(rec), rec \in ToSet(list')
      PROVE  Scan!Behind(rec)'
  <2>1. rec \in ToSet(list) /\ Scan!Behind(rec)
    BY <1>1, <1>2
  <2>. SUFFICES ASSUME NEW r \in ToSet(list') \ {pse}
                PROVE  /\ r \in done' => r = rec \/ Scan!Ahead(r, rec)'
                       /\ r \in onList' \ done' => Scan!Ahead(rec, r)'
    BY <1>1 DEF Scan!Behind, Scan!ToDo
  <2>2. CASE r \in ToSet(list)
    BY <1>1, <1>2, <2>1, <2>2 DEF Scan!Behind, Scan!ToDo
  <2>3. CASE r \notin ToSet(list)
    BY <2>3
  <2>. QED BY <2>2, <2>3
<1>3. ASSUME next \in ToSet(list'), scanPc \in {"lock", "process", "step"}
      PROVE  Scan!From(next)'
  <2>1. next \in ToSet(list)
    BY <1>3
  <2>2. Scan!From(next)
    BY <1>1, <1>3, <2>1 DEF Scan!InOrder
  <2>. SUFFICES ASSUME NEW r \in ToSet(list') \ {pse}
                PROVE  /\ r \in done' => Scan!Ahead(r, next)'
                       /\ r \in onList' \ done' => r = next \/ Scan!Ahead(next, r)'
    BY <1>1 DEF Scan!From, Scan!ToDo
  <2>. QED BY <1>1, <1>3, <2>1, <2>2 DEF Scan!From, Scan!ToDo
<1>. QED BY <1>1, <1>2, <1>3 DEF Scan!InOrder

\* At the start the list is empty and nothing is scanned.
LEMMA ScanInit ==
    ASSUME Scan!ScanListsAssumption, Scan!Init
    PROVE  Scan!IInv
<1>. USE DEF Scan!ScanListsAssumption
<1>1. << >> \in Seq(Records) /\ DOMAIN << >> = {}
  BY EmptySeq
<1>2. ListTyped
  BY <1>1 DEF Scan!Init, ListTyped, IsInjective, Ascending, ToSet
<1>3. ScanTyped /\ MovesTyped
  BY DEF Scan!Init, ScanTyped, MovesTyped
<1>4. Scan!ScanLocks
  BY DEF Scan!Init, Scan!ScanLocks, Scan!Threads
<1>5. Scan!InOrder
  BY DEF Scan!Init, Scan!InOrder
<1>. QED BY <1>2, <1>3, <1>4, <1>5, ScanTypes DEF Scan!IInv, Scan!Init

\* The scan begins with the first record.
LEMMA ScanBeginStep ==
    ASSUME Scan!ScanListsAssumption, Scan!IInv, Scan!ScanBegin
    PROVE  Scan!IInv'
<1>. USE DEF Scan!ScanListsAssumption
<1>1. ListTyped /\ ScanTyped /\ MovesTyped /\ Scan!ScanLocks
  BY ScanTypes DEF Scan!IInv
<1>2. /\ list # << >> /\ scanPc \in {"idle", "early"} /\ scanPc' = "lock"
      /\ pse' = Scan!First(list) /\ prev' = NoRecord /\ next' = Scan!ellNext(Scan!First(list))
      /\ onList' = ToSet(list) /\ done' = {} /\ twice' = FALSE /\ rejoined' = FALSE /\ modified' = FALSE
      /\ UNCHANGED <<list, phas, owner, moving>>
  BY ScanOperators DEF Scan!ScanBegin
<1>3. 1 \in DOMAIN list /\ Scan!First(list) = list[1]
  <2>1. Len(list) # 0
    BY <1>1, <1>2, EmptySeq DEF ListTyped
  <2>. QED BY <1>1, <1>2, <2>1, ScanOrder DEF Scan!First
<1>4. next' = IF 1 + 1 \in DOMAIN list THEN list[1 + 1] ELSE NoRecord
  BY <1>1, <1>2, <1>3, ScanOrder DEF Scan!ellNext
<1>5. /\ DOMAIN list = 1..Len(list) /\ Len(list) \in Nat /\ list[1] \in Records
      /\ list[1] \in ToSet(list) /\ (1 + 1 \in DOMAIN list => list[1 + 1] \in Records)
  BY <1>1, <1>3, ScanOrder
<1>6. ListTyped'
  BY <1>1, <1>2 DEF ListTyped
<1>7. ScanTyped'
  BY <1>2, <1>3, <1>4, <1>5 DEF ScanTyped
<1>8. MovesTyped'
  BY <1>1, <1>2 DEF MovesTyped
<1>9. Scan!ScanLocks'
  BY <1>1, <1>2 DEF Scan!ScanLocks
<1>10. Scan!InOrder'
  <2>1. prev' = IF 1 + (-1) \in DOMAIN list THEN list[1 + (-1)] ELSE NoRecord
    BY <1>2, <1>5
  <2>2. \A j \in DOMAIN list : 1 <= j
    BY <1>5
  <2>. QED BY <1>1, <1>2, <1>3, <1>4, <1>6, <2>1, <2>2, GoesOnAt
<1>11. Scan!OnList(pse)'
  <2>1. Scan!OnList(list[1])
    BY <1>1, <1>5, ScanOrder
  <2>. QED BY <1>2, <1>3, <2>1 DEF Scan!OnList
<1>. QED BY <1>6, <1>7, <1>8, <1>9, <1>10, <1>11, ScanTypesNext DEF Scan!IInv

\* The record's lock is taken, and the record processed.
LEMMA ScanLockStep ==
    ASSUME Scan!ScanListsAssumption, Scan!IInv, Scan!ScanLock
    PROVE  Scan!IInv'
<1>. USE DEF Scan!ScanListsAssumption
<1>1. ListTyped /\ ScanTyped /\ MovesTyped /\ Scan!ScanLocks
  BY ScanTypes DEF Scan!IInv
<1>2. /\ scanPc = "lock" /\ owner[LockSetOf[pse]] = NoThread
      /\ owner' = [owner EXCEPT ![LockSetOf[pse]] = Scanner] /\ scanPc' = "process"
      /\ twice' = (twice \/ pse \in done) /\ done' = done \cup {pse}
      /\ UNCHANGED <<list, modified, phas, pse, prev, next, moving, onList, rejoined>>
  BY DEF Scan!ScanLock, Scan!listVars
<1>3. pse \in Records /\ LockSetOf[pse] \in LockSets
  BY <1>1, <1>2 DEF ScanTyped
<1>4. ListTyped'
  BY <1>1, <1>2 DEF ListTyped
<1>5. ScanTyped'
  BY <1>1, <1>2, <1>3 DEF ScanTyped
<1>6. Scan!ScanLocks' /\ moving[Scanner] = NoRecord
  BY <1>1, <1>2, <1>3 DEF Scan!ScanLocks, MovesTyped
<1>7. MovesTyped'
  <2>1. Scanner \in Scan!Threads
    BY DEF Scan!Threads
  <2>. QED BY <1>1, <1>2, <1>3, <2>1 DEF MovesTyped
<1>8. ~rejoined => Scan!InOrder'
  <2>. SUFFICES ASSUME ~rejoined PROVE Scan!InOrder'
    OBVIOUS
  <2>1. Scan!InOrder
    BY DEF Scan!IInv
  <2>2. /\ \A rec : Scan!OnList(rec)' <=> Scan!OnList(rec)
        /\ \A rec : Scan!Behind(rec) => Scan!Behind(rec)'
        /\ \A rec : Scan!From(rec) => Scan!From(rec)'
    BY <1>2 DEF Scan!OnList, Scan!Behind, Scan!From, Scan!Others, Scan!ToDo, Scan!Ahead
  <2>3. /\ Scan!OnList(pse)' => Scan!Behind(pse)'
        /\ Scan!OnList(prev)' => Scan!Behind(prev)'
        /\ Scan!OnList(next)' => Scan!From(next)'
    BY <1>2, <2>1, <2>2 DEF Scan!InOrder, Scan!OnList, Scan!Behind, Scan!From, Scan!Others, Scan!ToDo, Scan!Ahead
  <2>. QED BY <1>2, <2>1, <2>3 DEF Scan!InOrder
<1>9. ~modified => Scan!OnList(pse)'
  BY <1>2 DEF Scan!IInv, Scan!OnList
<1>. QED BY <1>2, <1>4, <1>5, <1>6, <1>7, <1>8, <1>9, ScanTypesNext DEF Scan!IInv

\* The lock is given back.
LEMMA ScanUnlockStep ==
    ASSUME Scan!ScanListsAssumption, Scan!IInv, Scan!ScanUnlock
    PROVE  Scan!IInv'
<1>. USE DEF Scan!ScanListsAssumption
<1>1. ListTyped /\ ScanTyped /\ MovesTyped /\ Scan!ScanLocks
  BY ScanTypes DEF Scan!IInv
<1>2. /\ scanPc = "process" /\ moving[Scanner] = NoRecord
      /\ owner' = [owner EXCEPT ![LockSetOf[pse]] = NoThread] /\ scanPc' = "step"
      /\ UNCHANGED <<list, modified, phas, pse, prev, next, moving, onList, done, twice, rejoined>>
  BY DEF Scan!ScanUnlock, Scan!listVars, Scan!history
<1>3. pse \in Records /\ LockSetOf[pse] \in LockSets /\ owner[LockSetOf[pse]] = Scanner
  BY <1>1, <1>2 DEF ScanTyped, Scan!ScanLocks
<1>4. ListTyped'
  BY <1>1, <1>2 DEF ListTyped
<1>5. ScanTyped'
  BY <1>1, <1>2, <1>3 DEF ScanTyped
<1>6. Scan!ScanLocks'
  <2>1. Scanner \in Scan!Threads
    BY DEF Scan!Threads
  <2>. QED BY <1>1, <1>2, <1>3, <2>1 DEF Scan!ScanLocks, MovesTyped
<1>7. MovesTyped'
  BY <1>1, <1>2, <1>3 DEF MovesTyped
<1>8. ~rejoined => Scan!InOrder'
  BY <1>2 DEF Scan!IInv, Scan!InOrder, Scan!OnList, Scan!Behind, Scan!From, Scan!Others, Scan!ToDo, Scan!Ahead
<1>9. ~modified => Scan!OnList(pse)'
  BY <1>2 DEF Scan!IInv, Scan!OnList
<1>. QED BY <1>2, <1>4, <1>5, <1>6, <1>7, <1>8, <1>9, ScanTypesNext DEF Scan!IInv

\* From a position that has the records processed up to it the scan goes on to
\* the next, or ends and has processed them all.
LEMMA GoesOnFrom ==
    ASSUME Scan!ScanListsAssumption, ListTyped, ListTyped', UNCHANGED <<list, onList, done, twice>>,
           ~twice, NEW i \in DOMAIN list, Scan!GoOn(Scan!ellNext(list[i]), list[i]),
           \A j \in DOMAIN list : list[j] \in done => j <= i,
           \A j \in DOMAIN list : list[j] \in Scan!ToDo => i < j
    PROVE  Scan!InOrder'
<1>1. /\ DOMAIN list = 1..Len(list) /\ Len(list) \in Nat
      /\ \A j \in DOMAIN list : list[j] \in Records
      /\ \A r : r \in ToSet(list) <=> \E j \in DOMAIN list : r = list[j]
      /\ \A j \in DOMAIN list, d \in {1, -1} :
            Scan!Neighbour(list[j], d) = IF j + d \in DOMAIN list THEN list[j + d] ELSE NoRecord
  BY ScanOrder
<1>2. CASE i + 1 \in DOMAIN list
  <2>. DEFINE k == i + 1
  <2>1. /\ Scan!ellNext(list[i]) = list[k] /\ list[k] # NoRecord
        /\ Scan!ellNext(list[k]) = IF k + 1 \in DOMAIN list THEN list[k + 1] ELSE NoRecord
    BY <1>1, <1>2 DEF Scan!ellNext, Scan!ScanListsAssumption
  <2>2. k + (-1) = i
    BY <1>1
  <2>3. \A j \in DOMAIN list : (j <= i => j < k) /\ (i < j => k <= j)
    BY <1>1
  <2>. HIDE DEF k
  <2>4. /\ pse' = list[k] /\ prev' = list[i] /\ scanPc' = "lock"
        /\ next' = IF k + 1 \in DOMAIN list THEN list[k + 1] ELSE NoRecord
    BY <2>1 DEF Scan!GoOn
  <2>5. prev' = IF k + (-1) \in DOMAIN list THEN list[k + (-1)] ELSE NoRecord
    BY <2>2, <2>4
  <2>6. k \in DOMAIN list
    BY <1>2 DEF k
  <2>7. /\ \A j \in DOMAIN list : list[j] \in done' => j < k
        /\ \A j \in DOMAIN list : list[j] \in onList' \ done' => k <= j
    BY <2>3 DEF Scan!ToDo
  <2>. QED BY <2>4, <2>5, <2>6, <2>7, GoesOnAt
<1>3. CASE i + 1 \notin DOMAIN list
  <2>1. Scan!ellNext(list[i]) = NoRecord
    BY <1>1, <1>3 DEF Scan!ellNext
  <2>2. scanPc' = "idle"
    BY <2>1 DEF Scan!GoOn
  <2>3. \A j \in DOMAIN list : ~(i < j)
    BY <1>1, <1>3
  <2>4. onList \subseteq done
    BY <1>1, <2>3 DEF Scan!ToDo, ListTyped
  <2>. QED BY <2>2, <2>4 DEF Scan!InOrder
<1>. QED BY <1>2, <1>3

\* The scan goes on after the record just processed, or the one before it, or at
\* the one after it.
LEMMA ScanStepStep ==
    ASSUME Scan!ScanListsAssumption, Scan!IInv, Scan!ScanStep
    PROVE  Scan!IInv'
<1>1. ListTyped /\ ScanTyped /\ MovesTyped /\ Scan!ScanLocks
  BY ScanTypes DEF Scan!IInv
<1>2. scanPc = "step" /\ UNCHANGED <<list, phas, owner, moving, onList, done, twice, rejoined>>
  BY DEF Scan!ScanStep, Scan!history
<1>3. /\ DOMAIN list = 1..Len(list) /\ Len(list) \in Nat
      /\ \A i \in DOMAIN list : list[i] \in Records
      /\ \A r : Scan!OnList(r) <=> r \in ToSet(list)
      /\ \A r : r \in ToSet(list) <=> \E i \in DOMAIN list : r = list[i]
      /\ \A i, j \in DOMAIN list : Scan!Ahead(list[i], list[j]) <=> i < j
      /\ \A i, j \in DOMAIN list : list[i] = list[j] => i = j
      /\ Scan!Others = ToSet(list) \ {pse}
      /\ \A i \in DOMAIN list, d \in {1, -1} :
            Scan!Neighbour(list[i], d) = IF i + d \in DOMAIN list THEN list[i + d] ELSE NoRecord
  BY <1>1, ScanOrder
<1>4. ListTyped' /\ MovesTyped'
  BY <1>1, <1>2 DEF ListTyped, MovesTyped
<1>5. ASSUME NEW r \in ToSet(list) \cup {NoRecord}, NEW ph \in Records \cup {NoRecord}, Scan!GoOn(r, ph)
      PROVE  /\ ScanTyped' /\ scanPc' # "process"
             /\ scanPc' \in {"lock", "process", "step"} => Scan!OnList(pse)'
  <2>1. CASE r = NoRecord
    BY <1>1, <1>2, <1>5, <2>1 DEF Scan!GoOn, ScanTyped
  <2>2. CASE r # NoRecord
    <3>1. PICK i \in DOMAIN list : r = list[i]
      BY <1>3, <1>5, <2>2
    <3>2. r \in Records /\ Scan!ellNext(r) \in Records \cup {NoRecord}
      BY <1>3, <3>1 DEF Scan!ellNext
    <3>3. /\ pse' = r /\ prev' = ph /\ next' = Scan!ellNext(r) /\ modified' = FALSE /\ scanPc' = "lock"
      BY <1>5, <2>2 DEF Scan!GoOn
    <3>4. Scan!OnList(pse)'
      BY <1>2, <1>3, <3>1, <3>3 DEF Scan!OnList
    <3>. QED BY <1>1, <1>2, <2>2, <3>2, <3>3, <3>4 DEF ScanTyped
  <2>. QED BY <2>1, <2>2
<1>6. ASSUME NEW i \in DOMAIN list
      PROVE  /\ Scan!ellNext(list[i]) = (IF i + 1 \in DOMAIN list THEN list[i + 1] ELSE NoRecord)
             /\ Scan!ellNext(list[i]) \in ToSet(list) \cup {NoRecord}
             /\ Scan!ellPrevious(list[i]) = (IF i + (-1) \in DOMAIN list THEN list[i + (-1)] ELSE NoRecord)
             /\ Scan!ellPrevious(list[i]) \in Records \cup {NoRecord}
  BY <1>3 DEF Scan!ellNext, Scan!ellPrevious
<1>7. ASSUME NEW rec \in {pse, prev}, Scan!OnList(rec), rec # pse => ~Scan!OnList(pse), Scan!GoOn(Scan!ellNext(rec), rec)
      PROVE  /\ ScanTyped' /\ scanPc' # "process"
             /\ scanPc' \in {"lock", "process", "step"} => Scan!OnList(pse)'
             /\ ~rejoined => Scan!InOrder'
  <2>1. PICK i \in DOMAIN list : rec = list[i]
    BY <1>3, <1>7
  <2>2. rec \in Records /\ Scan!ellNext(rec) \in ToSet(list) \cup {NoRecord}
    BY <1>3, <1>6, <2>1
  <2>3. ASSUME ~rejoined PROVE Scan!InOrder'
    <3>1. Scan!InOrder /\ ~twice /\ pse \in done /\ Scan!Behind(rec)
      BY <1>2, <1>7, <2>3 DEF Scan!IInv, Scan!InOrder
    <3>2. \A j \in DOMAIN list : j # i => (list[j] = pse \/ list[j] \in Scan!Others)
      BY <1>3
    <3>3. \A j \in DOMAIN list : list[j] = pse => j = i
      BY <1>3, <1>7, <2>1
    <3>4. ASSUME NEW j \in DOMAIN list
          PROVE  (list[j] \in done => j <= i) /\ (list[j] \in Scan!ToDo => i < j)
      <4>1. CASE list[j] = pse
        BY <1>3, <3>1, <3>3, <4>1 DEF Scan!ToDo
      <4>2. CASE list[j] # pse
        <5>1. /\ list[j] \in done => list[j] = list[i] \/ Scan!Ahead(list[j], list[i])
              /\ list[j] \in Scan!ToDo => Scan!Ahead(list[i], list[j])
          BY <1>3, <2>1, <3>1, <4>2 DEF Scan!Behind
        <5>. QED BY <1>3, <5>1
      <4>. QED BY <4>1, <4>2
    <3>. QED BY <1>1, <1>2, <1>4, <1>7, <2>1, <3>1, <3>4, GoesOnFrom
  <2>. QED BY <1>5, <1>7, <2>2, <2>3
<1>8. CASE ~modified \/ Scan!OnList(pse)
  <2>1. Scan!OnList(pse)
    BY <1>2, <1>8 DEF Scan!IInv
  <2>2. Scan!GoOn(Scan!ellNext(pse), pse)
    BY <1>8 DEF Scan!ScanStep
  <2>3. /\ ScanTyped' /\ scanPc' # "process" /\ (~rejoined => Scan!InOrder')
        /\ scanPc' \in {"lock", "process", "step"} => Scan!OnList(pse)'
    BY <1>7, <2>1, <2>2
  <2>. QED BY <1>1, <1>2, <1>4, <2>3, ScanTypesNext DEF Scan!IInv, Scan!ScanLocks
<1>9. CASE ~(~modified \/ Scan!OnList(pse)) /\ Scan!OnList(prev)
  <2>1. PICK i \in DOMAIN list : prev = list[i]
    BY <1>3, <1>9
  <2>2. Scan!ellNext(prev) # NoRecord => Scan!ellPrevious(Scan!ellNext(prev)) = prev
    <3>1. CASE i + 1 \in DOMAIN list
      <4>1. (i + 1) + (-1) = i
        BY <1>3
      <4>. QED BY <1>6, <2>1, <3>1, <4>1
    <3>. QED BY <1>6, <2>1, <3>1
  <2>3. Scan!GoOn(Scan!ellNext(prev), prev)
    BY <1>9, <2>2 DEF Scan!ScanStep
  <2>. QED BY <1>1, <1>2, <1>4, <1>7, <1>9, <2>3, ScanTypesNext DEF Scan!IInv, Scan!ScanLocks
<1>10. CASE ~(~modified \/ Scan!OnList(pse)) /\ ~Scan!OnList(prev) /\ Scan!OnList(next)
  <2>1. PICK i \in DOMAIN list : next = list[i]
    BY <1>3, <1>10
  <2>2. Scan!GoOn(next, Scan!ellPrevious(next))
    BY <1>10 DEF Scan!ScanStep
  <2>3. ASSUME ~rejoined PROVE Scan!InOrder'
    <3>1. Scan!InOrder /\ ~twice /\ pse \in done /\ Scan!From(next)
      BY <1>2, <1>10, <2>3 DEF Scan!IInv, Scan!InOrder
    <3>2. ASSUME NEW j \in DOMAIN list
          PROVE  (list[j] \in done => j < i) /\ (list[j] \in Scan!ToDo => i <= j)
      <4>1. list[j] \in Scan!Others
        BY <1>3, <1>10
      <4>. QED BY <1>3, <2>1, <3>1, <4>1 DEF Scan!From
    <3>3. next # NoRecord
      BY <1>10 DEF Scan!OnList
    <3>4. /\ pse' = list[i] /\ scanPc' = "lock" /\ ~twice'
          /\ prev' = IF i + (-1) \in DOMAIN list THEN list[i + (-1)] ELSE NoRecord
          /\ next' = IF i + 1 \in DOMAIN list THEN list[i + 1] ELSE NoRecord
      BY <1>2, <1>6, <2>1, <2>2, <3>1, <3>3 DEF Scan!GoOn
    <3>. QED BY <1>1, <1>2, <1>4, <3>2, <3>4, GoesOnAt DEF Scan!ToDo
  <2>4. next \in ToSet(list) /\ Scan!ellPrevious(next) \in Records \cup {NoRecord}
    BY <1>3, <1>6, <2>1
  <2>. QED BY <1>1, <1>2, <1>4, <1>5, <2>2, <2>3, <2>4, ScanTypesNext DEF Scan!IInv, Scan!ScanLocks
<1>11. CASE ~(~modified \/ Scan!OnList(pse)) /\ ~Scan!OnList(prev) /\ ~Scan!OnList(next)
  <2>1. scanPc' = "early" /\ pse' = NoRecord /\ UNCHANGED <<prev, next, modified>>
    BY <1>11 DEF Scan!ScanStep
  <2>2. ScanTyped'
    BY <1>1, <1>2, <2>1 DEF ScanTyped
  <2>3. ~rejoined => Scan!InOrder'
    BY <1>2, <2>1 DEF Scan!IInv, Scan!InOrder
  <2>. QED BY <1>1, <1>2, <1>4, <2>1, <2>2, <2>3, ScanTypesNext DEF Scan!IInv, Scan!ScanLocks
<1>. QED BY <1>8, <1>9, <1>10, <1>11

\* A record is taken off the list, by a thread that has its lock.
LEMMA ScanDeleteStep ==
    ASSUME Scan!ScanListsAssumption, Scan!IInv, NEW th \in Scan!Threads, NEW r \in Records,
           Scan!scanDelete(th, r)
    PROVE  Scan!IInv'
<1>. USE DEF Scan!ScanListsAssumption
<1>1. ListTyped /\ ScanTyped /\ MovesTyped /\ Scan!ScanLocks
  BY ScanTypes DEF Scan!IInv
<1>2. /\ Scan!MayPut(th, r)
      /\ owner' = [owner EXCEPT ![LockSetOf[r]] = th] /\ moving' = [moving EXCEPT ![th] = r]
      /\ list' = RemoveFirst(list, r) /\ modified' = (modified \/ Scan!OnList(r))
      /\ onList' = onList \ {r}
      /\ UNCHANGED <<phas, pse, prev, next, scanPc, done, twice, rejoined>>
  BY ScanOperators DEF Scan!scanDelete, Scan!scanVars
<1>3. /\ list' \in Seq(Records) /\ IsInjective(list') /\ ToSet(list') = ToSet(list) \ {r}
      /\ Ascending(list', phas')
  <2>1. list \in Seq(Records) /\ IsInjective(list) /\ Ascending(list, phas)
    BY <1>1 DEF ListTyped
  <2>2. /\ RemoveFirst(list, r) \in Seq(Records) /\ IsInjective(RemoveFirst(list, r))
        /\ ToSet(RemoveFirst(list, r)) = ToSet(list) \ {r}
        /\ Ascending(RemoveFirst(list, r), phas)
    BY <2>1, RemovedAscending
  <2>. QED BY <1>2, <2>2
<1>4. ListTyped'
  BY <1>1, <1>2, <1>3 DEF ListTyped
<1>5. modified' \in BOOLEAN
  BY <1>1, <1>2 DEF ScanTyped, Scan!OnList, Scan!Contains
<1>6. ScanTyped'
  BY <1>1, <1>2, <1>5 DEF ScanTyped
<1>7. LockSetOf[r] \in LockSets /\ moving[th] = NoRecord
      /\ (th = Scanner => scanPc = "process" /\ LockSetOf[r] = LockSetOf[pse] /\ owner[LockSetOf[r]] = Scanner)
      /\ (th # Scanner => owner[LockSetOf[r]] = NoThread)
  BY <1>1, <1>2 DEF Scan!MayPut, Scan!ScanLocks
<1>8. Scan!ScanLocks'
  <2>1. Scanner \in Scan!Threads /\ pse \in Records \cup {NoRecord}
    BY <1>1 DEF Scan!Threads, ScanTyped
  <2>2. scanPc = "process" => pse \in Records /\ LockSetOf[pse] \in LockSets
    BY <1>1 DEF ScanTyped
  <2>. QED BY <1>1, <1>2, <1>7, <2>1, <2>2 DEF Scan!ScanLocks, MovesTyped
<1>9. MovesTyped'
  <2>1. ASSUME NEW s \in Scan!Threads, moving[s] # NoRecord, s # th
        PROVE  LockSetOf[moving[s]] # LockSetOf[r]
    <3>1. owner[LockSetOf[moving[s]]] = s
      BY <1>1, <2>1 DEF MovesTyped
    <3>. QED BY <1>7, <2>1, <3>1
  <2>2. ASSUME NEW s \in Scan!Threads, moving'[s] # NoRecord
        PROVE  moving'[s] \notin ToSet(list') /\ owner'[LockSetOf[moving'[s]]] = s
    <3>1. CASE s = th
      BY <1>1, <1>2, <1>3, <1>7, <3>1 DEF MovesTyped
    <3>2. CASE s # th
      <4>1. moving'[s] = moving[s] /\ moving[s] # NoRecord
        BY <1>1, <1>2, <2>2, <3>2 DEF MovesTyped
      <4>2. moving[s] \in Records /\ LockSetOf[moving[s]] \in LockSets
        BY <1>1, <4>1 DEF MovesTyped
      <4>. QED BY <1>1, <1>2, <1>3, <2>1, <3>2, <4>1, <4>2 DEF MovesTyped
    <3>. QED BY <3>1, <3>2
  <2>3. owner' \in [LockSets -> Scan!Threads \cup {NoThread}] /\ moving' \in [Scan!Threads -> Records \cup {NoRecord}]
    BY <1>1, <1>2, <1>7 DEF MovesTyped
  <2>. QED BY <2>2, <2>3 DEF MovesTyped
<1>10. ASSUME ~rejoined PROVE Scan!InOrder'
  <2>1. Scan!InOrder
    BY <1>10 DEF Scan!IInv
  <2>2. ASSUME NEW a \in ToSet(list'), NEW b \in ToSet(list'), Precedes(list, a, b)
        PROVE  Precedes(list', a, b)
    <3>1. a # r /\ b # r
      BY <1>3
    <3>. QED BY <1>1, <1>2, <2>2, <3>1, RemovedPrecedes DEF ListTyped
  <2>3. onList' \subseteq onList /\ ToSet(list') \ ToSet(list) = {}
    BY <1>2, <1>3
  <2>. QED BY <1>1, <1>2, <1>4, <2>1, <2>2, <2>3, ListMoves
<1>11. scanPc' \in {"lock", "process", "step"} /\ ~modified' => Scan!OnList(pse)'
  <2>. SUFFICES ASSUME scanPc \in {"lock", "process", "step"}, ~modified'
                PROVE  Scan!OnList(pse)'
    BY <1>2
  <2>1. ~modified /\ ~Scan!OnList(r)
    BY <1>2
  <2>2. r \notin ToSet(list)
    BY <1>1, <2>1, ScanOrder
  <2>3. list' = list
    <3>1. ~\E i \in 1..Len(list) : list[i] = r
      BY <1>1, <2>2, ScanOrder
    <3>. QED BY <1>2, <3>1 DEF RemoveFirst
  <2>. QED BY <1>2, <2>1, <2>3 DEF Scan!IInv, Scan!OnList
<1>. QED BY <1>2, <1>4, <1>6, <1>8, <1>9, <1>10, <1>11, ScanTypesNext DEF Scan!IInv

\* The lock is given back with the record, which the thread has.
LEMMA Releases ==
    ASSUME Scan!ScanListsAssumption, ScanTyped, MovesTyped, Scan!ScanLocks,
           NEW th \in Scan!Threads, moving[th] # NoRecord,
           Scan!Release(th, moving[th]), UNCHANGED <<pse, scanPc>>,
           ToSet(list') \subseteq ToSet(list) \cup {moving[th]}
    PROVE  MovesTyped' /\ Scan!ScanLocks'
<1>. USE DEF Scan!ScanListsAssumption
<1>. DEFINE r == moving[th]
<1>1. r \in Records /\ LockSetOf[r] \in LockSets /\ owner[LockSetOf[r]] = th
  BY DEF MovesTyped
<1>2. /\ moving' = [moving EXCEPT ![th] = NoRecord]
      /\ owner' = [owner EXCEPT ![LockSetOf[r]] = IF th = Scanner THEN @ ELSE NoThread]
  BY DEF Scan!Release
<1>. HIDE DEF r
<1>3. owner' \in [LockSets -> Scan!Threads \cup {NoThread}] /\ moving' \in [Scan!Threads -> Records \cup {NoRecord}]
  BY <1>1, <1>2 DEF MovesTyped
<1>4. ASSUME NEW s \in Scan!Threads, moving'[s] # NoRecord
      PROVE  moving'[s] \notin ToSet(list') /\ owner'[LockSetOf[moving'[s]]] = s
  <2>1. s # th /\ moving'[s] = moving[s] /\ moving[s] # NoRecord
    BY <1>2, <1>4 DEF MovesTyped
  <2>2. moving[s] \in Records /\ LockSetOf[moving[s]] \in LockSets /\ owner[LockSetOf[moving[s]]] = s
        /\ moving[s] \notin ToSet(list)
    BY <2>1 DEF MovesTyped
  <2>3. LockSetOf[moving[s]] # LockSetOf[r] /\ moving[s] # r
    BY <1>1, <2>1, <2>2
  <2>. QED BY <1>2, <2>1, <2>2, <2>3 DEF MovesTyped, r
<1>5. Scan!ScanLocks'
  <2>1. Scanner \in Scan!Threads
    BY DEF Scan!Threads
  <2>2. scanPc = "process" => pse \in Records /\ LockSetOf[pse] \in LockSets
    BY DEF ScanTyped
  <2>. QED BY <1>1, <1>2, <2>1, <2>2 DEF Scan!ScanLocks, MovesTyped
<1>. QED BY <1>3, <1>4, <1>5 DEF MovesTyped

\* A record is put on the list, in its place.
LEMMA ScanAddStep ==
    ASSUME Scan!ScanListsAssumption, Scan!IInv, NEW th \in Scan!Threads, NEW ph \in 0..MaxPhas,
           Scan!scanAdd(th, ph)
    PROVE  Scan!IInv'
<1>. USE DEF Scan!ScanListsAssumption
<1>. DEFINE r == moving[th]
            n == Scan!LastUpTo(ph)
<1>1. ListTyped /\ ScanTyped /\ MovesTyped /\ Scan!ScanLocks
  BY ScanTypes DEF Scan!IInv
<1>2. /\ r # NoRecord
      /\ phas' = [phas EXCEPT ![r] = ph] /\ list' = InsertAt(list, n + 1, r)
      /\ rejoined' = (rejoined \/ r \in done \/ r \in {pse, prev, next})
      /\ Scan!Release(th, r) /\ modified' = TRUE
      /\ UNCHANGED <<pse, prev, next, scanPc, onList, done, twice>>
  BY ScanOperators DEF Scan!scanAdd, Scan!scanVars
<1>3. r \in Records /\ r \notin ToSet(list)
  BY <1>1, <1>2 DEF MovesTyped
<1>4. list \in Seq(Records) /\ IsInjective(list) /\ Ascending(list, phas)
      /\ phas \in [Records -> 0..MaxPhas] /\ (\A s \in Records : phas[s] \in Int) /\ ph \in Int
  BY <1>1 DEF ListTyped
<1>5. IsPlace(list, phas, ph, n) /\ n \in 0..Len(list)
  <2>1. \E m : IsPlace(list, phas, ph, m)
    BY <1>4, PlaceIn
  <2>. QED BY <2>1 DEF Scan!LastUpTo, IsPlace
<1>. HIDE DEF n, r
<1>6. list' \in Seq(Records) /\ IsInjective(list') /\ ToSet(list') = ToSet(list) \cup {r}
  <2>1. /\ InsertAt(list, n + 1, r) \in Seq(Records) /\ IsInjective(InsertAt(list, n + 1, r))
        /\ ToSet(InsertAt(list, n + 1, r)) = ToSet(list) \cup {r}
    BY <1>3, <1>4, <1>5, InsertedAt
  <2>. QED BY <1>2, <2>1
<1>7. Ascending(list', phas')
  <2>1. phas'[r] = ph /\ (\A s \in ToSet(list) : phas'[s] = phas[s]) /\ ph \in Int
    BY <1>1, <1>2, <1>3, <1>4, ScanOrder
  <2>2. Ascending(InsertAt(list, n + 1, r), phas')
    BY <1>3, <1>4, <1>5, <2>1, InsertedAscending
  <2>. QED BY <1>2, <2>2
<1>8. ListTyped'
  BY <1>1, <1>2, <1>3, <1>6, <1>7 DEF ListTyped
<1>9. ScanTyped'
  BY <1>1, <1>2 DEF ScanTyped
<1>10. MovesTyped' /\ Scan!ScanLocks'
  BY <1>1, <1>2, <1>6, Releases DEF r
<1>11. ASSUME ~rejoined' PROVE Scan!InOrder'
  <2>1. Scan!InOrder /\ r \notin done /\ r \notin {pse, prev, next}
    BY <1>2, <1>11 DEF Scan!IInv
  <2>2. ASSUME NEW a, NEW b, Precedes(list, a, b)
        PROVE  Precedes(list', a, b)
    BY <1>2, <1>3, <1>4, <1>5, <2>2, InsertedPrecedes
  <2>3. r \notin onList' /\ onList' \subseteq onList
    BY <1>1, <1>2, <1>3 DEF ListTyped
  <2>4. \A s \in ToSet(list') \ ToSet(list) : s = r
    BY <1>6
  <2>. QED BY <1>1, <1>2, <1>8, <2>1, <2>2, <2>3, <2>4, ListMoves
<1>. QED BY <1>2, <1>8, <1>9, <1>10, <1>11, ScanTypesNext DEF Scan!IInv

\* A record stays off the list.
LEMMA StaysOffStep ==
    ASSUME Scan!ScanListsAssumption, Scan!IInv, NEW th \in Scan!Threads, Scan!StaysOff(th)
    PROVE  Scan!IInv'
<1>1. ListTyped /\ ScanTyped /\ MovesTyped /\ Scan!ScanLocks
  BY ScanTypes DEF Scan!IInv
<1>2. /\ moving[th] # NoRecord /\ Scan!Release(th, moving[th])
      /\ UNCHANGED <<list, modified, phas, pse, prev, next, scanPc, onList, done, twice, rejoined>>
  BY DEF Scan!StaysOff, Scan!listVars, Scan!scanVars, Scan!history
<1>3. MovesTyped' /\ Scan!ScanLocks'
  BY <1>1, <1>2, Releases
<1>4. ListTyped' /\ ScanTyped'
  BY <1>1, <1>2 DEF ListTyped, ScanTyped
<1>5. (Scan!InOrder' <=> Scan!InOrder) /\ (Scan!OnList(pse)' <=> Scan!OnList(pse))
  BY <1>2 DEF Scan!InOrder, Scan!OnList, Scan!Behind, Scan!From, Scan!Others, Scan!ToDo, Scan!Ahead
<1>. QED BY <1>2, <1>3, <1>4, <1>5, ScanTypesNext DEF Scan!IInv

\* Every step of a scan and of those who move records keeps the invariant.
LEMMA ScanNextStep ==
    ASSUME Scan!ScanListsAssumption, Scan!IInv, [Scan!Next]_(Scan!vars)
    PROVE  Scan!IInv'
<1>1. CASE UNCHANGED Scan!vars
  BY <1>1 DEF Scan!vars, Scan!listVars, Scan!scanVars, Scan!history, Scan!IInv, Scan!TypeOK, Scan!ScanLocks,
     Scan!InOrder, Scan!OnList, Scan!Behind, Scan!From, Scan!Others, Scan!ToDo, Scan!Ahead
<1>. QED BY <1>1, ScanBeginStep, ScanLockStep, ScanUnlockStep, ScanStepStep, ScanDeleteStep,
     ScanAddStep, StaysOffStep DEF Scan!Next

\* The scan's part of a behaviour.
LEMMA ScanParts == ServicesSpec => Scan!Init /\ [][Scan!Next]_(Scan!vars)
<1>1. ServicesInit => Scan!Init
  BY DEF ServicesInit
<1>2. [ServicesNext]_serviceVars => [Scan!Next]_(Scan!vars)
  BY DEF ServicesNext, serviceVars, scanVars, Scan!vars, Scan!listVars, Scan!scanVars, Scan!history
<1>. QED BY <1>1, <1>2, PTL DEF ServicesSpec

\* dbScan.c: in every state of a scan list the invariant holds.
LEMMA ScanInvariance == ServicesSpec => []Scan!IInv
<1>1. Scan!Init => Scan!IInv
  BY ScanInit, ServicesAssumption
<1>2. Scan!IInv /\ [Scan!Next]_(Scan!vars) => Scan!IInv'
  BY ScanNextStep, ServicesAssumption
<1>. QED BY <1>1, <1>2, ScanParts, PTL

\* dbScan.c:645: a scan list holds records once, sorted by PHAS, and who moves
\* a record has its lock and the record off the list, for any number of records,
\* lock sets and threads.
THEOREM ScanListsTypeCorrect == ServicesSpec => []Scan!TypeOK
<1>1. Scan!IInv => Scan!TypeOK
  BY DEF Scan!IInv
<1>. QED BY <1>1, ScanInvariance, PTL

\* dbScan.c:574: a scan processes each record that stays on its list exactly once,
\* though others are taken off the list and put on it in between, unless one
\* that the scan had processed, or was to go on from, came back.
THEOREM ScannedOnce == ServicesSpec => []ScansOnce
<1>1. Scan!IInv => ScansOnce
  BY DEF Scan!IInv, Scan!InOrder, Scan!ScansOnce, ScansOnce
<1>. QED BY <1>1, ScanInvariance, PTL

-----------------------------------------------------------------------------
(* The ring buffer *)

\* The ring starts empty.
LEMMA RingInit ==
    ASSUME callbackQ!Init
    PROVE  callbackQ!IInv
  BY CallbackQueueAssumption DEF callbackQ!Init, callbackQ!IInv, callbackQ!TypeOK, callbackQ!Slots, callbackQ!size

\* Neither side reaches into what the other side is using.
LEMMA RingStep ==
    ASSUME callbackQ!IInv, [callbackQ!Next]_(callbackQ!vars)
    PROVE  callbackQ!IInv'
<1>. USE CallbackQueueAssumption DEF callbackQ!IInv, callbackQ!TypeOK, callbackQ!Slots, callbackQ!size, callbackQ!Rejects, callbackQ!Increment, callbackQ!isEmpty, callbackQ!writer, callbackQ!reader
<1>1. ASSUME NEW v \in Callbacks, callbackQ!PushStart(v)
      PROVE  callbackQ!IInv'
  BY <1>1 DEF callbackQ!PushStart
<1>2. ASSUME callbackQ!PushStore
      PROVE  callbackQ!IInv'
  BY <1>2 DEF callbackQ!PushStore
<1>3. ASSUME callbackQ!PushAdvance
      PROVE  callbackQ!IInv'
  BY <1>3 DEF callbackQ!PushAdvance
<1>4. ASSUME callbackQ!PopStart
      PROVE  callbackQ!IInv'
  BY <1>4 DEF callbackQ!PopStart
<1>5. ASSUME callbackQ!PopTake
      PROVE  callbackQ!IInv'
  BY <1>5 DEF callbackQ!PopTake
<1>6. ASSUME callbackQ!PopAdvance
      PROVE  callbackQ!IInv'
  BY <1>6 DEF callbackQ!PopAdvance, callbackQ!Taken
<1>7. ASSUME UNCHANGED callbackQ!vars
      PROVE  callbackQ!IInv'
  BY <1>7 DEF callbackQ!vars
<1>. QED BY <1>1, <1>2, <1>3, <1>4, <1>5, <1>6, <1>7 DEF callbackQ!Next


\* How the contents and the indices of the ring hang together.
RingFacts ==
    /\ callbackQ!getUsed \in 0..callbackQueueSize
    /\ callbackQ!Contents \in Seq(Callbacks \cup {NoCallback}) /\ Len(callbackQ!Contents) = callbackQ!getUsed
    /\ \A i \in 1..callbackQ!getUsed : callbackQ!Contents[i] = buffer[callbackQ!Place(i - 1)]
    /\ \A i \in 1..callbackQ!getUsed : callbackQ!Place(i - 1) \in callbackQ!Slots /\ callbackQ!Place(i - 1) # nextPush
    /\ callbackQ!Place(0) = nextPop /\ callbackQ!Place(callbackQ!getUsed) = nextPush
    /\ callbackQ!getUsed = 0 <=> callbackQ!isEmpty
    /\ callbackQ!getUsed = callbackQueueSize <=> callbackQ!Rejects

\* They do whenever the indices are inside the buffer.
LEMMA RingContents ==
    callbackQ!TypeOK => RingFacts
<1>. SUFFICES ASSUME callbackQ!TypeOK
              PROVE  RingFacts
  OBVIOUS
<1>. USE CallbackQueueAssumption DEF callbackQ!TypeOK, callbackQ!Slots, callbackQ!size
<1>1. callbackQ!getUsed \in 0..callbackQueueSize
  BY DEF callbackQ!getUsed
<1>2. \A i \in 1..callbackQ!getUsed : callbackQ!Place(i - 1) \in callbackQ!Slots /\ callbackQ!Place(i - 1) # nextPush
  BY <1>1 DEF callbackQ!Place, callbackQ!getUsed
<1>3. callbackQ!Contents \in [1..callbackQ!getUsed -> Callbacks \cup {NoCallback}]
  BY <1>2 DEF callbackQ!Contents
<1>4. callbackQ!Contents \in Seq(Callbacks \cup {NoCallback}) /\ Len(callbackQ!Contents) = callbackQ!getUsed
  BY <1>1, <1>3, IsASeq, LenProperties
<1>5. \A i \in 1..callbackQ!getUsed : callbackQ!Contents[i] = buffer[callbackQ!Place(i - 1)]
  BY DEF callbackQ!Contents
<1>6. callbackQ!Place(0) = nextPop /\ callbackQ!Place(callbackQ!getUsed) = nextPush
  BY DEF callbackQ!Place, callbackQ!getUsed
<1>7. (callbackQ!getUsed = 0 <=> callbackQ!isEmpty) /\ (callbackQ!getUsed = callbackQueueSize <=> callbackQ!Rejects)
  BY DEF callbackQ!getUsed, callbackQ!isEmpty, callbackQ!Rejects, callbackQ!Increment
<1>. QED BY <1>1, <1>2, <1>4, <1>5, <1>6, <1>7 DEF RingFacts

\* An empty ring is an empty queue.
LEMMA RingQueueInit ==
    ASSUME callbackQ!Init
    PROVE  callbackQ!Queue!Init
<1>1. callbackQ!TypeOK /\ callbackQ!isEmpty
  BY CallbackQueueAssumption DEF callbackQ!Init, callbackQ!TypeOK, callbackQ!isEmpty, callbackQ!Slots, callbackQ!size
<1>2. callbackQ!Contents = << >>
  BY <1>1, RingContents, EmptySeq DEF RingFacts
<1>. QED BY <1>2 DEF callbackQ!Init, callbackQ!Queue!Init

\* A step that changes no index, and writes no slot in use, keeps the contents.
LEMMA RingSame ==
    ASSUME callbackQ!IInv, callbackQ!IInv', UNCHANGED <<nextPush, nextPop>>,
           \A i \in 1..callbackQ!getUsed : buffer'[callbackQ!Place(i - 1)] = buffer[callbackQ!Place(i - 1)]
    PROVE  callbackQ!Contents' = callbackQ!Contents
<1>1. RingFacts /\ RingFacts'
  <2>1. callbackQ!TypeOK /\ callbackQ!TypeOK'
    BY DEF callbackQ!IInv
  <2>. QED BY <2>1, RingContents, PTL
<1>2. callbackQ!getUsed' = callbackQ!getUsed
  BY DEF callbackQ!getUsed, callbackQ!size
<1>3. \A i \in 1..callbackQ!getUsed : callbackQ!Contents'[i] = callbackQ!Contents[i]
  <2>1. \A i \in 1..callbackQ!getUsed : callbackQ!Contents'[i] = buffer'[callbackQ!Place(i - 1)]
    BY <1>2 DEF callbackQ!Contents, callbackQ!Place, callbackQ!size
  <2>. QED BY <1>1, <2>1 DEF RingFacts
<1>4. callbackQ!Contents \in Seq(Callbacks \cup {NoCallback}) /\ callbackQ!Contents' \in Seq(Callbacks \cup {NoCallback})
      /\ Len(callbackQ!Contents) = callbackQ!getUsed /\ Len(callbackQ!Contents') = callbackQ!getUsed
  BY <1>1, <1>2 DEF RingFacts
<1>. HIDE DEF callbackQ!Contents
<1>. QED BY <1>3, <1>4, SeqEqual

\* A step of the ring is a step of the queue, at the store of an index, or none.
LEMMA RingQueueStep ==
    ASSUME callbackQ!IInv, callbackQ!IInv', [callbackQ!Next]_(callbackQ!vars)
    PROVE  [callbackQ!Queue!Next]_(callbackQ!Queue!vars)
<1>0. RingFacts /\ RingFacts' /\ callbackQ!TypeOK /\ callbackQ!TypeOK'
  <2>1. callbackQ!TypeOK /\ callbackQ!TypeOK'
    BY DEF callbackQ!IInv
  <2>. QED BY <2>1, RingContents, PTL
<1>1. ASSUME NEW v \in Callbacks, callbackQ!PushStart(v)
      PROVE  [callbackQ!Queue!Next]_(callbackQ!Queue!vars)
  <2>1. callbackQ!Contents' = callbackQ!Contents /\ popped' = popped
    BY <1>1, RingSame DEF callbackQ!PushStart, callbackQ!reader
  <2>2. CASE callbackQ!Rejects
    <3>1. callbackQ!Queue!PushFails
      BY <1>0, <1>1, <2>1, <2>2 DEF callbackQ!PushStart, callbackQ!Queue!PushFails, RingFacts
    <3>. QED BY <3>1 DEF callbackQ!Queue!Next
  <2>3. CASE ~callbackQ!Rejects
    BY <1>1, <2>1, <2>3 DEF callbackQ!PushStart, callbackQ!Queue!vars
  <2>. QED BY <2>2, <2>3
<1>2. ASSUME callbackQ!PushStore
      PROVE  [callbackQ!Queue!Next]_(callbackQ!Queue!vars)
  <2>1. \A i \in 1..callbackQ!getUsed : buffer'[callbackQ!Place(i - 1)] = buffer[callbackQ!Place(i - 1)]
    BY <1>0, <1>2 DEF callbackQ!PushStore, RingFacts, callbackQ!TypeOK
  <2>2. callbackQ!Contents' = callbackQ!Contents
    BY <1>2, <2>1, RingSame DEF callbackQ!PushStore
  <2>. QED BY <1>2, <2>2 DEF callbackQ!PushStore, callbackQ!reader, callbackQ!Queue!vars
<1>3. ASSUME callbackQ!PushAdvance
      PROVE  [callbackQ!Queue!Next]_(callbackQ!Queue!vars)
  <2>1. /\ ~callbackQ!Rejects /\ p \in Callbacks /\ buffer[nextPush] = p
        /\ nextPush' = callbackQ!Increment(nextPush) /\ UNCHANGED <<nextPop, buffer, popped>>
        /\ pushed' = TRUE
    BY <1>3 DEF callbackQ!PushAdvance, callbackQ!IInv, callbackQ!reader
  <2>2. callbackQ!getUsed' = callbackQ!getUsed + 1 /\ callbackQ!getUsed < callbackQueueSize
    BY CallbackQueueAssumption, <1>0, <2>1 DEF callbackQ!getUsed, callbackQ!Increment, callbackQ!TypeOK, callbackQ!Slots, callbackQ!size, callbackQ!Rejects, RingFacts
  <2>3. callbackQ!Contents' = Append(callbackQ!Contents, p)
    <3>. DEFINE r == Append(callbackQ!Contents, p)
                V == Callbacks \cup {NoCallback}
    <3>1. /\ callbackQ!Contents \in Seq(V) /\ Len(callbackQ!Contents) = callbackQ!getUsed
          /\ callbackQ!Contents' \in Seq(V) /\ Len(callbackQ!Contents') = callbackQ!getUsed + 1
      BY <1>0, <2>2 DEF RingFacts
    <3>2. /\ r \in Seq(V) /\ Len(r) = callbackQ!getUsed + 1 /\ r[callbackQ!getUsed + 1] = p
          /\ \A i \in 1..callbackQ!getUsed : r[i] = callbackQ!Contents[i]
      BY <2>1, <3>1, AppendProperties
    <3>3. \A i \in 1..(callbackQ!getUsed + 1) : callbackQ!Contents'[i] = buffer[callbackQ!Place(i - 1)]
      BY <2>1, <2>2 DEF callbackQ!Contents, callbackQ!Place, callbackQ!size
    <3>4. callbackQ!getUsed \in Nat /\ buffer[callbackQ!Place(callbackQ!getUsed)] = p
          /\ \A i \in 1..callbackQ!getUsed : callbackQ!Contents[i] = buffer[callbackQ!Place(i - 1)]
      BY <1>0, <2>1 DEF RingFacts
    <3>. HIDE DEF r, V
    <3>5. \A i \in 1..(callbackQ!getUsed + 1) : callbackQ!Contents'[i] = r[i]
      <4>. SUFFICES ASSUME NEW i \in 1..(callbackQ!getUsed + 1)
                    PROVE  callbackQ!Contents'[i] = r[i]
        OBVIOUS
      <4>1. CASE i \in 1..callbackQ!getUsed
        BY <3>2, <3>3, <3>4, <4>1
      <4>2. CASE i = callbackQ!getUsed + 1
        <5>1. i - 1 = callbackQ!getUsed
          BY <3>4, <4>2
        <5>. QED BY <3>2, <3>3, <3>4, <4>2, <5>1
      <4>. QED BY <3>4, <4>1, <4>2
    <3>6. callbackQ!Contents' = r
      BY <3>1, <3>2, <3>5, SeqEqual
    <3>. QED BY <3>6 DEF r
  <2>4. callbackQ!Queue!Push(p)
    BY <1>0, <2>1, <2>2, <2>3 DEF callbackQ!Queue!Push, RingFacts
  <2>. QED BY <2>1, <2>4 DEF callbackQ!Queue!Next
<1>4. ASSUME callbackQ!PopStart
      PROVE  [callbackQ!Queue!Next]_(callbackQ!Queue!vars)
  <2>1. callbackQ!Contents' = callbackQ!Contents /\ pushed' = pushed
    BY <1>4, RingSame DEF callbackQ!PopStart, callbackQ!writer
  <2>2. CASE callbackQ!isEmpty
    <3>1. callbackQ!Contents = << >>
      BY <1>0, <2>2, EmptySeq DEF RingFacts
    <3>2. callbackQ!Queue!PopFails
      BY <1>4, <2>1, <2>2, <3>1 DEF callbackQ!PopStart, callbackQ!Queue!PopFails
    <3>. QED BY <3>2 DEF callbackQ!Queue!Next
  <2>3. CASE ~callbackQ!isEmpty
    BY <1>4, <2>1, <2>3 DEF callbackQ!PopStart, callbackQ!Queue!vars
  <2>. QED BY <2>2, <2>3
<1>5. ASSUME callbackQ!PopTake
      PROVE  [callbackQ!Queue!Next]_(callbackQ!Queue!vars)
  <2>1. callbackQ!Contents' = callbackQ!Contents
    BY <1>5, RingSame DEF callbackQ!PopTake
  <2>. QED BY <1>5, <2>1 DEF callbackQ!PopTake, callbackQ!writer, callbackQ!Queue!vars
<1>6. ASSUME callbackQ!PopAdvance
      PROVE  [callbackQ!Queue!Next]_(callbackQ!Queue!vars)
  <2>1. /\ ~callbackQ!isEmpty /\ popped' = buffer[nextPop]
        /\ nextPop' = callbackQ!Increment(nextPop) /\ UNCHANGED <<nextPush, buffer, pushed>>
    BY <1>6 DEF callbackQ!PopAdvance, callbackQ!IInv, callbackQ!writer, callbackQ!Taken
  <2>2. callbackQ!getUsed' = callbackQ!getUsed - 1 /\ callbackQ!getUsed \in 1..callbackQueueSize
    <3>1. nextPush \in 0..callbackQueueSize /\ nextPop \in 0..callbackQueueSize /\ nextPush # nextPop
      BY CallbackQueueAssumption, <1>0, <2>1 DEF callbackQ!TypeOK, callbackQ!Slots, callbackQ!size, callbackQ!isEmpty
    <3>2. nextPop' = IF nextPop + 1 >= callbackQueueSize + 1 THEN 0 ELSE nextPop + 1
      BY <2>1 DEF callbackQ!Increment, callbackQ!size
    <3>. QED BY CallbackQueueAssumption, <2>1, <3>1, <3>2 DEF callbackQ!getUsed, callbackQ!size
  <2>3. callbackQ!Contents # << >> /\ callbackQ!Contents' = Tail(callbackQ!Contents) /\ Head(callbackQ!Contents) = buffer[nextPop]
    <3>. DEFINE r == Tail(callbackQ!Contents)
                V == Callbacks \cup {NoCallback}
    <3>1. /\ callbackQ!Contents \in Seq(V) /\ Len(callbackQ!Contents) = callbackQ!getUsed
          /\ callbackQ!Contents' \in Seq(V) /\ Len(callbackQ!Contents') = callbackQ!getUsed - 1
      BY <1>0, <2>2 DEF RingFacts
    <3>2. callbackQ!Contents # << >>
      BY <2>2, <3>1, EmptySeq
    <3>3. /\ r \in Seq(V) /\ Len(r) = callbackQ!getUsed - 1 /\ Head(callbackQ!Contents) = callbackQ!Contents[1]
          /\ \A i \in 1..(callbackQ!getUsed - 1) : r[i] = callbackQ!Contents[i + 1]
      BY <3>1, <3>2, HeadTailProperties
    <3>4. \A i \in 1..(callbackQ!getUsed - 1) : callbackQ!Contents'[i] = buffer[callbackQ!Place(i - 1)']
      BY <2>1, <2>2 DEF callbackQ!Contents
    <3>5. \A i \in 1..(callbackQ!getUsed - 1) : callbackQ!Place(i - 1)' = callbackQ!Place(i)
      BY CallbackQueueAssumption, <1>0, <2>1, <2>2 DEF callbackQ!Place, callbackQ!Increment, callbackQ!TypeOK, callbackQ!Slots, callbackQ!size
    <3>6. \A i \in 1..callbackQ!getUsed : callbackQ!Contents[i] = buffer[callbackQ!Place(i - 1)]
      BY <1>0 DEF RingFacts
    <3>7. 1 \in 1..callbackQ!getUsed /\ callbackQ!Contents[1] = buffer[nextPop]
      BY <1>0, <2>2, <3>6 DEF RingFacts
    <3>. HIDE DEF r, V
    <3>8. \A i \in 1..(callbackQ!getUsed - 1) : callbackQ!Contents'[i] = r[i]
      <4>. SUFFICES ASSUME NEW i \in 1..(callbackQ!getUsed - 1)
                    PROVE  callbackQ!Contents'[i] = r[i]
        OBVIOUS
      <4>1. i + 1 \in 1..callbackQ!getUsed /\ i + 1 - 1 = i
        BY <2>2
      <4>. QED BY <3>3, <3>4, <3>5, <3>6, <4>1
    <3>9. callbackQ!Contents' = r
      BY <3>1, <3>3, <3>8, SeqEqual
    <3>. QED BY <3>2, <3>3, <3>7, <3>9 DEF r
  <2>4. callbackQ!Queue!Pop
    BY <2>1, <2>3 DEF callbackQ!Queue!Pop
  <2>. QED BY <2>4 DEF callbackQ!Queue!Next
<1>7. ASSUME UNCHANGED callbackQ!vars
      PROVE  [callbackQ!Queue!Next]_(callbackQ!Queue!vars)
  <2>1. callbackQ!Contents' = callbackQ!Contents
    BY <1>7, RingSame DEF callbackQ!vars
  <2>. QED BY <1>7, <2>1 DEF callbackQ!vars, callbackQ!writer, callbackQ!reader, callbackQ!Queue!vars
<1>. QED BY <1>1, <1>2, <1>3, <1>4, <1>5, <1>6, <1>7 DEF callbackQ!Next

-----------------------------------------------------------------------------
(* Callback tasks *)

\* Every step of the callback tasks is one of their ring, or none.
LEMMA CallbackRingStep ==
    ASSUME IInv, [Next]_vars
    PROVE  [callbackQ!Next]_(callbackQ!vars)
<1>. USE DEF callbackQ!Next, callbackQ!vars, callbackQ!writer, callbackQ!reader
<1>1. ASSUME NEW r \in Requesters, Request(r) \/ PushStore(r) \/ PushAdvance(r) \/ Overflow(r) \/ Signal(r)
      PROVE  [callbackQ!Next]_(callbackQ!vars)
  BY <1>1 DEF Request, PushStore, PushAdvance, Overflow, Signal, ring
<1>2. ASSUME NEW r \in Requesters, Push(r)
      PROVE  [callbackQ!Next]_(callbackQ!vars)
  BY <1>2 DEF Push, IInv
<1>3. ASSUME TaskNext
      PROVE  [callbackQ!Next]_(callbackQ!vars)
  BY <1>3 DEF TaskNext, TaskWait, Pop, PopTake, PopAdvance, ClearOverflow, Run, ring
<1>4. ASSUME UNCHANGED vars
      PROVE  [callbackQ!Next]_(callbackQ!vars)
  BY <1>4 DEF vars, ring
<1>. QED BY <1>1, <1>2, <1>3, <1>4 DEF Next, RequestNext

\* The callback tasks start with no request.
LEMMA CallbackInit ==
    ASSUME Init
    PROVE  IInv
<1>1. callbackQ!IInv
  BY RingInit DEF Init
<1>2. TypeOK
  BY <1>1 DEF Init, TypeOK, callbackQ!IInv
<1>. QED BY <1>1, <1>2 DEF Init, IInv, callbackQ!Init, callbackQ!isEmpty

\* A wakeup is not lost: who leaves a callback in the ring has still to signal.
LEMMA CallbackStep ==
    ASSUME IInv, [Next]_vars
    PROVE  IInv'
<1>1. callbackQ!IInv'
  BY CallbackRingStep, RingStep DEF IInv
<1>. USE DEF IInv, TypeOK, callbackQ!IInv, Goto, callbackQ!isEmpty
<1>2. ASSUME NEW r \in Requesters, Request(r)
      PROVE  IInv'
  BY <1>1, <1>2 DEF Request, ring
<1>3. ASSUME NEW r \in Requesters, Push(r)
      PROVE  IInv'
  BY <1>1, <1>3 DEF Push, callbackQ!PushStart, callbackQ!reader
<1>4. ASSUME NEW r \in Requesters, PushStore(r)
      PROVE  IInv'
  BY <1>1, <1>4 DEF PushStore, callbackQ!PushStore, callbackQ!reader, requests
<1>5. ASSUME NEW r \in Requesters, PushAdvance(r)
      PROVE  IInv'
  BY <1>1, <1>5 DEF PushAdvance, callbackQ!PushAdvance, callbackQ!reader
<1>6. ASSUME NEW r \in Requesters, Overflow(r)
      PROVE  IInv'
  BY <1>1, <1>6 DEF Overflow, ring
<1>7. ASSUME NEW r \in Requesters, Signal(r)
      PROVE  IInv'
  BY <1>1, <1>7 DEF Signal, ring
<1>8. ASSUME TaskWait
      PROVE  IInv'
  BY <1>1, <1>8 DEF TaskWait, ring, requests
<1>9. ASSUME Pop
      PROVE  IInv'
  BY <1>1, <1>9 DEF Pop, callbackQ!PopStart, callbackQ!writer, requests
<1>10. ASSUME PopTake
       PROVE  IInv'
  BY <1>1, <1>10 DEF PopTake, callbackQ!PopTake, callbackQ!writer, requests
<1>11. ASSUME PopAdvance
       PROVE  IInv'
  BY <1>1, <1>11 DEF PopAdvance, callbackQ!PopAdvance, callbackQ!writer, requests
<1>12. ASSUME ClearOverflow
       PROVE  IInv'
  BY <1>1, <1>12 DEF ClearOverflow, ring, requests
<1>13. ASSUME Run
       PROVE  IInv'
  BY <1>1, <1>13 DEF Run, AfterRun, ring, requests
<1>14. ASSUME UNCHANGED vars
       PROVE  IInv'
  BY <1>1, <1>14 DEF vars, ring, requests
<1>. QED BY <1>2, <1>3, <1>4, <1>5, <1>6, <1>7, <1>8, <1>9, <1>10, <1>11, <1>12, <1>13, <1>14
         DEF Next, RequestNext, TaskNext


-----------------------------------------------------------------------------
(* The parts *)

\* The services take turns with nothing: each sees its own steps only.
LEMMA CallbackParts == ServicesSpec => Init /\ [][Next]_vars
<1>1. ServicesInit => Init
  BY DEF ServicesInit
<1>2. [ServicesNext]_serviceVars => [Next]_vars
  BY DEF ServicesNext, serviceVars
<1>. QED BY <1>1, <1>2, PTL DEF ServicesSpec

\* The invariant of the callback tasks.
LEMMA CallbackInvariance == ServicesSpec => []IInv
<1>1. Init => IInv
  BY CallbackInit
<1>2. IInv /\ [Next]_vars => IInv'
  BY CallbackStep
<1>. QED BY <1>1, <1>2, CallbackParts, PTL

\* callback.c: the callback task never sleeps on a queued callback, whatever
\* the number of requesters and the size of the queue.
THEOREM CallbackWakeup == ServicesSpec => []CallbacksServed
<1>1. IInv => CallbacksServed
  BY DEF IInv, CallbacksServed, NoLostWakeup, Requesting, TypeOK
<1>. QED BY <1>1, CallbackInvariance, PTL

\* epicsRingPointer.h: without a lock, one writer and one reader make the ring
\* a first-in first-out queue of callbackQueueSize callbacks.
THEOREM RingIsQueue == ServicesSpec => ImplementsQueue
<1>1. Init => callbackQ!Queue!Init
  BY RingQueueInit DEF Init
<1>2. IInv /\ IInv' /\ [Next]_vars => [callbackQ!Queue!Next]_(callbackQ!Queue!vars)
  <2>. SUFFICES ASSUME IInv, IInv', [Next]_vars
                PROVE  [callbackQ!Queue!Next]_(callbackQ!Queue!vars)
    OBVIOUS
  <2>1. callbackQ!IInv /\ callbackQ!IInv'
    BY DEF IInv
  <2>. QED BY <2>1, CallbackRingStep, RingQueueStep
<1>. QED BY <1>1, <1>2, CallbackParts, CallbackInvariance, PTL
         DEF ImplementsQueue, callbackQ!ImplementsQueue, callbackQ!Queue!Spec

-----------------------------------------------------------------------------
(* The error log *)

\* What a message is made of.
LEMMA EndOf ==
    ASSUME Log!ErrLogAssumption, NEW m \in Log!Message
    PROVE  Log!End(m) \in Nat /\ m.start \in Nat /\ m.length \in 1..MaxMessage
  BY DEF Log!ErrLogAssumption, Log!Message, Log!End

\* A next message starts where the last one ends.
LEMMA PackedEnd ==
    ASSUME Log!ErrLogAssumption, NEW queue, Log!Packed(queue)
    PROVE  /\ Log!NextStart(queue) \in 0..BufferSize
           /\ queue # << >> => Log!NextStart(queue) = Log!End(queue[Len(queue)])
<1>1. CASE queue = << >>
  BY <1>1 DEF Log!NextStart, Log!ErrLogAssumption
<1>2. CASE queue # << >>
  <2>1. queue \in Seq(Log!Message) /\ Len(queue) \in 1..Len(queue)
    BY <1>2, EmptySeq, LenProperties DEF Log!Packed
  <2>2. queue[Len(queue)] \in Log!Message
    BY <2>1, ElementOfSeq
  <2>3. Log!End(queue[Len(queue)]) <= BufferSize
    BY <2>1 DEF Log!Packed
  <2>. QED BY <1>2, <2>2, <2>3, EndOf DEF Log!NextStart, Log!ErrLogAssumption
<1>. QED BY <1>1, <1>2

\* A message that fits keeps the buffer packed.
LEMMA PackedAppend ==
    ASSUME Log!ErrLogAssumption, NEW queue, Log!Packed(queue), NEW length \in 1..MaxMessage,
           Log!NextStart(queue) + length <= BufferSize
    PROVE  Log!Packed(Append(queue, [start |-> Log!NextStart(queue), length |-> length]))
<1>. DEFINE m == [start |-> Log!NextStart(queue), length |-> length]
            n == Len(queue)
            r == Append(queue, m)
<1>1. m \in Log!Message /\ Log!End(m) <= BufferSize /\ m.start = Log!NextStart(queue)
  BY PackedEnd DEF Log!Message, Log!End
<1>2. queue \in Seq(Log!Message) /\ n \in Nat
  BY LenProperties DEF Log!Packed
<1>3. /\ r \in Seq(Log!Message) /\ Len(r) = n + 1 /\ r[n + 1] = m
      /\ \A i \in 1..n : r[i] = queue[i]
  BY <1>1, <1>2, AppendProperties
<1>4. \A i \in 1..n : Log!End(queue[i]) <= BufferSize /\ (i > 1 => Log!End(queue[i - 1]) <= queue[i].start)
  BY DEF Log!Packed
<1>5. n > 0 => Log!End(queue[n]) = m.start
  BY <1>1, <1>2, PackedEnd, EmptySeq
<1>. HIDE DEF m, n, r
<1>6. ASSUME NEW i \in 1..(n + 1)
      PROVE  Log!End(r[i]) <= BufferSize /\ (i > 1 => Log!End(r[i - 1]) <= r[i].start)
  <2>1. CASE i \in 1..n
    <3>1. i > 1 => i - 1 \in 1..n
      BY <1>2, <2>1
    <3>. QED BY <1>3, <1>4, <2>1, <3>1
  <2>2. CASE i = n + 1
    <3>1. i > 1 => n \in 1..n /\ i - 1 = n /\ n > 0
      BY <1>2, <2>2
    <3>2. i > 1 => r[i - 1] = queue[n]
      BY <1>3, <3>1
    <3>3. Log!End(r[i]) <= BufferSize
      BY <1>1, <1>3, <2>2
    <3>4. i > 1 => Log!End(r[i - 1]) = m.start /\ r[i].start = m.start
      BY <1>3, <1>5, <2>2, <3>1, <3>2
    <3>5. m.start \in Nat
      BY <1>1, EndOf
    <3>. QED BY <3>3, <3>4, <3>5
  <2>. QED BY <1>2, <2>1, <2>2
<1>. QED BY <1>3, <1>6 DEF Log!Packed, r, m

\* So does the removal of the first one.
LEMMA PackedTail ==
    ASSUME Log!ErrLogAssumption, NEW queue, Log!Packed(queue), queue # << >>
    PROVE  Log!Packed(Tail(queue))
<1>. DEFINE n == Len(queue)
            r == Tail(queue)
<1>1. queue \in Seq(Log!Message) /\ n \in Nat \ {0}
  BY LenProperties, EmptySeq DEF Log!Packed
<1>2. r \in Seq(Log!Message) /\ Len(r) = n - 1 /\ \A i \in 1..(n - 1) : r[i] = queue[i + 1]
  BY <1>1, HeadTailProperties
<1>3. \A i \in 1..n : Log!End(queue[i]) <= BufferSize /\ (i > 1 => Log!End(queue[i - 1]) <= queue[i].start)
  BY DEF Log!Packed
<1>. HIDE DEF n, r
<1>4. ASSUME NEW i \in 1..(n - 1)
      PROVE  Log!End(r[i]) <= BufferSize /\ (i > 1 => Log!End(r[i - 1]) <= r[i].start)
  <2>1. i + 1 \in 1..n /\ i + 1 > 1 /\ i + 1 - 1 = i /\ (i > 1 => i - 1 \in 1..(n - 1) /\ i - 1 + 1 = i)
    BY <1>1
  <2>2. r[i] = queue[i + 1] /\ (i > 1 => r[i - 1] = queue[i])
    BY <1>2, <2>1
  <2>. QED BY <1>3, <2>1, <2>2
<1>. QED BY <1>2, <1>4 DEF Log!Packed, r

\* The log starts empty.
LEMMA LogInit ==
    ASSUME Log!ErrLogAssumption, Log!Init
    PROVE  Log!IInv
<1>1. Log!Packed(msgQueue)
  BY EmptySeq DEF Log!Init, Log!Packed
<1>2. Log!TypeOK
  <2>1. \A t \in LogThreads : flushLock = t <=> logPc[t] \in {"signal", "wait"}
    BY DEF Log!Init, Log!ErrLogAssumption
  <2>2. logPc \in [LogThreads -> {"idle", "lock", "signal", "wait"}]
    BY DEF Log!Init
  <2>3. missedMessages \in 0..MaxMissed
    BY DEF Log!Init, Log!ErrLogAssumption
  <2>. QED BY <1>1, <2>1, <2>2, <2>3 DEF Log!Init, Log!TypeOK
<1>3. Log!FlushAnswered
  BY DEF Log!Init, Log!FlushAnswered, Log!Asleep
<1>. QED BY <1>2, <1>3 DEF Log!Init, Log!IInv

\* Logging, flushing and the thread keep the invariant of errlog.c.
LEMMA LogStep ==
    ASSUME Log!ErrLogAssumption, Log!IInv, [Log!Next]_(Log!vars)
    PROVE  Log!IInv'
<1>. USE DEF Log!IInv
<1>1. ASSUME NEW length \in 1..MaxMessage, Log!Log(length)
      PROVE  Log!IInv'
  <2>1. Log!Packed(Log!Told) /\ (missedMessages' \in 0..MaxMissed)
    <3>1. Log!Packed(<<[start |-> 0, length |-> 1]>>)
      <4>1. [start |-> 0, length |-> 1] \in Log!Message
        BY DEF Log!Message, Log!ErrLogAssumption
      <4>2. <<[start |-> 0, length |-> 1]>> \in Seq(Log!Message) /\ Len(<<[start |-> 0, length |-> 1]>>) = 1
        BY <4>1
      <4>3. Log!End([start |-> 0, length |-> 1]) <= BufferSize
        BY DEF Log!End, Log!ErrLogAssumption
      <4>. QED BY <4>2, <4>3 DEF Log!Packed
    <3>. QED BY <1>1, <3>1 DEF Log!Told, Log!TypeOK, Log!Log, Log!ErrLogAssumption
  <2>2. Log!NextStart(Log!Told) + length <= BufferSize
    <3>1. Log!NextStart(Log!Told) \in 0..BufferSize
      BY <2>1, PackedEnd
    <3>2. CASE Log!Told = << >>
      BY <3>2 DEF Log!NextStart, Log!ErrLogAssumption
    <3>3. CASE BufferSize - Log!NextStart(Log!Told) > MaxMessage
      BY <3>1, <3>3 DEF Log!ErrLogAssumption
    <3>. QED BY <1>1, <3>2, <3>3 DEF Log!Log, Log!HasRoom
  <2>3. Log!Packed(msgQueue') /\ msgQueue' # << >>
    <3>1. Log!Packed(Append(Log!Told, [start |-> Log!NextStart(Log!Told), length |-> length]))
      BY <2>1, <2>2, PackedAppend
    <3>2. Log!Told \in Seq(Log!Message)
      BY <2>1 DEF Log!Packed
    <3>. QED BY <1>1, <3>1, <3>2, AppendProperties, EmptySeq DEF Log!Log
  <2>4. waitForWork' /\ UNCHANGED <<flush, waitForFlush, flushLock, logPc, logThreadPc>>
    BY <1>1 DEF Log!Log, Log!flushVars
  <2>5. Log!TypeOK'
    BY <2>1, <2>3, <2>4 DEF Log!TypeOK, Log!Packed
  <2>. QED BY <2>4, <2>5 DEF Log!FlushAnswered, Log!Asleep
<1>2. ASSUME Log!LogMissed
      PROVE  Log!IInv'
  BY <1>2 DEF Log!LogMissed, Log!flushVars, Log!TypeOK, Log!FlushAnswered, Log!Asleep, Log!ErrLogAssumption, Log!Packed
<1>3. ASSUME NEW t \in LogThreads, Log!Flush(t)
      PROVE  Log!IInv'
  BY <1>3 DEF Log!Flush, Log!TypeOK, Log!FlushAnswered, Log!Asleep, Log!Packed
<1>4. ASSUME NEW t \in LogThreads, Log!FlushLocks(t)
      PROVE  Log!IInv'
  BY <1>4 DEF Log!FlushLocks, Log!TypeOK, Log!FlushAnswered, Log!Asleep, Log!ErrLogAssumption, Log!Packed
<1>5. ASSUME NEW t \in LogThreads, Log!FlushSignals(t)
      PROVE  Log!IInv'
  BY <1>5 DEF Log!FlushSignals, Log!TypeOK, Log!FlushAnswered, Log!Asleep, Log!Packed
<1>6. ASSUME NEW t \in LogThreads, Log!FlushReturns(t)
      PROVE  Log!IInv'
  BY <1>6 DEF Log!FlushReturns, Log!TypeOK, Log!FlushAnswered, Log!Asleep, Log!ErrLogAssumption, Log!Packed
<1>7. ASSUME Log!ThreadWakes
      PROVE  Log!IInv'
  BY <1>7 DEF Log!ThreadWakes, Log!ThreadGoes, Log!flushVars, Log!TypeOK, Log!FlushAnswered, Log!Asleep, Log!Packed
<1>8. ASSUME Log!ThreadLooks
      PROVE  Log!IInv'
  BY <1>8 DEF Log!ThreadLooks, Log!ThreadGoes, Log!flushVars, Log!TypeOK, Log!FlushAnswered, Log!Asleep, Log!Packed
<1>9. ASSUME Log!ThreadSent
      PROVE  Log!IInv'
  <2>1. Log!Packed(msgQueue')
    BY <1>9, PackedTail DEF Log!ThreadSent, Log!ThreadGoes, Log!TypeOK
  <2>. QED BY <1>9, <2>1 DEF Log!ThreadSent, Log!ThreadGoes, Log!flushVars, Log!TypeOK, Log!FlushAnswered, Log!Asleep, Log!Packed
<1>10. ASSUME Log!ThreadTries
       PROVE  Log!IInv'
  BY <1>10 DEF Log!ThreadTries, Log!ThreadGoes, Log!AfterFlush, Log!TypeOK, Log!FlushAnswered, Log!Asleep, Log!Packed
<1>11. ASSUME Log!ThreadAnswers
       PROVE  Log!IInv'
  BY <1>11 DEF Log!ThreadAnswers, Log!ThreadGoes, Log!TypeOK, Log!FlushAnswered, Log!Asleep, Log!Packed
<1>12. ASSUME UNCHANGED Log!vars
       PROVE  Log!IInv'
  BY <1>12 DEF Log!vars, Log!TypeOK, Log!FlushAnswered, Log!Asleep, Log!Packed
<1>. QED BY <1>1, <1>2, <1>3, <1>4, <1>5, <1>6, <1>7, <1>8, <1>9, <1>10, <1>11, <1>12
         DEF Log!Next, Log!errlogThread

\* The error log's part of a behaviour.
LEMMA LogParts == ServicesSpec => Log!Init /\ [][Log!Next]_(Log!vars)
<1>1. ServicesInit => Log!Init
  BY DEF ServicesInit
<1>2. [ServicesNext]_serviceVars => [Log!Next]_(Log!vars)
  BY DEF ServicesNext, serviceVars, logVars, Log!vars
<1>. QED BY <1>1, <1>2, PTL DEF ServicesSpec

\* errlog.c: each errlogFlush that waits is answered, once, and errlogThread
\* does not sleep on messages, for every number of threads and buffer size.
THEOREM FlushIsAnswered == ServicesSpec => []FlushAnswered
<1>1. Log!Init => Log!IInv
  BY LogInit, ServicesAssumption
<1>2. Log!IInv /\ [Log!Next]_(Log!vars) => Log!IInv'
  BY LogStep, ServicesAssumption
<1>3. Log!IInv => FlushAnswered
  BY DEF Log!IInv, FlushAnswered
<1>. QED BY <1>1, <1>2, <1>3, LogParts, PTL

-----------------------------------------------------------------------------
(* State programs *)

\* What is proved of every state program, for the two of MCServices.
ProgramP == INSTANCE Sequencer_proof WITH
    Events <- {1, 2}, Channels <- {1}, Monitored <- {1}, Flags <- {2}, FlagOf <- MCFlagOf,
    Masks <- {{1}, {2}}, OptConn <- TRUE, MayStop <- FALSE,
    connected <- seqConnected, pc <- ssPc

StoppedP == INSTANCE Sequencer_proof WITH
    Events <- {1}, Channels <- {1, 2}, Monitored <- {1}, Flags <- {}, FlagOf <- NoFlag,
    Masks <- {{1}}, OptConn <- TRUE, MayStop <- TRUE,
    connected <- seqConnected, pc <- ssPc

\* The program that runs on is the one the proofs are about.
LEMMA ProgramSame ==
    /\ ProgramP!SequencerAssumption
    /\ ServicesInit => ProgramP!Init
    /\ [Program!Next]_(Program!vars) => [ProgramP!Next]_(ProgramP!vars)
    /\ ProgramP!StateSetsServed => Program!StateSetsServed
<1>1. ProgramP!SequencerAssumption
  BY ServicesAssumption DEF Program!SequencerAssumption,
    ProgramP!SequencerAssumption
<1>2. ServicesInit => ProgramP!Init
  BY DEF ServicesInit, Program!Init, ProgramP!Init, Program!SS, ProgramP!SS, Program!Stopper,
    ProgramP!Stopper, Program!AnyEvent, ProgramP!AnyEvent, Program!NotWaking, ProgramP!NotWaking
<1>3. Program!Next => ProgramP!Next
  BY DEF Program!Next, ProgramP!Next, Program!SS, ProgramP!SS, Program!Handler,
    ProgramP!Handler, Program!Stopper, ProgramP!Stopper, Program!AnyEvent,
    ProgramP!AnyEvent, Program!chanVars, ProgramP!chanVars, Program!deathVars,
    ProgramP!deathVars, Program!cbVars, ProgramP!cbVars, Program!stopVars,
    ProgramP!stopVars, Program!vars, ProgramP!vars, Program!Waking, ProgramP!Waking,
    Program!NotWaking, ProgramP!NotWaking, Program!StartWakeup, ProgramP!StartWakeup,
    Program!Listens, ProgramP!Listens, Program!seqWakeup, ProgramP!seqWakeup,
    Program!Change, ProgramP!Change, Program!Complete, ProgramP!Complete,
    Program!Monitor, ProgramP!Monitor, Program!MonitorFlag, ProgramP!MonitorFlag,
    Program!MonitorFlagSet, ProgramP!MonitorFlagSet, Program!MonitorFirst,
    ProgramP!MonitorFirst, Program!Connection, ProgramP!Connection,
    Program!ConnectionReturns, ProgramP!ConnectionReturns, Program!Goto, ProgramP!Goto,
    Program!Connect, ProgramP!Connect, Program!Spawn, ProgramP!Spawn,
    Program!ss_thread_init, ProgramP!ss_thread_init, Program!seq_waitConnect,
    ProgramP!seq_waitConnect, Program!Begin, ProgramP!Begin, Program!Enter,
    ProgramP!Enter, Program!Wait, ProgramP!Wait, Program!Check, ProgramP!Check,
    Program!EventFunc, ProgramP!EventFunc, Program!Triggered, ProgramP!Triggered,
    Program!seq_efSet, ProgramP!seq_efSet, Program!seq_efSetReturns,
    ProgramP!seq_efSetReturns, Program!ActionEnds, ProgramP!ActionEnds,
    Program!seq_disconnect, ProgramP!seq_disconnect, Program!Phase1, ProgramP!Phase1,
    Program!Phase2, ProgramP!Phase2, Program!EndOfLoop, ProgramP!EndOfLoop,
    Program!seqStop, ProgramP!seqStop, Program!AskPhase1, ProgramP!AskPhase1,
    Program!Woken, ProgramP!Woken, Program!WaitPhase1, ProgramP!WaitPhase1,
    Program!AskPhase2, ProgramP!AskPhase2, Program!WaitPhase2, ProgramP!WaitPhase2,
    Program!HandlerNext, ProgramP!HandlerNext, Program!StateSetNext,
    ProgramP!StateSetNext, Program!StopNext, ProgramP!StopNext
<1>4. UNCHANGED Program!vars => UNCHANGED ProgramP!vars
  BY DEF Program!vars, ProgramP!vars, Program!chanVars, ProgramP!chanVars,
    Program!deathVars, ProgramP!deathVars, Program!cbVars, ProgramP!cbVars,
    Program!stopVars, ProgramP!stopVars
<1>5. ProgramP!StateSetsServed => Program!StateSetsServed
  BY DEF Program!StateSetsServed, ProgramP!StateSetsServed, Program!NoSleepOnChange,
    ProgramP!NoSleepOnChange, Program!FirstsNoticed, ProgramP!FirstsNoticed,
    Program!FreedUnused, ProgramP!FreedUnused, Program!AboutToWake,
    ProgramP!AboutToWake, Program!Waking, ProgramP!Waking, Program!Complete,
    ProgramP!Complete, Program!Listens, ProgramP!Listens, Program!SS, ProgramP!SS,
    Program!Stopper, ProgramP!Stopper, Program!AnyEvent, ProgramP!AnyEvent
<1>. QED BY <1>1, <1>2, <1>3, <1>4, <1>5

\* The program that is stopped is the one the proofs are about.
LEMMA StoppedSame ==
    /\ StoppedP!SequencerAssumption
    /\ ServicesInit => StoppedP!Init
    /\ [Stopped!Next]_(Stopped!vars) => [StoppedP!Next]_(StoppedP!vars)
    /\ StoppedP!StateSetsServed => Stopped!StateSetsServed
<1>1. StoppedP!SequencerAssumption
  BY ServicesAssumption DEF Stopped!SequencerAssumption,
    StoppedP!SequencerAssumption
<1>2. ServicesInit => StoppedP!Init
  BY DEF ServicesInit, Program!Init, StoppedP!Init, Program!SS, StoppedP!SS, Program!Stopper,
    StoppedP!Stopper, Program!AnyEvent, StoppedP!AnyEvent, Program!NotWaking, StoppedP!NotWaking
<1>3. Stopped!Next => StoppedP!Next
  BY DEF Stopped!Next, StoppedP!Next, Stopped!SS, StoppedP!SS, Stopped!Handler,
    StoppedP!Handler, Stopped!Stopper, StoppedP!Stopper, Stopped!AnyEvent,
    StoppedP!AnyEvent, Stopped!chanVars, StoppedP!chanVars, Stopped!deathVars,
    StoppedP!deathVars, Stopped!cbVars, StoppedP!cbVars, Stopped!stopVars,
    StoppedP!stopVars, Stopped!vars, StoppedP!vars, Stopped!Waking, StoppedP!Waking,
    Stopped!NotWaking, StoppedP!NotWaking, Stopped!StartWakeup, StoppedP!StartWakeup,
    Stopped!Listens, StoppedP!Listens, Stopped!seqWakeup, StoppedP!seqWakeup,
    Stopped!Change, StoppedP!Change, Stopped!Complete, StoppedP!Complete,
    Stopped!Monitor, StoppedP!Monitor, Stopped!MonitorFlag, StoppedP!MonitorFlag,
    Stopped!MonitorFlagSet, StoppedP!MonitorFlagSet, Stopped!MonitorFirst,
    StoppedP!MonitorFirst, Stopped!Connection, StoppedP!Connection,
    Stopped!ConnectionReturns, StoppedP!ConnectionReturns, Stopped!Goto, StoppedP!Goto,
    Stopped!Connect, StoppedP!Connect, Stopped!Spawn, StoppedP!Spawn,
    Stopped!ss_thread_init, StoppedP!ss_thread_init, Stopped!seq_waitConnect,
    StoppedP!seq_waitConnect, Stopped!Begin, StoppedP!Begin, Stopped!Enter,
    StoppedP!Enter, Stopped!Wait, StoppedP!Wait, Stopped!Check, StoppedP!Check,
    Stopped!EventFunc, StoppedP!EventFunc, Stopped!Triggered, StoppedP!Triggered,
    Stopped!seq_efSet, StoppedP!seq_efSet, Stopped!seq_efSetReturns,
    StoppedP!seq_efSetReturns, Stopped!ActionEnds, StoppedP!ActionEnds,
    Stopped!seq_disconnect, StoppedP!seq_disconnect, Stopped!Phase1, StoppedP!Phase1,
    Stopped!Phase2, StoppedP!Phase2, Stopped!EndOfLoop, StoppedP!EndOfLoop,
    Stopped!seqStop, StoppedP!seqStop, Stopped!AskPhase1, StoppedP!AskPhase1,
    Stopped!Woken, StoppedP!Woken, Stopped!WaitPhase1, StoppedP!WaitPhase1,
    Stopped!AskPhase2, StoppedP!AskPhase2, Stopped!WaitPhase2, StoppedP!WaitPhase2,
    Stopped!HandlerNext, StoppedP!HandlerNext, Stopped!StateSetNext,
    StoppedP!StateSetNext, Stopped!StopNext, StoppedP!StopNext
<1>4. UNCHANGED Stopped!vars => UNCHANGED StoppedP!vars
  BY DEF Stopped!vars, StoppedP!vars, Stopped!chanVars, StoppedP!chanVars,
    Stopped!deathVars, StoppedP!deathVars, Stopped!cbVars, StoppedP!cbVars,
    Stopped!stopVars, StoppedP!stopVars
<1>5. StoppedP!StateSetsServed => Stopped!StateSetsServed
  BY DEF Stopped!StateSetsServed, StoppedP!StateSetsServed, Stopped!NoSleepOnChange,
    StoppedP!NoSleepOnChange, Stopped!FirstsNoticed, StoppedP!FirstsNoticed,
    Stopped!FreedUnused, StoppedP!FreedUnused, Stopped!AboutToWake,
    StoppedP!AboutToWake, Stopped!Waking, StoppedP!Waking, Stopped!Complete,
    StoppedP!Complete, Stopped!Listens, StoppedP!Listens, Stopped!SS, StoppedP!SS,
    Stopped!Stopper, StoppedP!Stopper, Stopped!AnyEvent, StoppedP!AnyEvent
<1>. QED BY <1>1, <1>2, <1>3, <1>4, <1>5

\* seq_task.c, seq_ca.c: in every state of both programs the invariant holds.
ProgramsTrue ==
    /\ part = "program" => ProgramP!IInv
    /\ part = "stopped" => StoppedP!IInv

LEMMA ProgramInvariance == ServicesSpec => []ProgramsTrue
<1>1. ServicesInit => ProgramsTrue
  BY ProgramSame, StoppedSame, ProgramP!StartsTrue, StoppedP!StartsTrue DEF ProgramsTrue
<1>2. ProgramsTrue /\ [ServicesNext]_serviceVars => ProgramsTrue'
  <2>. SUFFICES ASSUME ProgramsTrue, [ServicesNext]_serviceVars
                PROVE  ProgramsTrue'
    OBVIOUS
  <2>1. part' = part
    BY DEF ServicesNext, serviceVars
  <2>2. /\ part = "program" => [Program!Next]_(Program!vars)
        /\ part = "stopped" => [Stopped!Next]_(Stopped!vars)
    BY DEF ServicesNext, serviceVars, seqVars, Program!vars, Program!chanVars,
      Program!deathVars, Program!cbVars, Program!stopVars, Stopped!vars, Stopped!chanVars,
      Stopped!deathVars, Stopped!cbVars, Stopped!stopVars
  <2>3. CASE part = "program"
    <3>1. ProgramP!SequencerAssumption /\ ProgramP!IInv
      BY <2>3, ProgramSame DEF ProgramsTrue
    <3>2. [ProgramP!Next]_(ProgramP!vars)
      BY <2>2, <2>3, ProgramSame
    <3>3. ProgramP!IInv'
      BY <3>1, <3>2, ProgramP!StepsKeep
    <3>. QED BY <2>1, <2>3, <3>3 DEF ProgramsTrue
  <2>4. CASE part = "stopped"
    <3>1. StoppedP!SequencerAssumption /\ StoppedP!IInv
      BY <2>4, StoppedSame DEF ProgramsTrue
    <3>2. [StoppedP!Next]_(StoppedP!vars)
      BY <2>2, <2>4, StoppedSame
    <3>3. StoppedP!IInv'
      BY <3>1, <3>2, StoppedP!StepsKeep
    <3>. QED BY <2>1, <2>4, <3>3 DEF ProgramsTrue
  <2>. QED BY <2>1, <2>3, <2>4 DEF ProgramsTrue
<1>. QED BY <1>1, <1>2, PTL DEF ServicesSpec

\* seq_task.c, seq_ca.c: no state set sleeps on what it listens to, and a program
\* is freed when nobody uses it, with any number of state sets.
THEOREM StateSetsAwake == ServicesSpec => []StateSetsServed
<1>1. ProgramsTrue => StateSetsServed
  BY ProgramSame, StoppedSame, ProgramP!Served, StoppedP!Served DEF ProgramsTrue, StateSetsServed
<1>. QED BY <1>1, ProgramInvariance, PTL

-----------------------------------------------------------------------------
(* CA links *)

\* What is proved of the CA links, for those of MCServices.
CaP == INSTANCE DbCa_proof

\* The CA links that run are those the proofs are about.
LEMMA CaSame ==
    /\ CaP!CaLinkAssumption
    /\ ServicesInit => CaP!Init
    /\ [Ca!Next]_(Ca!vars) => [CaP!Next]_(CaP!vars)
    /\ CaP!NothingFreed => Ca!NothingFreed
    /\ CaP!CalledOnce => Ca!CalledOnce
    /\ CaP!MonitorComes => Ca!MonitorComes
<1>1. CaP!CaLinkAssumption
  BY ServicesAssumption DEF ServicesAssumption, Ca!CaLinkAssumption, CaP!CaLinkAssumption
<1>2. ServicesInit => CaP!Init
  BY DEF ServicesInit, Ca!Init, CaP!Init, Ca!Blank, CaP!Blank
<1>3. Ca!Next => CaP!Next
  BY DEF Ca!Next, CaP!Next, Ca!Record, CaP!Record, Ca!Client, CaP!Client, Ca!dbCaTask,
    CaP!dbCaTask, Ca!dbCaAddLink, CaP!dbCaAddLink, Ca!RemoveDetaches, CaP!RemoveDetaches,
    Ca!RemoveClears, CaP!RemoveClears, Ca!dbCaGetLink, CaP!dbCaGetLink, Ca!ProcessPuts,
    CaP!ProcessPuts, Ca!ChannelConnects, CaP!ChannelConnects, Ca!ChannelDisconnects,
    CaP!ChannelDisconnects, Ca!ChannelAnswers, CaP!ChannelAnswers, Ca!ChannelUpdates,
    CaP!ChannelUpdates, Ca!connectionCallback, CaP!connectionCallback, Ca!putCallback,
    CaP!putCallback, Ca!eventCallback, CaP!eventCallback, Ca!UserCallback,
    CaP!UserCallback, Ca!TaskWakes, CaP!TaskWakes, Ca!TaskTakes, CaP!TaskTakes,
    Ca!TaskClears, CaP!TaskClears, Ca!TaskCallsBack, CaP!TaskCallsBack, Ca!TaskConnects,
    CaP!TaskConnects, Ca!TaskChecks, CaP!TaskChecks, Ca!TaskWrites, CaP!TaskWrites,
    Ca!TaskAllocates, CaP!TaskAllocates, Ca!TaskSubscribes, CaP!TaskSubscribes,
    Ca!addAction, CaP!addAction, Ca!Blank, CaP!Blank, Ca!taskVars, CaP!taskVars,
    Ca!clientVars, CaP!clientVars, Ca!history, CaP!history, Ca!Detached, CaP!Detached,
    Ca!MayPut, CaP!MayPut, Ca!PutLink, CaP!PutLink, Ca!CallsBack, CaP!CallsBack,
    Ca!CallOf, CaP!CallOf, Ca!workVars, CaP!workVars, Ca!MonitorAfter, CaP!MonitorAfter,
    Ca!Becomes, CaP!Becomes, Ca!dbCaCallbackProcess, CaP!dbCaCallbackProcess,
    Ca!recordVars, CaP!recordVars, Ca!CallbackMutexFree, CaP!CallbackMutexFree,
    Ca!TaskGoes, CaP!TaskGoes, Ca!AfterClear, CaP!AfterClear, Ca!Connected, CaP!Connected,
    Ca!Drop, CaP!Drop, Ca!Writes, CaP!Writes
<1>4. UNCHANGED Ca!vars => UNCHANGED CaP!vars
  BY DEF Ca!vars, CaP!vars, Ca!recordVars, CaP!recordVars, Ca!workVars, CaP!workVars,
    Ca!taskVars, CaP!taskVars, Ca!clientVars, CaP!clientVars, Ca!history, CaP!history
<1>5. CaP!NothingFreed => Ca!NothingFreed
  BY DEF Ca!NothingFreed, CaP!NothingFreed, Ca!Contains, CaP!Contains
<1>6. CaP!CalledOnce => Ca!CalledOnce
  BY DEF Ca!CalledOnce, CaP!CalledOnce, Ca!Callers, CaP!Callers, Ca!Requested,
    CaP!Requested, Ca!TaskLooks, CaP!TaskLooks, Ca!Contains, CaP!Contains, Ca!Cardinality,
    CaP!Cardinality
<1>7. CaP!MonitorComes => Ca!MonitorComes
  BY DEF Ca!MonitorComes, CaP!MonitorComes, Ca!Requested, CaP!Requested, Ca!TaskLooks,
    CaP!TaskLooks, Ca!Contains, CaP!Contains
<1>. QED BY <1>1, <1>2, <1>3, <1>4, <1>5, <1>6, <1>7

\* dbCa.c: in every state of the CA links the invariant holds.
LEMMA CaInvariance == ServicesSpec => [](part = "calinks" => CaP!IInv)
<1>. DEFINE CaTrue == part = "calinks" => CaP!IInv
<1>1. ServicesInit => CaTrue
  BY CaSame, CaP!Initially
<1>2. CaTrue /\ [ServicesNext]_serviceVars => CaTrue'
  <2>. SUFFICES ASSUME CaTrue, [ServicesNext]_serviceVars, part' = "calinks"
                PROVE  CaP!IInv'
    OBVIOUS
  <2>1. part = "calinks"
    BY DEF ServicesNext, serviceVars
  <2>2. [Ca!Next]_(Ca!vars)
    BY <2>1 DEF ServicesNext, serviceVars, caVars, Ca!vars, Ca!recordVars, Ca!workVars,
      Ca!taskVars, Ca!clientVars, Ca!history
  <2>3. [CaP!Next]_(CaP!vars)
    BY <2>2, CaSame
  <2>. QED BY <2>1, <2>3, CaSame, CaP!StepsKeep
<1>. QED BY <1>1, <1>2, PTL DEF ServicesSpec

\* dbCa.c:96: nothing under way leads to a caLink that was freed, however often
\* links are changed and channels come and go.
THEOREM NothingIsFreed == ServicesSpec => []NothingFreed
<1>1. (part = "calinks" => CaP!IInv) => NothingFreed
  BY CaSame, CaP!Served DEF NothingFreed
<1>. QED BY <1>1, CaInvariance, PTL

\* dbCa.c:127: the user callback of a put is called exactly once.
THEOREM CallbackOnce == ServicesSpec => []CalledOnce
<1>1. (part = "calinks" => CaP!IInv) => CalledOnce
  BY CaSame, CaP!Served DEF CalledOnce
<1>. QED BY <1>1, CaInvariance, PTL

\* dbCa.c: a link that was read and is connected has its subscription or gets it.
THEOREM MonitorIsMade == ServicesSpec => []MonitorComes
<1>1. (part = "calinks" => CaP!IInv) => MonitorComes
  BY CaSame, CaP!Served DEF MonitorComes
<1>. QED BY <1>1, CaInvariance, PTL

-----------------------------------------------------------------------------
(* Asynchronous ports *)

\* The operators on sequences, as AsynPort has them.
LEMMA AsynOperators ==
    ASSUME NEW seq, NEW x
    PROVE  /\ Asyn!RemoveFirst(seq, x) = RemoveFirst(seq, x)
           /\ Asyn!IsInjective(seq) <=> IsInjective(seq)
           /\ Asyn!ToSet(seq) = ToSet(seq)
<1>1. \A S : Asyn!Min(S) = Min(S)
  BY DEF Asyn!Min, Min
<1>2. \A i : Asyn!RemoveAt(seq, i) = RemoveAt(seq, i)
  BY DEF Asyn!RemoveAt, RemoveAt
<1>3. Asyn!SelectInSeq(seq, LAMBDA v : v = x) = SelectInSeq(seq, LAMBDA v : v = x)
  BY <1>1 DEF Asyn!SelectInSeq, SelectInSeq
<1>4. Asyn!RemoveFirst(seq, x) = RemoveFirst(seq, x)
  BY <1>2, <1>3 DEF Asyn!RemoveFirst, RemoveFirst
<1>5. Asyn!IsInjective(seq) <=> IsInjective(seq)
  BY DEF Asyn!IsInjective, IsInjective
<1>6. Asyn!ToSet(seq) = ToSet(seq)
  BY DEF Asyn!ToSet, ToSet
<1>. QED BY <1>4, <1>5, <1>6

\* The queues of a priority hold users, each once and in one queue.
Queues(qs, queued) ==
    /\ qs \in [{"connect", "low"} -> Seq(Asyn!All)]
    /\ IsInjective(qs["connect"]) /\ IsInjective(qs["low"])
    /\ ToSet(qs["connect"]) \cap ToSet(qs["low"]) = {}
    /\ Connector \notin ToSet(qs["low"])
    /\ queued \in [Asyn!All -> BOOLEAN]
    /\ \A u \in Asyn!All : queued[u] <=> u \in ToSet(qs["connect"]) \cup ToSet(qs["low"])

LEMMA QueuesTyped ==
    /\ Asyn!QueueTypes <=> Queues(queueList, isQueued)
    /\ Asyn!QueueTypes' <=> Queues(queueList', isQueued')
<1>1. ASSUME NEW qs
      PROVE  /\ \A ps \in {"connect", "low"} : Asyn!IsInjective(qs[ps]) <=> IsInjective(qs[ps])
             /\ \A ps \in {"connect", "low"} : Asyn!ToSet(qs[ps]) = ToSet(qs[ps])
  BY AsynOperators
<1>3. Asyn!QueueTypes <=> Queues(queueList, isQueued)
  BY <1>1 DEF Asyn!QueueTypes, Asyn!Priorities, Queues
<1>4. Asyn!QueueTypes' <=> Queues(queueList', isQueued')
  BY <1>1 DEF Asyn!QueueTypes, Asyn!Priorities, Queues
<1>. QED BY <1>3, <1>4

\* A user that is not queued joins a queue, the Connector that of the connect
\* requests.
LEMMA Joins ==
    ASSUME Connector \notin AsynUsers, Queues(queueList, isQueued), NEW u \in Asyn!All, ~isQueued[u],
           NEW ps \in {"connect", "low"}, u = Connector => ps = "connect", NEW front \in BOOLEAN,
           Asyn!Enqueue(u, ps, front)
    PROVE  /\ Queues(queueList', isQueued')
           /\ isQueued'[u] /\ \A v \in Asyn!All : v # u => isQueued'[v] = isQueued[v]
<1>. DEFINE r == IF front THEN <<u>> \o queueList[ps] ELSE Append(queueList[ps], u)
<1>1. /\ queueList[ps] \in Seq(Asyn!All) /\ IsInjective(queueList[ps]) /\ u \notin ToSet(queueList[ps])
      /\ u \notin ToSet(queueList["connect"]) /\ u \notin ToSet(queueList["low"])
  BY DEF Queues
<1>2. r \in Seq(Asyn!All) /\ IsInjective(r) /\ ToSet(r) = ToSet(queueList[ps]) \cup {u}
  BY <1>1, Prepended, Appended
<1>3. queueList' = [queueList EXCEPT ![ps] = r] /\ isQueued' = [isQueued EXCEPT ![u] = TRUE]
  BY DEF Asyn!Enqueue
<1>. HIDE DEF r
<1>4. \A qs \in {"connect", "low"} : queueList'[qs] = IF qs = ps THEN r ELSE queueList[qs]
  BY <1>3 DEF Queues
<1>5. ToSet(queueList'["connect"]) \cup ToSet(queueList'["low"])
        = (ToSet(queueList["connect"]) \cup ToSet(queueList["low"])) \cup {u}
  BY <1>2, <1>4
<1>6. /\ isQueued' \in [Asyn!All -> BOOLEAN]
      /\ \A v \in Asyn!All : isQueued'[v] <=> v \in ToSet(queueList'["connect"]) \cup ToSet(queueList'["low"])
  BY <1>3, <1>5 DEF Queues
<1>7. queueList' \in [{"connect", "low"} -> Seq(Asyn!All)]
  BY <1>2, <1>3 DEF Queues
<1>8. /\ IsInjective(queueList'["connect"]) /\ IsInjective(queueList'["low"])
      /\ ToSet(queueList'["connect"]) \cap ToSet(queueList'["low"]) = {}
      /\ Connector \notin ToSet(queueList'["low"])
  BY <1>1, <1>2, <1>4 DEF Queues
<1>9. isQueued'[u] /\ \A v \in Asyn!All : v # u => isQueued'[v] = isQueued[v]
  BY <1>3 DEF Queues
<1>. QED BY <1>6, <1>7, <1>8, <1>9 DEF Queues

\* A user leaves the queues, or the one it is in.
LEMMA Leaves ==
    ASSUME Queues(queueList, isQueued), NEW u \in Asyn!All,
           \/ queueList' = [ps \in {"connect", "low"} |-> RemoveFirst(queueList[ps], u)]
           \/ \E ps \in {"connect", "low"} :
                /\ u \in ToSet(queueList[ps])
                /\ queueList' = [queueList EXCEPT ![ps] = RemoveFirst(@, u)],
           isQueued' = [isQueued EXCEPT ![u] = FALSE]
    PROVE  /\ Queues(queueList', isQueued')
           /\ ~isQueued'[u] /\ \A v \in Asyn!All : v # u => isQueued'[v] = isQueued[v]
           /\ \A ps \in {"connect", "low"} : ToSet(queueList'[ps]) \subseteq ToSet(queueList[ps])
<1>1. ASSUME NEW ps \in {"connect", "low"}
      PROVE  /\ queueList'[ps] \in Seq(Asyn!All) /\ IsInjective(queueList'[ps])
             /\ ToSet(queueList'[ps]) = ToSet(queueList[ps]) \ {u}
  <2>1. /\ RemoveFirst(queueList[ps], u) \in Seq(Asyn!All) /\ IsInjective(RemoveFirst(queueList[ps], u))
        /\ ToSet(RemoveFirst(queueList[ps], u)) = ToSet(queueList[ps]) \ {u}
        /\ queueList[ps] \in Seq(Asyn!All) /\ IsInjective(queueList[ps])
    BY RemovedAny DEF Queues
  <2>2. CASE queueList'[ps] = RemoveFirst(queueList[ps], u)
    BY <2>1, <2>2
  <2>3. CASE queueList'[ps] # RemoveFirst(queueList[ps], u)
    <3>1. queueList'[ps] = queueList[ps] /\ u \notin ToSet(queueList[ps])
      BY <2>3 DEF Queues
    <3>. QED BY <2>1, <3>1
  <2>. QED BY <2>2, <2>3
<1>2. /\ isQueued' \in [Asyn!All -> BOOLEAN]
      /\ \A v \in Asyn!All : isQueued'[v] <=> v \in ToSet(queueList'["connect"]) \cup ToSet(queueList'["low"])
  BY <1>1 DEF Queues
<1>3. queueList' \in [{"connect", "low"} -> Seq(Asyn!All)]
  <2>1. \A ps \in {"connect", "low"} : queueList'[ps] \in Seq(Asyn!All)
    BY <1>1
  <2>2. \E f : queueList' = [ps \in {"connect", "low"} |-> f[ps]]
    BY DEF Queues
  <2>. QED BY <2>1, <2>2
<1>4. ~isQueued'[u] /\ \A v \in Asyn!All : v # u => isQueued'[v] = isQueued[v]
  BY DEF Queues
<1>. QED BY <1>1, <1>2, <1>3, <1>4 DEF Queues

\* What the invariant says of the queues, with the operators of QueueLemmas.
LEMMA AsynTypes ==
    /\ Asyn!TypeOK => /\ Queues(queueList, isQueued)
                      /\ Asyn!CallTypes /\ Asyn!BlockTypes /\ Asyn!PortTypes /\ Asyn!FlagTypes
    /\ Queues(queueList', isQueued') => Asyn!QueueTypes'
  BY QueuesTyped DEF Asyn!TypeOK

\* A request is taken off for its callback.
LEMMA Takes ==
    ASSUME Queues(queueList, isQueued), NEW ps \in {"connect", "low"}, NEW u \in ToSet(queueList[ps]),
           Asyn!Take(u, ps)
    PROVE  /\ u \in Asyn!All /\ isQueued[u] /\ (ps = "low" => u \in AsynUsers)
           /\ Queues(queueList', isQueued')
           /\ ~isQueued'[u] /\ \A v \in Asyn!All : v # u => isQueued'[v] = isQueued[v]
           /\ \A ls \in {"connect", "low"} : ToSet(queueList'[ls]) \subseteq ToSet(queueList[ls])
<1>1. /\ queueList' = [queueList EXCEPT ![ps] = RemoveFirst(@, u)]
      /\ isQueued' = [isQueued EXCEPT ![u] = FALSE]
  BY AsynOperators DEF Asyn!Take
<1>2. queueList[ps] \in Seq(Asyn!All) /\ (ps = "low" => u # Connector)
  BY DEF Queues
<1>3. u \in Asyn!All /\ (ps = "low" => u \in AsynUsers)
  <2>1. u \in Asyn!All
    BY <1>2, ElementOfSeq DEF ToSet
  <2>. QED BY <1>2, <2>1 DEF Asyn!All
<1>4. isQueued[u]
  BY <1>3 DEF Queues
<1>. QED BY <1>1, <1>3, <1>4, Leaves

\* A request is taken off before its callback.
LEMMA Dequeues ==
    ASSUME Queues(queueList, isQueued), NEW u \in AsynUsers, Asyn!Dequeue(u)
    PROVE  /\ Queues(queueList', isQueued')
           /\ ~isQueued'[u] /\ \A v \in Asyn!All : v # u => isQueued'[v] = isQueued[v]
           /\ \A ls \in {"connect", "low"} : ToSet(queueList'[ls]) \subseteq ToSet(queueList[ls])
<1>1. /\ queueList' = [ps \in {"connect", "low"} |-> RemoveFirst(queueList[ps], u)]
      /\ isQueued' = [isQueued EXCEPT ![u] = FALSE]
  BY AsynOperators DEF Asyn!Dequeue, Asyn!Priorities
<1>2. u \in Asyn!All
  BY DEF Asyn!All
<1>. QED BY <1>1, <1>2, Leaves

\* The queues are changed by those that queue, cancel, time out and serve.
LEMMA QueueStep ==
    ASSUME Asyn!AsynPortAssumption, Asyn!TypeOK, Asyn!Next
    PROVE  Queues(queueList', isQueued')
<1>. USE DEF Asyn!requestVars, Asyn!timerVars
<1>1. Queues(queueList, isQueued) /\ Asyn!CallTypes
  BY AsynTypes
<1>2. CASE UNCHANGED <<queueList, isQueued>>
  BY <1>1, <1>2 DEF Queues
<1>3. ASSUME NEW r \in Requests, Asyn!queueRequest(r[1], r[2], r[3])
      PROVE  Queues(queueList', isQueued')
  <2>1. r[1] \in Asyn!All /\ r[2] \in {"connect", "low"} /\ r[1] # Connector
    BY DEF Asyn!AsynPortAssumption, Asyn!Priorities, Asyn!All
  <2>2. ~isQueued[r[1]]
    BY <1>3 DEF Asyn!queueRequest, Asyn!Accepted
  <2>3. PICK front \in BOOLEAN : Asyn!Enqueue(r[1], r[2], front)
    BY <1>3 DEF Asyn!queueRequest
  <2>. QED BY <1>1, <2>1, <2>2, <2>3, Joins DEF Asyn!AsynPortAssumption
<1>4. ASSUME Asyn!ConnectorQueues
      PROVE  Queues(queueList', isQueued')
  <2>1. CASE Asyn!Accepted(Connector, "connect")
    BY <1>1, <1>4, <2>1, Joins DEF Asyn!AsynPortAssumption, Asyn!ConnectorQueues, Asyn!Accepted, Asyn!All
  <2>. QED BY <1>2, <1>4, <2>1 DEF Asyn!ConnectorQueues
<1>5. ASSUME NEW u \in AsynUsers, Asyn!cancelRequest(u)
      PROVE  Queues(queueList', isQueued')
  BY <1>1, <1>2, <1>5, Dequeues DEF Asyn!cancelRequest
<1>6. ASSUME Asyn!TimeoutBegin
      PROVE  Queues(queueList', isQueued')
  <2>1. timerUser \in AsynUsers
    BY <1>1, <1>6 DEF Asyn!TimeoutBegin, Asyn!CallTypes
  <2>. QED BY <1>1, <1>2, <1>6, <2>1, Dequeues DEF Asyn!TimeoutBegin
<1>7. ASSUME Asyn!PortConnects
      PROVE  Queues(queueList', isQueued')
  <2>1. CASE queueList["connect"] # << >>
    <3>1. Head(queueList["connect"]) \in ToSet(queueList["connect"])
      BY <1>1, <2>1, HeadTaken DEF Queues
    <3>. QED BY <1>1, <1>7, <2>1, <3>1, Takes DEF Asyn!PortConnects
  <2>. QED BY <1>2, <1>7, <2>1 DEF Asyn!PortConnects, Asyn!GoesTo, Asyn!Tries
<1>8. ASSUME Asyn!PortPick
      PROVE  Queues(queueList', isQueued')
  <2>1. CASE \E i \in DOMAIN queueList["low"] : Asyn!Take(queueList["low"][i], "low")
    <3>1. PICK i \in DOMAIN queueList["low"] : Asyn!Take(queueList["low"][i], "low")
      BY <2>1
    <3>2. queueList["low"][i] \in ToSet(queueList["low"])
      BY DEF ToSet
    <3>. QED BY <1>1, <3>1, <3>2, Takes
  <2>. QED BY <1>2, <1>8, <2>1 DEF Asyn!PortPick, Asyn!GoesTo
<1>9. ASSUME ~UNCHANGED <<queueList, isQueued>>
      PROVE  \/ \E r \in Requests : Asyn!queueRequest(r[1], r[2], r[3])
             \/ Asyn!ConnectorQueues \/ \E u \in AsynUsers : Asyn!cancelRequest(u)
             \/ Asyn!TimeoutBegin \/ Asyn!PortConnects \/ Asyn!PortPick
  BY <1>9 DEF Asyn!Next, Asyn!PortThread, Asyn!TimerThread, Asyn!ConnectTimerThread, Asyn!CancelThread,
     Asyn!CancelWaited, Asyn!CancelTimer, Asyn!CancelSignal, Asyn!blockProcessCallback,
     Asyn!unblockProcessCallback, Asyn!TimerFires, Asyn!TimeoutEnd, Asyn!Reports, Asyn!DriverAnnounces,
     Asyn!ConnectTimerFires, Asyn!PortWake, Asyn!PortConnectsDone, Asyn!PortScan, Asyn!Tries, Asyn!GoesTo,
     Asyn!PortTimer, Asyn!PortTimerStopped, Asyn!ConnectorProcessed, Asyn!PortAttempts,
     Asyn!PortAnnounces, Asyn!PortCallbackEnd
<1>. QED BY <1>2, <1>3, <1>4, <1>5, <1>6, <1>7, <1>8, <1>9

\* Who blocks the port is counted.
LEMMA BlockStep ==
    ASSUME Asyn!AsynPortAssumption, Asyn!TypeOK, Asyn!Next
    PROVE  Asyn!BlockTypes'
<1>. USE DEF Asyn!AsynPortAssumption, Asyn!BlockTypes
<1>1. Asyn!BlockTypes /\ Asyn!PortTypes
  BY AsynTypes
<1>2. CASE UNCHANGED <<blockPortCount, pblockProcessHolder>>
  BY <1>1, <1>2
<1>3. ASSUME NEW u \in AsynUsers, Asyn!blockProcessCallback(u)
      PROVE  Asyn!BlockTypes'
  BY <1>1, <1>3 DEF Asyn!blockProcessCallback
<1>4. ASSUME NEW u \in AsynUsers, Asyn!unblockProcessCallback(u)
      PROVE  Asyn!BlockTypes'
  BY <1>1, <1>4 DEF Asyn!unblockProcessCallback
<1>5. ASSUME Asyn!PortCallbackEnd
      PROVE  Asyn!BlockTypes'
  BY <1>1, <1>5 DEF Asyn!PortCallbackEnd, Asyn!PortTypes
<1>6. ASSUME ~UNCHANGED <<blockPortCount, pblockProcessHolder>>
      PROVE  \/ \E u \in AsynUsers : Asyn!blockProcessCallback(u) \/ Asyn!unblockProcessCallback(u)
             \/ Asyn!PortCallbackEnd
  BY <1>6 DEF Asyn!blockVars, Asyn!Next, Asyn!PortThread, Asyn!TimerThread, Asyn!ConnectTimerThread,
     Asyn!CancelThread, Asyn!queueRequest, Asyn!cancelRequest, Asyn!CancelWaited, Asyn!CancelTimer,
     Asyn!CancelSignal, Asyn!TimerFires, Asyn!TimeoutBegin, Asyn!TimeoutEnd, Asyn!Reports,
     Asyn!DriverAnnounces, Asyn!ConnectTimerFires, Asyn!ConnectorQueues, Asyn!PortWake, Asyn!PortConnects,
     Asyn!PortConnectsDone, Asyn!PortScan, Asyn!PortPick, Asyn!PortTimer, Asyn!PortTimerStopped,
     Asyn!ConnectorProcessed, Asyn!PortAttempts, Asyn!PortAnnounces
<1>. QED BY <1>2, <1>3, <1>4, <1>5, <1>6

\* The port thread goes its ways, with a user when it serves one.
LEMMA PortStep ==
    ASSUME Asyn!AsynPortAssumption, Asyn!TypeOK, Asyn!Next
    PROVE  Asyn!PortTypes'
<1>. USE DEF Asyn!PortTypes, Asyn!Serving
<1>0. Asyn!PortTypes /\ Queues(queueList, isQueued) /\ Asyn!CallTypes
  BY AsynTypes
<1>1. CASE UNCHANGED <<portPc, portUser, fromLow, portTimeout, ret>>
  BY <1>0, <1>1
<1>2. ASSUME NEW ps \in {"connect", "low"}, NEW u \in ToSet(queueList[ps]), Asyn!Take(u, ps)
      PROVE  Asyn!PortTypes'
  <2>1. u \in Asyn!All /\ (ps = "low" => u \in AsynUsers)
    BY <1>0, <1>2, Takes
  <2>. QED BY <1>2, <2>1 DEF Asyn!Take
<1>3. ASSUME Asyn!PortWake \/ Asyn!PortConnectsDone \/ Asyn!PortScan
      PROVE  Asyn!PortTypes'
  BY <1>0, <1>3 DEF Asyn!PortWake, Asyn!PortConnectsDone, Asyn!PortScan, Asyn!GoesTo, Asyn!Tries
<1>4. ASSUME Asyn!PortConnects
      PROVE  Asyn!PortTypes'
  <2>1. CASE queueList["connect"] # << >>
    <3>1. Head(queueList["connect"]) \in ToSet(queueList["connect"])
      BY <1>0, <2>1, HeadTaken DEF Queues
    <3>. QED BY <1>2, <1>4, <2>1, <3>1 DEF Asyn!PortConnects
  <2>. QED BY <1>0, <1>4, <2>1 DEF Asyn!PortConnects, Asyn!GoesTo, Asyn!Tries
<1>5. ASSUME Asyn!PortPick
      PROVE  Asyn!PortTypes'
  <2>1. CASE \E i \in DOMAIN queueList["low"] : Asyn!Take(queueList["low"][i], "low")
    <3>1. PICK i \in DOMAIN queueList["low"] : Asyn!Take(queueList["low"][i], "low")
      BY <2>1
    <3>2. queueList["low"][i] \in ToSet(queueList["low"])
      BY DEF ToSet
    <3>. QED BY <1>2, <3>1, <3>2
  <2>. QED BY <1>0, <1>5, <2>1 DEF Asyn!PortPick, Asyn!GoesTo
<1>6. ASSUME Asyn!PortTimer \/ Asyn!PortTimerStopped
      PROVE  Asyn!PortTypes'
  <2>1. /\ portPc \in {"timer", "timer_wait"} /\ portPc' \in {"timer_wait", "process"}
        /\ UNCHANGED <<portUser, fromLow, portTimeout, ret>>
    BY <1>6 DEF Asyn!PortTimer, Asyn!PortTimerStopped
  <2>. QED BY <1>0, <2>1
<1>7. ASSUME NEW ok \in BOOLEAN, Asyn!ConnectorProcessed(ok) \/ Asyn!PortAttempts(ok)
      PROVE  Asyn!PortTypes'
  BY <1>0, <1>7 DEF Asyn!ConnectorProcessed, Asyn!PortAttempts
<1>8. ASSUME Asyn!PortAnnounces \/ Asyn!PortCallbackEnd
      PROVE  Asyn!PortTypes'
  <2>1. CASE Asyn!PortAnnounces
    <3>1. /\ portPc = "announce" /\ portPc' = ret /\ ret \in {"connects_done", "tried", "callback_end"}
          /\ UNCHANGED <<portUser, fromLow, portTimeout, ret>>
      BY <1>0, <2>1 DEF Asyn!PortAnnounces
    <3>. QED BY <1>0, <3>1
  <2>2. CASE Asyn!PortCallbackEnd
    <3>1. /\ portPc' \in {"connects", "sleep", "scan"} /\ portUser' = NoUser /\ ret' = "pick"
          /\ ~fromLow' /\ ~portTimeout' /\ fromLow' \in BOOLEAN /\ portTimeout' \in BOOLEAN
      BY <2>2 DEF Asyn!PortCallbackEnd
    <3>. QED BY <3>1
  <2>. QED BY <1>8, <2>1, <2>2
<1>9. ASSUME ~UNCHANGED <<portPc, portUser, fromLow, portTimeout, ret>>
      PROVE  Asyn!PortThread
  BY <1>9 DEF Asyn!portVars, Asyn!Next, Asyn!TimerThread, Asyn!ConnectTimerThread,
     Asyn!CancelThread, Asyn!queueRequest, Asyn!cancelRequest, Asyn!CancelWaited, Asyn!CancelTimer,
     Asyn!CancelSignal, Asyn!TimerFires, Asyn!TimeoutBegin, Asyn!TimeoutEnd, Asyn!Reports,
     Asyn!DriverAnnounces, Asyn!ConnectTimerFires, Asyn!ConnectorQueues, Asyn!blockProcessCallback,
     Asyn!unblockProcessCallback
<1>. QED BY <1>1, <1>3, <1>4, <1>5, <1>6, <1>7, <1>8, <1>9 DEF Asyn!PortThread

\* The flags are set and reset.
LEMMA FlagStep ==
    ASSUME Asyn!AsynPortAssumption, Asyn!TypeOK, Asyn!Next
    PROVE  Asyn!FlagTypes'
<1>. USE DEF Asyn!FlagTypes, Asyn!dpcVars, Asyn!connectVars
<1>1. Asyn!FlagTypes
  BY AsynTypes
<1>2. CASE UNCHANGED <<queueStateChange, notifyPortThread, enabled, connected, connectArmed, refused, connectPc, driverPc>>
  BY <1>1, <1>2
<1>3. ASSUME NEW r \in Requests, Asyn!queueRequest(r[1], r[2], r[3])
      PROVE  Asyn!FlagTypes'
  BY <1>1, <1>3 DEF Asyn!queueRequest, Asyn!Enqueue
<1>4. ASSUME NEW u \in AsynUsers,
             Asyn!cancelRequest(u) \/ Asyn!CancelSignal(u) \/ Asyn!unblockProcessCallback(u)
      PROVE  Asyn!FlagTypes'
  BY <1>1, <1>4 DEF Asyn!cancelRequest, Asyn!CancelSignal, Asyn!unblockProcessCallback
<1>5. ASSUME Asyn!TimeoutBegin \/ Asyn!TimeoutEnd
      PROVE  Asyn!FlagTypes'
  BY <1>1, <1>5 DEF Asyn!TimeoutBegin, Asyn!TimeoutEnd
<1>6. ASSUME Asyn!ConnectTimerFires \/ Asyn!ConnectorQueues
      PROVE  Asyn!FlagTypes'
  BY <1>1, <1>6 DEF Asyn!ConnectTimerFires, Asyn!ConnectorQueues, Asyn!Enqueue
<1>7. ASSUME Asyn!Reports \/ Asyn!DriverAnnounces
      PROVE  Asyn!FlagTypes'
  BY <1>1, <1>7 DEF Asyn!Reports, Asyn!DriverAnnounces, Asyn!Announce, Asyn!Connects, Asyn!Disconnects
<1>8. ASSUME Asyn!PortWake \/ Asyn!PortScan \/ Asyn!PortAnnounces
      PROVE  Asyn!FlagTypes'
  BY <1>1, <1>8 DEF Asyn!PortWake, Asyn!PortScan, Asyn!PortAnnounces, Asyn!Announce
<1>9. ASSUME NEW ok \in BOOLEAN, Asyn!ConnectorProcessed(ok) \/ Asyn!PortAttempts(ok)
      PROVE  Asyn!FlagTypes'
  BY <1>1, <1>9 DEF Asyn!ConnectorProcessed, Asyn!PortAttempts, Asyn!Connects
<1>10. ASSUME ~UNCHANGED <<queueStateChange, notifyPortThread, enabled, connected, connectArmed, refused, connectPc, driverPc>>
       PROVE  \/ \E r \in Requests : Asyn!queueRequest(r[1], r[2], r[3])
              \/ \E u \in AsynUsers : Asyn!cancelRequest(u) \/ Asyn!CancelSignal(u) \/ Asyn!unblockProcessCallback(u)
              \/ Asyn!TimeoutBegin \/ Asyn!TimeoutEnd \/ Asyn!ConnectTimerFires \/ Asyn!ConnectorQueues
              \/ Asyn!Reports \/ Asyn!DriverAnnounces \/ Asyn!PortWake \/ Asyn!PortScan \/ Asyn!PortAnnounces
              \/ \E ok \in BOOLEAN : Asyn!ConnectorProcessed(ok) \/ Asyn!PortAttempts(ok)
  BY <1>10 DEF Asyn!Next, Asyn!PortThread, Asyn!TimerThread, Asyn!ConnectTimerThread, Asyn!CancelThread,
     Asyn!CancelWaited, Asyn!CancelTimer, Asyn!blockProcessCallback, Asyn!TimerFires, Asyn!PortConnects,
     Asyn!PortConnectsDone, Asyn!PortPick, Asyn!PortTimer, Asyn!PortTimerStopped,
     Asyn!PortCallbackEnd
<1>. QED BY <1>2, <1>3, <1>4, <1>5, <1>6, <1>7, <1>8, <1>9, <1>10

\* A callback ends.
LEMMA CallbackEnds ==
    ASSUME Asyn!CallTypes, NEW u \in Asyn!All, NEW c \in {"process", "timeout"}, Asyn!EndCallback(u, c)
    PROVE  /\ callbackDone' \in [AsynUsers -> BOOLEAN]
           /\ \A v \in AsynUsers :
                callbackDone'[v] <=> callbackDone[v] \/ (v = u /\ state[v] = "canceled")
           /\ state' = [state EXCEPT ![u] = "idle"]
           /\ found' \in [AsynUsers -> SUBSET {"process", "timeout"}]
           /\ \A v \in AsynUsers : found'[v] = IF v = u THEN found[v] \ {c} ELSE found[v]
           /\ overlap' \subseteq AsynUsers
           /\ \A v \in AsynUsers : v \in overlap' <=>
                v \in overlap /\ (v # u \/ Asyn!ActiveCallbacks(u) # {c} \/ asynPc[v] = "wait")
<1>. USE DEF Asyn!CallTypes, Asyn!EndCallback, Asyn!Returned
<1>1. callbackDone \in [AsynUsers -> BOOLEAN]
  OBVIOUS
<1>2. CASE state[u] = "canceled"
  BY <1>1, <1>2
<1>3. CASE state[u] # "canceled"
  BY <1>1, <1>3
<1>. QED BY <1>2, <1>3

\* Callbacks begin and end, cancels wait, timers run.
LEMMA CallStep ==
    ASSUME Asyn!AsynPortAssumption, Asyn!TypeOK, Asyn!Next
    PROVE  Asyn!CallTypes'
<1>. USE DEF Asyn!CallTypes, Asyn!timerVars, Asyn!userVars, Asyn!requestVars
<1>1. Asyn!CallTypes /\ Asyn!PortTypes /\ Queues(queueList, isQueued)
  BY AsynTypes
<1>2. CASE UNCHANGED <<state, callbackDone, timeout, armed, found, overlap, hurried, asynPc, timerUser, timerPc>>
  BY <1>1, <1>2
<1>3. ASSUME NEW r \in Requests, Asyn!queueRequest(r[1], r[2], r[3])
      PROVE  Asyn!CallTypes'
  <2>1. r[1] \in AsynUsers /\ r[3] \in BOOLEAN
    BY DEF Asyn!AsynPortAssumption
  <2>2. /\ timeout' = [timeout EXCEPT ![r[1]] = r[3]] /\ armed' = [armed EXCEPT ![r[1]] = @ \/ r[3]]
        /\ hurried' \in {hurried, hurried \cup {r[1]}}
        /\ UNCHANGED <<state, callbackDone, found, overlap, asynPc, timerUser, timerPc>>
    BY <1>3 DEF Asyn!queueRequest, Asyn!StartTimer
  <2>3. timeout' \in [AsynUsers -> BOOLEAN] /\ armed' \in [AsynUsers -> BOOLEAN]
    BY <1>1, <2>1, <2>2
  <2>. QED BY <1>1, <2>1, <2>2, <2>3
<1>4. ASSUME NEW u \in AsynUsers, Asyn!cancelRequest(u)
      PROVE  Asyn!CallTypes'
  <2>1. Asyn!ActiveCallbacks(u) \in SUBSET {"process", "timeout"} /\ u \in Asyn!All
    BY DEF Asyn!ActiveCallbacks, Asyn!All
  <2>. QED BY <1>1, <1>4, <2>1 DEF Asyn!cancelRequest, Asyn!Dequeue
<1>5. ASSUME NEW u \in AsynUsers, Asyn!CancelThread(u)
      PROVE  Asyn!CallTypes'
  <2>1. CASE Asyn!CancelWaited(u)
    BY <1>1, <2>1 DEF Asyn!CancelWaited
  <2>2. CASE Asyn!CancelTimer(u)
    BY <1>1, <2>2 DEF Asyn!CancelTimer, Asyn!StopTimer
  <2>3. CASE Asyn!CancelSignal(u)
    BY <1>1, <2>3 DEF Asyn!CancelSignal
  <2>. QED BY <1>5, <2>1, <2>2, <2>3 DEF Asyn!CancelThread
<1>6. ASSUME NEW u \in AsynUsers, Asyn!TimerFires(u)
      PROVE  Asyn!CallTypes'
  BY <1>1, <1>6 DEF Asyn!TimerFires, Asyn!AsynPortAssumption, Asyn!All
<1>7. ASSUME Asyn!TimeoutBegin
      PROVE  Asyn!CallTypes'
  BY <1>1, <1>7 DEF Asyn!TimeoutBegin, Asyn!Dequeue, Asyn!All
<1>8. ASSUME Asyn!TimeoutEnd
      PROVE  Asyn!CallTypes'
  <2>1. timerUser \in Asyn!All
    BY <1>1, <1>8 DEF Asyn!TimeoutEnd, Asyn!All
  <2>. QED BY <1>1, <1>8, <2>1, CallbackEnds DEF Asyn!TimeoutEnd
<1>9. ASSUME NEW ps \in {"connect", "low"}, NEW u \in ToSet(queueList[ps]), Asyn!Take(u, ps),
             UNCHANGED <<callbackDone, timeout, armed, found, asynPc, timerUser, timerPc>>
      PROVE  Asyn!CallTypes'
  <2>1. u \in Asyn!All
    BY <1>1, <1>9, Takes
  <2>2. Asyn!TimeoutRuns(u) => u \in AsynUsers
    BY <1>1 DEF Asyn!TimeoutRuns
  <2>. QED BY <1>1, <1>9, <2>1, <2>2 DEF Asyn!Take
<1>10. ASSUME Asyn!PortConnects
       PROVE  Asyn!CallTypes'
  <2>1. CASE queueList["connect"] # << >>
    <3>1. Head(queueList["connect"]) \in ToSet(queueList["connect"])
      BY <1>1, <2>1, HeadTaken DEF Queues
    <3>. QED BY <1>9, <1>10, <2>1, <3>1 DEF Asyn!PortConnects
  <2>. QED BY <1>2, <1>10, <2>1 DEF Asyn!PortConnects, Asyn!GoesTo, Asyn!Tries
<1>11. ASSUME Asyn!PortPick
       PROVE  Asyn!CallTypes'
  <2>1. CASE \E i \in DOMAIN queueList["low"] : Asyn!Take(queueList["low"][i], "low")
    <3>1. PICK i \in DOMAIN queueList["low"] : Asyn!Take(queueList["low"][i], "low")
      BY <2>1
    <3>2. queueList["low"][i] \in ToSet(queueList["low"])
      BY DEF ToSet
    <3>. QED BY <1>9, <1>11, <3>1, <3>2 DEF Asyn!PortPick
  <2>. QED BY <1>2, <1>11, <2>1 DEF Asyn!PortPick, Asyn!GoesTo
<1>12. ASSUME Asyn!PortTimer
       PROVE  Asyn!CallTypes'
  <2>1. /\ armed' = [armed EXCEPT ![portUser] = FALSE] \/ armed' = armed
        /\ UNCHANGED <<state, callbackDone, timeout, found, overlap, hurried, asynPc, timerUser, timerPc>>
    BY <1>12 DEF Asyn!PortTimer, Asyn!StopTimer
  <2>2. armed' \in [AsynUsers -> BOOLEAN]
    <3>1. armed \in [AsynUsers -> BOOLEAN]
      BY <1>1
    <3>. QED BY <2>1, <3>1
  <2>. QED BY <1>1, <2>1, <2>2
<1>13. ASSUME Asyn!PortCallbackEnd
       PROVE  Asyn!CallTypes'
  <2>1. portUser \in Asyn!All
    BY <1>1, <1>13 DEF Asyn!PortCallbackEnd, Asyn!PortTypes, Asyn!Serving
  <2>. QED BY <1>1, <1>13, <2>1, CallbackEnds DEF Asyn!PortCallbackEnd
<1>14. ASSUME ~UNCHANGED <<state, callbackDone, timeout, armed, found, overlap, hurried, asynPc, timerUser, timerPc>>
       PROVE  \/ \E r \in Requests : Asyn!queueRequest(r[1], r[2], r[3])
              \/ \E u \in AsynUsers : Asyn!cancelRequest(u) \/ Asyn!CancelThread(u) \/ Asyn!TimerFires(u)
              \/ Asyn!TimeoutBegin \/ Asyn!TimeoutEnd \/ Asyn!PortConnects \/ Asyn!PortPick
              \/ Asyn!PortTimer \/ Asyn!PortCallbackEnd
  BY <1>14 DEF Asyn!Next, Asyn!PortThread, Asyn!TimerThread, Asyn!ConnectTimerThread,
     Asyn!blockProcessCallback, Asyn!unblockProcessCallback, Asyn!Reports, Asyn!DriverAnnounces,
     Asyn!ConnectTimerFires, Asyn!ConnectorQueues, Asyn!PortWake, Asyn!PortConnectsDone, Asyn!PortScan,
     Asyn!GoesTo, Asyn!Tries, Asyn!PortTimerStopped, Asyn!ConnectorProcessed,
     Asyn!PortAttempts, Asyn!PortAnnounces
<1>. QED BY <1>2, <1>3, <1>4, <1>5, <1>6, <1>7, <1>8, <1>10, <1>11, <1>12, <1>13, <1>14

\* What the port thread may rely on.
PortKnows == Asyn!ConnectsSeen /\ Asyn!ChangeSeen /\ Asyn!PortServes

\* Who changes what the port thread relies on signals it.
LEMMA OthersSignal ==
    ASSUME Asyn!CallTypes, Asyn!Next, ~Asyn!PortThread
    PROVE  \/ Asyn!SignalComes'
           \/ /\ UNCHANGED <<portPc, fromLow, ret, queueList, queueStateChange, enabled, connected, pblockProcessHolder>>
              /\ Asyn!SignalComes => Asyn!SignalComes'
<1>. DEFINE Goal == \/ Asyn!SignalComes'
                    \/ /\ UNCHANGED <<portPc, fromLow, ret, queueList, queueStateChange, enabled, connected, pblockProcessHolder>>
                       /\ Asyn!SignalComes => Asyn!SignalComes'
<1>. USE DEF Asyn!SignalComes, Asyn!portVars, Asyn!dpcVars, Asyn!requestVars, Asyn!blockVars, Asyn!timerVars,
         Asyn!userVars
<1>0. asynPc \in [AsynUsers -> {"idle", "wait", "dequeued", "timer_wait"}]
  BY DEF Asyn!CallTypes
<1>1. ASSUME NEW r \in Requests, Asyn!queueRequest(r[1], r[2], r[3]) PROVE Goal
  BY <1>1 DEF Asyn!queueRequest, Asyn!Enqueue
<1>2. ASSUME NEW u \in AsynUsers, Asyn!cancelRequest(u) PROVE Goal
  BY <1>0, <1>2 DEF Asyn!cancelRequest
<1>3. ASSUME NEW u \in AsynUsers, Asyn!CancelThread(u) PROVE Goal
  BY <1>0, <1>3 DEF Asyn!CancelThread, Asyn!CancelWaited, Asyn!CancelTimer, Asyn!CancelSignal
<1>4. ASSUME NEW u \in AsynUsers, Asyn!blockProcessCallback(u) PROVE Goal
  BY <1>4 DEF Asyn!blockProcessCallback
<1>5. ASSUME NEW u \in AsynUsers, Asyn!unblockProcessCallback(u) PROVE Goal
  BY <1>5 DEF Asyn!unblockProcessCallback
<1>6. ASSUME NEW u \in AsynUsers, Asyn!TimerFires(u) PROVE Goal
  BY <1>6 DEF Asyn!TimerFires
<1>7. ASSUME Asyn!TimeoutBegin \/ Asyn!TimeoutEnd PROVE Goal
  BY <1>7 DEF Asyn!TimeoutBegin, Asyn!TimeoutEnd
<1>8. ASSUME Asyn!Reports \/ Asyn!DriverAnnounces PROVE Goal
  BY <1>8 DEF Asyn!Reports, Asyn!DriverAnnounces, Asyn!Announce
<1>9. ASSUME Asyn!ConnectTimerFires \/ Asyn!ConnectorQueues PROVE Goal
  BY <1>9 DEF Asyn!ConnectTimerFires, Asyn!ConnectorQueues, Asyn!Enqueue
<1>. HIDE DEF Goal
<1>10. Goal
  BY <1>1, <1>2, <1>3, <1>4, <1>5, <1>6, <1>7, <1>8, <1>9
     DEF Asyn!Next, Asyn!TimerThread, Asyn!ConnectTimerThread
<1>. QED BY <1>10 DEF Goal

\* The port thread relies on what it saw.
LEMMA KnowsStep ==
    ASSUME Asyn!TypeOK, PortKnows, Asyn!Next
    PROVE  PortKnows'
<1>. USE DEF PortKnows, Asyn!ConnectsSeen, Asyn!ChangeSeen, Asyn!PortServes, Asyn!Serving
<1>0. Asyn!PortTypes /\ Queues(queueList, isQueued) /\ Asyn!CallTypes
  BY AsynTypes
<1>1. CASE Asyn!SignalComes'
  BY <1>1
<1>2. CASE /\ UNCHANGED <<portPc, fromLow, ret, queueList, queueStateChange, enabled, connected, pblockProcessHolder>>
           /\ Asyn!SignalComes => Asyn!SignalComes'
  BY <1>2 DEF Asyn!MayRun
<1>3. ASSUME UNCHANGED <<notifyPortThread, timerPc, driverPc, asynPc>>
      PROVE  Asyn!SignalComes' <=> Asyn!SignalComes
  BY <1>3 DEF Asyn!SignalComes
<1>. USE DEF Asyn!dpcVars, Asyn!requestVars, Asyn!timerVars, Asyn!userVars, Asyn!PortTypes
<1>4. ASSUME Asyn!PortWake
      PROVE  PortKnows'
  BY <1>0, <1>4 DEF Asyn!PortWake
<1>5. ASSUME Asyn!PortConnects
      PROVE  PortKnows'
  <2>1. (Asyn!SignalComes' <=> Asyn!SignalComes) /\ UNCHANGED <<queueStateChange, connected>>
    BY <1>3, <1>5 DEF Asyn!PortConnects
  <2>2. CASE queueList["connect"] # << >>
    <3>1. portPc' = "timer" /\ ~fromLow'
      BY <1>5, <2>2 DEF Asyn!PortConnects, Asyn!Take
    <3>. QED BY <2>1, <3>1
  <2>3. CASE queueList["connect"] = << >>
    <3>1. /\ UNCHANGED <<queueList, fromLow>>
          /\ \/ portPc' = "scan" /\ connected
             \/ portPc' = "attempt" /\ ret' = "connects_done"
             \/ portPc' = "sleep" /\ ~connected
      BY <1>5, <2>3 DEF Asyn!PortConnects, Asyn!GoesTo, Asyn!Tries
    <3>. QED BY <1>0, <2>1, <2>3, <3>1
  <2>. QED BY <2>2, <2>3
<1>6. ASSUME Asyn!PortConnectsDone
      PROVE  PortKnows'
  <2>1. (Asyn!SignalComes' <=> Asyn!SignalComes) /\ UNCHANGED <<queueList, queueStateChange, connected, fromLow>>
    BY <1>3, <1>6 DEF Asyn!PortConnectsDone, Asyn!GoesTo
  <2>2. portPc = "connects_done" /\ portPc' = IF connected THEN "scan" ELSE "sleep"
    BY <1>6 DEF Asyn!PortConnectsDone, Asyn!GoesTo
  <2>. QED BY <2>1, <2>2
<1>7. ASSUME Asyn!PortScan
      PROVE  PortKnows'
  <2>1. (Asyn!SignalComes' <=> Asyn!SignalComes) /\ UNCHANGED <<queueList, fromLow>>
    BY <1>3, <1>7 DEF Asyn!PortScan, Asyn!GoesTo, Asyn!Tries
  <2>2. /\ portPc = "scan" /\ ~queueStateChange'
        /\ portPc' = "pick" \/ (portPc' = "attempt" /\ ret' = "tried")
    BY <1>7 DEF Asyn!PortScan, Asyn!GoesTo, Asyn!Tries
  <2>. QED BY <2>1, <2>2
<1>8. ASSUME Asyn!PortPick
      PROVE  PortKnows'
  <2>1. (Asyn!SignalComes' <=> Asyn!SignalComes)
        /\ UNCHANGED <<queueStateChange, enabled, connected, pblockProcessHolder>>
    BY <1>3, <1>8 DEF Asyn!PortPick, Asyn!blockVars
  <2>2. portPc \in {"pick", "tried"}
    BY <1>8 DEF Asyn!PortPick
  <2>3. CASE \E i \in DOMAIN queueList["low"] : Asyn!Take(queueList["low"][i], "low") /\ ~queueStateChange
    <3>1. portPc' = "timer" /\ fromLow' /\ queueList'["connect"] = queueList["connect"]
      BY <1>0, <2>3 DEF Asyn!Take, Queues
    <3>. QED BY <2>1, <2>2, <2>3, <3>1
  <2>4. CASE /\ queueStateChange \/ (\A i \in DOMAIN queueList["low"] : ~(Asyn!MayRun(queueList["low"][i]) /\ enabled))
             /\ Asyn!GoesTo("sleep")
    <3>1. portPc' = "sleep" /\ UNCHANGED <<queueList, fromLow>>
      BY <2>4 DEF Asyn!GoesTo
    <3>2. queueStateChange => Asyn!SignalComes
      BY <2>2
    <3>3. ASSUME ~queueStateChange, enabled, NEW u \in Asyn!ToSet(queueList["low"]) PROVE ~Asyn!MayRun(u)'
      <4>1. ~Asyn!MayRun(u)
        BY <2>4, <3>3 DEF Asyn!ToSet
      <4>. QED BY <2>1, <4>1 DEF Asyn!MayRun
    <3>4. ~Asyn!SignalComes => queueList["connect"] = << >>
      BY <2>2
    <3>. QED BY <2>1, <3>1, <3>2, <3>3, <3>4
  <2>. QED BY <1>8, <2>3, <2>4 DEF Asyn!PortPick
<1>9. ASSUME Asyn!PortTimer \/ Asyn!PortTimerStopped
      PROVE  PortKnows'
  <2>1. /\ portPc \in {"timer", "timer_wait"} /\ portPc' \in {"timer_wait", "process"}
        /\ UNCHANGED <<fromLow, queueList, queueStateChange, notifyPortThread, timerPc, driverPc, asynPc>>
    BY <1>9 DEF Asyn!PortTimer, Asyn!PortTimerStopped
  <2>. QED BY <1>3, <2>1
<1>10. ASSUME NEW ok \in BOOLEAN, Asyn!ConnectorProcessed(ok)
       PROVE  PortKnows'
  <2>1. /\ portPc = "process"
        /\ portPc' = "callback_end" \/ (portPc' = "announce" /\ ret' = "callback_end")
        /\ UNCHANGED <<fromLow, queueList, queueStateChange, notifyPortThread, timerPc, driverPc, asynPc>>
    BY <1>10 DEF Asyn!ConnectorProcessed
  <2>. QED BY <1>3, <2>1
<1>11. ASSUME NEW ok \in BOOLEAN, Asyn!PortAttempts(ok)
       PROVE  PortKnows'
  <2>1. /\ portPc = "attempt" /\ ret \in {"connects_done", "tried"}
        /\ portPc' \in {"announce", ret}
        /\ UNCHANGED <<fromLow, ret, queueList, queueStateChange, notifyPortThread, timerPc, driverPc, asynPc>>
    BY <1>0, <1>11 DEF Asyn!PortAttempts
  <2>. QED BY <1>3, <2>1
<1>12. ASSUME Asyn!PortAnnounces
       PROVE  PortKnows'
  BY <1>1, <1>12 DEF Asyn!PortAnnounces, Asyn!Announce, Asyn!SignalComes
<1>13. ASSUME Asyn!PortCallbackEnd
       PROVE  PortKnows'
  <2>1. /\ portPc \in {"process", "callback_end"}
        /\ portPc' = IF ~fromLow THEN "connects" ELSE IF queueStateChange THEN "sleep" ELSE "scan"
        /\ UNCHANGED <<queueList, queueStateChange, notifyPortThread, timerPc, driverPc, asynPc>>
    BY <1>13 DEF Asyn!PortCallbackEnd
  <2>. QED BY <1>3, <2>1
<1>. QED BY <1>0, <1>1, <1>2, <1>4, <1>5, <1>6, <1>7, <1>8, <1>9, <1>10, <1>11, <1>12, <1>13, OthersSignal
     DEF Asyn!PortThread

\* A try to connect is under way, or none is needed.
LEMMA TryStep ==
    ASSUME Asyn!AsynPortAssumption, Asyn!TypeOK, Asyn!TryUnderWay, Asyn!Next
    PROVE  Asyn!TryUnderWay'
<1>. USE DEF Asyn!TryUnderWay, Asyn!dpcVars, Asyn!connectVars, Asyn!AsynPortAssumption
<1>1. Queues(queueList, isQueued) /\ Asyn!PortTypes /\ Asyn!CallTypes /\ Connector \in Asyn!All
  BY AsynTypes DEF Asyn!All
<1>2. CASE /\ UNCHANGED <<connected, refused, connectArmed, connectPc>>
           /\ isQueued[Connector] => isQueued'[Connector]
           /\ portUser = Connector /\ portPc \in {"timer", "timer_wait", "process"}
                => portUser' = Connector /\ portPc' \in {"timer", "timer_wait", "process"}
  BY <1>2
<1>. USE DEF Asyn!requestVars, Asyn!portVars
<1>3. ASSUME NEW r \in Requests, Asyn!queueRequest(r[1], r[2], r[3])
      PROVE  Asyn!TryUnderWay'
  <2>1. isQueued' = [isQueued EXCEPT ![r[1]] = TRUE] /\ UNCHANGED <<connected, refused, connectArmed, connectPc, portUser, portPc>>
    BY <1>3 DEF Asyn!queueRequest, Asyn!Enqueue
  <2>. QED BY <1>1, <1>2, <2>1 DEF Queues
<1>4. ASSUME NEW u \in AsynUsers, Asyn!cancelRequest(u)
      PROVE  Asyn!TryUnderWay'
  <2>1. UNCHANGED <<connected, refused, connectArmed, connectPc, portUser, portPc>>
    BY <1>4 DEF Asyn!cancelRequest
  <2>2. isQueued'[Connector] <=> isQueued[Connector]
    BY <1>1, <1>4, Dequeues DEF Asyn!cancelRequest
  <2>. QED BY <1>2, <2>1, <2>2
<1>5. ASSUME Asyn!TimeoutBegin
      PROVE  Asyn!TryUnderWay'
  <2>1. UNCHANGED <<connected, refused, connectArmed, connectPc, portUser, portPc>> /\ timerUser \in AsynUsers
    BY <1>1, <1>5 DEF Asyn!TimeoutBegin, Asyn!CallTypes
  <2>2. isQueued'[Connector] <=> isQueued[Connector]
    BY <1>1, <1>5, <2>1, Dequeues DEF Asyn!TimeoutBegin
  <2>. QED BY <1>2, <2>1, <2>2
<1>6. ASSUME Asyn!Reports
      PROVE  Asyn!TryUnderWay'
  BY <1>6 DEF Asyn!Reports, Asyn!Connects, Asyn!Disconnects
<1>7. ASSUME Asyn!ConnectTimerFires
      PROVE  Asyn!TryUnderWay'
  BY <1>7 DEF Asyn!ConnectTimerFires
<1>8. ASSUME Asyn!ConnectorQueues
      PROVE  Asyn!TryUnderWay'
  <2>1. CASE enabled /\ ~isQueued[Connector]
    <3>1. isQueued' = [isQueued EXCEPT ![Connector] = TRUE]
      BY <1>8, <2>1 DEF Asyn!ConnectorQueues, Asyn!Accepted, Asyn!Enqueue
    <3>. QED BY <1>1, <3>1 DEF Queues
  <2>2. CASE enabled /\ isQueued[Connector]
    BY <1>8, <2>2 DEF Asyn!ConnectorQueues, Asyn!Accepted
  <2>3. CASE ~enabled
    BY <1>8, <2>3 DEF Asyn!ConnectorQueues
  <2>. QED BY <2>1, <2>2, <2>3
<1>9. ASSUME NEW ps \in {"connect", "low"}, NEW u \in ToSet(queueList[ps]), Asyn!Take(u, ps),
             portPc \notin {"timer", "timer_wait", "process"},
             UNCHANGED <<connected, refused, connectArmed, connectPc>>
      PROVE  Asyn!TryUnderWay'
  <2>1. CASE u = Connector
    BY <1>9, <2>1 DEF Asyn!Take
  <2>2. CASE u # Connector
    BY <1>1, <1>2, <1>9, <2>2, Takes
  <2>. QED BY <2>1, <2>2
<1>10. ASSUME Asyn!PortConnects
       PROVE  Asyn!TryUnderWay'
  <2>1. CASE queueList["connect"] # << >>
    <3>1. Head(queueList["connect"]) \in ToSet(queueList["connect"])
      BY <1>1, <2>1, HeadTaken DEF Queues
    <3>. QED BY <1>9, <1>10, <2>1, <3>1 DEF Asyn!PortConnects
  <2>. QED BY <1>2, <1>10, <2>1 DEF Asyn!PortConnects, Asyn!GoesTo, Asyn!Tries
<1>11. ASSUME Asyn!PortPick
       PROVE  Asyn!TryUnderWay'
  <2>1. CASE \E i \in DOMAIN queueList["low"] : Asyn!Take(queueList["low"][i], "low")
    <3>1. PICK i \in DOMAIN queueList["low"] : Asyn!Take(queueList["low"][i], "low")
      BY <2>1
    <3>2. queueList["low"][i] \in ToSet(queueList["low"])
      BY DEF ToSet
    <3>. QED BY <1>9, <1>11, <3>1, <3>2 DEF Asyn!PortPick
  <2>. QED BY <1>2, <1>11, <2>1 DEF Asyn!PortPick, Asyn!GoesTo
<1>12. ASSUME Asyn!PortTimer \/ Asyn!PortTimerStopped
       PROVE  Asyn!TryUnderWay'
  BY <1>2, <1>12 DEF Asyn!PortTimer, Asyn!PortTimerStopped
<1>13. ASSUME NEW ok \in BOOLEAN, Asyn!ConnectorProcessed(ok) \/ Asyn!PortAttempts(ok)
       PROVE  Asyn!TryUnderWay'
  BY <1>2, <1>13 DEF Asyn!ConnectorProcessed, Asyn!PortAttempts, Asyn!Connects
<1>14. ASSUME Asyn!PortWake \/ Asyn!PortConnectsDone \/ Asyn!PortScan \/ Asyn!PortAnnounces \/ Asyn!PortCallbackEnd
       PROVE  Asyn!TryUnderWay'
  BY <1>2, <1>14 DEF Asyn!PortWake, Asyn!PortConnectsDone, Asyn!PortScan, Asyn!GoesTo, Asyn!Tries,
     Asyn!PortAnnounces, Asyn!PortCallbackEnd
<1>15. ASSUME \/ Asyn!TimeoutEnd \/ Asyn!DriverAnnounces
              \/ \E u \in AsynUsers : Asyn!TimerFires(u) \/ Asyn!CancelThread(u)
                    \/ Asyn!blockProcessCallback(u) \/ Asyn!unblockProcessCallback(u)
       PROVE  Asyn!TryUnderWay'
  BY <1>2, <1>15 DEF Asyn!TimeoutEnd, Asyn!DriverAnnounces, Asyn!TimerFires, Asyn!CancelThread,
     Asyn!CancelWaited, Asyn!CancelTimer, Asyn!CancelSignal, Asyn!blockProcessCallback,
     Asyn!unblockProcessCallback
<1>. QED BY <1>3, <1>4, <1>5, <1>6, <1>7, <1>8, <1>10, <1>11, <1>12, <1>13, <1>14, <1>15
     DEF Asyn!Next, Asyn!PortThread, Asyn!TimerThread, Asyn!ConnectTimerThread

\* What the invariant says of the calls of one user, and of its timer.
CallGood(u) ==
    /\ portUser = u /\ Asyn!TimeoutRuns(u) => u \in overlap
    /\ portUser = u \/ Asyn!TimeoutRuns(u) => state[u] # "idle" \/ u \in overlap
    /\ state[u] # "idle" => portUser = u \/ Asyn!TimeoutRuns(u)
    /\ state[u] = "canceled" \/ callbackDone[u] => asynPc[u] = "wait"
    /\ ~(state[u] = "canceled" /\ callbackDone[u])
    /\ "process" \in found[u] => portUser = u
    /\ "timeout" \in found[u] => Asyn!TimeoutRuns(u)
    /\ asynPc[u] = "idle" \/ callbackDone[u] => found[u] = {} \/ u \in overlap
    /\ asynPc[u] = "wait" /\ u \notin overlap =>
            callbackDone[u] \/ (state[u] = "canceled" /\ (portUser = u \/ Asyn!TimeoutRuns(u)))

Expired(u) == timerUser = u /\ timerPc = "expired"

TimeGood(u) ==
    u \notin hurried =>
        /\ ~(isQueued[u] /\ Asyn!TimerUnstopped(u))
        /\ isQueued[u] /\ timeout[u] => armed[u] \/ Expired(u)

\* The callbacks of a user that are active.
LEMMA ActiveAre ==
    ASSUME NEW u
    PROVE  /\ Asyn!ActiveCallbacks(u) \subseteq {"process", "timeout"}
           /\ "process" \in Asyn!ActiveCallbacks(u) <=> portUser = u
           /\ "timeout" \in Asyn!ActiveCallbacks(u) <=> Asyn!TimeoutRuns(u)
  BY DEF Asyn!ActiveCallbacks

LEMMA ActiveAreNext ==
    ASSUME NEW u
    PROVE  /\ Asyn!ActiveCallbacks(u)' \subseteq {"process", "timeout"}
           /\ "process" \in Asyn!ActiveCallbacks(u)' <=> portUser' = u
           /\ "timeout" \in Asyn!ActiveCallbacks(u)' <=> Asyn!TimeoutRuns(u)'
  BY DEF Asyn!ActiveCallbacks

LEMMA CallsOfAll ==
    /\ Asyn!CallTypes =>
        (Asyn!CallsTrue /\ Asyn!CancelOutwaits <=> \A u \in AsynUsers : CallGood(u))
    /\ Asyn!CallTypes' =>
        (Asyn!CallsTrue' /\ Asyn!CancelOutwaits' <=> \A u \in AsynUsers : CallGood(u)')
    /\ Asyn!HurriedTrue /\ Asyn!QueuedTimesOut <=> \A u \in AsynUsers : TimeGood(u)
    /\ Asyn!HurriedTrue' /\ Asyn!QueuedTimesOut' <=> \A u \in AsynUsers : TimeGood(u)'
<1>1. ASSUME Asyn!CallTypes, NEW u \in AsynUsers
      PROVE  /\ Asyn!CallTrue(u)
             /\ u \notin overlap =>
                    /\ asynPc[u] = "idle" => found[u] = {}
                    /\ asynPc[u] = "wait" =>
                            callbackDone[u] \/ (state[u] = "canceled" /\ Asyn!ActiveCallbacks(u) # {})
             <=> CallGood(u)
  <2>1. found[u] \subseteq {"process", "timeout"}
    BY <1>1 DEF Asyn!CallTypes
  <2>. QED BY <2>1, ActiveAre DEF Asyn!CallTrue, CallGood
<1>2. ASSUME Asyn!CallTypes', NEW u \in AsynUsers
      PROVE  /\ Asyn!CallTrue(u)'
             /\ u \notin overlap' =>
                    /\ asynPc'[u] = "idle" => found'[u] = {}
                    /\ asynPc'[u] = "wait" =>
                            callbackDone'[u] \/ (state'[u] = "canceled" /\ Asyn!ActiveCallbacks(u)' # {})
             <=> CallGood(u)'
  <2>1. found'[u] \subseteq {"process", "timeout"}
    BY <1>2 DEF Asyn!CallTypes
  <2>. QED BY <2>1, ActiveAreNext DEF Asyn!CallTrue, CallGood
<1>3. Asyn!HurriedTrue /\ Asyn!QueuedTimesOut <=> \A u \in AsynUsers : TimeGood(u)
  BY DEF Asyn!HurriedTrue, Asyn!QueuedTimesOut, TimeGood, Expired
<1>4. Asyn!HurriedTrue' /\ Asyn!QueuedTimesOut' <=> \A u \in AsynUsers : TimeGood(u)'
  BY DEF Asyn!HurriedTrue, Asyn!QueuedTimesOut, TimeGood, Expired
<1>5. Asyn!CallTypes => (Asyn!CallsTrue /\ Asyn!CancelOutwaits <=> \A u \in AsynUsers : CallGood(u))
  BY <1>1 DEF Asyn!CallsTrue, Asyn!CancelOutwaits
<1>6. Asyn!CallTypes' => (Asyn!CallsTrue' /\ Asyn!CancelOutwaits' <=> \A u \in AsynUsers : CallGood(u)')
  BY <1>2 DEF Asyn!CallsTrue, Asyn!CancelOutwaits
<1>. QED BY <1>3, <1>4, <1>5, <1>6

\* A user that a step does not touch.
LEMMA CallStays ==
    ASSUME NEW u \in AsynUsers, CallGood(u), portUser' = u <=> portUser = u,
           Asyn!TimeoutRuns(u)' <=> Asyn!TimeoutRuns(u), u \in overlap' <=> u \in overlap,
           UNCHANGED <<state[u], asynPc[u], callbackDone[u], found[u]>>
    PROVE  CallGood(u)'
  BY DEF CallGood

LEMMA TimeStays ==
    ASSUME NEW u \in AsynUsers, TimeGood(u), isQueued'[u] => isQueued[u], u \in hurried' <=> u \in hurried,
           timeout'[u] => timeout[u], armed[u] \/ Expired(u) => armed'[u] \/ Expired(u)',
           Asyn!TimerUnstopped(u)' => Asyn!TimerUnstopped(u)
    PROVE  TimeGood(u)'
  BY DEF TimeGood

\* A user that is not queued has no timer to lose.
LEMMA NotQueued ==
    ASSUME NEW u \in AsynUsers, ~isQueued'[u]
    PROVE  TimeGood(u)'
  BY DEF TimeGood

\* cancelRequest waits for what is active, and is told.
LEMMA CallsStep ==
    ASSUME Asyn!AsynPortAssumption, Asyn!TypeOK, \A u \in AsynUsers : CallGood(u), Asyn!Next
    PROVE  \A v \in AsynUsers : CallGood(v)'
<1>. SUFFICES ASSUME NEW v \in AsynUsers PROVE CallGood(v)'
  OBVIOUS
<1>. USE DEF Asyn!AsynPortAssumption, Asyn!requestVars, Asyn!portVars, Asyn!timerVars, Asyn!userVars
<1>1. Queues(queueList, isQueued) /\ Asyn!PortTypes /\ Asyn!CallTypes /\ CallGood(v) /\ v \in Asyn!All
      /\ v # Connector /\ v # NoUser
  BY AsynTypes DEF Asyn!All
<1>2. CASE UNCHANGED <<portUser, timerUser, timerPc, state, asynPc, callbackDone, found, overlap>>
  BY <1>1, <1>2, CallStays DEF Asyn!TimeoutRuns
<1>3. ASSUME NEW u \in AsynUsers, Asyn!cancelRequest(u)
      PROVE  CallGood(v)'
  <2>1. /\ asynPc[u] = "idle"
        /\ UNCHANGED <<callbackDone, portUser, timerUser, timerPc, overlap>>
    BY <1>3 DEF Asyn!cancelRequest
  <2>2. Asyn!TimeoutRuns(v)' <=> Asyn!TimeoutRuns(v)
    BY <2>1 DEF Asyn!TimeoutRuns
  <2>3. u \in Asyn!All
    BY DEF Asyn!All
  <2>4. CASE v # u
    <3>1. UNCHANGED <<state[v], asynPc[v], found[v]>>
      BY <1>1, <1>3, <2>3, <2>4 DEF Asyn!cancelRequest, Asyn!CallTypes
    <3>. QED BY <1>1, <2>1, <2>2, <3>1, CallStays
  <2>5. CASE v = u /\ isQueued[u]
    <3>1. /\ UNCHANGED state
          /\ \/ asynPc'[v] = "dequeued" /\ found'[v] = Asyn!ActiveCallbacks(v)
             \/ asynPc'[v] = "idle" /\ found'[v] = {}
      BY <1>1, <1>3, <2>1, <2>5 DEF Asyn!cancelRequest, Asyn!CallTypes
    <3>. QED BY <1>1, <2>1, <2>2, <2>5, <3>1, ActiveAre DEF CallGood
  <2>6. CASE v = u /\ ~isQueued[u] /\ state[u] = "active"
    <3>1. state'[v] = "canceled" /\ asynPc'[v] = "wait" /\ found'[v] = Asyn!ActiveCallbacks(v)
      BY <1>1, <1>3, <2>3, <2>6 DEF Asyn!cancelRequest, Asyn!CallTypes
    <3>. QED BY <1>1, <2>1, <2>2, <2>6, <3>1, ActiveAre DEF CallGood
  <2>7. CASE v = u /\ ~isQueued[u] /\ state[u] # "active"
    <3>1. UNCHANGED <<state, asynPc>> /\ found'[v] = Asyn!ActiveCallbacks(v)
      BY <1>1, <1>3, <2>7 DEF Asyn!cancelRequest, Asyn!CallTypes
    <3>2. state[v] = "idle"
      BY <1>1, <2>1, <2>3, <2>7 DEF Asyn!CallTypes, CallGood
    <3>3. Asyn!ActiveCallbacks(v) = {} \/ v \in overlap
      BY <1>1, <3>2, ActiveAre DEF CallGood
    <3>. QED BY <1>1, <2>1, <2>2, <2>7, <3>1, <3>2, <3>3, ActiveAre DEF CallGood
  <2>. QED BY <2>4, <2>5, <2>6, <2>7
<1>4. ASSUME NEW u \in AsynUsers, Asyn!CancelWaited(u)
      PROVE  CallGood(v)'
  <2>1. /\ asynPc[u] = "wait" /\ callbackDone[u]
        /\ callbackDone' = [callbackDone EXCEPT ![u] = FALSE] /\ asynPc' = [asynPc EXCEPT ![u] = "idle"]
        /\ overlap' = IF Asyn!ActiveCallbacks(u) = {} THEN overlap \ {u} ELSE overlap
        /\ UNCHANGED <<state, portUser, timerUser, timerPc, found>>
    BY <1>4 DEF Asyn!CancelWaited
  <2>2. Asyn!TimeoutRuns(v)' <=> Asyn!TimeoutRuns(v)
    BY <2>1 DEF Asyn!TimeoutRuns
  <2>3. CASE v # u
    <3>1. UNCHANGED <<callbackDone[v], asynPc[v]>> /\ (v \in overlap' <=> v \in overlap)
      BY <1>1, <2>1, <2>3 DEF Asyn!CallTypes
    <3>. QED BY <1>1, <2>1, <2>2, <3>1, CallStays
  <2>4. CASE v = u
    <3>1. ~callbackDone'[v] /\ asynPc'[v] = "idle" /\ found[v] \subseteq {"process", "timeout"}
      BY <1>1, <2>1, <2>4 DEF Asyn!CallTypes
    <3>2. CASE Asyn!ActiveCallbacks(v) = {}
      <4>1. portUser # v /\ ~Asyn!TimeoutRuns(v)
        BY <3>2, ActiveAre
      <4>2. found[v] = {}
        BY <1>1, <3>1, <4>1 DEF CallGood
      <4>. QED BY <1>1, <2>1, <2>2, <2>4, <3>1, <4>1, <4>2 DEF CallGood
    <3>3. CASE Asyn!ActiveCallbacks(v) # {}
      BY <1>1, <2>1, <2>2, <2>4, <3>1, <3>3 DEF CallGood
    <3>. QED BY <3>2, <3>3
  <2>. QED BY <2>3, <2>4
<1>5. ASSUME NEW u \in AsynUsers, Asyn!CancelTimer(u) \/ Asyn!CancelSignal(u)
      PROVE  CallGood(v)'
  <2>1. /\ asynPc[u] \in {"dequeued", "timer_wait"}
        /\ \/ asynPc' = [asynPc EXCEPT ![u] = "timer_wait"] /\ UNCHANGED found
           \/ asynPc' = [asynPc EXCEPT ![u] = "idle"] /\ found' = [found EXCEPT ![u] = {}]
        /\ UNCHANGED <<callbackDone, state, portUser, timerUser, timerPc, overlap>>
    BY <1>5 DEF Asyn!CancelTimer, Asyn!CancelSignal
  <2>2. Asyn!TimeoutRuns(v)' <=> Asyn!TimeoutRuns(v)
    BY <2>1 DEF Asyn!TimeoutRuns
  <2>3. CASE v # u
    <3>1. UNCHANGED <<asynPc[v], found[v]>>
      BY <1>1, <2>1, <2>3 DEF Asyn!CallTypes
    <3>. QED BY <1>1, <2>1, <2>2, <3>1, CallStays
  <2>4. CASE v = u
    <3>1. \/ asynPc'[v] = "timer_wait" /\ found'[v] = found[v]
          \/ asynPc'[v] = "idle" /\ found'[v] = {}
      BY <1>1, <2>1, <2>4 DEF Asyn!CallTypes
    <3>. QED BY <1>1, <2>1, <2>2, <2>4, <3>1 DEF CallGood
  <2>. QED BY <2>3, <2>4
<1>6. ASSUME NEW u \in AsynUsers, Asyn!TimerFires(u)
      PROVE  CallGood(v)'
  <2>1. /\ timerPc = "idle" /\ timerPc' = "expired"
        /\ UNCHANGED <<callbackDone, state, portUser, found, asynPc, overlap>>
    BY <1>6 DEF Asyn!TimerFires
  <2>. QED BY <1>1, <2>1, CallStays DEF Asyn!TimeoutRuns
<1>7. ASSUME Asyn!TimeoutBegin
      PROVE  CallGood(v)'
  <2>1. /\ timerPc = "expired" /\ timerUser \in AsynUsers /\ timerUser \in Asyn!All
        /\ UNCHANGED <<callbackDone, portUser, found, asynPc>>
    BY <1>1, <1>7 DEF Asyn!TimeoutBegin, Asyn!CallTypes, Asyn!All
  <2>2. ~Asyn!TimeoutRuns(v)
    BY <2>1 DEF Asyn!TimeoutRuns
  <2>3. CASE isQueued[timerUser]
    <3>1. /\ timerPc' = "timeoutUser" /\ timerUser' = timerUser
          /\ state' = [state EXCEPT ![timerUser] = "active"]
          /\ overlap' = IF portUser = timerUser THEN overlap \cup {timerUser} ELSE overlap
      BY <1>7, <2>3 DEF Asyn!TimeoutBegin
    <3>2. CASE v # timerUser
      <4>1. ~Asyn!TimeoutRuns(v)' /\ UNCHANGED state[v] /\ (v \in overlap' <=> v \in overlap)
        BY <1>1, <2>1, <3>1, <3>2 DEF Asyn!TimeoutRuns, Asyn!CallTypes
      <4>. QED BY <1>1, <2>1, <2>2, <4>1, CallStays
    <3>3. CASE v = timerUser
      <4>1. /\ state'[v] = "active" /\ Asyn!TimeoutRuns(v)'
            /\ v \in overlap' <=> v \in overlap \/ portUser = v
        BY <1>1, <2>1, <3>1, <3>3 DEF Asyn!CallTypes, Asyn!TimeoutRuns
      <4>. QED BY <1>1, <2>1, <2>2, <4>1 DEF CallGood
    <3>. QED BY <3>2, <3>3
  <2>4. CASE ~isQueued[timerUser]
    <3>1. timerPc' = "idle" /\ UNCHANGED <<state, overlap>>
      BY <1>7, <2>4 DEF Asyn!TimeoutBegin
    <3>. QED BY <1>1, <2>1, <2>2, <3>1, CallStays DEF Asyn!TimeoutRuns
  <2>. QED BY <2>3, <2>4
<1>8. ASSUME Asyn!TimeoutEnd
      PROVE  CallGood(v)'
  <2>1. /\ timerPc = "timeoutUser" /\ timerUser \in AsynUsers /\ timerUser \in Asyn!All
        /\ timerPc' = "idle" /\ timerUser' = NoUser /\ Asyn!EndCallback(timerUser, "timeout")
        /\ UNCHANGED <<portUser, asynPc>>
    BY <1>1, <1>8 DEF Asyn!TimeoutEnd, Asyn!CallTypes, Asyn!All
  <2>2. /\ callbackDone'[v] <=> callbackDone[v] \/ (v = timerUser /\ state[v] = "canceled")
        /\ state' = [state EXCEPT ![timerUser] = "idle"]
        /\ found'[v] = IF v = timerUser THEN found[v] \ {"timeout"} ELSE found[v]
        /\ v \in overlap' <=> v \in overlap /\ (\/ v # timerUser
                \/ Asyn!ActiveCallbacks(timerUser) # {"timeout"} \/ asynPc[v] = "wait")
    BY <1>1, <2>1, CallbackEnds
  <2>3. ~Asyn!TimeoutRuns(v)' /\ (Asyn!TimeoutRuns(v) <=> v = timerUser)
    BY <2>1 DEF Asyn!TimeoutRuns
  <2>4. CASE v # timerUser
    <3>1. state'[v] = state[v] /\ found'[v] = found[v] /\ (callbackDone'[v] <=> callbackDone[v])
          /\ (v \in overlap' <=> v \in overlap)
      BY <1>1, <2>2, <2>4 DEF Asyn!CallTypes
    <3>. QED BY <1>1, <2>1, <2>3, <2>4, <3>1 DEF CallGood
  <2>5. CASE v = timerUser
    <3>1. state'[v] = "idle" /\ found[v] \subseteq {"process", "timeout"}
      BY <1>1, <2>1, <2>2, <2>5 DEF Asyn!CallTypes
    <3>2. Asyn!ActiveCallbacks(v) = {"timeout"} <=> portUser # v
      BY <2>3, <2>5, ActiveAre
    <3>3. found'[v] = found[v] \ {"timeout"} /\ (callbackDone'[v] <=> callbackDone[v] \/ state[v] = "canceled")
          /\ (v \in overlap' <=> v \in overlap /\ (portUser = v \/ asynPc[v] = "wait"))
      BY <2>2, <2>5, <3>2
    <3>4. portUser # v => found'[v] = {}
      BY <1>1, <3>1, <3>3 DEF CallGood
    <3>5. found[v] = {} => found'[v] = {}
      BY <3>3
    <3>6. "timeout" \notin found'[v] /\ ("process" \in found'[v] => "process" \in found[v])
      BY <3>3
    <3>. HIDE <2>2
    <3>. QED BY <1>1, <2>1, <2>3, <2>5, <3>1, <3>3, <3>4, <3>5, <3>6 DEF CallGood
  <2>. QED BY <2>4, <2>5
<1>9. ASSUME NEW ps \in {"connect", "low"}, NEW u \in ToSet(queueList[ps]), Asyn!Take(u, ps), ~Asyn!Serving,
             UNCHANGED <<callbackDone, timerUser, timerPc, asynPc, found>>
      PROVE  CallGood(v)'
  <2>1. /\ u \in Asyn!All /\ portUser = NoUser
        /\ portUser' = u /\ state' = [state EXCEPT ![u] = "active"]
        /\ overlap' = IF Asyn!TimeoutRuns(u) THEN overlap \cup {u} ELSE overlap
    BY <1>1, <1>9, Takes DEF Asyn!Take, Asyn!PortTypes
  <2>2. Asyn!TimeoutRuns(v)' <=> Asyn!TimeoutRuns(v)
    BY <1>9 DEF Asyn!TimeoutRuns
  <2>3. CASE v # u
    <3>1. state'[v] = state[v] /\ (v \in overlap' <=> v \in overlap) /\ portUser # v /\ portUser' # v
      BY <1>1, <2>1, <2>3 DEF Asyn!CallTypes
    <3>. QED BY <1>1, <1>9, <2>2, <3>1, CallStays
  <2>4. CASE v = u
    <3>1. /\ state'[v] = "active" /\ portUser' = v /\ portUser # v
          /\ v \in overlap' <=> v \in overlap \/ Asyn!TimeoutRuns(v)
      BY <1>1, <2>1, <2>4 DEF Asyn!CallTypes
    <3>. QED BY <1>1, <1>9, <2>2, <3>1 DEF CallGood
  <2>. QED BY <2>3, <2>4
<1>10. ASSUME Asyn!PortConnects
       PROVE  CallGood(v)'
  <2>1. ~Asyn!Serving
    BY <1>10 DEF Asyn!PortConnects, Asyn!Serving
  <2>2. CASE queueList["connect"] # << >>
    <3>1. Head(queueList["connect"]) \in ToSet(queueList["connect"])
      BY <1>1, <2>2, HeadTaken DEF Queues
    <3>. QED BY <1>9, <1>10, <2>1, <2>2, <3>1 DEF Asyn!PortConnects
  <2>. QED BY <1>2, <1>10, <2>2 DEF Asyn!PortConnects, Asyn!GoesTo, Asyn!Tries
<1>11. ASSUME Asyn!PortPick
       PROVE  CallGood(v)'
  <2>1. ~Asyn!Serving
    BY <1>11 DEF Asyn!PortPick, Asyn!Serving
  <2>2. CASE \E i \in DOMAIN queueList["low"] : Asyn!Take(queueList["low"][i], "low")
    <3>1. PICK i \in DOMAIN queueList["low"] : Asyn!Take(queueList["low"][i], "low")
      BY <2>2
    <3>2. queueList["low"][i] \in ToSet(queueList["low"])
      BY DEF ToSet
    <3>. QED BY <1>9, <1>11, <2>1, <3>1, <3>2 DEF Asyn!PortPick
  <2>. QED BY <1>2, <1>11, <2>2 DEF Asyn!PortPick, Asyn!GoesTo
<1>12. ASSUME Asyn!PortCallbackEnd
       PROVE  CallGood(v)'
  <2>1. /\ portUser \in Asyn!All /\ portUser' = NoUser /\ Asyn!EndCallback(portUser, "process")
        /\ UNCHANGED <<timerUser, timerPc, asynPc>>
    BY <1>1, <1>12 DEF Asyn!PortCallbackEnd, Asyn!PortTypes, Asyn!Serving
  <2>2. /\ callbackDone'[v] <=> callbackDone[v] \/ (v = portUser /\ state[v] = "canceled")
        /\ state' = [state EXCEPT ![portUser] = "idle"]
        /\ found'[v] = IF v = portUser THEN found[v] \ {"process"} ELSE found[v]
        /\ v \in overlap' <=> v \in overlap /\ (\/ v # portUser
                \/ Asyn!ActiveCallbacks(portUser) # {"process"} \/ asynPc[v] = "wait")
    BY <1>1, <2>1, CallbackEnds
  <2>3. (Asyn!TimeoutRuns(v)' <=> Asyn!TimeoutRuns(v)) /\ portUser' # v
    BY <1>1, <2>1 DEF Asyn!TimeoutRuns
  <2>4. CASE v # portUser
    <3>1. state'[v] = state[v] /\ found'[v] = found[v] /\ (callbackDone'[v] <=> callbackDone[v])
          /\ (v \in overlap' <=> v \in overlap)
      BY <1>1, <2>2, <2>4 DEF Asyn!CallTypes
    <3>. QED BY <1>1, <2>1, <2>3, <2>4, <3>1 DEF CallGood
  <2>5. CASE v = portUser
    <3>1. state'[v] = "idle" /\ found[v] \subseteq {"process", "timeout"}
      BY <1>1, <2>1, <2>2, <2>5 DEF Asyn!CallTypes
    <3>2. Asyn!ActiveCallbacks(v) = {"process"} <=> ~Asyn!TimeoutRuns(v)
      BY <2>5, ActiveAre
    <3>3. found'[v] = found[v] \ {"process"} /\ (callbackDone'[v] <=> callbackDone[v] \/ state[v] = "canceled")
          /\ (v \in overlap' <=> v \in overlap /\ (Asyn!TimeoutRuns(v) \/ asynPc[v] = "wait"))
      BY <2>2, <2>5, <3>2
    <3>4. ~Asyn!TimeoutRuns(v) => found'[v] = {}
      BY <1>1, <3>1, <3>3 DEF CallGood
    <3>5. found[v] = {} => found'[v] = {}
      BY <3>3
    <3>6. "process" \notin found'[v] /\ ("timeout" \in found'[v] => "timeout" \in found[v])
      BY <3>3
    <3>. HIDE <2>2
    <3>. QED BY <1>1, <2>1, <2>3, <2>5, <3>1, <3>3, <3>4, <3>5, <3>6 DEF CallGood
  <2>. QED BY <2>4, <2>5
<1>13. ASSUME ~UNCHANGED <<portUser, timerUser, timerPc, state, asynPc, callbackDone, found, overlap>>
       PROVE  \/ \E u \in AsynUsers : Asyn!cancelRequest(u) \/ Asyn!CancelThread(u)
              \/ Asyn!TimerThread \/ Asyn!PortConnects \/ Asyn!PortPick \/ Asyn!PortCallbackEnd
  BY <1>13 DEF Asyn!Next, Asyn!PortThread, Asyn!ConnectTimerThread, Asyn!blockProcessCallback,
     Asyn!unblockProcessCallback, Asyn!Reports, Asyn!DriverAnnounces, Asyn!ConnectTimerFires,
     Asyn!ConnectorQueues, Asyn!queueRequest, Asyn!PortTimer, Asyn!PortWake, Asyn!PortConnectsDone,
     Asyn!PortScan, Asyn!GoesTo, Asyn!Tries, Asyn!PortTimerStopped, Asyn!ConnectorProcessed,
     Asyn!PortAttempts, Asyn!PortAnnounces
<1>. QED BY <1>2, <1>3, <1>4, <1>5, <1>6, <1>7, <1>8, <1>10, <1>11, <1>12, <1>13
     DEF Asyn!TimerThread, Asyn!CancelThread

\* A queued request keeps its timer, unless it was queued too early.
LEMMA TimersStep ==
    ASSUME Asyn!AsynPortAssumption, Asyn!TypeOK, \A u \in AsynUsers : TimeGood(u), Asyn!Next
    PROVE  \A v \in AsynUsers : TimeGood(v)'
<1>. SUFFICES ASSUME NEW v \in AsynUsers PROVE TimeGood(v)'
  OBVIOUS
<1>. USE DEF Asyn!AsynPortAssumption, Asyn!requestVars, Asyn!portVars, Asyn!timerVars, Asyn!userVars
<1>. DEFINE Frame == /\ UNCHANGED <<isQueued, hurried, timeout, armed, timerUser, timerPc, asynPc>>
                     /\ portPc' = "timer" => UNCHANGED <<portPc, portUser, portTimeout>>
            Callers == \/ \E r \in Requests : Asyn!queueRequest(r[1], r[2], r[3])
                       \/ \E u \in AsynUsers : Asyn!cancelRequest(u) \/ Asyn!CancelThread(u)
            Threads == \/ Asyn!ConnectorQueues \/ Asyn!TimerThread
                       \/ Asyn!PortConnects \/ Asyn!PortPick \/ Asyn!PortTimer
<1>1. Queues(queueList, isQueued) /\ Asyn!PortTypes /\ Asyn!CallTypes /\ TimeGood(v) /\ v \in Asyn!All
      /\ v # Connector /\ v # NoUser
  BY AsynTypes DEF Asyn!All
<1>2. CASE Frame
  BY <1>1, <1>2, TimeStays DEF Asyn!TimerUnstopped, Expired
<1>3. ASSUME NEW r \in Requests, Asyn!queueRequest(r[1], r[2], r[3])
      PROVE  TimeGood(v)'
  <2>. DEFINE u == r[1]
  <2>1. u \in AsynUsers /\ u \in Asyn!All /\ r[3] \in BOOLEAN
    BY DEF Asyn!All
  <2>2. /\ isQueued' = [isQueued EXCEPT ![u] = TRUE] /\ timeout' = [timeout EXCEPT ![u] = r[3]]
        /\ armed' = [armed EXCEPT ![u] = @ \/ r[3]]
        /\ hurried' = IF Asyn!TimerUnstopped(u) THEN hurried \cup {u} ELSE hurried
        /\ UNCHANGED <<portPc, portUser, portTimeout, timerUser, timerPc, asynPc>>
    BY <1>3 DEF Asyn!queueRequest, Asyn!Enqueue, Asyn!StartTimer
  <2>. HIDE DEF u
  <2>3. Asyn!TimerUnstopped(v)' <=> Asyn!TimerUnstopped(v)
    BY <2>2 DEF Asyn!TimerUnstopped
  <2>4. CASE v = u
    <3>1. timeout'[v] => armed'[v]
      BY <1>1, <2>1, <2>2, <2>4 DEF Asyn!CallTypes
    <3>2. Asyn!TimerUnstopped(v) => v \in hurried'
      BY <2>2, <2>4
    <3>. QED BY <2>3, <3>1, <3>2 DEF TimeGood
  <2>5. CASE v # u
    <3>1. UNCHANGED <<isQueued[v], timeout[v], armed[v]>> /\ (v \in hurried' <=> v \in hurried)
      BY <1>1, <2>1, <2>2, <2>5 DEF Asyn!CallTypes, Queues
    <3>. QED BY <1>1, <2>2, <2>3, <3>1, TimeStays DEF Expired
  <2>. QED BY <2>4, <2>5
<1>4. ASSUME Asyn!ConnectorQueues
      PROVE  TimeGood(v)'
  <2>1. isQueued' = [isQueued EXCEPT ![Connector] = TRUE] \/ UNCHANGED isQueued
    BY <1>4 DEF Asyn!ConnectorQueues, Asyn!Enqueue
  <2>2. isQueued'[v] = isQueued[v]
    BY <1>1, <2>1 DEF Queues
  <2>3. UNCHANGED <<hurried, timeout, armed, timerUser, timerPc, asynPc, portPc, portUser, portTimeout>>
    BY <1>4 DEF Asyn!ConnectorQueues
  <2>. QED BY <1>1, <2>2, <2>3, TimeStays DEF Asyn!TimerUnstopped, Expired
<1>5. ASSUME NEW u \in AsynUsers, Asyn!cancelRequest(u)
      PROVE  TimeGood(v)'
  <2>1. UNCHANGED <<timeout, armed, timerUser, timerPc, portPc, portUser, portTimeout>>
    BY <1>5 DEF Asyn!cancelRequest
  <2>2. CASE v # u
    <3>1. UNCHANGED <<isQueued[v], asynPc[v]>> /\ (v \in hurried' <=> v \in hurried)
      BY <1>1, <1>5, <2>2, Dequeues DEF Asyn!cancelRequest, Asyn!CallTypes, Asyn!Dequeue
    <3>. QED BY <1>1, <2>1, <3>1, TimeStays DEF Asyn!TimerUnstopped, Expired
  <2>3. CASE v = u
    <3>1. ~isQueued'[v]
      BY <1>1, <1>5, <2>3, Dequeues DEF Asyn!cancelRequest
    <3>. QED BY <3>1, NotQueued
  <2>. QED BY <2>2, <2>3
<1>6. ASSUME NEW u \in AsynUsers, Asyn!CancelWaited(u) \/ Asyn!CancelSignal(u)
      PROVE  TimeGood(v)'
  <2>1. /\ UNCHANGED <<isQueued, hurried, timeout, armed, timerUser, timerPc, portPc, portUser, portTimeout>>
        /\ asynPc' = [asynPc EXCEPT ![u] = "idle"]
    BY <1>6 DEF Asyn!CancelWaited, Asyn!CancelSignal
  <2>2. asynPc'[v] = "dequeued" => asynPc[v] = "dequeued"
    BY <1>1, <2>1 DEF Asyn!CallTypes
  <2>. QED BY <1>1, <2>1, <2>2, TimeStays DEF Asyn!TimerUnstopped, Expired
<1>7. ASSUME NEW u \in AsynUsers, Asyn!CancelTimer(u)
      PROVE  TimeGood(v)'
  <2>1. /\ asynPc[u] = "dequeued" /\ asynPc' = [asynPc EXCEPT ![u] = "timer_wait"]
        /\ armed' = [armed EXCEPT ![u] = FALSE]
        /\ UNCHANGED <<isQueued, hurried, timeout, timerUser, timerPc, portPc, portUser, portTimeout>>
    BY <1>7 DEF Asyn!CancelTimer, Asyn!StopTimer
  <2>2. CASE v # u
    <3>1. UNCHANGED <<asynPc[v], armed[v]>>
      BY <1>1, <2>1, <2>2 DEF Asyn!CallTypes
    <3>. QED BY <1>1, <2>1, <3>1, TimeStays DEF Asyn!TimerUnstopped, Expired
  <2>3. CASE v = u
    <3>1. Asyn!TimerUnstopped(v)
      BY <2>1, <2>3 DEF Asyn!TimerUnstopped
    <3>. QED BY <1>1, <2>1, <3>1 DEF TimeGood
  <2>. QED BY <2>2, <2>3
<1>8. ASSUME NEW u \in AsynUsers, Asyn!TimerFires(u)
      PROVE  TimeGood(v)'
  <2>1. /\ timerPc = "idle" /\ timerPc' = "expired" /\ timerUser' = u
        /\ armed' = [armed EXCEPT ![u] = FALSE]
        /\ UNCHANGED <<isQueued, hurried, timeout, asynPc, portPc, portUser, portTimeout>>
    BY <1>8 DEF Asyn!TimerFires
  <2>2. armed[v] => armed'[v] \/ Expired(v)'
    BY <1>1, <2>1 DEF Asyn!CallTypes, Expired
  <2>. QED BY <1>1, <2>1, <2>2, TimeStays DEF Asyn!TimerUnstopped, Expired
<1>9. ASSUME Asyn!TimeoutBegin
      PROVE  TimeGood(v)'
  <2>1. /\ timerPc = "expired" /\ timerUser \in AsynUsers
        /\ UNCHANGED <<timeout, asynPc, armed, portPc, portUser, portTimeout>>
    BY <1>1, <1>9 DEF Asyn!TimeoutBegin, Asyn!CallTypes
  <2>2. CASE v # timerUser
    <3>1. UNCHANGED isQueued[v] /\ (v \in hurried' <=> v \in hurried)
      BY <1>1, <1>9, <2>1, <2>2, Dequeues DEF Asyn!TimeoutBegin, Asyn!Dequeue
    <3>. QED BY <1>1, <2>1, <2>2, <3>1, TimeStays DEF Asyn!TimerUnstopped, Expired
  <2>3. CASE v = timerUser
    <3>1. ~isQueued'[v]
      BY <1>1, <1>9, <2>1, <2>3, Dequeues DEF Asyn!TimeoutBegin
    <3>. QED BY <3>1, NotQueued
  <2>. QED BY <2>2, <2>3
<1>10. ASSUME Asyn!TimeoutEnd
       PROVE  TimeGood(v)'
  <2>1. /\ timerPc = "timeoutUser"
        /\ UNCHANGED <<isQueued, hurried, timeout, asynPc, armed, portPc, portUser, portTimeout>>
    BY <1>10 DEF Asyn!TimeoutEnd
  <2>. QED BY <1>1, <2>1, TimeStays DEF Asyn!TimerUnstopped, Expired
<1>11. ASSUME NEW ps \in {"connect", "low"}, NEW u \in ToSet(queueList[ps]), Asyn!Take(u, ps),
              UNCHANGED <<timeout, armed, timerUser, timerPc, asynPc>>
       PROVE  TimeGood(v)'
  <2>1. /\ u \in Asyn!All /\ ~isQueued'[u] /\ portUser' = u /\ hurried' = hurried \ {u}
    BY <1>1, <1>11, Takes DEF Asyn!Take
  <2>2. CASE v # u
    <3>1. isQueued'[v] = isQueued[v] /\ (v \in hurried' <=> v \in hurried)
      BY <1>1, <1>11, <2>1, <2>2, Takes
    <3>2. Asyn!TimerUnstopped(v)' => Asyn!TimerUnstopped(v)
      BY <1>11, <2>1, <2>2 DEF Asyn!TimerUnstopped
    <3>. QED BY <1>1, <1>11, <3>1, <3>2, TimeStays DEF Expired
  <2>3. CASE v = u
    BY <2>1, <2>3, NotQueued
  <2>. QED BY <2>2, <2>3
<1>12. ASSUME Asyn!PortConnects
       PROVE  TimeGood(v)'
  <2>1. CASE queueList["connect"] # << >>
    <3>1. Head(queueList["connect"]) \in ToSet(queueList["connect"])
      BY <1>1, <2>1, HeadTaken DEF Queues
    <3>. QED BY <1>11, <1>12, <2>1, <3>1 DEF Asyn!PortConnects
  <2>. QED BY <1>2, <1>12, <2>1 DEF Asyn!PortConnects, Asyn!GoesTo, Asyn!Tries
<1>13. ASSUME Asyn!PortPick
       PROVE  TimeGood(v)'
  <2>1. CASE \E i \in DOMAIN queueList["low"] : Asyn!Take(queueList["low"][i], "low")
    <3>1. PICK i \in DOMAIN queueList["low"] : Asyn!Take(queueList["low"][i], "low")
      BY <2>1
    <3>2. queueList["low"][i] \in ToSet(queueList["low"])
      BY DEF ToSet
    <3>. QED BY <1>11, <1>13, <3>1, <3>2 DEF Asyn!PortPick
  <2>. QED BY <1>2, <1>13, <2>1 DEF Asyn!PortPick, Asyn!GoesTo
<1>14. ASSUME Asyn!PortTimer
       PROVE  TimeGood(v)'
  <2>1. /\ portPc = "timer" /\ portPc' # "timer"
        /\ armed' = IF portTimeout THEN [armed EXCEPT ![portUser] = FALSE] ELSE armed
        /\ UNCHANGED <<isQueued, hurried, timeout, timerUser, timerPc, asynPc>>
    BY <1>14 DEF Asyn!PortTimer, Asyn!StopTimer
  <2>2. CASE portUser = v /\ portTimeout
    <3>1. Asyn!TimerUnstopped(v)
      BY <2>1, <2>2 DEF Asyn!TimerUnstopped
    <3>. QED BY <1>1, <2>1, <3>1 DEF TimeGood
  <2>3. CASE ~(portUser = v /\ portTimeout)
    <3>1. UNCHANGED armed[v]
      BY <1>1, <2>1, <2>3 DEF Asyn!CallTypes
    <3>. QED BY <1>1, <2>1, <3>1, TimeStays DEF Asyn!TimerUnstopped, Expired
  <2>. QED BY <2>2, <2>3
<1>15. ASSUME ~Frame
       PROVE  Callers \/ Threads
  <2>1. \A ok \in BOOLEAN : Asyn!PortAttempts(ok) => portPc' # "timer"
    BY <1>1 DEF Asyn!PortAttempts, Asyn!PortTypes
  <2>2. Asyn!PortAnnounces => portPc' # "timer"
    BY <1>1 DEF Asyn!PortAnnounces, Asyn!PortTypes
  <2>. QED BY <1>15, <2>1, <2>2 DEF Asyn!Next, Asyn!PortThread, Asyn!ConnectTimerThread,
     Asyn!blockProcessCallback, Asyn!unblockProcessCallback, Asyn!Reports, Asyn!DriverAnnounces,
     Asyn!ConnectTimerFires, Asyn!PortWake, Asyn!PortConnectsDone, Asyn!PortScan, Asyn!GoesTo, Asyn!Tries,
     Asyn!PortTimerStopped, Asyn!ConnectorProcessed, Asyn!PortAttempts, Asyn!PortAnnounces,
     Asyn!PortCallbackEnd
<1>16. CASE Callers
  BY <1>3, <1>5, <1>6, <1>7, <1>16 DEF Asyn!CancelThread
<1>17. CASE Threads
  BY <1>4, <1>8, <1>9, <1>10, <1>12, <1>13, <1>14, <1>17 DEF Asyn!TimerThread
<1>. HIDE DEF Frame, Callers, Threads
<1>. QED BY <1>2, <1>15, <1>16, <1>17

\* Every step of the threads of a port keeps the invariant.
LEMMA AsynStep ==
    ASSUME Asyn!AsynPortAssumption, Asyn!IInv, [Asyn!Next]_(Asyn!vars)
    PROVE  Asyn!IInv'
<1>1. CASE UNCHANGED Asyn!vars
  <2>1. UNCHANGED <<queueList, isQueued, state, callbackDone, timeout, blockPortCount,
                    pblockProcessHolder, queueStateChange, notifyPortThread, enabled, connected,
                    portPc, portUser, fromLow, portTimeout, ret, armed, timerUser, timerPc,
                    connectArmed, connectPc, driverPc, asynPc, found, overlap, hurried, refused>>
    BY <1>1 DEF Asyn!vars, Asyn!requestVars, Asyn!blockVars, Asyn!dpcVars, Asyn!portVars, Asyn!timerVars,
       Asyn!connectVars, Asyn!userVars
  <2>2. Asyn!QueueTypes' /\ Asyn!CallTypes'
    BY <2>1 DEF Asyn!IInv, Asyn!TypeOK, Asyn!QueueTypes, Asyn!CallTypes
  <2>3. Asyn!BlockTypes' /\ Asyn!PortTypes' /\ Asyn!FlagTypes'
    BY <2>1 DEF Asyn!IInv, Asyn!TypeOK, Asyn!BlockTypes, Asyn!PortTypes, Asyn!Serving, Asyn!FlagTypes
  <2>4. Asyn!ConnectsSeen' /\ Asyn!ChangeSeen'
    BY <2>1 DEF Asyn!IInv, Asyn!ConnectsSeen, Asyn!ChangeSeen, Asyn!Serving, Asyn!SignalComes
  <2>5. Asyn!PortServes' /\ Asyn!TryUnderWay'
    BY <2>1 DEF Asyn!IInv, Asyn!PortServes, Asyn!MayRun, Asyn!SignalComes, Asyn!TryUnderWay
  <2>6. Asyn!CallsTrue' /\ Asyn!CancelOutwaits'
    <3>1. \A u \in AsynUsers : Asyn!ActiveCallbacks(u)' = Asyn!ActiveCallbacks(u)
      BY <2>1 DEF Asyn!ActiveCallbacks, Asyn!TimeoutRuns
    <3>. QED BY <2>1, <3>1 DEF Asyn!IInv, Asyn!CallsTrue, Asyn!CallTrue, Asyn!CancelOutwaits, Asyn!TimeoutRuns
  <2>7. Asyn!HurriedTrue' /\ Asyn!QueuedTimesOut'
    BY <2>1 DEF Asyn!IInv, Asyn!HurriedTrue, Asyn!TimerUnstopped, Asyn!QueuedTimesOut
  <2>. QED BY <2>2, <2>3, <2>4, <2>5, <2>6, <2>7 DEF Asyn!IInv, Asyn!TypeOK
<1>2. CASE Asyn!Next
  <2>1. Asyn!TypeOK /\ Asyn!CallTypes /\ PortKnows /\ Asyn!TryUnderWay
    BY DEF Asyn!IInv, PortKnows, Asyn!TypeOK
  <2>2. (\A u \in AsynUsers : CallGood(u)) /\ (\A u \in AsynUsers : TimeGood(u))
    BY <2>1, CallsOfAll DEF Asyn!IInv
  <2>3. Asyn!TypeOK'
    BY <1>2, <2>1, AsynTypes, QueueStep, BlockStep, PortStep, FlagStep, CallStep DEF Asyn!TypeOK
  <2>4. PortKnows' /\ Asyn!TryUnderWay'
    BY <1>2, <2>1, KnowsStep, TryStep
  <2>5. Asyn!CallTypes'
    BY <2>3 DEF Asyn!TypeOK
  <2>6. Asyn!CallsTrue' /\ Asyn!CancelOutwaits'
    BY <1>2, <2>1, <2>2, <2>5, CallsStep, CallsOfAll
  <2>7. Asyn!HurriedTrue' /\ Asyn!QueuedTimesOut'
    BY <1>2, <2>1, <2>2, TimersStep, CallsOfAll
  <2>. QED BY <2>3, <2>4, <2>6, <2>7 DEF Asyn!IInv, PortKnows
<1>. QED BY <1>1, <1>2

\* A port starts without requests, and with its connect timer running.
LEMMA AsynInit ==
    ASSUME Asyn!AsynPortAssumption, Asyn!Init
    PROVE  Asyn!IInv
<1>. USE DEF Asyn!AsynPortAssumption, Asyn!Init
<1>1. Asyn!QueueTypes
  <2>1. Queues(queueList, isQueued)
    BY EmptySeq DEF Queues, Asyn!Priorities, ToSet, IsInjective
  <2>. QED BY <2>1, QueuesTyped
<1>2. Asyn!CallTypes
  BY DEF Asyn!CallTypes, Asyn!All
<1>3. Asyn!BlockTypes /\ Asyn!PortTypes
  <2>1. Asyn!BlockTypes
    BY DEF Asyn!BlockTypes
  <2>2. /\ portPc = "sleep" /\ ret = "pick" /\ portUser = NoUser
        /\ ~fromLow /\ ~portTimeout /\ fromLow \in BOOLEAN /\ portTimeout \in BOOLEAN
    OBVIOUS
  <2>3. Asyn!PortTypes
    BY <2>2 DEF Asyn!PortTypes, Asyn!Serving
  <2>. QED BY <2>1, <2>3
<1>4. Asyn!FlagTypes
  BY DEF Asyn!FlagTypes
<1>5. Asyn!ConnectsSeen /\ Asyn!ChangeSeen /\ Asyn!TryUnderWay
  BY DEF Asyn!ConnectsSeen, Asyn!ChangeSeen, Asyn!TryUnderWay
<1>6. Asyn!PortServes
  BY DEF Asyn!PortServes, Asyn!Priorities
<1>7. Asyn!CallsTrue /\ Asyn!CancelOutwaits
  <2>1. ASSUME NEW u \in AsynUsers PROVE CallGood(u)
    BY DEF CallGood, Asyn!TimeoutRuns, Asyn!All
  <2>. QED BY <1>2, <2>1, CallsOfAll
<1>8. Asyn!HurriedTrue /\ Asyn!QueuedTimesOut
  <2>1. ASSUME NEW u \in AsynUsers PROVE TimeGood(u)
    BY DEF TimeGood, Asyn!All
  <2>. QED BY <2>1, CallsOfAll
<1>. QED BY <1>1, <1>2, <1>3, <1>4, <1>5, <1>6, <1>7, <1>8 DEF Asyn!IInv, Asyn!TypeOK

\* The port's part of a behaviour.
LEMMA AsynPart == ServicesSpec => Asyn!Spec
<1>1. ServicesInit => Asyn!Init
  BY DEF ServicesInit
<1>2. [ServicesNext]_serviceVars => [Asyn!Next]_(Asyn!vars)
  BY DEF ServicesNext, serviceVars, asynVars, Asyn!vars, Asyn!requestVars, Asyn!blockVars, Asyn!dpcVars,
     Asyn!portVars, Asyn!timerVars, Asyn!connectVars, Asyn!userVars
<1>. QED BY <1>1, <1>2, PTL DEF ServicesSpec, Asyn!Spec

\* asynManager.c: in every state of a port the invariant holds.
LEMMA AsynInvariance == Asyn!Spec => []Asyn!IInv
<1>1. Asyn!Init => Asyn!IInv
  BY AsynInit, ServicesAssumption
<1>2. Asyn!IInv /\ [Asyn!Next]_(Asyn!vars) => Asyn!IInv'
  BY AsynStep, ServicesAssumption
<1>. QED BY <1>1, <1>2, PTL DEF Asyn!Spec

\* asynManager.c: who is queued is so once, in one queue, the port thread has a
\* user exactly while it serves one, and the timer thread likewise, for any
\* number of users and requests.
THEOREM AsynTypeCorrect == Asyn!Spec => []Asyn!TypeOK
<1>1. Asyn!IInv => Asyn!TypeOK
  BY DEF Asyn!IInv
<1>. QED BY <1>1, AsynInvariance, PTL

\* asynManager.c:1421: a cancelRequest that takes nothing off the queue returns
\* after the callback that it found active, and one that waits has been told or
\* will be when the callback returns, however its user queues meanwhile; unless a
\* second callback of the user is active at the same time.
THEOREM CancelsOutwait ==
    /\ Asyn!Spec => []Asyn!CancelOutwaits
    /\ ServicesSpec => []CancelOutwaits
<1>1. Asyn!IInv => Asyn!CancelOutwaits
  BY DEF Asyn!IInv
<1>2. Asyn!CancelOutwaits => CancelOutwaits
  BY DEF CancelOutwaits
<1>. QED BY <1>1, <1>2, AsynPart, AsynInvariance, PTL

\* asynManager.c:1307: a request queued with a timeout has its timer running,
\* or expired and its callback on the way, for as long as it is queued, whenever
\* its user queues; unless the port thread or a cancel had the request before it
\* in hand, and had not stopped its timer yet.
THEOREM RequestsTimeOut ==
    /\ Asyn!Spec => []Asyn!QueuedTimesOut
    /\ ServicesSpec => []QueuedTimesOut
<1>1. Asyn!IInv => Asyn!QueuedTimesOut
  BY DEF Asyn!IInv
<1>2. Asyn!QueuedTimesOut => QueuedTimesOut
  BY DEF QueuedTimesOut
<1>. QED BY <1>1, <1>2, AsynPart, AsynInvariance, PTL

\* asynManager.c:676: the port thread does not sleep, unless a signal is coming,
\* while a request is queued that it could serve.
THEOREM PortAwake ==
    /\ Asyn!Spec => []Asyn!PortServes
    /\ ServicesSpec => []PortServes
<1>1. Asyn!IInv => Asyn!PortServes
  BY DEF Asyn!IInv
<1>2. Asyn!PortServes => PortServes
  BY DEF PortServes
<1>. QED BY <1>1, <1>2, AsynPart, AsynInvariance, PTL

\* asynManager.c:2525: a port without a connection has its connect timer running
\* or a connect request under way, unless it was refused on a disabled port.
THEOREM PortRetries ==
    /\ Asyn!Spec => []Asyn!ConnectRetried
    /\ ServicesSpec => []ConnectRetried
<1>1. Asyn!IInv => Asyn!ConnectRetried
  BY DEF Asyn!IInv, Asyn!TryUnderWay, Asyn!ConnectRetried
<1>2. Asyn!ConnectRetried => ConnectRetried
  BY DEF ConnectRetried
<1>. QED BY <1>1, <1>2, AsynPart, AsynInvariance, PTL

-----------------------------------------------------------------------------
(* The types of all services *)

\* A behaviour is one of one of the parts.
LEMMA OnePart == ServicesSpec => [](part \in Parts)
<1>1. ServicesInit => part \in Parts
  BY DEF ServicesInit
<1>2. part \in Parts /\ [ServicesNext]_serviceVars => (part \in Parts)'
  BY DEF ServicesNext, serviceVars
<1>. QED BY <1>1, <1>2, PTL DEF ServicesSpec

\* errlog.c: in every state of the error log the invariant holds.
LEMMA LogInvariance == ServicesSpec => []Log!IInv
<1>1. Log!Init => Log!IInv
  BY LogInit, ServicesAssumption
<1>2. Log!IInv /\ [Log!Next]_(Log!vars) => Log!IInv'
  BY LogStep, ServicesAssumption
<1>. QED BY <1>1, <1>2, LogParts, PTL

\* Types of the instances that the proofs are about are those of the services.
LEMMA SameTypes ==
    /\ CaP!IInv => Ca!TypeOK
    /\ ProgramP!IInv => Program!TypeOK
    /\ StoppedP!IInv => Stopped!TypeOK
<1>1. CaP!IInv => Ca!TypeOK
  BY DEF CaP!IInv, CaP!TypeOK, CaP!FlagTypes, CaP!BlockTypes, CaP!ListTypes, CaP!TaskTypes, CaP!CallTypes,
     CaP!Actions, CaP!IsInjective, CaP!Contains, Ca!TypeOK, Ca!FlagTypes, Ca!BlockTypes, Ca!ListTypes,
     Ca!TaskTypes, Ca!CallTypes, Ca!Actions, Ca!IsInjective, Ca!Contains
<1>2. ProgramP!IInv => Program!TypeOK
  BY DEF ProgramP!IInv, ProgramP!TypeOK, ProgramP!ChanTypes, ProgramP!StateSetTypes, ProgramP!WakeTypes,
     ProgramP!LabelTypes, ProgramP!HolderTrue, ProgramP!SS, ProgramP!Handler, ProgramP!Stopper,
     ProgramP!AnyEvent, Program!TypeOK, Program!ChanTypes, Program!StateSetTypes, Program!WakeTypes,
     Program!LabelTypes, Program!HolderTrue, Program!SS, Program!Handler, Program!Stopper, Program!AnyEvent
<1>3. StoppedP!IInv => Stopped!TypeOK
  BY DEF StoppedP!IInv, StoppedP!TypeOK, StoppedP!ChanTypes, StoppedP!StateSetTypes, StoppedP!WakeTypes,
     StoppedP!LabelTypes, StoppedP!HolderTrue, StoppedP!SS, StoppedP!Handler, StoppedP!Stopper,
     StoppedP!AnyEvent, Stopped!TypeOK, Stopped!ChanTypes, Stopped!StateSetTypes, Stopped!WakeTypes,
     Stopped!LabelTypes, Stopped!HolderTrue, Stopped!SS, Stopped!Handler, Stopped!Stopper, Stopped!AnyEvent
<1>. QED BY <1>1, <1>2, <1>3

\* callback.c, timer.cpp, dbScan.c, asynManager.c, dbCa.c, errlog.c, seq_task.c:
\* each service keeps its structures what they are meant to be -- the indices of
\* the ring in its buffer, lists sorted and without repetitions, holding what is
\* marked as queued, locks held by who is in them -- with any number of threads
\* and of callbacks, timers, records, requests, links, messages and state sets.
THEOREM ServicesTypeCorrect == ServicesSpec => []ServicesTypeOK
<1>1. IInv => TypeOK
  BY DEF IInv
<1>2. Log!IInv => Log!TypeOK
  BY DEF Log!IInv
<1>3. /\ part = "calinks" /\ (part = "calinks" => CaP!IInv) => Ca!TypeOK
      /\ part = "program" /\ ProgramsTrue => Program!TypeOK
      /\ part = "stopped" /\ ProgramsTrue => Stopped!TypeOK
  BY SameTypes DEF ProgramsTrue
<1>4. /\ part \in Parts /\ TypeOK /\ Timer!TypeOK /\ Scan!TypeOK /\ Asyn!TypeOK
      /\ (part = "calinks" => CaP!IInv) /\ Log!TypeOK /\ ProgramsTrue
      => ServicesTypeOK
  BY <1>3 DEF Parts, PortParts, ServicesTypeOK
<1>. QED BY <1>1, <1>2, <1>4, OnePart, CallbackInvariance, TimersTypeCorrect, ScanListsTypeCorrect,
         AsynPart, AsynTypeCorrect, CaInvariance, LogInvariance, ProgramInvariance, PTL
=============================================================================
