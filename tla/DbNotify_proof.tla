--------------------------- MODULE DbNotify_proof ---------------------------
(***************************************************************************)
(* Theorems about DbNotify: records and puts agree on who has what, and a  *)
(* put waits for active records only, for any number of puts and records   *)
(* and any forward links.                                                  *)
(***************************************************************************)
EXTENDS DbNotify, QueueLemmas, WellFoundedInduction

-----------------------------------------------------------------------------
(* Induction over the records of a run *)

\* What holds of 0, and of i + 1 whenever of i < k, holds up to k.
LEMMA CountedUp ==
    ASSUME NEW k \in Nat, NEW S, 0 \in S, \A i \in 0 .. k - 1 : i \in S => i + 1 \in S
    PROVE  k \in S
<1>. DEFINE T == {i \in Nat : i <= k /\ i \notin S}
<1>1. SUFFICES ASSUME T # {} PROVE FALSE
  OBVIOUS
<1>2. PICK m \in T : \A i \in T : ~(i < m)
  <2>1. T \subseteq Nat
    OBVIOUS
  <2>2. PICK m \in T : \A i \in T : <<i, m>> \notin OpToRel(<, Nat)
    BY <1>1, <2>1, NatLessThanWellFounded, WFMin, Zenon
  <2>. HIDE DEF T
  <2>. QED BY <2>1, <2>2, Zenon DEF OpToRel
<1>3. m # 0 /\ m - 1 \in 0 .. k - 1 /\ m - 1 \notin T
  BY <1>2
<1>. QED BY <1>2, <1>3

-----------------------------------------------------------------------------
(* The helpers *)

LEMMA Fields ==
    ASSUME NEW n \in Notifies
    PROVE  /\ n.ppn \in [Records -> Puts \cup {NoPut}] /\ n.restartList \in [Records -> Seq(Puts)]
           /\ n.state \in [Puts -> States] /\ n.waitList \in [Puts -> Seq(Records)]
           /\ n.callbackQ \in Seq(Puts) /\ n.failed \in BOOLEAN
  BY DEF Notifies

\* An assertion that holds changes nothing.
LEMMA Holds ==
    ASSUME NEW n \in Notifies, ~n.failed, NEW c, c
    PROVE  Asserted(n, c) = n
<1>1. (n.failed \/ ~c) = n.failed
  BY DEF Notifies
<1>2. [n EXCEPT !.failed = n.failed] = n
  BY DEF Notifies
<1>. QED BY <1>1, <1>2 DEF Asserted

LEMMA Sets ==
    ASSUME NEW n \in Notifies, NEW p \in Puts, NEW s \in States
    PROVE  /\ SetState(n, p, s) \in Notifies
           /\ SetState(n, p, s).ppn = n.ppn /\ SetState(n, p, s).restartList = n.restartList
           /\ SetState(n, p, s).state = [n.state EXCEPT ![p] = s]
           /\ SetState(n, p, s).waitList = n.waitList
           /\ SetState(n, p, s).callbackQ = n.callbackQ
           /\ SetState(n, p, s).failed = n.failed
  BY DEF Notifies, SetState

LEMMA Owned ==
    ASSUME NEW n \in Notifies, NEW p \in Puts \cup {NoPut}, NEW r \in Records
    PROVE  /\ SetOwner(n, r, p) \in Notifies /\ SetOwner(n, r, p).ppn = [n.ppn EXCEPT ![r] = p]
           /\ SetOwner(n, r, p).restartList = n.restartList
           /\ SetOwner(n, r, p).state = n.state /\ SetOwner(n, r, p).waitList = n.waitList
           /\ SetOwner(n, r, p).callbackQ = n.callbackQ /\ SetOwner(n, r, p).failed = n.failed
  BY DEF Notifies, SetOwner

LEMMA Requests ==
    ASSUME NEW n \in Notifies, NEW p \in Puts
    PROVE  /\ callbackRequest(n, p) \in Notifies
           /\ callbackRequest(n, p).ppn = n.ppn
           /\ callbackRequest(n, p).restartList = n.restartList
           /\ callbackRequest(n, p).state = n.state /\ callbackRequest(n, p).waitList = n.waitList
           /\ callbackRequest(n, p).callbackQ = Append(n.callbackQ, p)
           /\ callbackRequest(n, p).failed = n.failed
<1>1. Append(n.callbackQ, p) \in Seq(Puts)
  BY Fields, AppendProperties
<1>. QED BY <1>1 DEF Notifies, callbackRequest

\* A record that is on a wait list is taken off it.
LEMMA Deletes ==
    ASSUME NEW n \in Notifies, ~n.failed, NEW p \in Puts, NEW r \in Records,
           r \in ToSet(n.waitList[p]), IsInjective(n.waitList[p])
    PROVE  LET m == DeleteWait(n, p, r) IN
           /\ m \in Notifies /\ ~m.failed
           /\ m.ppn = n.ppn /\ m.restartList = n.restartList /\ m.state = n.state
           /\ m.callbackQ = n.callbackQ
           /\ m.waitList = [n.waitList EXCEPT ![p] = RemoveFirst(@, r)]
           /\ IsInjective(m.waitList[p]) /\ ToSet(m.waitList[p]) = ToSet(n.waitList[p]) \ {r}
<1>1. n.waitList[p] \in Seq(Records)
  BY Fields
<1>2. OnWaitList(n, r)
  BY <1>1 DEF OnWaitList, Contains, ToSet
<1>3. Asserted(n, OnWaitList(n, r)) = n
  BY <1>2, Holds
<1>4. /\ RemoveFirst(n.waitList[p], r) \in Seq(Records)
      /\ IsInjective(RemoveFirst(n.waitList[p], r))
      /\ ToSet(RemoveFirst(n.waitList[p], r)) = ToSet(n.waitList[p]) \ {r}
  BY <1>1, Removed
<1>. DEFINE lists == [n.waitList EXCEPT ![p] = RemoveFirst(@, r)]
<1>5. DeleteWait(n, p, r) = [n EXCEPT !.waitList = lists]
  BY <1>3 DEF DeleteWait
<1>6. lists \in [Puts -> Seq(Records)] /\ lists[p] = RemoveFirst(n.waitList[p], r)
  BY <1>4, Fields
<1>. HIDE DEF lists
<1>7. /\ [n EXCEPT !.waitList = lists] \in Notifies
      /\ [n EXCEPT !.waitList = lists].waitList = lists
      /\ \A f \in {"ppn", "restartList", "state", "callbackQ", "failed"} :
            [n EXCEPT !.waitList = lists][f] = n[f]
  BY <1>6 DEF Notifies
<1>. QED BY <1>4, <1>5, <1>6, <1>7 DEF lists

\* A record that is on no wait list is put on one.
Unlisted(n, p, r) ==
    /\ n \in Notifies /\ ~n.failed
    /\ \A q \in Puts : r \notin ToSet(n.waitList[q])
    /\ IsInjective(n.waitList[p])
Listed(n, m, p, r) ==
    /\ m \in Notifies /\ ~m.failed
    /\ m.ppn = n.ppn /\ m.restartList = n.restartList /\ m.state = n.state
    /\ m.callbackQ = n.callbackQ
    /\ m.waitList = [n.waitList EXCEPT ![p] = Append(@, r)]
    /\ IsInjective(m.waitList[p]) /\ ToSet(m.waitList[p]) = ToSet(n.waitList[p]) \cup {r}

LEMMA AddsTo ==
    ASSUME NEW n, NEW p \in Puts, NEW r \in Records, Unlisted(n, p, r),
           NEW m, m = AddWait(n, p, r)
    PROVE  Listed(n, m, p, r)
<1>. USE DEF Unlisted
<1>1. \A q \in Puts : n.waitList[q] \in Seq(Records)
  BY Fields
<1>2. ~OnWaitList(n, r)
  BY <1>1 DEF OnWaitList, Contains, ToSet
<1>3. Asserted(n, ~OnWaitList(n, r)) = n
  BY <1>2, Holds
<1>4. /\ Append(n.waitList[p], r) \in Seq(Records)
      /\ IsInjective(Append(n.waitList[p], r))
      /\ ToSet(Append(n.waitList[p], r)) = ToSet(n.waitList[p]) \cup {r}
  BY <1>1, Appended
<1>. DEFINE lists == [n.waitList EXCEPT ![p] = Append(@, r)]
<1>5. AddWait(n, p, r) = [n EXCEPT !.waitList = lists]
  BY <1>3 DEF AddWait
<1>6. lists \in [Puts -> Seq(Records)] /\ lists[p] = Append(n.waitList[p], r)
  BY <1>4, Fields
<1>. HIDE DEF lists
<1>7. /\ [n EXCEPT !.waitList = lists] \in Notifies
      /\ [n EXCEPT !.waitList = lists].waitList = lists
      /\ \A f \in {"ppn", "restartList", "state", "callbackQ", "failed"} :
            [n EXCEPT !.waitList = lists][f] = n[f]
  BY <1>6 DEF Notifies
<1>. QED BY <1>4, <1>5, <1>6, <1>7 DEF lists, Listed

-----------------------------------------------------------------------------
(* The routines that run under pnotifyGlobal->lock *)

\* How the states of puts change while records are processed and given up.
Goes(n, m) == \A p \in Puts :
    \/ m.state[p] = n.state[p]
    \/ /\ n.state[p] \in {"WaitForRestart", "RestartInProgress", "PutInProgress"}
       /\ m.state[p] \in {"RestartCallbackRequested", "UserCallbackRequested"}

LEMMA GoesOn ==
    ASSUME NEW n, NEW m, NEW l, Goes(n, m), Goes(m, l)
    PROVE  Goes(n, l)
  BY DEF Goes

\* Nobody waits for record r: it has no put any more.
GivenUp(n, m, r) ==
    /\ n.restartList[r] = <<>>
    /\ m.ppn = [n.ppn EXCEPT ![r] = NoPut] /\ m.restartList = n.restartList
    /\ m.state = n.state /\ m.callbackQ = n.callbackQ

\* Put q was the first that waited for it.
GivenTo(n, m, r, q) ==
    /\ n.restartList[r] # <<>>
    /\ q = Head(n.restartList[r]) /\ q \in ToSet(n.restartList[r])
    /\ n.state[q] = "WaitForRestart" /\ Target[q] = r
    /\ m.ppn = [n.ppn EXCEPT ![r] = q]
    /\ m.restartList = [n.restartList EXCEPT ![r] = Tail(@)]
    /\ m.state = [n.state EXCEPT ![q] = "RestartCallbackRequested"]
    /\ m.callbackQ = Append(n.callbackQ, q)

\* restartCheck does one of them, and finds its assertions true.
LEMMA Gives ==
    ASSUME NEW n, NEW A, NEW E, NEW r \in Records, Agrees(n, A, E, {r}), n.ppn[r] # NoPut,
           NEW m, m = restartCheck(n, r)
    PROVE  /\ m \in Notifies /\ ~m.failed /\ m.waitList = n.waitList
           /\ GivenUp(n, m, r) \/ \E q \in Puts : GivenTo(n, m, r, q)
<1>. DEFINE q == Head(n.restartList[r])
<1>1. n \in Notifies /\ ~n.failed
  BY DEF Agrees
<1>2. CASE n.restartList[r] = <<>>
  <2>1. Asserted(n, n.ppn[r] # NoPut) = n
    BY <1>1, Holds
  <2>2. m = SetOwner(n, r, NoPut)
    BY <1>2, <2>1 DEF restartCheck
  <2>3. GivenUp(n, m, r)
    BY <1>1, <1>2, <2>2, Owned DEF GivenUp
  <2>4. m \in Notifies /\ m.failed = n.failed /\ m.waitList = n.waitList
    <3>1. NoPut \in Puts \cup {NoPut}
      OBVIOUS
    <3>2. /\ SetOwner(n, r, NoPut) \in Notifies
          /\ SetOwner(n, r, NoPut).failed = n.failed /\ SetOwner(n, r, NoPut).waitList = n.waitList
      BY <1>1, <3>1, Owned
    <3>. QED BY <2>2, <3>2
  <2>. QED BY <1>1, <2>3, <2>4
<1>3. CASE n.restartList[r] # <<>>
  <2>1. /\ n.restartList[r] \in Seq(Puts) /\ IsInjective(n.restartList[r])
    BY <1>1, Fields DEF Agrees, RestartsTrue
  <2>2. /\ q \in ToSet(n.restartList[r]) /\ q \in Puts /\ Tail(n.restartList[r]) \in Seq(Puts)
    BY <1>3, <2>1, HeadTaken
  <2>3. n.state[q] = "WaitForRestart" /\ Target[q] = r
    BY <2>2 DEF Agrees, RestartsTrue
  <2>4. Asserted(n, n.ppn[r] # NoPut /\ n.state[q] = "WaitForRestart") = n
    BY <1>1, <2>3, Holds
  <2>. DEFINE lists == [n.restartList EXCEPT ![r] = Tail(@)]
              owners == [n.ppn EXCEPT ![r] = q]
              states == [n.state EXCEPT ![q] = "RestartCallbackRequested"]
              l == [n EXCEPT !.restartList = lists, !.ppn = owners, !.state = states]
  <2>5. m = callbackRequest(l, q)
    BY <1>3, <2>4, Zenon DEF restartCheck
  <2>6. /\ lists \in [Records -> Seq(Puts)] /\ owners \in [Records -> Puts \cup {NoPut}]
        /\ states \in [Puts -> States]
    BY <1>1, <2>2, Fields DEF States
  <2>7. /\ l \in Notifies
        /\ l.restartList = lists /\ l.ppn = owners /\ l.state = states
        /\ l.waitList = n.waitList /\ l.callbackQ = n.callbackQ /\ l.failed = n.failed
    <3>. HIDE DEF lists, owners, states
    <3>. QED BY <1>1, <2>6 DEF Notifies
  <2>. HIDE DEF l
  <2>8. /\ m \in Notifies /\ m.failed = n.failed /\ m.waitList = n.waitList
        /\ m.ppn = owners /\ m.restartList = lists /\ m.state = states
        /\ m.callbackQ = Append(n.callbackQ, q)
    <3>. HIDE DEF lists, owners, states, q
    <3>1. l \in Notifies /\ q \in Puts
      BY <2>2, <2>7
    <3>2. /\ m \in Notifies /\ m.ppn = l.ppn /\ m.restartList = l.restartList
          /\ m.state = l.state /\ m.waitList = l.waitList
          /\ m.callbackQ = Append(l.callbackQ, q) /\ m.failed = l.failed
      BY <2>5, <3>1, Requests
    <3>. QED BY <2>7, <3>2
  <2>9. GivenTo(n, m, r, q)
    BY <1>3, <2>2, <2>3, <2>8 DEF GivenTo
  <2>. QED BY <1>1, <2>2, <2>8, <2>9
<1>. QED BY <1>2, <1>3

\* A record that is given up goes to the first put that waits for it, or to none.
LEMMA RestartChecked ==
    ASSUME NEW n, NEW A, NEW E, NEW r \in Records, Agrees(n, A, E, {r}), n.ppn[r] # NoPut,
           NEW m, m = restartCheck(n, r)
    PROVE  /\ Agrees(m, A, E, {}) /\ Goes(n, m)
           /\ \A p \in Puts : m.waitList[p] = n.waitList[p]
           /\ \A p \in Puts : n.state[p] # "WaitForRestart" => m.state[p] = n.state[p]
<1>1. /\ n \in Notifies /\ ~n.failed /\ WaitsTrue(n, A, {r}) /\ RestartsTrue(n)
      /\ PutsTrue(n, E, {r}) /\ CallbacksTrue(n, E)
  BY DEF Agrees
<1>2. m \in Notifies /\ ~m.failed /\ m.waitList = n.waitList
  BY Gives
<1>3. CASE GivenUp(n, m, r)
  <2>0. /\ m.ppn[r] = NoPut /\ \A x \in Records \ {r} : m.ppn[x] = n.ppn[x]
        /\ NoPut \notin Puts
    BY <1>1, <1>3, Fields, DbNotifyAssumption DEF GivenUp
  <2>1. WaitsTrue(m, A, {})
    BY <1>1, <1>2, <1>3, <2>0 DEF WaitsTrue, Waits, GivenUp
  <2>2. RestartsTrue(m)
    BY <1>1, <1>3, <2>0 DEF RestartsTrue, GivenUp
  <2>3. PutsTrue(m, E, {})
    BY <1>1, <1>3, <2>0, DbNotifyAssumption DEF PutsTrue, GivenUp
  <2>4. CallbacksTrue(m, E)
    BY <1>1, <1>3 DEF CallbacksTrue, GivenUp
  <2>. QED BY <1>2, <1>3, <2>1, <2>2, <2>3, <2>4 DEF Agrees, Goes, GivenUp
<1>4. ASSUME NEW q \in Puts, GivenTo(n, m, r, q)
      PROVE  /\ Agrees(m, A, E, {}) /\ Goes(n, m)
             /\ \A p \in Puts : n.state[p] # "WaitForRestart" => m.state[p] = n.state[p]
  <2>. USE <1>4 DEF GivenTo
  <2>0. /\ m.ppn[r] = q /\ \A x \in Records \ {r} : m.ppn[x] = n.ppn[x]
        /\ NoPut \notin Puts /\ \A p \in Puts : Target[p] \in Records
        /\ m.state[q] = "RestartCallbackRequested"
        /\ \A p \in Puts \ {q} : m.state[p] = n.state[p]
        /\ m.restartList[r] = Tail(n.restartList[r])
        /\ \A x \in Records \ {r} : m.restartList[x] = n.restartList[x]
    BY <1>1, <1>4, Fields, DbNotifyAssumption
  <2>1. ToSet(n.waitList[q]) = {}
    <3>1. n.waitList[q] \in Seq(Records)
      BY <1>1, <1>4, Fields
    <3>2. \A x \in Records : x \notin ToSet(n.waitList[q])
      BY <1>1, <1>4 DEF WaitsTrue, Waits
    <3>. QED BY <3>1, <3>2 DEF ToSet
  <2>2. WaitsTrue(m, A, {})
    BY <1>1, <1>2, <1>4, <2>0, <2>1 DEF WaitsTrue, Waits
  <2>3. RestartsTrue(m)
    <3>1. /\ n.restartList[r] \in Seq(Puts) /\ IsInjective(n.restartList[r])
      BY <1>1, Fields DEF RestartsTrue
    <3>2. /\ IsInjective(Tail(n.restartList[r]))
          /\ ToSet(Tail(n.restartList[r])) = ToSet(n.restartList[r]) \ {q}
      BY <1>4, <3>1, HeadTaken
    <3>. QED BY <1>1, <1>4, <2>0, <3>2 DEF RestartsTrue
  <2>4. q \notin E
    BY <1>1, <1>4 DEF CallbacksTrue
  <2>5. PutsTrue(m, E, {})
    <3>1. \A x \in Records : m.ppn[x] # NoPut =>
              \/ m.state[m.ppn[x]] = "PutInProgress"
              \/ /\ m.state[m.ppn[x]] \in {"RestartCallbackRequested", "RestartInProgress"}
                 /\ Target[m.ppn[x]] = x
      <4>. SUFFICES ASSUME NEW x \in Records, m.ppn[x] # NoPut, x # r
                    PROVE  \/ m.state[m.ppn[x]] = "PutInProgress"
                           \/ /\ m.state[m.ppn[x]] \in {"RestartCallbackRequested", "RestartInProgress"}
                              /\ Target[m.ppn[x]] = x
        BY <1>4, <2>0
      <4>1. n.ppn[x] \in Puts
        BY <1>1, <2>0, Fields
      <4>2. n.ppn[x] # q
        BY <1>1, <1>4, <2>0, <4>1 DEF PutsTrue
      <4>. QED BY <1>1, <2>0, <4>1, <4>2 DEF PutsTrue
    <3>2. ASSUME NEW p \in Puts, m.state[p] = "RestartCallbackRequested"
          PROVE  p \notin E <=> m.ppn[Target[p]] = p
      BY <1>1, <1>4, <2>0, <2>4, <3>2 DEF PutsTrue
    <3>. QED BY <3>1, <3>2 DEF PutsTrue
  <2>6. CallbacksTrue(m, E)
    <3>1. q \notin ToSet(n.callbackQ)
      BY <1>1, <1>4 DEF CallbacksTrue
    <3>2. /\ IsInjective(m.callbackQ)
          /\ ToSet(m.callbackQ) = ToSet(n.callbackQ) \cup {q}
      BY <1>1, <1>4, <3>1, Fields, Appended DEF CallbacksTrue
    <3>. QED BY <1>1, <1>4, <2>0, <2>4, <3>2 DEF CallbacksTrue
  <2>7. Goes(n, m) /\ \A p \in Puts : n.state[p] # "WaitForRestart" => m.state[p] = n.state[p]
    BY <1>4, <2>0 DEF Goes
  <2>. QED BY <1>2, <2>2, <2>3, <2>5, <2>6, <2>7 DEF Agrees
<1>. QED BY <1>2, <1>3, <1>4, Gives

\* The parts of Agrees see no more of a record than its fields.
LEMMA Targets ==
    /\ NoPut \notin Puts /\ \A p \in Puts : Target[p] \in Records
    /\ \A r \in Records : Chain[r] \in Seq(Records) /\ Chain[r] # <<>> /\ Chain[r][1] = r
  BY DbNotifyAssumption

\* putNotifyCommon gives the record to a put that was not in progress.
LEMMA Starts ==
    ASSUME NEW n \in Notifies, NEW A, NEW E, NEW p \in Puts \ E, Target[p] \in A,
           NEW k, k = SetState(n, p, "NotActive"), Agrees(k, A, E, {Target[p]}),
           NEW s \in {"RestartInProgress", "PutInProgress"},
           NEW m, m = SetState(AddWait(SetOwner(n, Target[p], p), p, Target[p]), p, s)
    PROVE  Agrees(m, A, E, {})
<1>. DEFINE t == Target[p]
            o == SetOwner(n, t, p)
            w == AddWait(o, p, t)
<1>1. t \in Records /\ NoPut \notin Puts
  BY Targets
<1>2. /\ k \in Notifies /\ ~k.failed /\ WaitsTrue(k, A, {t}) /\ RestartsTrue(k)
      /\ PutsTrue(k, E, {t}) /\ CallbacksTrue(k, E)
  BY DEF Agrees
<1>3. /\ k.ppn = n.ppn /\ k.restartList = n.restartList /\ k.waitList = n.waitList
      /\ k.callbackQ = n.callbackQ /\ k.failed = n.failed
      /\ k.state = [n.state EXCEPT ![p] = "NotActive"]
  BY Sets DEF States
<1>4. /\ o \in Notifies /\ o.ppn = [n.ppn EXCEPT ![t] = p]
      /\ o.restartList = n.restartList /\ o.state = n.state /\ o.waitList = n.waitList
      /\ o.callbackQ = n.callbackQ /\ o.failed = n.failed
  <2>1. o = SetOwner(n, t, p)
    OBVIOUS
  <2>. HIDE DEF o, t
  <2>. QED BY <1>1, <2>1, Owned
<1>. HIDE DEF o
<1>5. (\A q \in Puts : t \notin ToSet(n.waitList[q])) /\ IsInjective(n.waitList[p])
  BY <1>1, <1>2, <1>3 DEF WaitsTrue
<1>6. /\ w \in Notifies /\ ~w.failed /\ w.ppn = o.ppn /\ w.restartList = o.restartList
      /\ w.state = o.state /\ w.callbackQ = o.callbackQ
      /\ w.waitList = [o.waitList EXCEPT ![p] = Append(@, t)]
      /\ IsInjective(w.waitList[p]) /\ ToSet(w.waitList[p]) = ToSet(o.waitList[p]) \cup {t}
  <2>1. Unlisted(o, p, t)
    BY <1>2, <1>3, <1>4, <1>5 DEF Unlisted
  <2>2. w = AddWait(o, p, t) /\ p \in Puts
    OBVIOUS
  <2>. HIDE DEF t, w
  <2>3. Listed(o, w, p, t)
    BY <1>1, <2>1, <2>2, AddsTo
  <2>. QED BY <2>3 DEF Listed
<1>. HIDE DEF w
<1>7. /\ m \in Notifies /\ ~m.failed
      /\ m.ppn = w.ppn /\ m.restartList = w.restartList /\ m.waitList = w.waitList
      /\ m.callbackQ = w.callbackQ /\ m.state = [w.state EXCEPT ![p] = s]
  <2>1. m = SetState(w, p, s)
    BY DEF w, o
  <2>2. s \in States /\ w \in Notifies
    BY <1>6 DEF States
  <2>. QED BY <1>6, <2>1, <2>2, Sets
<1>. HIDE DEF t
<1>8. /\ k.state[p] = "NotActive" /\ m.state[p] = s
      /\ \A q \in Puts \ {p} : m.state[q] = k.state[q]
      /\ m.ppn[t] = p /\ \A r \in Records \ {t} : m.ppn[r] = k.ppn[r]
      /\ m.restartList = k.restartList /\ m.callbackQ = k.callbackQ
      /\ \A q \in Puts \ {p} : m.waitList[q] = k.waitList[q]
      /\ IsInjective(m.waitList[p]) /\ ToSet(m.waitList[p]) = ToSet(k.waitList[p]) \cup {t}
  BY <1>1, <1>3, <1>4, <1>6, <1>7, Fields
<1>9. \A r \in Records \ {t} : k.ppn[r] # p
  BY <1>1, <1>2, <1>8 DEF PutsTrue
<1>10. WaitsTrue(m, A, {})
  <2>1. ASSUME NEW q \in Puts, q # p
        PROVE  /\ IsInjective(m.waitList[q])
               /\ \A r \in Records : r \in ToSet(m.waitList[q]) <=> m.ppn[r] = q /\ Waits(m, q)
               /\ ToSet(m.waitList[q]) \subseteq A
    BY <1>1, <1>2, <1>8, <2>1 DEF WaitsTrue, Waits
  <2>2. /\ \A r \in Records : r \in ToSet(m.waitList[p]) <=> m.ppn[r] = p /\ Waits(m, p)
        /\ ToSet(m.waitList[p]) \subseteq A
    BY <1>1, <1>2, <1>8, <1>9 DEF WaitsTrue, Waits, t
  <2>. QED BY <1>8, <2>1, <2>2 DEF WaitsTrue
<1>11. RestartsTrue(m)
  <2>1. \A q \in Puts : m.state[q] = "WaitForRestart" <=> k.state[q] = "WaitForRestart"
    BY <1>8
  <2>. QED BY <1>1, <1>2, <1>8, <2>1 DEF RestartsTrue
<1>12. PutsTrue(m, E, {})
  <2>1. \A r \in Records : m.ppn[r] # NoPut =>
            \/ m.state[m.ppn[r]] = "PutInProgress"
            \/ /\ m.state[m.ppn[r]] \in {"RestartCallbackRequested", "RestartInProgress"}
               /\ Target[m.ppn[r]] = r
    <3>1. ASSUME NEW r \in Records \ {t}, m.ppn[r] # NoPut
          PROVE  m.ppn[r] \in Puts \ {p} /\ m.ppn[r] = k.ppn[r]
      BY <1>2, <1>8, <1>9, <3>1, Fields
    <3>2. ASSUME NEW r \in Records \ {t}, m.ppn[r] # NoPut
          PROVE  m.state[m.ppn[r]] = k.state[k.ppn[r]]
      BY <1>8, <3>1, <3>2
    <3>3. m.ppn[t] = p /\ m.state[p] \in {"RestartInProgress", "PutInProgress"} /\ Target[p] = t
      BY <1>8 DEF t
    <3>. QED BY <1>2, <3>1, <3>2, <3>3 DEF PutsTrue
  <2>2. ASSUME NEW q \in Puts, m.state[q] = "RestartCallbackRequested"
        PROVE  q \notin E <=> m.ppn[Target[q]] = q
    BY <1>1, <1>2, <1>8, <2>2, Targets DEF PutsTrue
  <2>. QED BY <2>1, <2>2 DEF PutsTrue
<1>13. CallbacksTrue(m, E)
  <2>1. \A q \in Puts \ {p} : m.state[q] = k.state[q]
    BY <1>8
  <2>2. p \notin ToSet(k.callbackQ)
    BY <1>2, <1>8 DEF CallbacksTrue
  <2>. QED BY <1>2, <1>8, <2>1, <2>2 DEF CallbacksTrue
<1>. QED BY <1>7, <1>10, <1>11, <1>12, <1>13 DEF Agrees

\* A record that a link leads to joins the put of the record the link is of.
LEMMA AddKeeps ==
    ASSUME NEW n, NEW A, NEW E, Agrees(n, A, E, {}), NEW from \in Records, NEW to \in Records \cap A,
           NEW active, NEW m, m = dbNotifyAdd(n, from, to, active)
    PROVE  Agrees(m, A, E, {}) /\ m.state = n.state
<1>. DEFINE p == n.ppn[from]
            o == SetOwner(n, to, p)
<1>1. /\ n \in Notifies /\ ~n.failed /\ WaitsTrue(n, A, {}) /\ RestartsTrue(n)
      /\ PutsTrue(n, E, {}) /\ CallbacksTrue(n, E)
  BY DEF Agrees
<1>2. CASE m = n
  BY <1>2
<1>3. CASE /\ p # NoPut /\ n.ppn[to] = NoPut /\ n.state[p] = "PutInProgress" /\ to # Target[p]
           /\ m = AddWait(o, p, to)
  <2>1. p \in Puts /\ NoPut \notin Puts
    BY <1>1, <1>3, Fields, Targets
  <2>2. /\ o \in Notifies /\ o.ppn = [n.ppn EXCEPT ![to] = p]
        /\ o.restartList = n.restartList /\ o.state = n.state /\ o.waitList = n.waitList
        /\ o.callbackQ = n.callbackQ /\ o.failed = n.failed
    <3>1. o = SetOwner(n, to, p)
      OBVIOUS
    <3>. HIDE DEF o, p
    <3>. QED BY <1>1, <2>1, <3>1, Owned
  <2>. HIDE DEF o
  <2>3. (\A q \in Puts : to \notin ToSet(n.waitList[q])) /\ IsInjective(n.waitList[p])
    BY <1>1, <1>3, <2>1 DEF WaitsTrue
  <2>. HIDE DEF p
  <2>4. /\ m \in Notifies /\ ~m.failed /\ m.ppn = o.ppn /\ m.restartList = o.restartList
        /\ m.state = o.state /\ m.callbackQ = o.callbackQ
        /\ m.waitList = [o.waitList EXCEPT ![p] = Append(@, to)]
        /\ IsInjective(m.waitList[p]) /\ ToSet(m.waitList[p]) = ToSet(o.waitList[p]) \cup {to}
    <3>1. Unlisted(o, p, to)
      BY <1>1, <2>2, <2>3 DEF Unlisted
    <3>2. m = AddWait(o, p, to) /\ p \in Puts /\ to \in Records
      BY <1>3, <2>1
    <3>3. Listed(o, m, p, to)
      BY <3>1, <3>2, AddsTo
    <3>. QED BY <3>3 DEF Listed
  <2>5. /\ m.ppn[to] = p /\ \A r \in Records \ {to} : m.ppn[r] = n.ppn[r]
        /\ \A q \in Puts \ {p} : m.waitList[q] = n.waitList[q]
        /\ ToSet(m.waitList[p]) = ToSet(n.waitList[p]) \cup {to}
        /\ m.restartList = n.restartList /\ m.state = n.state /\ m.callbackQ = n.callbackQ
    BY <1>1, <2>2, <2>4, Fields
  <2>6. WaitsTrue(m, A, {})
    <3>1. ASSUME NEW q \in Puts, q # p
          PROVE  /\ IsInjective(m.waitList[q])
                 /\ \A r \in Records : r \in ToSet(m.waitList[q]) <=> m.ppn[r] = q /\ Waits(m, q)
                 /\ ToSet(m.waitList[q]) \subseteq A
      BY <1>1, <1>3, <2>1, <2>5, <3>1 DEF WaitsTrue, Waits
    <3>2. /\ \A r \in Records : r \in ToSet(m.waitList[p]) <=> m.ppn[r] = p /\ Waits(m, p)
          /\ ToSet(m.waitList[p]) \subseteq A
      BY <1>1, <1>3, <2>1, <2>5 DEF WaitsTrue, Waits
    <3>. QED BY <2>4, <3>1, <3>2 DEF WaitsTrue
  <2>7. RestartsTrue(m)
    BY <1>1, <2>1, <2>5 DEF RestartsTrue
  <2>8. PutsTrue(m, E, {})
    <3>1. \A r \in Records : m.ppn[r] # NoPut =>
              \/ m.state[m.ppn[r]] = "PutInProgress"
              \/ /\ m.state[m.ppn[r]] \in {"RestartCallbackRequested", "RestartInProgress"}
                 /\ Target[m.ppn[r]] = r
      BY <1>1, <1>3, <2>5 DEF PutsTrue
    <3>2. ASSUME NEW q \in Puts, m.state[q] = "RestartCallbackRequested"
          PROVE  q \notin E <=> m.ppn[Target[q]] = q
      <4>1. q # p /\ Target[q] \in Records
        BY <1>3, <2>5, <3>2, Targets
      <4>2. m.ppn[Target[q]] = q <=> n.ppn[Target[q]] = q
        BY <1>3, <2>1, <2>5, <4>1
      <4>. QED BY <1>1, <2>5, <3>2, <4>2 DEF PutsTrue
    <3>. QED BY <3>1, <3>2 DEF PutsTrue
  <2>9. CallbacksTrue(m, E)
    BY <1>1, <2>5 DEF CallbacksTrue
  <2>. QED BY <2>4, <2>5, <2>6, <2>7, <2>8, <2>9 DEF Agrees
<1>. QED BY <1>2, <1>3 DEF dbNotifyAdd, Adds

\* A record that has finished, or is no longer waited for, leaves the wait list.
LEMMA TakesOff ==
    ASSUME NEW n, NEW A, NEW E, Agrees(n, A, E, {}), NEW r \in Records, NEW p \in Puts,
           n.ppn[r] = p, Waits(n, p), NEW a, a = DeleteWait(n, p, r)
    PROVE  /\ Agrees(a, A \ {r}, E, {r}) /\ a.ppn = n.ppn /\ a.state = n.state
           /\ a.waitList[p] = RemoveFirst(n.waitList[p], r)
           /\ ToSet(a.waitList[p]) = ToSet(n.waitList[p]) \ {r}
<1>1. /\ n \in Notifies /\ ~n.failed /\ WaitsTrue(n, A, {}) /\ RestartsTrue(n)
      /\ PutsTrue(n, E, {}) /\ CallbacksTrue(n, E)
  BY DEF Agrees
<1>2. r \in ToSet(n.waitList[p]) /\ IsInjective(n.waitList[p])
  BY <1>1 DEF WaitsTrue
<1>3. /\ a \in Notifies /\ ~a.failed /\ a.ppn = n.ppn /\ a.restartList = n.restartList
      /\ a.state = n.state /\ a.callbackQ = n.callbackQ
      /\ a.waitList = [n.waitList EXCEPT ![p] = RemoveFirst(@, r)]
      /\ IsInjective(a.waitList[p]) /\ ToSet(a.waitList[p]) = ToSet(n.waitList[p]) \ {r}
  BY <1>1, <1>2, Deletes
<1>4. /\ a.waitList[p] = RemoveFirst(n.waitList[p], r)
      /\ \A q \in Puts \ {p} : a.waitList[q] = n.waitList[q]
  BY <1>1, <1>3, Fields
<1>5. WaitsTrue(a, A \ {r}, {r})
  <2>1. ASSUME NEW q \in Puts, q # p
        PROVE  /\ IsInjective(a.waitList[q])
               /\ \A x \in Records : x \in ToSet(a.waitList[q]) <=>
                      a.ppn[x] = q /\ x # r /\ Waits(a, q)
               /\ ToSet(a.waitList[q]) \subseteq A \ {r}
    BY <1>1, <1>3, <1>4, <2>1 DEF WaitsTrue, Waits
  <2>2. /\ \A x \in Records : x \in ToSet(a.waitList[p]) <=> a.ppn[x] = p /\ x # r /\ Waits(a, p)
        /\ ToSet(a.waitList[p]) \subseteq A \ {r}
    BY <1>1, <1>3 DEF WaitsTrue, Waits
  <2>. QED BY <1>3, <2>1, <2>2 DEF WaitsTrue
<1>6. RestartsTrue(a)
  BY <1>1, <1>3 DEF RestartsTrue
<1>7. PutsTrue(a, E, {r})
  <2>1. ASSUME NEW q \in Puts, a.state[q] = "RestartCallbackRequested"
        PROVE  q \notin E <=> a.ppn[Target[q]] = q /\ Target[q] # r
    <3>1. q # p
      BY <1>3, <2>1 DEF Waits
    <3>. QED BY <1>1, <1>3, <2>1, <3>1 DEF PutsTrue
  <2>. QED BY <1>1, <1>3, <2>1 DEF PutsTrue
<1>8. CallbacksTrue(a, E)
  BY <1>1, <1>3 DEF CallbacksTrue
<1>. QED BY <1>3, <1>4, <1>5, <1>6, <1>7, <1>8 DEF Agrees

\* A put that waits for nothing any more is to be called back.
LEMMA Finishes ==
    ASSUME NEW a, NEW A, NEW E, NEW r \in Records, Agrees(a, A, E, {r}), NEW p \in Puts,
           a.ppn[r] = p, Waits(a, p), a.waitList[p] = <<>>,
           NEW s, \/ s = "UserCallbackRequested"
                  \/ s = "RestartCallbackRequested" /\ Target[p] = r,
           NEW b, b = SetState(a, p, s)
    PROVE  Agrees(b, A, E \cup {p}, {r})
<1>1. /\ a \in Notifies /\ ~a.failed /\ WaitsTrue(a, A, {r}) /\ RestartsTrue(a)
      /\ PutsTrue(a, E, {r}) /\ CallbacksTrue(a, E)
  BY DEF Agrees
<1>2. s \in States
  BY DEF States
<1>3. /\ b \in Notifies /\ b.failed = a.failed /\ b.ppn = a.ppn /\ b.restartList = a.restartList
      /\ b.state = [a.state EXCEPT ![p] = s] /\ b.waitList = a.waitList
      /\ b.callbackQ = a.callbackQ
  BY <1>1, <1>2, Sets
<1>4. b.state[p] = s /\ \A q \in Puts \ {p} : b.state[q] = a.state[q]
  BY <1>1, <1>3, Fields
<1>5. \A x \in Records : x \notin ToSet(a.waitList[p])
  BY DEF ToSet
<1>6. \A x \in Records \ {r} : a.ppn[x] # p
  BY <1>1, <1>5 DEF WaitsTrue
<1>7. WaitsTrue(b, A, {r})
  <2>1. \A x \in Records : b.ppn[x] = p => x \in {r}
    BY <1>3, <1>6
  <2>2. ASSUME NEW q \in Puts, q # p
        PROVE  /\ IsInjective(b.waitList[q])
               /\ \A x \in Records : x \in ToSet(b.waitList[q]) <=>
                      b.ppn[x] = q /\ x \notin {r} /\ Waits(b, q)
               /\ ToSet(b.waitList[q]) \subseteq A
    BY <1>1, <1>3, <1>4, <2>2 DEF WaitsTrue, Waits
  <2>3. IsInjective(b.waitList[p]) /\ ToSet(b.waitList[p]) \subseteq A
    BY <1>1, <1>3 DEF WaitsTrue
  <2>. QED BY <1>3, <1>5, <2>1, <2>2, <2>3 DEF WaitsTrue
<1>8. RestartsTrue(b)
  <2>1. \A q \in Puts : b.state[q] = "WaitForRestart" <=> a.state[q] = "WaitForRestart"
    BY <1>4 DEF Waits
  <2>. QED BY <1>1, <1>3, <2>1 DEF RestartsTrue
<1>9. PutsTrue(b, E \cup {p}, {r})
  <2>1. \A x \in Records \ {r} : b.ppn[x] # NoPut =>
            \/ b.state[b.ppn[x]] = "PutInProgress"
            \/ /\ b.state[b.ppn[x]] \in {"RestartCallbackRequested", "RestartInProgress"}
               /\ Target[b.ppn[x]] = x
    <3>1. ASSUME NEW x \in Records \ {r}, b.ppn[x] # NoPut
          PROVE  b.ppn[x] \in Puts /\ b.state[b.ppn[x]] = a.state[a.ppn[x]]
      BY <1>1, <1>3, <1>4, <1>6, <3>1, Fields
    <3>. QED BY <1>1, <1>3, <3>1 DEF PutsTrue
  <2>2. ASSUME NEW q \in Puts, b.state[q] = "RestartCallbackRequested"
        PROVE  q \notin E \cup {p} <=> b.ppn[Target[q]] = q /\ Target[q] \notin {r}
    <3>1. CASE q = p
      BY <1>4, <2>2, <3>1
    <3>2. CASE q # p
      BY <1>1, <1>3, <1>4, <2>2, <3>2 DEF PutsTrue
    <3>. QED BY <3>1, <3>2
  <2>. QED BY <2>1, <2>2 DEF PutsTrue
<1>10. CallbacksTrue(b, E \cup {p})
  <2>1. p \notin ToSet(a.callbackQ) /\ IsInjective(b.callbackQ)
    BY <1>1, <1>3 DEF CallbacksTrue, Waits
  <2>2. \A q \in Puts : q \in ToSet(b.callbackQ) <=>
            /\ q \notin E \cup {p}
            /\ b.state[q] \in {"RestartCallbackRequested", "UserCallbackRequested"}
    BY <1>1, <1>3, <1>4, <2>1 DEF CallbacksTrue
  <2>3. \A q \in Puts : q \in E \cup {p} =>
            b.state[q] \in {"RestartCallbackRequested", "UserCallbackRequested",
                            "UserCallbackActive"}
    BY <1>1, <1>4 DEF CallbacksTrue
  <2>. QED BY <2>1, <2>2, <2>3 DEF CallbacksTrue
<1>. QED BY <1>1, <1>3, <1>4, <1>7, <1>8, <1>9, <1>10 DEF Agrees

\* The callback it counts on is requested.
LEMMA Requested ==
    ASSUME NEW n, NEW A, NEW E, NEW F, NEW p \in Puts \ E, Agrees(n, A, E \cup {p}, F),
           \/ F = {} /\ n.state[p] = "UserCallbackRequested"
           \/ /\ F = {Target[p]} /\ n.state[p] = "RestartCallbackRequested"
              /\ n.ppn[Target[p]] = p,
           NEW m, m = callbackRequest(n, p)
    PROVE  Agrees(m, A, E, {}) /\ m.state = n.state
<1>1. /\ n \in Notifies /\ ~n.failed /\ WaitsTrue(n, A, F) /\ RestartsTrue(n)
      /\ PutsTrue(n, E \cup {p}, F) /\ CallbacksTrue(n, E \cup {p})
  BY DEF Agrees
<1>2. /\ m \in Notifies /\ m.failed = n.failed /\ m.ppn = n.ppn
      /\ m.restartList = n.restartList /\ m.state = n.state /\ m.waitList = n.waitList
      /\ m.callbackQ = Append(n.callbackQ, p)
  BY <1>1, Requests
<1>3. ~Waits(n, p) /\ (\A x \in F : n.ppn[x] = p) /\ F \subseteq Records
  BY Targets DEF Waits
<1>4. WaitsTrue(m, A, {})
  <2>1. ASSUME NEW q \in Puts, NEW x \in Records
        PROVE  (n.ppn[x] = q /\ Waits(n, q)) => x \notin F
    BY <1>3
  <2>. QED BY <1>1, <1>2, <2>1 DEF WaitsTrue, Waits
<1>5. RestartsTrue(m)
  BY <1>1, <1>2 DEF RestartsTrue
<1>6. PutsTrue(m, E, {})
  <2>1. ASSUME NEW x \in Records, n.ppn[x] # NoPut
        PROVE  \/ n.state[n.ppn[x]] = "PutInProgress"
               \/ /\ n.state[n.ppn[x]] \in {"RestartCallbackRequested", "RestartInProgress"}
                  /\ Target[n.ppn[x]] = x
    <3>1. CASE x \in F
      BY <3>1
    <3>2. CASE x \notin F
      BY <1>1, <2>1, <3>2 DEF PutsTrue
    <3>. QED BY <3>1, <3>2
  <2>2. ASSUME NEW q \in Puts, n.state[q] = "RestartCallbackRequested"
        PROVE  q \notin E <=> n.ppn[Target[q]] = q
    <3>1. CASE q = p
      BY <2>2, <3>1
    <3>2. CASE q # p
      BY <1>1, <1>3, <2>2, <3>2 DEF PutsTrue
    <3>. QED BY <3>1, <3>2
  <2>. QED BY <1>2, <2>1, <2>2 DEF PutsTrue
<1>7. CallbacksTrue(m, E)
  <2>1. p \notin ToSet(n.callbackQ) /\ IsInjective(n.callbackQ) /\ n.callbackQ \in Seq(Puts)
    BY <1>1, Fields DEF CallbacksTrue
  <2>2. IsInjective(m.callbackQ) /\ ToSet(m.callbackQ) = ToSet(n.callbackQ) \cup {p}
    BY <1>2, <2>1, Appended
  <2>. QED BY <1>1, <1>2, <2>2 DEF CallbacksTrue
<1>. QED BY <1>1, <1>2, <1>4, <1>5, <1>6, <1>7 DEF Agrees

\* dbNotifyCompletion
LEMMA Completes ==
    ASSUME NEW n, NEW A, NEW E, Agrees(n, A, E, {}), NEW r \in Records,
           NEW B, B = A \ {r}, NEW m, m = dbNotifyCompletion(n, r)
    PROVE  Agrees(m, B, E, {}) /\ Goes(n, m)
<1>. DEFINE p == n.ppn[r]
            a == DeleteWait(n, p, r)
<1>1. /\ n \in Notifies /\ ~n.failed /\ WaitsTrue(n, A, {}) /\ RestartsTrue(n)
      /\ PutsTrue(n, E, {}) /\ CallbacksTrue(n, E)
  BY DEF Agrees
<1>2. CASE p = NoPut \/ ~Waits(n, p)
  <2>1. m = n
    BY <1>2 DEF dbNotifyCompletion
  <2>2. \A q \in Puts : r \notin ToSet(n.waitList[q])
    BY <1>1, <1>2, Targets DEF WaitsTrue
  <2>3. WaitsTrue(n, A \ {r}, {})
    BY <1>1, <2>2 DEF WaitsTrue
  <2>. QED BY <1>1, <2>1, <2>3 DEF Agrees, Goes
<1>3. CASE p # NoPut /\ Waits(n, p)
  <2>1. p \in Puts \ E
    <3>1. p \in Puts
      BY <1>1, <1>3, Fields
    <3>2. n.state[p] \in {"RestartInProgress", "PutInProgress"}
      BY <1>3 DEF Waits
    <3>. HIDE DEF p
    <3>. QED BY <1>1, <3>1, <3>2 DEF CallbacksTrue
  <2>2. /\ Agrees(a, A \ {r}, E, {r}) /\ a.ppn = n.ppn /\ a.state = n.state
    <3>1. n.ppn[r] = p /\ a = DeleteWait(n, p, r)
      OBVIOUS
    <3>. HIDE DEF p, a
    <3>. QED BY <1>3, <2>1, <3>1, TakesOff
  <2>3. a.ppn[r] = p /\ Waits(a, p) /\ a.ppn[r] # NoPut
    BY <1>3, <2>2 DEF Waits
  <2>4. n.state[p] # "PutInProgress" => Target[p] = r
    BY <1>1, <1>3 DEF PutsTrue, Waits
  <2>. HIDE DEF a
  <2>5. CASE a.waitList[p] # <<>>
    <3>1. m = restartCheck(a, r)
      BY <1>3, <2>5 DEF dbNotifyCompletion, a
    <3>2. Agrees(m, A \ {r}, E, {}) /\ Goes(a, m)
      BY <2>2, <2>3, <3>1, RestartChecked
    <3>. QED BY <2>2, <3>2 DEF Goes
  <2>6. CASE a.waitList[p] = <<>> /\ n.state[p] = "PutInProgress"
    <3>. DEFINE b == SetState(a, p, "UserCallbackRequested")
                c == restartCheck(b, r)
    <3>1. m = callbackRequest(c, p)
      BY <1>3, <2>6 DEF dbNotifyCompletion, a
    <3>2. /\ Agrees(b, A \ {r}, E \cup {p}, {r}) /\ b.ppn = a.ppn
          /\ b.state[p] = "UserCallbackRequested"
          /\ \A q \in Puts \ {p} : b.state[q] = a.state[q]
      <4>1. b = SetState(a, p, "UserCallbackRequested")
        OBVIOUS
      <4>2. Agrees(a, A \ {r}, E, {r}) /\ p \in Puts /\ a.ppn[r] = p /\ Waits(a, p)
        BY <2>1, <2>2, <2>3
      <4>. HIDE DEF b, p
      <4>3. a.waitList[p] = <<>>
        BY <2>6
      <4>4. Agrees(b, A \ {r}, E \cup {p}, {r})
        BY <4>1, <4>2, <4>3, Finishes
      <4>5. a \in Notifies /\ "UserCallbackRequested" \in States
        BY <4>2 DEF Agrees, States
      <4>6. b.ppn = a.ppn /\ b.state = [a.state EXCEPT ![p] = "UserCallbackRequested"]
        BY <4>1, <4>2, <4>5, Sets
      <4>7. a.state \in [Puts -> States]
        BY <4>5, Fields
      <4>. QED BY <4>2, <4>4, <4>6, <4>7
    <3>. HIDE DEF b
    <3>3. /\ Agrees(c, A \ {r}, E \cup {p}, {}) /\ Goes(b, c)
          /\ c.state[p] = "UserCallbackRequested"
      <4>1. /\ Agrees(b, A \ {r}, E \cup {p}, {r}) /\ b.ppn[r] # NoPut /\ p \in Puts
            /\ b.state[p] # "WaitForRestart" /\ c = restartCheck(b, r)
        BY <2>1, <2>3, <3>2
      <4>. HIDE DEF p, c
      <4>2. Agrees(c, A \ {r}, E \cup {p}, {}) /\ Goes(b, c)
        BY <4>1, RestartChecked
      <4>3. c.state[p] = b.state[p]
        BY <4>1, RestartChecked
      <4>. QED BY <3>2, <4>2, <4>3
    <3>. HIDE DEF c
    <3>4. Agrees(m, A \ {r}, E, {}) /\ m.state = c.state
      <4>. HIDE DEF p
      <4>. QED BY <2>1, <3>1, <3>3, Requested
    <3>5. Goes(n, b)
      BY <2>1, <2>2, <2>6, <3>2 DEF Goes
    <3>6. Goes(n, c)
      BY <3>3, <3>5, GoesOn
    <3>. QED BY <3>4, <3>6 DEF Goes
  <2>7. CASE a.waitList[p] = <<>> /\ n.state[p] # "PutInProgress"
    <3>. DEFINE b == SetState(a, p, "RestartCallbackRequested")
    <3>1. m = callbackRequest(b, p)
      BY <1>3, <2>7 DEF dbNotifyCompletion, a
    <3>2. /\ Agrees(b, A \ {r}, E \cup {p}, {r}) /\ b.ppn = a.ppn
          /\ b.state[p] = "RestartCallbackRequested"
          /\ \A q \in Puts \ {p} : b.state[q] = a.state[q]
      <4>1. b = SetState(a, p, "RestartCallbackRequested")
        OBVIOUS
      <4>2. /\ Agrees(a, A \ {r}, E, {r}) /\ p \in Puts /\ a.ppn[r] = p /\ Waits(a, p)
            /\ Target[p] = r
        BY <2>1, <2>2, <2>3, <2>4, <2>7
      <4>. HIDE DEF b, p
      <4>3. a.waitList[p] = <<>>
        BY <2>7
      <4>4. Agrees(b, A \ {r}, E \cup {p}, {r})
        BY <4>1, <4>2, <4>3, Finishes
      <4>5. a \in Notifies /\ "RestartCallbackRequested" \in States
        BY <4>2 DEF Agrees, States
      <4>6. b.ppn = a.ppn /\ b.state = [a.state EXCEPT ![p] = "RestartCallbackRequested"]
        BY <4>1, <4>2, <4>5, Sets
      <4>7. a.state \in [Puts -> States]
        BY <4>5, Fields
      <4>. QED BY <4>2, <4>4, <4>6, <4>7
    <3>. HIDE DEF b
    <3>3. Target[p] = r /\ b.ppn[Target[p]] = p
      BY <2>3, <2>4, <2>7, <3>2
    <3>4. Agrees(m, A \ {r}, E, {}) /\ m.state = b.state
      <4>1. Agrees(b, A \ {r}, E \cup {p}, {Target[p]}) /\ b.state[p] = "RestartCallbackRequested"
        BY <3>2, <3>3
      <4>. HIDE DEF p
      <4>. QED BY <2>1, <3>1, <3>3, <4>1, Requested
    <3>5. n.state[p] \in {"RestartInProgress", "PutInProgress"}
      BY <1>3 DEF Waits
    <3>. QED BY <2>1, <2>2, <3>2, <3>4, <3>5 DEF Goes
  <2>. QED BY <2>5, <2>6, <2>7
<1>. QED BY <1>2, <1>3

-----------------------------------------------------------------------------
(* The recursive definitions: one step after the other *)

\* What Added, Completed and TakenOut do in step i of k.
Step(kind, n, p, c, k, i) ==
    IF kind = "add" THEN dbNotifyAdd(n, c[i], c[i + 1], pact)
    ELSE IF kind = "complete" THEN dbNotifyCompletion(n, c[k + 1 - i])
    ELSE restartCheck(DeleteWait(n, p, c[i]), c[i])

\* f[i] is what they have made of n in step i.
Steps(kind, n, p, c, k, f) ==
    f = [i \in 0 .. k |-> IF i = 0 THEN n ELSE Step(kind, f[i - 1], p, c, k, i)]

\* They are defined: a function that is so far goes on.
LEMMA Recursion ==
    ASSUME NEW kind, NEW n, NEW p, NEW c, NEW k \in Nat
    PROVE  \E f : Steps(kind, n, p, c, k, f)
<1>. DEFINE Is(f, j) ==
                f = [i \in 0 .. j |-> IF i = 0 THEN n ELSE Step(kind, f[i - 1], p, c, k, i)]
            S == {j \in 0 .. k : \E f : Is(f, j)}
<1>1. 0 \in S
  <2>1. Is([i \in 0 .. 0 |-> n], 0)
    OBVIOUS
  <2>. HIDE DEF Is
  <2>. QED BY <2>1
<1>2. ASSUME NEW j \in 0 .. k - 1, j \in S
      PROVE  j + 1 \in S
  <2>1. PICK f : Is(f, j)
    BY <1>2
  <2>. DEFINE new == Step(kind, f[j], p, c, k, j + 1)
              g == [i \in 0 .. j + 1 |-> IF i = j + 1 THEN new ELSE f[i]]
  <2>2. (\A i \in 0 .. j : g[i] = f[i]) /\ g[j + 1] = new
    <3>. HIDE DEF new
    <3>. QED OBVIOUS
  <2>3. \A i \in 0 .. j + 1 : g[i] = IF i = 0 THEN n ELSE Step(kind, g[i - 1], p, c, k, i)
    <3>1. \A i \in 0 .. j : f[i] = IF i = 0 THEN n ELSE Step(kind, f[i - 1], p, c, k, i)
      BY <2>1
    <3>. HIDE DEF g
    <3>. QED BY <2>2, <3>1
  <2>4. Is(g, j + 1)
    BY <2>3
  <2>. HIDE DEF Is
  <2>. QED BY <2>4
<1>3. k \in S
  <2>. HIDE DEF S
  <2>. QED BY <1>1, <1>2, CountedUp
<1>. QED BY <1>3 DEF Steps

\* The same of each of them.
AddedBy(n, c, f) ==
    /\ f[0] = n /\ Added(n, c) = f[Len(c) - 1]
    /\ \A i \in 1 .. Len(c) - 1 : f[i] = dbNotifyAdd(f[i - 1], c[i], c[i + 1], pact)
CompletedBy(n, c, k, f) ==
    /\ f[0] = n /\ Completed(n, c, k) = f[k]
    /\ \A i \in 1 .. k : f[i] = dbNotifyCompletion(f[i - 1], c[k + 1 - i])
TakenOutBy(n, p, f) ==
    /\ f[0] = n /\ TakenOut(n, p) = f[Len(n.waitList[p])]
    /\ \A i \in 1 .. Len(n.waitList[p]) :
        f[i] = restartCheck(DeleteWait(f[i - 1], p, n.waitList[p][i]), n.waitList[p][i])

\* Added follows the links from each record to the next.
LEMMA AddedUp ==
    ASSUME NEW n, NEW c, Len(c) - 1 \in Nat
    PROVE  \E f : AddedBy(n, c, f)
<1>. DEFINE k == Len(c) - 1
            Is(f) == f = [i \in 0 .. k |->
                             IF i = 0 THEN n ELSE dbNotifyAdd(f[i - 1], c[i], c[i + 1], pact)]
            up == CHOOSE f : Is(f)
<1>. HIDE DEF k
<1>1. k \in Nat
  BY DEF k
<1>2. PICK g : Steps("add", n, NoPut, c, k, g)
  BY <1>1, Recursion
<1>3. Is(g)
  BY <1>2 DEF Steps, Step
<1>4. Is(up)
  <2>. HIDE DEF Is
  <2>. QED BY <1>3
<1>5. Added(n, c) = up[k]
  BY DEF Added, k
<1>6. up[0] = n /\ \A i \in 1 .. k : up[i] = dbNotifyAdd(up[i - 1], c[i], c[i + 1], pact)
  <2>. HIDE DEF up
  <2>. QED BY <1>1, <1>4
<1>. HIDE DEF up
<1>. QED BY <1>5, <1>6 DEF k, AddedBy

\* Completed completes c[k], then c[k - 1] and so on.
LEMMA CompletedUp ==
    ASSUME NEW n, NEW c, NEW k \in Nat
    PROVE  \E f : CompletedBy(n, c, k, f)
<1>. DEFINE Is(f) == f = [i \in 0 .. k |->
                             IF i = 0 THEN n ELSE dbNotifyCompletion(f[i - 1], c[k + 1 - i])]
            up == CHOOSE f : Is(f)
<1>1. PICK g : Steps("complete", n, NoPut, c, k, g)
  BY Recursion
<1>2. Is(g)
  BY <1>1 DEF Steps, Step
<1>3. Is(up)
  <2>. HIDE DEF Is
  <2>. QED BY <1>2
<1>4. Completed(n, c, k) = up[k]
  BY DEF Completed
<1>5. up[0] = n /\ \A i \in 1 .. k : up[i] = dbNotifyCompletion(up[i - 1], c[k + 1 - i])
  <2>. HIDE DEF up
  <2>. QED BY <1>3
<1>. HIDE DEF up
<1>. QED BY <1>4, <1>5 DEF CompletedBy

\* TakenOut takes the records off the wait list from its head to its end.
LEMMA TakenOutUp ==
    ASSUME NEW n, NEW p, Len(n.waitList[p]) \in Nat
    PROVE  \E f : TakenOutBy(n, p, f)
<1>. DEFINE c == n.waitList[p]
            k == Len(c)
            Is(f) == f = [i \in 0 .. k |->
                             IF i = 0 THEN n
                             ELSE restartCheck(DeleteWait(f[i - 1], p, c[i]), c[i])]
            up == CHOOSE f : Is(f)
<1>1. PICK g : Steps("take", n, p, c, k, g)
  BY Recursion
<1>2. Is(g)
  BY <1>1 DEF Steps, Step
<1>3. Is(up)
  <2>. HIDE DEF Is
  <2>. QED BY <1>2
<1>4. TakenOut(n, p) = up[k]
  BY DEF TakenOut
<1>5. up[0] = n /\ \A i \in 1 .. k : up[i] = restartCheck(DeleteWait(up[i - 1], p, c[i]), c[i])
  <2>. HIDE DEF up
  <2>. QED BY <1>3
<1>. HIDE DEF up
<1>. QED BY <1>4, <1>5 DEF TakenOutBy

\* The links of a run are followed: more records are waited for.
LEMMA AddedKeeps ==
    ASSUME NEW n, NEW A, NEW E, Agrees(n, A, E, {}), NEW c \in Seq(Records), c # <<>>,
           \A i \in 1 .. Len(c) : c[i] \in A, NEW m, m = Added(n, c)
    PROVE  Agrees(m, A, E, {}) /\ m.state = n.state
<1>. DEFINE k == Len(c) - 1
<1>1. k \in Nat /\ Len(c) - 1 \in Nat
  OBVIOUS
<1>2. PICK f : AddedBy(n, c, f)
  BY <1>1, AddedUp
<1>. DEFINE S == {i \in 0 .. k : Agrees(f[i], A, E, {}) /\ f[i].state = n.state}
<1>3. 0 \in S
  BY <1>1, <1>2 DEF AddedBy
<1>4. ASSUME NEW i \in 0 .. k - 1, i \in S
      PROVE  i + 1 \in S
  <2>1. f[i + 1] = dbNotifyAdd(f[i], c[i + 1], c[i + 2], pact)
    BY <1>1, <1>2 DEF AddedBy
  <2>2. c[i + 1] \in Records /\ c[i + 2] \in Records \cap A
    BY <1>1
  <2>3. Agrees(f[i], A, E, {}) /\ f[i].state = n.state
    BY <1>4
  <2>4. Agrees(f[i + 1], A, E, {}) /\ f[i + 1].state = f[i].state
    BY <2>1, <2>2, <2>3, AddKeeps
  <2>. QED BY <1>1, <2>3, <2>4
<1>5. k \in S
  <2>. HIDE DEF S, k
  <2>. QED BY <1>1, <1>3, <1>4, CountedUp
<1>. QED BY <1>2, <1>5 DEF AddedBy

\* Records that finish, the last one first: they are waited for no longer.
LEMMA CompletedKeeps ==
    ASSUME NEW n, NEW A, NEW E, Agrees(n, A, E, {}), NEW c \in Seq(Records),
           NEW k \in 0 .. Len(c), NEW m, m = Completed(n, c, k)
    PROVE  Agrees(m, A \ {c[i] : i \in 1 .. k}, E, {}) /\ Goes(n, m)
<1>. DEFINE B(i) == A \ {c[j] : j \in k + 1 - i .. k}
<1>1. k \in Nat
  OBVIOUS
<1>2. PICK f : CompletedBy(n, c, k, f)
  BY <1>1, CompletedUp
<1>. DEFINE S == {i \in 0 .. k : Agrees(f[i], B(i), E, {}) /\ Goes(n, f[i])}
<1>3. 0 \in S
  <2>1. B(0) = A
    BY <1>1
  <2>2. Agrees(f[0], B(0), E, {}) /\ Goes(n, f[0])
    BY <1>2, <2>1 DEF Goes, CompletedBy
  <2>. QED BY <1>1, <2>2
<1>4. ASSUME NEW i \in 0 .. k - 1, i \in S
      PROVE  i + 1 \in S
  <2>1. f[i + 1] = dbNotifyCompletion(f[i], c[k - i])
    BY <1>1, <1>2 DEF CompletedBy
  <2>2. c[k - i] \in Records
    BY <1>1
  <2>3. Agrees(f[i], B(i), E, {}) /\ Goes(n, f[i])
    BY <1>4
  <2>4. B(i + 1) = B(i) \ {c[k - i]}
    BY <1>1
  <2>. HIDE DEF B
  <2>5. Agrees(f[i + 1], B(i + 1), E, {}) /\ Goes(f[i], f[i + 1])
    BY <2>1, <2>2, <2>3, <2>4, Completes
  <2>6. Goes(n, f[i + 1])
    BY <2>3, <2>5, GoesOn
  <2>7. i + 1 \in 0 .. k
    BY <1>1
  <2>. QED BY <2>5, <2>6, <2>7
<1>5. k \in S
  <2>. HIDE DEF S
  <2>. QED BY <1>1, <1>3, <1>4, CountedUp
<1>6. B(k) = A \ {c[i] : i \in 1 .. k}
  BY <1>1
<1>. HIDE DEF B
<1>. QED BY <1>2, <1>5, <1>6 DEF CompletedBy

\* Fewer records need not be active.
LEMMA Larger ==
    ASSUME NEW n, NEW A, NEW B, NEW E, NEW F, Agrees(n, A, E, F), A \cap Records \subseteq B
    PROVE  Agrees(n, B, E, F)
<1>1. WaitsTrue(n, A, F) /\ n.waitList \in [Puts -> Seq(Records)]
  BY Fields DEF Agrees
<1>2. \A p \in Puts : ToSet(n.waitList[p]) \subseteq Records
  BY <1>1 DEF ToSet
<1>3. WaitsTrue(n, B, F)
  BY <1>1, <1>2 DEF WaitsTrue
<1>. QED BY <1>3 DEF Agrees

\* What a run from n leaves behind: m, and a, of which C are active.
Left(n, m, E, a, C) ==
    /\ Agrees(m, C, E, {}) /\ Goes(n, m) /\ a \in [Records -> BOOLEAN]
    /\ \A x \in Records : a[x] => x \in C

\* A run: what is waited for after it is active after it.
LEMMA Follows ==
    ASSUME NEW r \in Records, NEW from, from = 1 \/ from = 2, NEW run \in Runs(r, from),
           NEW F, \A x \in F : x = r /\ from = 2,
           pact \in [Records -> BOOLEAN],
           NEW A, A \subseteq Active \cup {r},
           NEW n, NEW E, Agrees(n, A, E, {}), NEW m, m = Followed(n, run),
           NEW a, a = Activated(run, F), NEW C, \A x \in Records : a[x] => x \in C
    PROVE  Left(n, m, E, a, C)
<1>. DEFINE c == run[1]
            stop == run[2]
            l == Linked(run)
            B == Active \cup ToSet(l)
<1>1. PICK d, s : d \in Paths(r) /\ s \in Stops(d, from) /\ run = <<d, s>>
  BY DEF Runs
<1>2. PICK k \in 1 .. Len(Chain[r]) : d = SubSeq(Chain[r], 1, k)
  BY <1>1 DEF Paths
<1>3. d \in Seq(Records) /\ Len(d) = k /\ d[1] = r
  <2>1. /\ Chain[r] \in Seq(Records) /\ Chain[r][1] = r
        /\ \A i \in 1 .. Len(Chain[r]) : Chain[r][i] \in Records
    BY Targets
  <2>. QED BY <1>2, <2>1
<1>4. /\ c = d /\ stop = s /\ s \in 1 .. Len(d) + 1 /\ s >= from
  BY <1>1, <1>3 DEF Stops
<1>. HIDE DEF c, stop
<1>. DEFINE top == IF s < Len(d) THEN s ELSE Len(d)
<1>5. l = SubSeq(d, 1, top) /\ top \in 1 .. Len(d)
  BY <1>2, <1>3, <1>4 DEF Linked, c, stop
<1>. HIDE DEF l
<1>6. /\ l \in Seq(Records) /\ l # <<>> /\ (\A i \in 1 .. Len(l) : l[i] \in ToSet(l))
      /\ ToSet(l) = {d[i] : i \in 1 .. top}
  <2>. HIDE DEF top
  <2>1. \A i \in 1 .. Len(d) : d[i] \in Records
    BY <1>3
  <2>2. l \in Seq(Records) /\ Len(l) = top /\ \A i \in 1 .. top : l[i] = d[i]
    BY <1>3, <1>5, <2>1
  <2>3. DOMAIN l = 1 .. top
    BY <2>2
  <2>4. ToSet(l) = {l[i] : i \in 1 .. top}
    BY <2>3 DEF ToSet
  <2>5. {l[i] : i \in 1 .. top} = {d[i] : i \in 1 .. top}
    BY <2>2
  <2>. QED BY <1>5, <2>2, <2>4, <2>5
<1>. HIDE DEF top
<1>8. r \in ToSet(l)
  BY <1>3, <1>5, <1>6
<1>9. Agrees(n, B, E, {})
  <2>1. A \cap Records \subseteq B
    BY <1>8
  <2>. HIDE DEF B
  <2>. QED BY <2>1, Larger
<1>10. Agrees(Added(n, l), B, E, {}) /\ Added(n, l).state = n.state
  <2>1. \A i \in 1 .. Len(l) : l[i] \in B
    BY <1>6
  <2>. HIDE DEF B
  <2>. QED BY <1>6, <1>9, <2>1, AddedKeeps
<1>11. m = Completed(Added(n, l), d, s - 1) /\ s - 1 \in 0 .. Len(d)
  BY <1>3, <1>4 DEF Followed, l, c, stop
<1>12. /\ Agrees(m, B \ {d[i] : i \in 1 .. s - 1}, E, {})
       /\ Goes(Added(n, l), m)
  <2>. HIDE DEF B
  <2>. QED BY <1>3, <1>10, <1>11, CompletedKeeps
<1>13. a = [x \in Records |-> (s <= Len(d) /\ x = d[s]) \/ (pact[x] /\ x \notin F)]
  BY <1>4 DEF Activated, c, stop
<1>14. (B \ {d[i] : i \in 1 .. s - 1}) \cap Records \subseteq C
  <2>. SUFFICES ASSUME NEW x \in B, \A i \in 1 .. s - 1 : d[i] # x, x \in Records
                PROVE  a[x]
    OBVIOUS
  <2>1. CASE x \in Active /\ x \notin F
    BY <1>13, <2>1 DEF Active
  <2>2. CASE x \in F
    BY <1>3, <1>4, <2>2
  <2>3. CASE x \in ToSet(l)
    <3>1. PICK i \in 1 .. top : x = d[i]
      BY <1>6, <2>3
    <3>2. i = s /\ s <= Len(d)
      BY <1>3, <1>4, <1>5, <3>1 DEF top
    <3>. QED BY <1>13, <3>1, <3>2
  <2>. QED BY <2>1, <2>2, <2>3
<1>15. Agrees(m, C, E, {})
  <2>. HIDE DEF B
  <2>. QED BY <1>12, <1>14, Larger
<1>. QED BY <1>10, <1>12, <1>13, <1>15 DEF Goes, Left

\* A record that a canceled put waited for: another put has it, or none.
LEMMA TakesOne ==
    ASSUME NEW n, NEW A, NEW E, Agrees(n, A, E, {}), NEW p \in Puts, NEW r \in Records,
           n.ppn[r] = p, Waits(n, p), NEW m, m = restartCheck(DeleteWait(n, p, r), r)
    PROVE  /\ Agrees(m, A, E, {}) /\ Goes(n, m) /\ m.state[p] = n.state[p]
           /\ ToSet(m.waitList[p]) = ToSet(n.waitList[p]) \ {r}
<1>. DEFINE d == DeleteWait(n, p, r)
            B == A \ {r}
<1>1. d = DeleteWait(n, p, r) /\ m = restartCheck(d, r) /\ B \subseteq A
  OBVIOUS
<1>2. /\ Agrees(d, B, E, {r}) /\ d.ppn = n.ppn /\ d.state = n.state
      /\ ToSet(d.waitList[p]) = ToSet(n.waitList[p]) \ {r}
  <2>. HIDE DEF d
  <2>. QED BY <1>1, TakesOff
<1>. HIDE DEF d, B
<1>3. d.ppn[r] # NoPut /\ d.state[p] # "WaitForRestart"
  BY <1>2, Targets DEF Waits
<1>4. /\ Agrees(m, B, E, {}) /\ Goes(d, m)
      /\ \A q \in Puts : m.waitList[q] = d.waitList[q]
      /\ \A q \in Puts : d.state[q] # "WaitForRestart" => m.state[q] = d.state[q]
  BY <1>1, <1>2, <1>3, RestartChecked
<1>5. Agrees(m, A, E, {})
  BY <1>1, <1>4, Larger
<1>. QED BY <1>2, <1>3, <1>4, <1>5 DEF Goes

\* A canceled put is taken off all records: none is its own any more.
LEMMA TakenOutKeeps ==
    ASSUME NEW n, NEW A, NEW E, Agrees(n, A, E, {}), NEW p \in Puts, Waits(n, p),
           NEW m, m = TakenOut(n, p)
    PROVE  /\ Agrees(m, A, E, {}) /\ Goes(n, m) /\ m.state[p] = n.state[p]
           /\ \A r \in Records : m.ppn[r] # p
<1>. DEFINE c == n.waitList[p]
            k == Len(c)
<1>1. /\ c \in Seq(Records) /\ IsInjective(c) /\ k \in Nat
      /\ \A r \in Records : r \in ToSet(c) <=> n.ppn[r] = p
  BY Fields DEF Agrees, WaitsTrue
<1>2. PICK f : TakenOutBy(n, p, f)
  BY <1>1, TakenOutUp
<1>. DEFINE T(i) == /\ Agrees(f[i], A, E, {}) /\ Goes(n, f[i]) /\ f[i].state[p] = n.state[p]
                    /\ ToSet(f[i].waitList[p]) = {c[j] : j \in i + 1 .. k}
            S == {i \in 0 .. k : T(i)}
<1>3. 0 \in S
  BY <1>1, <1>2 DEF Goes, ToSet, TakenOutBy
<1>4. ASSUME NEW i \in 0 .. k - 1, i \in S
      PROVE  i + 1 \in S
  <2>. DEFINE r == c[i + 1]
  <2>1. f[i + 1] = restartCheck(DeleteWait(f[i], p, r), r) /\ r \in Records
    BY <1>1, <1>2 DEF TakenOutBy
  <2>2. T(i)
    BY <1>4
  <2>3. Agrees(f[i], A, E, {}) /\ WaitsTrue(f[i], A, {}) /\ Waits(f[i], p)
    BY <2>2 DEF Waits, Agrees
  <2>4. f[i].ppn[r] = p
    <3>1. r \in ToSet(f[i].waitList[p])
      BY <1>1, <2>2
    <3>. QED BY <2>1, <2>3, <3>1 DEF WaitsTrue
  <2>5. /\ Agrees(f[i + 1], A, E, {}) /\ Goes(f[i], f[i + 1])
        /\ f[i + 1].state[p] = f[i].state[p]
        /\ ToSet(f[i + 1].waitList[p]) = ToSet(f[i].waitList[p]) \ {r}
    <3>. DEFINE g == f[i + 1]
                h == f[i]
    <3>1. Agrees(h, A, E, {}) /\ Waits(h, p) /\ g = restartCheck(DeleteWait(h, p, r), r)
      BY <2>1, <2>3
    <3>. HIDE DEF r, T, S, g, h
    <3>2. Agrees(g, A, E, {}) /\ Goes(h, g) /\ g.state[p] = h.state[p]
      BY <2>1, <2>4, <3>1, TakesOne DEF h
    <3>3. ToSet(g.waitList[p]) = ToSet(h.waitList[p]) \ {r}
      BY <2>1, <2>4, <3>1, TakesOne DEF h
    <3>. QED BY <3>2, <3>3 DEF g, h
  <2>8. Agrees(f[i + 1], A, E, {})
    BY <2>5
  <2>9. Goes(n, f[i + 1]) /\ f[i + 1].state[p] = n.state[p]
    BY <2>2, <2>5 DEF Goes
  <2>10. {c[j] : j \in i + 1 + 1 .. k} = {c[j] : j \in i + 1 .. k} \ {r}
    <3>1. \A j \in i + 1 + 1 .. k : c[j] # r
      BY <1>1 DEF IsInjective
    <3>2. \A j \in i + 1 .. k : j = i + 1 \/ j \in i + 1 + 1 .. k
      BY <1>1
    <3>3. \A j \in i + 1 + 1 .. k : j \in i + 1 .. k
      BY <1>1
    <3>. HIDE DEF c, k
    <3>. QED BY <3>1, <3>2, <3>3
  <2>11. ToSet(f[i + 1].waitList[p]) = {c[j] : j \in i + 1 + 1 .. k}
    BY <2>2, <2>5, <2>10
  <2>12. T(i + 1)
    BY <2>8, <2>9, <2>11
  <2>. HIDE DEF T
  <2>. QED BY <1>1, <2>12
<1>5. k \in S
  <2>. HIDE DEF S, k
  <2>. QED BY <1>1, <1>3, <1>4, CountedUp
<1>6. T(k) /\ m = f[k]
  BY <1>2, <1>5 DEF TakenOutBy
<1>7. \A r \in Records : m.ppn[r] # p
  <2>1. ToSet(m.waitList[p]) = {}
    BY <1>1, <1>6
  <2>2. Waits(m, p) /\ WaitsTrue(m, A, {})
    BY <1>6 DEF Waits, Agrees
  <2>. QED BY <2>1, <2>2 DEF WaitsTrue
<1>. QED BY <1>6, <1>7

-----------------------------------------------------------------------------
(* What starts, cancels and callbacks do to notify *)

LEMMA Same ==
    ASSUME NEW n \in Notifies, NEW p \in Puts
    PROVE  SetState(n, p, n.state[p]) = n
  BY DEF Notifies, SetState

\* A put that no record belongs to comes to rest: none waits for it any more.
LEMMA Rests ==
    ASSUME NEW n, NEW A, NEW E, Agrees(n, A, E, {}), NEW p \in Puts,
           \A x \in Records : n.ppn[x] # p, n.state[p] # "WaitForRestart",
           p \notin ToSet(n.callbackQ),
           NEW s \in {"none", "NotActive", "UserCallbackActive"},
           NEW D, \A q \in Puts \ {p} : q \in D <=> q \in E,
           p \in D => s = "UserCallbackActive",
           NEW m, m = SetState(n, p, s)
    PROVE  Agrees(m, A, D, {})
<1>1. /\ n \in Notifies /\ ~n.failed /\ WaitsTrue(n, A, {}) /\ RestartsTrue(n)
      /\ PutsTrue(n, E, {}) /\ CallbacksTrue(n, E)
  BY DEF Agrees
<1>2. s \in States
  BY DEF States
<1>3. /\ m \in Notifies /\ m.failed = n.failed /\ m.ppn = n.ppn /\ m.restartList = n.restartList
      /\ m.state = [n.state EXCEPT ![p] = s] /\ m.waitList = n.waitList
      /\ m.callbackQ = n.callbackQ
  BY <1>1, <1>2, Sets
<1>4. m.state[p] = s /\ \A q \in Puts \ {p} : m.state[q] = n.state[q]
  BY <1>1, <1>3, Fields
<1>5. WaitsTrue(m, A, {})
  <2>1. ASSUME NEW q \in Puts, NEW x \in Records
        PROVE  (m.ppn[x] = q /\ Waits(m, q)) <=> (n.ppn[x] = q /\ Waits(n, q))
    BY <1>3, <1>4 DEF Waits
  <2>. QED BY <1>1, <1>3, <2>1 DEF WaitsTrue
<1>6. RestartsTrue(m)
  <2>1. \A q \in Puts : m.state[q] = "WaitForRestart" <=> n.state[q] = "WaitForRestart"
    BY <1>4
  <2>. QED BY <1>1, <1>3, <2>1 DEF RestartsTrue
<1>7. PutsTrue(m, D, {})
  <2>1. \A x \in Records : m.ppn[x] # NoPut =>
            m.ppn[x] \in Puts \ {p} /\ m.state[m.ppn[x]] = n.state[n.ppn[x]]
    BY <1>1, <1>3, <1>4, Fields
  <2>2. \A q \in Puts : m.state[q] = "RestartCallbackRequested" =>
            q # p /\ n.state[q] = "RestartCallbackRequested"
    BY <1>4
  <2>. QED BY <1>1, <1>3, <2>1, <2>2 DEF PutsTrue
<1>8. CallbacksTrue(m, D)
  BY <1>1, <1>3, <1>4 DEF CallbacksTrue
<1>. QED BY <1>1, <1>3, <1>5, <1>6, <1>7, <1>8 DEF Agrees

\* notifyCallback takes the callback of p off the queue.
CallTaken(n, p) ==
    Asserted([n EXCEPT !.callbackQ = Tail(@)],
             /\ n.state[p] \in {"RestartCallbackRequested", "UserCallbackRequested"}
             /\ n.waitList[p] = <<>>)

\* What it finds, m being left: a finished put, or one that has its record.
Found(n, m, A, E, D, p) ==
    /\ m.state = n.state /\ p \notin E
    /\ n.state[p] \in {"RestartCallbackRequested", "UserCallbackRequested"}
    /\ n.state[p] = "UserCallbackRequested" =>
        Agrees(m, A, D, {}) /\ \A x \in Records : m.ppn[x] # p /\ n.ppn[x] # p
    /\ n.state[p] = "RestartCallbackRequested" =>
        Agrees(m, A, D, {Target[p]}) /\ m.ppn[Target[p]] = p

\* The callback task takes the callback of p: p counts on none for a while.
LEMMA TakesCall ==
    ASSUME NEW n, NEW A, NEW E, Agrees(n, A, E, {}), NEW p \in Puts,
           n.callbackQ # <<>>, Head(n.callbackQ) = p,
           NEW D, D = E \cup {p},
           NEW m, m = CallTaken(n, p)
    PROVE  Found(n, m, A, E, D, p)
<1>. DEFINE l == [n EXCEPT !.callbackQ = Tail(@)]
<1>1. /\ n \in Notifies /\ ~n.failed /\ WaitsTrue(n, A, {}) /\ RestartsTrue(n)
      /\ PutsTrue(n, E, {}) /\ CallbacksTrue(n, E)
  BY DEF Agrees
<1>2. n.callbackQ \in Seq(Puts) /\ IsInjective(n.callbackQ) /\ n.waitList[p] \in Seq(Records)
  BY <1>1, Fields DEF CallbacksTrue
<1>3. /\ Tail(n.callbackQ) \in Seq(Puts) /\ IsInjective(Tail(n.callbackQ))
      /\ p \in ToSet(n.callbackQ) /\ ToSet(Tail(n.callbackQ)) = ToSet(n.callbackQ) \ {p}
  BY <1>2, HeadTaken
<1>4. p \notin E /\ n.state[p] \in {"RestartCallbackRequested", "UserCallbackRequested"}
  BY <1>1, <1>3 DEF CallbacksTrue
<1>5. n.waitList[p] = <<>>
  <2>1. \A x \in Records : x \notin ToSet(n.waitList[p])
    BY <1>1, <1>4 DEF WaitsTrue, Waits
  <2>. QED BY <1>2, <2>1 DEF ToSet
<1>6. /\ l \in Notifies /\ l.callbackQ = Tail(n.callbackQ)
      /\ \A f \in {"ppn", "restartList", "state", "waitList", "failed"} : l[f] = n[f]
  BY <1>1, <1>3 DEF Notifies
<1>7. m = l
  <2>1. l \in Notifies /\ ~l.failed
    BY <1>1, <1>6
  <2>. HIDE DEF l
  <2>. QED BY <1>4, <1>5, <2>1, Holds DEF l, CallTaken
<1>12. /\ m \in Notifies /\ m.failed = n.failed /\ m.ppn = n.ppn
       /\ m.restartList = n.restartList /\ m.state = n.state /\ m.waitList = n.waitList
       /\ m.callbackQ = Tail(n.callbackQ)
  BY <1>6, <1>7
<1>. HIDE DEF l
<1>8. RestartsTrue(m)
  BY <1>1, <1>12 DEF RestartsTrue
<1>9. CallbacksTrue(m, D)
  BY <1>1, <1>3, <1>4, <1>12 DEF CallbacksTrue
<1>10. CASE n.state[p] = "UserCallbackRequested"
  <2>1. WaitsTrue(m, A, {}) /\ PutsTrue(m, D, {})
    BY <1>1, <1>12, <1>10 DEF WaitsTrue, PutsTrue, Waits
  <2>2. \A x \in Records : n.ppn[x] # p
    BY <1>1, <1>10, Targets DEF PutsTrue
  <2>. QED BY <1>1, <1>4, <1>12, <1>8, <1>9, <1>10, <2>1, <2>2 DEF Agrees, Found
<1>11. CASE n.state[p] = "RestartCallbackRequested"
  <2>1. n.ppn[Target[p]] = p
    BY <1>1, <1>4, <1>11 DEF PutsTrue
  <2>2. WaitsTrue(m, A, {Target[p]})
    BY <1>1, <1>12, <1>11, <2>1 DEF WaitsTrue, Waits
  <2>3. PutsTrue(m, D, {Target[p]})
    <3>1. ASSUME NEW q \in Puts, n.state[q] = "RestartCallbackRequested"
          PROVE  q \notin D <=> n.ppn[Target[q]] = q /\ Target[q] \notin {Target[p]}
      BY <1>1, <2>1, <3>1 DEF PutsTrue
    <3>. QED BY <1>1, <1>12, <3>1 DEF PutsTrue
  <2>. QED BY <1>1, <1>4, <1>12, <1>8, <1>9, <1>11, <2>1, <2>2, <2>3 DEF Agrees, Found
<1>. QED BY <1>4, <1>10, <1>11 DEF Found

\* A put goes to the end of the restart list of its record.
Queued(n, p) ==
    SetState([n EXCEPT !.restartList[Target[p]] = Append(@, p)], p, "WaitForRestart")

\* A put waits for its turn on the record of another put.
LEMMA Queues ==
    ASSUME NEW n, NEW A, NEW E, Agrees(n, A, E, {}), NEW p \in Puts,
           n.state[p] = "NotActive", n.ppn[Target[p]] # NoPut,
           NEW m, m = Queued(n, p)
    PROVE  /\ Agrees(m, A, E, {}) /\ m.state[p] = "WaitForRestart"
           /\ \A q \in Puts \ {p} : m.state[q] = n.state[q]
<1>. DEFINE t == Target[p]
            lists == [n.restartList EXCEPT ![t] = Append(@, p)]
            l == [n EXCEPT !.restartList = lists]
<1>1. /\ n \in Notifies /\ ~n.failed /\ WaitsTrue(n, A, {}) /\ RestartsTrue(n)
      /\ PutsTrue(n, E, {}) /\ CallbacksTrue(n, E) /\ t \in Records
  BY Targets DEF Agrees
<1>2. /\ n.restartList[t] \in Seq(Puts) /\ IsInjective(n.restartList[t])
      /\ p \notin ToSet(n.restartList[t])
  BY <1>1, Fields DEF RestartsTrue
<1>3. /\ Append(n.restartList[t], p) \in Seq(Puts) /\ IsInjective(Append(n.restartList[t], p))
      /\ ToSet(Append(n.restartList[t], p)) = ToSet(n.restartList[t]) \cup {p}
  BY <1>2, Appended
<1>4. lists \in [Records -> Seq(Puts)]
  BY <1>1, <1>3, Fields
<1>5. m = SetState(l, p, "WaitForRestart")
  BY DEF Queued
<1>6. /\ l \in Notifies /\ l.restartList = lists
      /\ \A f \in {"ppn", "callbackQ", "state", "waitList", "failed"} : l[f] = n[f]
  <2>. HIDE DEF lists
  <2>. QED BY <1>1, <1>4 DEF Notifies
<1>. HIDE DEF l
<1>7. /\ m \in Notifies /\ m.failed = n.failed /\ m.ppn = n.ppn /\ m.restartList = lists
      /\ m.state = [n.state EXCEPT ![p] = "WaitForRestart"] /\ m.waitList = n.waitList
      /\ m.callbackQ = n.callbackQ
  <2>. HIDE DEF lists
  <2>1. "WaitForRestart" \in States
    BY DEF States
  <2>. QED BY <1>5, <1>6, <2>1, Sets
<1>. HIDE DEF t
<1>8. /\ m.state[p] = "WaitForRestart" /\ (\A q \in Puts \ {p} : m.state[q] = n.state[q])
      /\ m.restartList[t] = Append(n.restartList[t], p)
      /\ \A x \in Records \ {t} : m.restartList[x] = n.restartList[x]
  BY <1>1, <1>7, Fields
<1>. HIDE DEF lists
<1>9. WaitsTrue(m, A, {})
  <2>1. \A q \in Puts : Waits(m, q) <=> Waits(n, q)
    BY <1>8 DEF Waits
  <2>. QED BY <1>1, <1>7, <2>1 DEF WaitsTrue
<1>10. RestartsTrue(m)
  <2>1. /\ IsInjective(m.restartList[t]) /\ n.ppn[t] # NoPut
        /\ \A q \in Puts : q \in ToSet(m.restartList[t]) <=>
               Target[q] = t /\ m.state[q] = "WaitForRestart"
    BY <1>1, <1>3, <1>8 DEF RestartsTrue, t
  <2>2. ASSUME NEW x \in Records \ {t}
        PROVE  /\ IsInjective(m.restartList[x])
               /\ \A q \in Puts : q \in ToSet(m.restartList[x]) <=>
                      Target[q] = x /\ m.state[q] = "WaitForRestart"
               /\ m.restartList[x] # <<>> => n.ppn[x] # NoPut
    BY <1>1, <1>8 DEF RestartsTrue, t
  <2>. QED BY <1>7, <2>1, <2>2 DEF RestartsTrue
<1>11. PutsTrue(m, E, {})
  <2>1. \A x \in Records : n.ppn[x] # p
    BY <1>1, Targets DEF PutsTrue
  <2>2. \A x \in Records : m.ppn[x] # NoPut =>
            m.ppn[x] \in Puts \ {p} /\ m.state[m.ppn[x]] = n.state[n.ppn[x]]
    BY <1>1, <1>7, <1>8, <2>1, Fields
  <2>. QED BY <1>1, <1>7, <1>8, <2>2 DEF PutsTrue
<1>12. CallbacksTrue(m, E)
  BY <1>1, <1>7, <1>8 DEF CallbacksTrue
<1>. QED BY <1>1, <1>7, <1>8, <1>9, <1>10, <1>11, <1>12 DEF Agrees

\* dbNotifyCancel takes it off that list.
Unqueued(n, p) ==
    SetState([Asserted(n, n.ppn[Target[p]] \notin {NoPut, p})
              EXCEPT !.restartList[Target[p]] = RemoveFirst(@, p)], p, "none")

\* A put that is canceled while it waits for its turn leaves no trace.
LEMMA Unqueues ==
    ASSUME NEW n, NEW A, NEW E, Agrees(n, A, E, {}), NEW p \in Puts,
           n.state[p] = "WaitForRestart", NEW m, m = Unqueued(n, p)
    PROVE  /\ Agrees(m, A, E, {}) /\ m.state[p] = "none"
           /\ \A q \in Puts \ {p} : m.state[q] = n.state[q]
<1>. DEFINE t == Target[p]
            lists == [n.restartList EXCEPT ![t] = RemoveFirst(@, p)]
            l == [n EXCEPT !.restartList = lists]
<1>1. /\ n \in Notifies /\ ~n.failed /\ WaitsTrue(n, A, {}) /\ RestartsTrue(n)
      /\ PutsTrue(n, E, {}) /\ CallbacksTrue(n, E) /\ t \in Records
  BY Targets DEF Agrees
<1>2. /\ n.restartList[t] \in Seq(Puts) /\ IsInjective(n.restartList[t])
      /\ p \in ToSet(n.restartList[t])
  BY <1>1, Fields DEF RestartsTrue
<1>3. /\ RemoveFirst(n.restartList[t], p) \in Seq(Puts)
      /\ IsInjective(RemoveFirst(n.restartList[t], p))
      /\ ToSet(RemoveFirst(n.restartList[t], p)) = ToSet(n.restartList[t]) \ {p}
  BY <1>2, Removed
<1>4. lists \in [Records -> Seq(Puts)]
  BY <1>1, <1>3, Fields
<1>5. \A x \in Records : n.ppn[x] # p
  BY <1>1, Targets DEF PutsTrue
<1>6. m = SetState(l, p, "none")
  <2>1. n.restartList[t] # <<>>
    BY <1>2 DEF ToSet
  <2>2. n.ppn[t] \notin {NoPut, p}
    BY <1>1, <1>5, <2>1 DEF RestartsTrue
  <2>3. Asserted(n, n.ppn[t] \notin {NoPut, p}) = n
    BY <1>1, <2>2, Holds
  <2>. QED BY <2>3 DEF Unqueued
<1>7. /\ l \in Notifies /\ l.restartList = lists
      /\ \A f \in {"ppn", "callbackQ", "state", "waitList", "failed"} : l[f] = n[f]
  <2>. HIDE DEF lists
  <2>. QED BY <1>1, <1>4 DEF Notifies
<1>. HIDE DEF l
<1>8. /\ m \in Notifies /\ m.failed = n.failed /\ m.ppn = n.ppn /\ m.restartList = lists
      /\ m.state = [n.state EXCEPT ![p] = "none"] /\ m.waitList = n.waitList
      /\ m.callbackQ = n.callbackQ
  <2>. HIDE DEF lists
  <2>1. "none" \in States
    BY DEF States
  <2>. QED BY <1>6, <1>7, <2>1, Sets
<1>. HIDE DEF t
<1>9. /\ m.state[p] = "none" /\ (\A q \in Puts \ {p} : m.state[q] = n.state[q])
      /\ m.restartList[t] = RemoveFirst(n.restartList[t], p)
      /\ \A x \in Records \ {t} : m.restartList[x] = n.restartList[x]
  BY <1>1, <1>8, Fields
<1>. HIDE DEF lists
<1>10. WaitsTrue(m, A, {})
  <2>1. \A q \in Puts : Waits(m, q) <=> Waits(n, q)
    BY <1>9 DEF Waits
  <2>. QED BY <1>1, <1>8, <2>1 DEF WaitsTrue
<1>11. RestartsTrue(m)
  <2>1. /\ IsInjective(m.restartList[t])
        /\ \A q \in Puts : q \in ToSet(m.restartList[t]) <=>
               Target[q] = t /\ m.state[q] = "WaitForRestart"
    BY <1>1, <1>3, <1>9 DEF RestartsTrue, t
  <2>2. n.ppn[t] # NoPut
    <3>1. n.restartList[t] # <<>>
      BY <1>2 DEF ToSet
    <3>. QED BY <1>1, <3>1 DEF RestartsTrue
  <2>3. ASSUME NEW x \in Records \ {t}
        PROVE  /\ IsInjective(m.restartList[x])
               /\ \A q \in Puts : q \in ToSet(m.restartList[x]) <=>
                      Target[q] = x /\ m.state[q] = "WaitForRestart"
               /\ m.restartList[x] # <<>> => n.ppn[x] # NoPut
    BY <1>1, <1>9 DEF RestartsTrue, t
  <2>. QED BY <1>8, <2>1, <2>2, <2>3 DEF RestartsTrue
<1>12. PutsTrue(m, E, {})
  <2>1. \A x \in Records : m.ppn[x] # NoPut =>
            m.ppn[x] \in Puts \ {p} /\ m.state[m.ppn[x]] = n.state[n.ppn[x]]
    BY <1>1, <1>5, <1>8, <1>9, Fields
  <2>. QED BY <1>1, <1>8, <1>9, <2>1 DEF PutsTrue
<1>13. CallbacksTrue(m, E)
  BY <1>1, <1>8, <1>9 DEF CallbacksTrue
<1>. QED BY <1>1, <1>8, <1>9, <1>10, <1>11, <1>12, <1>13 DEF Agrees

-----------------------------------------------------------------------------
(* putNotifyCommon *)

\* It is called for a put that is new, or whose turn has come and whose
\* callback the callback task has taken.
Ready(n, A, E, p) ==
    \/ n.state[p] = "NotActive" /\ Agrees(n, A, E, {})
    \/ /\ n.state[p] = "RestartCallbackRequested" /\ n.ppn[Target[p]] = p /\ p \notin E
       /\ Agrees(n, A, E \cup {p}, {Target[p]})

\* If it need not queue, then no other put has the record.
LEMMA Begins ==
    ASSUME NEW n, NEW A, NEW E, NEW p \in Puts, Ready(n, A, E, p), ~MustQueue(n, p),
           NEW k, k = SetState(n, p, "NotActive")
    PROVE  n \in Notifies /\ p \notin E /\ Agrees(k, A, E, {Target[p]})
<1>. DEFINE t == Target[p]
<1>1. t \in Records
  BY Targets
<1>2. CASE n.state[p] = "NotActive" /\ Agrees(n, A, E, {})
  <2>1. /\ n \in Notifies /\ ~n.failed /\ WaitsTrue(n, A, {}) /\ RestartsTrue(n)
        /\ PutsTrue(n, E, {}) /\ CallbacksTrue(n, E)
    BY <1>2 DEF Agrees
  <2>2. k = n
    BY <1>2, <2>1, Same
  <2>3. n.ppn[t] = NoPut /\ \A q \in Puts : n.ppn[t] # q
    BY <1>2, Targets DEF MustQueue
  <2>. HIDE DEF t
  <2>4. WaitsTrue(n, A, {t})
    BY <2>1, <2>3 DEF WaitsTrue
  <2>5. PutsTrue(n, E, {t})
    BY <2>1, <2>3 DEF PutsTrue
  <2>6. p \notin E
    BY <1>2, <2>1 DEF CallbacksTrue
  <2>. QED BY <2>1, <2>2, <2>4, <2>5, <2>6 DEF Agrees, t
<1>3. CASE /\ n.state[p] = "RestartCallbackRequested" /\ n.ppn[Target[p]] = p /\ p \notin E
           /\ Agrees(n, A, E \cup {p}, {Target[p]})
  <2>. DEFINE D == E \cup {p}
  <2>1. /\ n \in Notifies /\ ~n.failed /\ WaitsTrue(n, A, {t}) /\ RestartsTrue(n)
        /\ PutsTrue(n, D, {t}) /\ CallbacksTrue(n, D)
    BY <1>3 DEF Agrees
  <2>2. /\ k \in Notifies /\ k.failed = n.failed /\ k.ppn = n.ppn
        /\ k.restartList = n.restartList /\ k.waitList = n.waitList
        /\ k.callbackQ = n.callbackQ /\ k.state = [n.state EXCEPT ![p] = "NotActive"]
    BY <2>1, Sets DEF States
  <2>3. k.state[p] = "NotActive" /\ \A q \in Puts \ {p} : k.state[q] = n.state[q]
    BY <2>1, <2>2, Fields
  <2>4. \A x \in Records \ {t} : n.ppn[x] # p
    BY <1>3, <2>1, Targets DEF PutsTrue
  <2>. HIDE DEF t
  <2>5. WaitsTrue(k, A, {t})
    <3>1. \A q \in Puts : Waits(k, q) <=> Waits(n, q)
      BY <1>3, <2>3 DEF Waits
    <3>. QED BY <2>1, <2>2, <3>1 DEF WaitsTrue
  <2>6. RestartsTrue(k)
    <3>1. \A q \in Puts : k.state[q] = "WaitForRestart" <=> n.state[q] = "WaitForRestart"
      BY <1>3, <2>3
    <3>. QED BY <2>1, <2>2, <3>1 DEF RestartsTrue
  <2>7. PutsTrue(k, E, {t})
    <3>1. \A x \in Records \ {t} : k.ppn[x] # NoPut =>
              k.ppn[x] \in Puts \ {p} /\ k.state[k.ppn[x]] = n.state[n.ppn[x]]
      BY <2>1, <2>2, <2>3, <2>4, Fields
    <3>2. ASSUME NEW q \in Puts, k.state[q] = "RestartCallbackRequested"
          PROVE  q \notin E <=> k.ppn[Target[q]] = q /\ Target[q] \notin {t}
      <4>1. q # p /\ n.state[q] = "RestartCallbackRequested"
        BY <2>3, <3>2
      <4>. QED BY <2>1, <2>2, <4>1 DEF PutsTrue
    <3>. QED BY <2>1, <2>2, <3>1, <3>2 DEF PutsTrue
  <2>8. CallbacksTrue(k, E)
    BY <1>3, <2>1, <2>2, <2>3 DEF CallbacksTrue
  <2>. QED BY <1>3, <2>1, <2>2, <2>5, <2>6, <2>7, <2>8 DEF Agrees, t
<1>. QED BY <1>2, <1>3 DEF Ready

\* How the states of the other puts change.
OthersGo(n, m, p) == \A q \in Puts \ {p} :
    \/ m.state[q] = n.state[q]
    \/ /\ n.state[q] \in {"WaitForRestart", "RestartInProgress", "PutInProgress"}
       /\ m.state[q] \in {"RestartCallbackRequested", "UserCallbackRequested"}

\* The put has ended at once: the user is told.
Ended(n, p) ==
    LET a == IF n.state[p] = "RestartCallbackRequested" THEN restartCheck(n, Target[p]) ELSE n
    IN  Asserted(SetState(a, p, "UserCallbackActive"), a.ppn[Target[p]] # p)

LEMMA Ends ==
    ASSUME NEW n, NEW A, NEW E, NEW p \in Puts, Ready(n, A, E, p), ~MustQueue(n, p),
           NEW m, m = Ended(n, p)
    PROVE  Agrees(m, A, E, {}) /\ m.state[p] = "UserCallbackActive" /\ OthersGo(n, m, p)
<1>. DEFINE t == Target[p]
            a == IF n.state[p] = "RestartCallbackRequested" THEN restartCheck(n, t) ELSE n
            s == SetState(a, p, "UserCallbackActive")
<1>1. t \in Records /\ NoPut \notin Puts
  BY Targets
<1>2. /\ \E D : /\ Agrees(a, A, D, {}) /\ (\A q \in Puts \ {p} : q \in D <=> q \in E)
                /\ p \notin ToSet(a.callbackQ)
      /\ p \notin E /\ a.state[p] # "WaitForRestart" /\ (\A x \in Records : a.ppn[x] # p)
      /\ OthersGo(n, a, p)
  <2>1. CASE n.state[p] = "NotActive" /\ Agrees(n, A, E, {})
    <3>1. a = n
      BY <2>1
    <3>2. PutsTrue(n, E, {}) /\ CallbacksTrue(n, E)
      BY <2>1 DEF Agrees
    <3>. QED BY <2>1, <3>1, <3>2, Targets DEF PutsTrue, CallbacksTrue, OthersGo
  <2>2. CASE /\ n.state[p] = "RestartCallbackRequested" /\ n.ppn[Target[p]] = p /\ p \notin E
             /\ Agrees(n, A, E \cup {p}, {Target[p]})
    <3>. DEFINE D == E \cup {p}
    <3>1. a = restartCheck(n, t) /\ Agrees(n, A, D, {t}) /\ n.ppn[t] # NoPut
      BY <1>1, <2>2
    <3>2. p \in D /\ \A q \in Puts \ {p} : q \in D <=> q \in E
      OBVIOUS
    <3>. HIDE DEF a, t, D
    <3>3. /\ Agrees(a, A, D, {}) /\ Goes(n, a)
          /\ \A q \in Puts : n.state[q] # "WaitForRestart" => a.state[q] = n.state[q]
      BY <1>1, <3>1, RestartChecked
    <3>4. PutsTrue(a, D, {}) /\ CallbacksTrue(a, D) /\ a.state[p] = "RestartCallbackRequested"
      BY <2>2, <3>3 DEF Agrees
    <3>5. \A x \in Records : a.ppn[x] # p
      <4>1. a.ppn[Target[p]] # p
        BY <3>2, <3>4 DEF PutsTrue
      <4>. QED BY <3>4, <4>1, Targets DEF PutsTrue
    <3>6. p \notin ToSet(a.callbackQ)
      BY <3>2, <3>4 DEF CallbacksTrue
    <3>. QED BY <2>2, <3>2, <3>3, <3>4, <3>5, <3>6 DEF Goes, OthersGo
  <2>. QED BY <2>1, <2>2 DEF Ready
<1>. HIDE DEF a
<1>3. PICK D : /\ Agrees(a, A, D, {}) /\ (\A q \in Puts \ {p} : q \in D <=> q \in E)
               /\ p \notin ToSet(a.callbackQ)
  BY <1>2
<1>4. a \in Notifies /\ "UserCallbackActive" \in States
  BY <1>3 DEF Agrees, States
<1>5. s.ppn = a.ppn /\ s.state = [a.state EXCEPT ![p] = "UserCallbackActive"]
  BY <1>4, Sets
<1>6. Agrees(s, A, E, {})
  <2>1. s = SetState(a, p, "UserCallbackActive")
    OBVIOUS
  <2>2. \A q \in Puts \ {p} : q \in E <=> q \in D
    BY <1>3
  <2>. HIDE DEF s
  <2>. QED BY <1>2, <1>3, <2>1, <2>2, Rests
<1>7. m = s
  <2>1. s \in Notifies /\ ~s.failed /\ a.ppn[t] # p
    BY <1>1, <1>2, <1>6 DEF Agrees
  <2>2. m = Asserted(s, a.ppn[t] # p)
    BY DEF Ended, a
  <2>. HIDE DEF s
  <2>. QED BY <2>1, <2>2, Holds
<1>8. s.state[p] = "UserCallbackActive" /\ \A q \in Puts \ {p} : s.state[q] = a.state[q]
  BY <1>4, <1>5, Fields
<1>. QED BY <1>2, <1>6, <1>7, <1>8 DEF OthersGo

\* The put is queued, waits for its device or is processed.
LEMMA CommonBusy ==
    ASSUME pact \in [Records -> BOOLEAN], NEW n, NEW E, NEW p \in Puts, Ready(n, Active, E, p),
           CommonWait(n, p) \/ CommonActive(n, p) \/ CommonProcess(n, p)
    PROVE  /\ Agrees(notify', Active', E, {}) /\ pact' \in [Records -> BOOLEAN]
           /\ notify'.state[p] \in {"WaitForRestart", "RestartCallbackRequested",
                  "RestartInProgress", "PutInProgress", "UserCallbackRequested"}
           /\ OthersGo(n, notify', p)
<1>. DEFINE t == Target[p]
            k == SetState(n, p, "NotActive")
<1>1. t \in Records
  BY Targets
<1>2. CASE CommonWait(n, p)
  <2>1. Agrees(n, Active, E, {}) /\ n.state[p] = "NotActive" /\ n.ppn[Target[p]] # NoPut
    BY <1>2 DEF Ready, CommonWait, MustQueue
  <2>2. notify' = Queued(n, p) /\ Active' = Active /\ pact' = pact
    BY <1>2 DEF CommonWait, Queued, Active
  <2>3. /\ Agrees(notify', Active, E, {}) /\ notify'.state[p] = "WaitForRestart"
        /\ \A q \in Puts \ {p} : notify'.state[q] = n.state[q]
    BY <2>1, <2>2, Queues
  <2>. QED BY <2>2, <2>3 DEF OthersGo
<1>3. ASSUME ~MustQueue(n, p), NEW s \in {"RestartInProgress", "PutInProgress"},
             NEW A, Active \subseteq A, t \in A,
             NEW m, m = SetState(AddWait(SetOwner(n, t, p), p, t), p, s)
      PROVE  Agrees(m, A, E, {}) /\ m.state[p] = s /\ OthersGo(n, m, p)
  <2>1. n \in Notifies /\ p \in Puts \ E /\ Agrees(k, Active, E, {Target[p]})
    <3>1. k = SetState(n, p, "NotActive")
      OBVIOUS
    <3>. HIDE DEF k
    <3>. QED BY <1>3, <3>1, Begins
  <2>2. Agrees(k, A, E, {Target[p]})
    <3>. HIDE DEF k
    <3>. QED BY <1>3, <2>1, Larger
  <2>3. Agrees(m, A, E, {})
    <3>1. k = SetState(n, p, "NotActive") /\ t = Target[p]
      OBVIOUS
    <3>2. Target[p] \in A /\ m = SetState(AddWait(SetOwner(n, Target[p], p), p, Target[p]), p, s)
      BY <1>3
    <3>. HIDE DEF k, t
    <3>. QED BY <2>1, <2>2, <3>1, <3>2, Starts
  <2>4. m.state[p] = s /\ \A q \in Puts \ {p} : m.state[q] = n.state[q]
    <3>. DEFINE w == AddWait(SetOwner(n, t, p), p, t)
    <3>1. w \in Notifies /\ w.state = n.state
      <4>1. /\ SetOwner(n, t, p) \in Notifies /\ SetOwner(n, t, p).state = n.state
            /\ SetOwner(n, t, p).waitList = n.waitList /\ SetOwner(n, t, p).failed = n.failed
        <5>1. p \in Puts \cup {NoPut} /\ n \in Notifies
          BY <2>1
        <5>. HIDE DEF t
        <5>. QED BY <1>1, <5>1, Owned
      <4>2. ~n.failed /\ WaitsTrue(k, Active, {t}) /\ k.waitList = n.waitList
        BY <2>1, Sets DEF Agrees, States
      <4>3. (\A q \in Puts : t \notin ToSet(n.waitList[q])) /\ IsInjective(n.waitList[p])
        BY <1>1, <4>2 DEF WaitsTrue
      <4>4. Unlisted(SetOwner(n, t, p), p, t)
        BY <4>1, <4>2, <4>3 DEF Unlisted
      <4>5. w = AddWait(SetOwner(n, t, p), p, t)
        BY DEF w
      <4>. HIDE DEF t, w
      <4>6. Listed(SetOwner(n, t, p), w, p, t)
        BY <1>1, <4>4, <4>5, AddsTo
      <4>. QED BY <4>1, <4>6 DEF Listed
    <3>2. m = SetState(w, p, s) /\ s \in States
      BY <1>3 DEF States
    <3>. HIDE DEF w
    <3>3. m.state = [w.state EXCEPT ![p] = s]
      BY <3>1, <3>2, Sets
    <3>. QED BY <2>1, <3>1, <3>3, Fields
  <2>. QED BY <2>3, <2>4 DEF OthersGo
<1>4. CASE CommonActive(n, p)
  <2>1. /\ ~MustQueue(n, p) /\ t \in Active /\ Active' = Active /\ pact' = pact
        /\ notify' = SetState(AddWait(SetOwner(n, t, p), p, t), p, "RestartInProgress")
    BY <1>1, <1>4 DEF CommonActive, Active
  <2>2. /\ Agrees(notify', Active, E, {}) /\ notify'.state[p] = "RestartInProgress"
        /\ OthersGo(n, notify', p)
    <3>. HIDE DEF t
    <3>. QED BY <1>3, <2>1
  <2>. QED BY <2>1, <2>2
<1>5. CASE CommonProcess(n, p)
  <2>. DEFINE m == SetState(AddWait(SetOwner(n, t, p), p, t), p, "PutInProgress")
  <2>1. PICK run \in Runs(t, 1) : notify' = Followed(m, run) /\ pact' = Activated(run, {})
    BY <1>5 DEF CommonProcess, dbProcess
  <2>2. Agrees(m, Active \cup {t}, E, {}) /\ m.state[p] = "PutInProgress" /\ OthersGo(n, m, p)
    <3>1. ~MustQueue(n, p)
      BY <1>5 DEF CommonProcess
    <3>2. m = SetState(AddWait(SetOwner(n, t, p), p, t), p, "PutInProgress")
      OBVIOUS
    <3>3. Active \subseteq Active \cup {t} /\ t \in Active \cup {t}
      OBVIOUS
    <3>. HIDE DEF t, m
    <3>. QED BY <1>3, <3>1, <3>2, <3>3
  <2>. DEFINE A == Active \cup {t}
  <2>5. Agrees(m, A, E, {}) /\ A \subseteq Active \cup {t}
    BY <2>2
  <2>. HIDE DEF m, t, A
  <2>3. \A x \in Records : pact'[x] => x \in Active'
    BY DEF Active
  <2>4. Left(m, notify', E, pact', Active')
    BY <1>1, <2>1, <2>3, <2>5, Follows
  <2>. QED BY <2>2, <2>4 DEF Goes, OthersGo, Left
<1>. QED BY <1>2, <1>4, <1>5

\* The put has ended at once.
LEMMA CommonEnds ==
    ASSUME NEW n, NEW E, NEW p \in Puts, Ready(n, Active, E, p), CommonDone(n, p)
    PROVE  /\ Agrees(notify', Active', E, {}) /\ pact' = pact
           /\ notify'.state[p] = "UserCallbackActive" /\ OthersGo(n, notify', p)
<1>1. /\ ~MustQueue(n, p) /\ notify' = Ended(n, p) /\ pact' = pact /\ Active' = Active
  BY DEF CommonDone, Ended, Active
<1>. QED BY <1>1, Ends

-----------------------------------------------------------------------------
(* The invariant is kept *)

UserTypes ==
    /\ cancelWait \in [Puts -> BOOLEAN] /\ userCallbackWait \in [Puts -> BOOLEAN]
    /\ cancelEvent \in [Puts -> BOOLEAN] /\ userCallbackEvent \in [Puts -> BOOLEAN]
    /\ pc \in [Puts -> {"idle", "busy", "blocked", "calling", "cancel"}]
    /\ cpc \in Puts \cup {NoPut}

LEMMA Parts ==
    ASSUME IInv
    PROVE  /\ Agrees(notify, Active, Canceled, {})
           /\ pact \in [Records -> BOOLEAN] /\ UserTypes
           /\ \A p \in Puts : UserTrue(p, notify.state[p])
  BY DEF IInv, TypeOK, UserTypes

LEMMA Whole ==
    ASSUME Agrees(notify, Active, Canceled, {}), pact \in [Records -> BOOLEAN], UserTypes,
           \A p \in Puts : UserTrue(p, notify.state[p])
    PROVE  IInv
  BY DEF IInv, TypeOK, UserTypes, Agrees, CallbacksTrue

\* Nothing of the user of put q changes.
Undisturbed(q) ==
    /\ cancelWait'[q] = cancelWait[q] /\ userCallbackWait'[q] = userCallbackWait[q]
    /\ cancelEvent'[q] = cancelEvent[q] /\ userCallbackEvent'[q] = userCallbackEvent[q]
    /\ pc'[q] = pc[q] /\ (cpc' = q <=> cpc = q)
Proceeds(q) ==
    \/ notify'.state[q] = notify.state[q]
    \/ /\ notify.state[q] \in {"WaitForRestart", "RestartInProgress", "PutInProgress"}
       /\ notify'.state[q] \in {"RestartCallbackRequested", "UserCallbackRequested"}

LEMMA StaysTrue ==
    ASSUME NEW q \in Puts, UserTypes, UserTrue(q, notify.state[q]), Undisturbed(q), Proceeds(q)
    PROVE  UserTrue(q, notify.state[q])'
  BY DEF UserTypes, UserTrue, Undisturbed, Proceeds

\* A step of put p leaves the other puts alone but for what it gives them.
LEMMA Moved ==
    ASSUME NEW p \in Puts, IInv, Agrees(notify', Active', Canceled', {}),
           pact' \in [Records -> BOOLEAN], UserTypes', UserTrue(p, notify.state[p])',
           \A q \in Puts \ {p} : Undisturbed(q) /\ Proceeds(q)
    PROVE  IInv'
<1>1. ASSUME NEW q \in Puts
      PROVE  UserTrue(q, notify.state[q])'
  <2>1. UserTypes /\ UserTrue(q, notify.state[q])
    BY Parts
  <2>. QED BY <2>1, StaysTrue
<1>. QED BY <1>1 DEF IInv, TypeOK, UserTypes, Agrees, CallbacksTrue

LEMMA InitTrue == Init => IInv
<1>. SUFFICES ASSUME Init PROVE IInv
  OBVIOUS
<1>1. notify \in Notifies /\ ~notify.failed
  BY DEF Init, Notifies, States
<1>2. /\ \A p \in Puts : notify.state[p] = "none" /\ notify.waitList[p] = <<>>
      /\ \A r \in Records : notify.ppn[r] = NoPut /\ notify.restartList[r] = <<>>
      /\ notify.callbackQ = <<>>
  BY DEF Init
<1>3. IsInjective(<<>>) /\ ToSet(<<>>) = {} /\ Canceled = {}
  BY DEF IsInjective, ToSet, Init, Canceled
<1>4. Agrees(notify, Active, Canceled, {})
  <2>1. WaitsTrue(notify, Active, {})
    BY <1>2, <1>3 DEF WaitsTrue, Waits
  <2>2. RestartsTrue(notify)
    BY <1>2, <1>3 DEF RestartsTrue
  <2>3. PutsTrue(notify, Canceled, {})
    BY <1>2, <1>3 DEF PutsTrue
  <2>4. CallbacksTrue(notify, Canceled)
    BY <1>2, <1>3 DEF CallbacksTrue
  <2>. QED BY <1>1, <2>1, <2>2, <2>3, <2>4 DEF Agrees
<1>5. pact \in [Records -> BOOLEAN] /\ UserTypes
  BY DEF Init, UserTypes
<1>6. \A p \in Puts : UserTrue(p, notify.state[p])
  BY <1>2, Targets DEF Init, UserTrue
<1>7. pact \in [Records -> BOOLEAN] /\ UserTypes
  BY <1>5
<1>. QED BY <1>4, <1>6, <1>7, Whole

\* A record is processed, by a thread or because its device answers.
LEMMA RecordStep ==
    ASSUME IInv, NEW r \in Records, Scan(r) \/ DeviceAnswers(r)
    PROVE  IInv'
<1>1. /\ Agrees(notify, Active, Canceled, {})
      /\ pact \in [Records -> BOOLEAN] /\ UserTypes
      /\ \A p \in Puts : UserTrue(p, notify.state[p])
  BY Parts
<1>2. PICK from, F, run : /\ from = 1 \/ from = 2
                          /\ \A x \in F : x = r /\ from = 2
                          /\ run \in Runs(r, from)
                          /\ notify' = Followed(notify, run) /\ pact' = Activated(run, F)
  <2>1. CASE Scan(r)
    <3>1. PICK run \in Runs(r, 1) : notify' = Followed(notify, run) /\ pact' = Activated(run, {})
      BY <2>1 DEF Scan, dbProcess
    <3>. QED BY <3>1
  <2>2. CASE DeviceAnswers(r)
    <3>1. PICK run \in Runs(r, 2) : notify' = Followed(notify, run) /\ pact' = Activated(run, {r})
      BY <2>2 DEF DeviceAnswers
    <3>. QED BY <3>1
  <2>. QED BY <2>1, <2>2
<1>3. Left(notify, notify', Canceled, pact', Active')
  <2>1. Active \subseteq Active \cup {r} /\ \A x \in Records : pact'[x] => x \in Active'
    BY DEF Active
  <2>. QED BY <1>1, <1>2, <2>1, Follows
<1>4. UNCHANGED <<cancelWait, userCallbackWait, cancelEvent, userCallbackEvent, pc, cpc>>
  BY DEF Scan, DeviceAnswers, waits, events
<1>5. Canceled' = Canceled /\ UserTypes'
  BY <1>1, <1>4 DEF Canceled, UserTypes
<1>6. ASSUME NEW q \in Puts
      PROVE  UserTrue(q, notify.state[q])'
  <2>1. Undisturbed(q) /\ Proceeds(q)
    BY <1>3, <1>4 DEF Undisturbed, Proceeds, Left, Goes
  <2>. QED BY <1>1, <2>1, StaysTrue
<1>. QED BY <1>3, <1>5, <1>6 DEF IInv, TypeOK, UserTypes, Agrees, CallbacksTrue, Left

\* A user starts a put, or starts it again after the callback.
LEMMA BeginStep ==
    ASSUME IInv, NEW p \in Puts, dbPutNotify(p) \/ PutWaited(p)
    PROVE  IInv'
<1>. DEFINE i == SetState(notify, p, "NotActive")
<1>1. /\ Agrees(notify, Active, Canceled, {})
      /\ pact \in [Records -> BOOLEAN] /\ UserTypes
      /\ UserTrue(p, notify.state[p])
  BY Parts
<1>2. /\ notify \in Notifies /\ PutsTrue(notify, Canceled, {}) /\ CallbacksTrue(notify, Canceled)
  BY <1>1 DEF Agrees
<1>3. /\ notify.state[p] \in {"none", "UserCallbackActive"} /\ ~cancelEvent[p] /\ ~cancelWait[p]
      /\ ~userCallbackWait[p] /\ cpc # p
      /\ Begin(notify, p) /\ UNCHANGED <<cancelWait, userCallbackWait, cancelEvent, cpc>>
      /\ userCallbackEvent' = [userCallbackEvent EXCEPT ![p] = FALSE]
  <2>1. CASE dbPutNotify(p)
    <3>1. pc[p] = "idle" /\ notify.state[p] = "none" /\ UNCHANGED <<waits, events, cpc>>
          /\ Begin(notify, p)
      BY <2>1 DEF dbPutNotify
    <3>2. ~userCallbackEvent[p] /\ ~cancelEvent[p] /\ ~cancelWait[p] /\ ~userCallbackWait[p]
          /\ cpc # p
      BY <1>1, <3>1 DEF UserTrue
    <3>3. [userCallbackEvent EXCEPT ![p] = FALSE] = userCallbackEvent
      BY <1>1, <3>2 DEF UserTypes
    <3>. QED BY <3>1, <3>2, <3>3 DEF waits, events
  <2>2. CASE PutWaited(p)
    <3>1. /\ pc[p] = "blocked" /\ userCallbackEvent[p] /\ UNCHANGED <<waits, cancelEvent, cpc>>
          /\ Begin(notify, p) /\ userCallbackEvent' = [userCallbackEvent EXCEPT ![p] = FALSE]
      BY <2>2 DEF PutWaited
    <3>2. /\ ~cancelEvent[p] /\ ~cancelWait[p] /\ ~userCallbackWait[p] /\ cpc # p
          /\ notify.state[p] = "UserCallbackActive"
      BY <1>1, <3>1 DEF UserTrue
    <3>. QED BY <3>1, <3>2 DEF waits
  <2>. QED BY <2>1, <2>2
<1>4. i.state[p] = "NotActive" /\ \A q \in Puts \ {p} : i.state[q] = notify.state[q]
  <2>1. "NotActive" \in States
    BY DEF States
  <2>2. i.state = [notify.state EXCEPT ![p] = "NotActive"]
    BY <1>2, <2>1, Sets
  <2>. QED BY <1>2, <2>2, Fields
<1>5. Agrees(i, Active, Canceled, {})
  <2>1. /\ p \notin Canceled /\ p \notin ToSet(notify.callbackQ)
        /\ \A x \in Records : notify.ppn[x] # p
    BY <1>2, <1>3, Targets DEF PutsTrue, CallbacksTrue, Canceled
  <2>2. notify.state[p] # "WaitForRestart" /\ i = SetState(notify, p, "NotActive")
    BY <1>3
  <2>. HIDE DEF i
  <2>3. "NotActive" \in {"none", "NotActive", "UserCallbackActive"}
    OBVIOUS
  <2>. QED BY <1>1, <2>1, <2>2, <2>3, Rests
<1>6. Ready(i, Active, Canceled, p)
  BY <1>4, <1>5 DEF Ready
<1>7. \/ /\ CommonWait(i, p) \/ CommonActive(i, p) \/ CommonProcess(i, p)
         /\ pc' = [pc EXCEPT ![p] = "busy"]
      \/ CommonDone(i, p) /\ pc' = [pc EXCEPT ![p] = "calling"]
  BY <1>3 DEF Begin
<1>. HIDE DEF i
<1>8. /\ Agrees(notify', Active', Canceled, {}) /\ pact' \in [Records -> BOOLEAN]
      /\ OthersGo(i, notify', p)
      /\ \/ /\ pc' = [pc EXCEPT ![p] = "busy"]
            /\ notify'.state[p] \in {"WaitForRestart", "RestartCallbackRequested",
                   "RestartInProgress", "PutInProgress", "UserCallbackRequested"}
         \/ /\ pc' = [pc EXCEPT ![p] = "calling"]
            /\ notify'.state[p] = "UserCallbackActive"
  <2>1. CASE /\ CommonWait(i, p) \/ CommonActive(i, p) \/ CommonProcess(i, p)
             /\ pc' = [pc EXCEPT ![p] = "busy"]
    BY <1>1, <1>6, <2>1, CommonBusy
  <2>2. CASE CommonDone(i, p) /\ pc' = [pc EXCEPT ![p] = "calling"]
    BY <1>1, <1>6, <2>2, CommonEnds
  <2>. QED BY <1>7, <2>1, <2>2
<1>9. Canceled' = Canceled /\ UserTypes'
  BY <1>1, <1>3, <1>8 DEF Canceled, UserTypes
<1>10. UserTrue(p, notify.state[p])'
  BY <1>1, <1>3, <1>8 DEF UserTrue, UserTypes
<1>11. \A q \in Puts \ {p} : Undisturbed(q) /\ Proceeds(q)
  BY <1>1, <1>3, <1>4, <1>8 DEF Undisturbed, Proceeds, OthersGo, UserTypes
<1>. QED BY <1>8, <1>9, <1>10, <1>11, Moved

\* A user starts a put again whose callback has not returned yet, and waits.
LEMMA PutWaitStep ==
    ASSUME IInv, NEW p \in Puts, PutWait(p)
    PROVE  IInv'
<1>1. /\ Agrees(notify, Active, Canceled, {})
      /\ pact \in [Records -> BOOLEAN] /\ UserTypes
      /\ UserTrue(p, notify.state[p])
  BY Parts
<1>2. /\ pc[p] = "idle" /\ notify.state[p] # "none"
      /\ userCallbackWait' = [userCallbackWait EXCEPT ![p] = TRUE]
      /\ pc' = [pc EXCEPT ![p] = "blocked"]
      /\ UNCHANGED <<pact, cancelWait, cancelEvent, userCallbackEvent, cpc>>
  BY DEF PutWait, events
<1>3. cpc = p /\ notify.state[p] = "UserCallbackActive"
  BY <1>1, <1>2 DEF UserTrue
<1>4. notify' = notify
  <2>1. notify \in Notifies /\ ~notify.failed
    BY <1>1 DEF Agrees
  <2>2. notify' = Asserted(notify, notify.state[p] = "UserCallbackActive")
    BY DEF PutWait
  <2>. QED BY <1>3, <2>1, <2>2, Holds
<1>5. Active' = Active /\ Canceled' = Canceled /\ UserTypes'
  BY <1>1, <1>2 DEF Active, Canceled, UserTypes
<1>6. UserTrue(p, notify.state[p])'
  BY <1>1, <1>2, <1>3, <1>4 DEF UserTrue, UserTypes
<1>7. \A q \in Puts \ {p} : Undisturbed(q) /\ Proceeds(q)
  BY <1>1, <1>2, <1>4 DEF Undisturbed, Proceeds, UserTypes
<1>8. Agrees(notify', Active', Canceled', {}) /\ pact' \in [Records -> BOOLEAN]
  BY <1>1, <1>2, <1>4, <1>5
<1>. QED BY <1>5, <1>6, <1>7, <1>8, Moved

\* A callback of p is at the head of the queue: what the task finds.
LEMMA Called ==
    ASSUME IInv, NEW p \in Puts, Callback(p)
    PROVE  /\ Agrees(notify, Active, Canceled, {})
           /\ pact \in [Records -> BOOLEAN] /\ UserTypes
           /\ UserTrue(p, notify.state[p])
           /\ Taken(p).state = notify.state /\ p \notin Canceled
           /\ notify.state[p] \in {"RestartCallbackRequested", "UserCallbackRequested"}
           /\ notify.state[p] = "UserCallbackRequested" =>
                /\ Agrees(Taken(p), Active, Canceled \cup {p}, {})
                /\ \A x \in Records : Taken(p).ppn[x] # p /\ notify.ppn[x] # p
           /\ notify.state[p] = "RestartCallbackRequested" =>
                /\ Agrees(Taken(p), Active, Canceled \cup {p}, {Target[p]})
                /\ Taken(p).ppn[Target[p]] = p
<1>. DEFINE D == Canceled \cup {p}
            m == Taken(p)
<1>1. /\ Agrees(notify, Active, Canceled, {})
      /\ pact \in [Records -> BOOLEAN] /\ UserTypes
      /\ UserTrue(p, notify.state[p])
  BY Parts
<1>2. m = CallTaken(notify, p) /\ notify.callbackQ # <<>> /\ Head(notify.callbackQ) = p
  BY DEF Taken, CallTaken, Callback
<1>3. D = Canceled \cup {p}
  OBVIOUS
<1>. HIDE DEF D, m
<1>4. Found(notify, m, Active, Canceled, D, p)
  BY <1>1, <1>2, <1>3, TakesCall
<1>. QED BY <1>1, <1>4 DEF Found, m, D

\* The callback task finds a put that is being canceled.
LEMMA CanceledStep ==
    ASSUME IInv, NEW p \in Puts, CallbackCanceled(p)
    PROVE  IInv'
<1>. DEFINE m == Taken(p)
            D == Canceled \cup {p}
<1>1. /\ cancelWait[p] /\ cancelEvent' = [cancelEvent EXCEPT ![p] = TRUE]
      /\ notify' = IF GivesUp(p) THEN restartCheck(m, Target[p]) ELSE m
      /\ UNCHANGED <<pact, cancelWait, userCallbackWait, userCallbackEvent, pc, cpc>>
      /\ Callback(p)
  BY DEF CallbackCanceled, waits
<1>2. /\ pact \in [Records -> BOOLEAN] /\ UserTypes
      /\ UserTrue(p, notify.state[p])
      /\ m.state = notify.state /\ p \notin Canceled
      /\ notify.state[p] \in {"RestartCallbackRequested", "UserCallbackRequested"}
      /\ notify.state[p] = "UserCallbackRequested" => Agrees(m, Active, D, {})
      /\ notify.state[p] = "RestartCallbackRequested" =>
            Agrees(m, Active, D, {Target[p]}) /\ m.ppn[Target[p]] = p
  BY <1>1, Called
<1>3. \A q \in Puts : q \in Canceled' <=> q \in D
  BY <1>1, <1>2 DEF Canceled, UserTypes
<1>4. Canceled' = D
  BY <1>3 DEF Canceled
<1>. HIDE DEF m, D
<1>5. Agrees(notify', Active, D, {}) /\ Goes(m, notify') /\ notify'.state[p] = notify.state[p]
  <2>1. CASE notify.state[p] = "UserCallbackRequested"
    BY <1>1, <1>2, <2>1 DEF GivesUp, Goes
  <2>2. CASE notify.state[p] = "RestartCallbackRequested"
    <3>1. /\ notify' = restartCheck(m, Target[p]) /\ Agrees(m, Active, D, {Target[p]})
          /\ Target[p] \in Records /\ m.ppn[Target[p]] # NoPut
      BY <1>1, <1>2, <2>2, Targets DEF GivesUp
    <3>2. /\ Agrees(notify', Active, D, {}) /\ Goes(m, notify')
          /\ \A q \in Puts : m.state[q] # "WaitForRestart" => notify'.state[q] = m.state[q]
      BY <3>1, RestartChecked
    <3>. QED BY <1>2, <2>2, <3>2
  <2>. QED BY <1>2, <2>1, <2>2
<1>6. Active' = Active /\ UserTypes'
  BY <1>1, <1>2 DEF Active, UserTypes
<1>7. UserTrue(p, notify.state[p])'
  BY <1>1, <1>2, <1>5 DEF UserTrue, UserTypes
<1>8. \A q \in Puts \ {p} : Undisturbed(q) /\ Proceeds(q)
  BY <1>1, <1>2, <1>5 DEF Undisturbed, Proceeds, UserTypes, Goes
<1>9. Agrees(notify', Active', Canceled', {}) /\ pact' \in [Records -> BOOLEAN]
  BY <1>1, <1>2, <1>4, <1>5, <1>6
<1>. QED BY <1>6, <1>7, <1>8, <1>9, Moved

\* The callback task starts a put whose turn has come.
LEMMA RestartStep ==
    ASSUME IInv, NEW p \in Puts, CallbackRestart(p)
    PROVE  IInv'
<1>. DEFINE m == Taken(p)
<1>1. /\ Callback(p) /\ ~cancelWait[p] /\ notify.state[p] = "RestartCallbackRequested"
      /\ \/ /\ CommonWait(m, p) \/ CommonActive(m, p) \/ CommonProcess(m, p)
            /\ UNCHANGED <<pc, cpc>>
         \/ CommonDone(m, p) /\ Told(p) /\ cpc' = p
      /\ UNCHANGED <<cancelWait, userCallbackWait, cancelEvent, userCallbackEvent>>
  BY DEF CallbackRestart, waits, events
<1>2. /\ pact \in [Records -> BOOLEAN] /\ UserTypes
      /\ UserTrue(p, notify.state[p])
      /\ m.state = notify.state /\ p \notin Canceled
      /\ Agrees(m, Active, Canceled \cup {p}, {Target[p]}) /\ m.ppn[Target[p]] = p
  BY <1>1, Called
<1>3. Ready(m, Active, Canceled, p)
  BY <1>1, <1>2 DEF Ready
<1>4. /\ cpc # p /\ pc[p] = "busy" /\ ~userCallbackWait[p] /\ ~cancelEvent[p]
      /\ ~userCallbackEvent[p]
  BY <1>1, <1>2 DEF UserTrue, UserTypes, Canceled
<1>5. cpc = NoPut /\ NoPut \notin Puts
  BY <1>1, Targets DEF Callback
<1>. HIDE DEF m
<1>6. /\ Agrees(notify', Active', Canceled, {}) /\ pact' \in [Records -> BOOLEAN]
      /\ OthersGo(m, notify', p)
      /\ \/ /\ UNCHANGED <<pc, cpc>>
            /\ notify'.state[p] \in {"WaitForRestart", "RestartCallbackRequested",
                   "RestartInProgress", "PutInProgress", "UserCallbackRequested"}
         \/ /\ Told(p) /\ cpc' = p
            /\ notify'.state[p] = "UserCallbackActive"
  <2>1. CASE /\ CommonWait(m, p) \/ CommonActive(m, p) \/ CommonProcess(m, p)
             /\ UNCHANGED <<pc, cpc>>
    BY <1>2, <1>3, <2>1, CommonBusy
  <2>2. CASE CommonDone(m, p) /\ Told(p) /\ cpc' = p
    BY <1>2, <1>3, <2>2, CommonEnds
  <2>. QED BY <1>1, <2>1, <2>2
<1>7. Told(p) => pc' = [pc EXCEPT ![p] = "idle"]
  BY <1>2, <1>4 DEF Told, UserTypes
<1>8. Canceled' = Canceled /\ UserTypes'
  BY <1>1, <1>2, <1>6, <1>7 DEF Canceled, UserTypes
<1>9. UserTrue(p, notify.state[p])'
  BY <1>1, <1>2, <1>4, <1>6, <1>7 DEF UserTrue, UserTypes
<1>10. \A q \in Puts \ {p} : Undisturbed(q) /\ Proceeds(q)
  BY <1>1, <1>2, <1>5, <1>6, <1>7 DEF Undisturbed, Proceeds, UserTypes, OthersGo
<1>. QED BY <1>6, <1>8, <1>9, <1>10, Moved

\* The callback task tells the user of a put that has ended.
LEMMA UserStep ==
    ASSUME IInv, NEW p \in Puts, CallbackUser(p)
    PROVE  IInv'
<1>. DEFINE m == Taken(p)
            D == Canceled \cup {p}
            s == SetState(m, p, "UserCallbackActive")
<1>1. /\ Callback(p) /\ ~cancelWait[p] /\ notify.state[p] = "UserCallbackRequested"
      /\ notify' = Asserted(s, notify.ppn[Target[p]] # p)
      /\ Told(p) /\ cpc' = p
      /\ UNCHANGED <<pact, cancelWait, userCallbackWait, cancelEvent, userCallbackEvent>>
  BY DEF CallbackUser, waits, events
<1>2. /\ pact \in [Records -> BOOLEAN] /\ UserTypes
      /\ UserTrue(p, notify.state[p])
      /\ m.state = notify.state /\ p \notin Canceled
      /\ Agrees(m, Active, D, {}) /\ \A x \in Records : m.ppn[x] # p /\ notify.ppn[x] # p
  BY <1>1, Called
<1>3. /\ cpc # p /\ pc[p] = "busy" /\ ~userCallbackWait[p] /\ ~cancelEvent[p]
      /\ ~userCallbackEvent[p]
  BY <1>1, <1>2 DEF UserTrue, UserTypes, Canceled
<1>4. cpc = NoPut /\ NoPut \notin Puts
  BY <1>1, Targets DEF Callback
<1>5. Agrees(s, Active, Canceled, {})
  <2>1. p \in D /\ \A q \in Puts \ {p} : q \in Canceled <=> q \in D
    OBVIOUS
  <2>2. s = SetState(m, p, "UserCallbackActive")
    OBVIOUS
  <2>. HIDE DEF m, D, s
  <2>3. m.state[p] # "WaitForRestart" /\ p \notin ToSet(m.callbackQ)
    BY <1>1, <1>2, <2>1 DEF Agrees, CallbacksTrue
  <2>4. "UserCallbackActive" \in {"none", "NotActive", "UserCallbackActive"}
    OBVIOUS
  <2>. QED BY <1>2, <2>1, <2>2, <2>3, <2>4, Rests
<1>. HIDE DEF m, D
<1>6. s.state[p] = "UserCallbackActive" /\ \A q \in Puts \ {p} : s.state[q] = notify.state[q]
  <2>1. m \in Notifies /\ "UserCallbackActive" \in States
    BY <1>2 DEF Agrees, States
  <2>2. s.state = [m.state EXCEPT ![p] = "UserCallbackActive"]
    BY <2>1, Sets
  <2>. QED BY <1>2, <2>1, <2>2, Fields
<1>7. notify' = s
  <2>1. s \in Notifies /\ ~s.failed /\ notify.ppn[Target[p]] # p
    BY <1>2, <1>5, Targets DEF Agrees
  <2>. HIDE DEF s
  <2>. QED BY <1>1, <2>1, Holds
<1>. HIDE DEF s
<1>8. pc' = [pc EXCEPT ![p] = "idle"]
  BY <1>1, <1>2, <1>3 DEF Told, UserTypes
<1>9. Active' = Active /\ Canceled' = Canceled /\ UserTypes'
  BY <1>1, <1>2, <1>8 DEF Active, Canceled, UserTypes
<1>10. UserTrue(p, notify.state[p])'
  BY <1>1, <1>2, <1>3, <1>6, <1>7, <1>8 DEF UserTrue, UserTypes
<1>11. \A q \in Puts \ {p} : Undisturbed(q) /\ Proceeds(q)
  BY <1>1, <1>2, <1>4, <1>6, <1>7, <1>8 DEF Undisturbed, Proceeds, UserTypes
<1>12. Agrees(notify', Active', Canceled', {}) /\ pact' \in [Records -> BOOLEAN]
  BY <1>1, <1>2, <1>5, <1>7, <1>9
<1>. QED BY <1>9, <1>10, <1>11, <1>12, Moved

\* A user callback has returned.
LEMMA CalledStep ==
    ASSUME IInv, NEW p \in Puts,
           \/ UserCalled(p)
           \/ CallbackCalled /\ cpc = p
    PROVE  IInv'
<1>1. /\ Agrees(notify, Active, Canceled, {})
      /\ pact \in [Records -> BOOLEAN] /\ UserTypes
      /\ UserTrue(p, notify.state[p])
  BY Parts
<1>2. /\ notify \in Notifies /\ PutsTrue(notify, Canceled, {}) /\ CallbacksTrue(notify, Canceled)
  BY <1>1 DEF Agrees
<1>3. /\ CalledEnd(p)
      /\ \/ pc[p] = "calling" /\ pc' = [pc EXCEPT ![p] = "idle"] /\ cpc' = cpc /\ cpc # p
         \/ cpc = p /\ pc' = pc /\ cpc' = NoPut
  BY <1>1, Targets DEF UserCalled, CallbackCalled, UserTrue
<1>4. /\ notify.state[p] = "UserCallbackActive" /\ ~cancelEvent[p] /\ ~userCallbackEvent[p]
      /\ ~(cancelWait[p] /\ userCallbackWait[p])
      /\ pc[p] = "calling" => ~cancelWait[p] /\ ~userCallbackWait[p]
      /\ cpc = p => \/ pc[p] = "idle" /\ ~cancelWait[p] /\ ~userCallbackWait[p]
                    \/ pc[p] = "blocked" /\ userCallbackWait[p]
                    \/ pc[p] = "cancel" /\ cancelWait[p]
  BY <1>1, <1>3 DEF UserTrue, UserTypes
<1>5. /\ cancelWait' = [cancelWait EXCEPT ![p] = FALSE]
      /\ userCallbackWait' = [userCallbackWait EXCEPT ![p] = FALSE]
      /\ cancelEvent' = [cancelEvent EXCEPT ![p] = cancelWait[p]]
      /\ userCallbackEvent' = [userCallbackEvent EXCEPT ![p] = userCallbackWait[p]]
      /\ notify' = (IF cancelWait[p] \/ userCallbackWait[p] THEN notify
                    ELSE SetState(notify, p, "none"))
      /\ pact' = pact
  <2>1. /\ (cancelEvent[p] \/ (~(cancelWait[p] /\ userCallbackWait[p]) /\ cancelWait[p]))
              = cancelWait[p]
        /\ (userCallbackEvent[p] \/ (~(cancelWait[p] /\ userCallbackWait[p]) /\ userCallbackWait[p]))
              = userCallbackWait[p]
    BY <1>1, <1>4 DEF UserTypes
  <2>. QED BY <1>3, <1>4, <2>1 DEF CalledEnd, Signals
<1>6. /\ p \notin ToSet(notify.callbackQ) /\ (\A x \in Records : notify.ppn[x] # p)
      /\ p \notin Canceled
  BY <1>2, <1>4, Targets DEF PutsTrue, CallbacksTrue, Canceled
<1>7. UserTypes' /\ Active' = Active
  BY <1>1, <1>3, <1>5 DEF UserTypes, Active
<1>8. /\ \A q \in Puts \ {p} : q \in Canceled' <=> q \in Canceled
      /\ p \in Canceled' <=> cancelWait[p]
  BY <1>1, <1>5 DEF Canceled, UserTypes
<1>9. /\ Agrees(notify', Active, Canceled', {})
      /\ notify'.state[p] = IF cancelWait[p] \/ userCallbackWait[p] THEN "UserCallbackActive" ELSE "none"
      /\ \A q \in Puts \ {p} : notify'.state[q] = notify.state[q]
  <2>1. PICK s : s = IF cancelWait[p] \/ userCallbackWait[p] THEN "UserCallbackActive" ELSE "none"
    OBVIOUS
  <2>2. notify' = SetState(notify, p, s)
    BY <1>2, <1>4, <1>5, <2>1, Same
  <2>3. /\ s \in {"none", "NotActive", "UserCallbackActive"} /\ s \in States
        /\ p \in Canceled' => s = "UserCallbackActive"
    BY <1>8, <2>1 DEF States
  <2>4. notify.state[p] # "WaitForRestart"
    BY <1>4
  <2>5. Agrees(notify', Active, Canceled', {})
    BY <1>1, <1>6, <1>8, <2>2, <2>3, <2>4, Rests
  <2>6. notify'.state = [notify.state EXCEPT ![p] = s]
    BY <1>2, <2>2, <2>3, Sets
  <2>. QED BY <1>2, <2>1, <2>5, <2>6, Fields
<1>10. UserTrue(p, notify.state[p])'
  BY <1>1, <1>3, <1>4, <1>5, <1>9, Targets DEF UserTrue, UserTypes
<1>11. \A q \in Puts \ {p} : Undisturbed(q) /\ Proceeds(q)
  BY <1>1, <1>3, <1>5, <1>9, Targets DEF Undisturbed, Proceeds, UserTypes
<1>12. Agrees(notify', Active', Canceled', {}) /\ pact' \in [Records -> BOOLEAN]
  BY <1>1, <1>5, <1>7, <1>9
<1>. QED BY <1>7, <1>10, <1>11, <1>12, Moved

\* A cancel begins to wait for a callback that is on its way.
LEMMA CancelWaitStep ==
    ASSUME IInv, NEW p \in Puts, CancelWait(p)
    PROVE  IInv'
<1>1. /\ Agrees(notify, Active, Canceled, {})
      /\ pact \in [Records -> BOOLEAN] /\ UserTypes
      /\ UserTrue(p, notify.state[p])
  BY Parts
<1>2. /\ pc[p] \in {"idle", "busy"} /\ CallbackPending(p)
      /\ cancelWait' = [cancelWait EXCEPT ![p] = TRUE]
      /\ pc' = [pc EXCEPT ![p] = "cancel"]
      /\ UNCHANGED <<notify, pact, userCallbackWait, cancelEvent, userCallbackEvent, cpc>>
  BY DEF CancelWait, events
<1>3. Active' = Active /\ Canceled' = Canceled /\ UserTypes'
  BY <1>1, <1>2 DEF Active, Canceled, UserTypes
<1>4. UserTrue(p, notify.state[p])'
  BY <1>1, <1>2 DEF UserTrue, UserTypes, CallbackPending
<1>5. \A q \in Puts \ {p} : Undisturbed(q) /\ Proceeds(q)
  BY <1>1, <1>2 DEF Undisturbed, Proceeds, UserTypes
<1>6. Agrees(notify', Active', Canceled', {}) /\ pact' \in [Records -> BOOLEAN]
  BY <1>1, <1>2, <1>3
<1>. QED BY <1>3, <1>4, <1>5, <1>6, Moved

\* It was signalled.
LEMMA CancelWaitedStep ==
    ASSUME IInv, NEW p \in Puts, CancelWaited(p)
    PROVE  IInv'
<1>1. /\ Agrees(notify, Active, Canceled, {})
      /\ pact \in [Records -> BOOLEAN] /\ UserTypes
      /\ UserTrue(p, notify.state[p])
  BY Parts
<1>2. /\ notify \in Notifies /\ PutsTrue(notify, Canceled, {}) /\ CallbacksTrue(notify, Canceled)
  BY <1>1 DEF Agrees
<1>3. /\ pc[p] = "cancel" /\ cancelEvent[p]
      /\ cancelEvent' = [cancelEvent EXCEPT ![p] = FALSE]
      /\ notify' = SetState(notify, p, "none")
      /\ cancelWait' = [cancelWait EXCEPT ![p] = FALSE]
      /\ pc' = [pc EXCEPT ![p] = "idle"]
      /\ UNCHANGED <<pact, userCallbackWait, userCallbackEvent, cpc>>
  BY DEF CancelWaited
<1>4. /\ \A q \in Puts \ {p} : q \in Canceled' <=> q \in Canceled
      /\ p \notin Canceled' /\ p \in Canceled
  BY <1>1, <1>3 DEF Canceled, UserTypes
<1>5. /\ notify.state[p] # "WaitForRestart" /\ p \notin ToSet(notify.callbackQ)
      /\ \A x \in Records : notify.ppn[x] # p
  BY <1>2, <1>4, Targets DEF PutsTrue, CallbacksTrue
<1>6. Agrees(notify', Active, Canceled', {})
  <2>1. "none" \in {"none", "NotActive", "UserCallbackActive"}
    OBVIOUS
  <2>. QED BY <1>1, <1>3, <1>4, <1>5, <2>1, Rests
<1>7. notify'.state[p] = "none" /\ \A q \in Puts \ {p} : notify'.state[q] = notify.state[q]
  <2>1. "none" \in States
    BY DEF States
  <2>2. notify'.state = [notify.state EXCEPT ![p] = "none"]
    BY <1>2, <1>3, <2>1, Sets
  <2>. QED BY <1>2, <2>2, Fields
<1>8. Active' = Active /\ UserTypes'
  BY <1>1, <1>3 DEF Active, UserTypes
<1>9. UserTrue(p, notify.state[p])'
  BY <1>1, <1>3, <1>7 DEF UserTrue, UserTypes
<1>10. \A q \in Puts \ {p} : Undisturbed(q) /\ Proceeds(q)
  BY <1>1, <1>3, <1>7 DEF Undisturbed, Proceeds, UserTypes
<1>11. Agrees(notify', Active', Canceled', {}) /\ pact' \in [Records -> BOOLEAN]
  BY <1>1, <1>3, <1>6, <1>8
<1>. QED BY <1>8, <1>9, <1>10, <1>11, Moved

\* A put is canceled while it waits for its turn, or for records to finish.
LEMMA CancelStep ==
    ASSUME IInv, NEW p \in Puts, CancelQueued(p) \/ CancelRecords(p)
    PROVE  IInv'
<1>1. /\ Agrees(notify, Active, Canceled, {})
      /\ pact \in [Records -> BOOLEAN] /\ UserTypes
      /\ UserTrue(p, notify.state[p])
  BY Parts
<1>2. /\ pc[p] \in {"idle", "busy"} /\ pc' = [pc EXCEPT ![p] = "idle"]
      /\ UNCHANGED <<pact, cancelWait, userCallbackWait, cancelEvent, userCallbackEvent, cpc>>
      /\ notify.state[p] \in {"WaitForRestart", "RestartInProgress", "PutInProgress"}
  BY DEF CancelQueued, CancelRecords, waits, events
<1>3. cpc # p /\ pc[p] = "busy"
  BY <1>1, <1>2 DEF UserTrue, UserTypes
<1>4. Active' = Active /\ Canceled' = Canceled /\ UserTypes'
  BY <1>1, <1>2 DEF Active, Canceled, UserTypes
<1>5. /\ Agrees(notify', Active, Canceled, {}) /\ notify'.state[p] = "none"
      /\ OthersGo(notify, notify', p)
  <2>1. CASE CancelQueued(p)
    <3>1. notify' = Unqueued(notify, p) /\ notify.state[p] = "WaitForRestart"
      BY <2>1 DEF CancelQueued, Unqueued
    <3>2. /\ Agrees(notify', Active, Canceled, {}) /\ notify'.state[p] = "none"
          /\ \A q \in Puts \ {p} : notify'.state[q] = notify.state[q]
      BY <1>1, <3>1, Unqueues
    <3>. QED BY <3>2 DEF OthersGo
  <2>2. CASE CancelRecords(p)
    <3>. DEFINE n == TakenOut(notify, p)
    <3>1. /\ notify' = SetState(IF n.ppn[Target[p]] = p THEN restartCheck(n, Target[p]) ELSE n,
                                p, "none")
          /\ Waits(notify, p)
      BY <2>2 DEF CancelRecords, Waits
    <3>2. n = TakenOut(notify, p)
      OBVIOUS
    <3>. HIDE DEF n
    <3>3. /\ Agrees(n, Active, Canceled, {}) /\ Goes(notify, n) /\ n.state[p] = notify.state[p]
          /\ \A r \in Records : n.ppn[r] # p
      BY <1>1, <3>1, <3>2, TakenOutKeeps
    <3>4. notify' = SetState(n, p, "none")
      BY <3>1, <3>3, Targets
    <3>5. n.state[p] \in {"RestartInProgress", "PutInProgress"} /\ n \in Notifies
      BY <3>1, <3>3 DEF Waits, Agrees
    <3>6. /\ n.state[p] # "WaitForRestart" /\ p \notin ToSet(n.callbackQ) /\ p \notin Canceled
          /\ \A q \in Puts \ {p} : q \in Canceled <=> q \in Canceled
      BY <3>3, <3>5 DEF Agrees, CallbacksTrue
    <3>7. "none" \in {"none", "NotActive", "UserCallbackActive"} /\ "none" \in States
      BY DEF States
    <3>8. Agrees(notify', Active, Canceled, {})
      BY <3>3, <3>4, <3>6, <3>7, Rests
    <3>9. notify'.state = [n.state EXCEPT ![p] = "none"]
      BY <3>4, <3>5, <3>7, Sets
    <3>10. notify'.state[p] = "none" /\ \A q \in Puts \ {p} : notify'.state[q] = n.state[q]
      BY <3>5, <3>9, Fields
    <3>. QED BY <3>3, <3>8, <3>10 DEF Goes, OthersGo
  <2>. QED BY <2>1, <2>2
<1>6. UserTrue(p, notify.state[p])'
  BY <1>1, <1>2, <1>3, <1>5 DEF UserTrue, UserTypes
<1>7. \A q \in Puts \ {p} : Undisturbed(q) /\ Proceeds(q)
  BY <1>1, <1>2, <1>5 DEF Undisturbed, Proceeds, UserTypes, OthersGo
<1>8. Agrees(notify', Active', Canceled', {}) /\ pact' \in [Records -> BOOLEAN]
  BY <1>1, <1>2, <1>4, <1>5
<1>. QED BY <1>4, <1>6, <1>7, <1>8, Moved

LEMMA Stutters ==
    ASSUME IInv, UNCHANGED vars
    PROVE  IInv'
<1>. USE DEF vars, waits, events
<1>1. /\ pact \in [Records -> BOOLEAN] /\ UserTypes /\ Agrees(notify, Active, Canceled, {})
      /\ \A p \in Puts : UserTrue(p, notify.state[p])
  BY Parts
<1>2. notify' = notify /\ Active' = Active /\ Canceled' = Canceled /\ UserTypes' /\ pact' = pact
  BY <1>1 DEF Active, Canceled, UserTypes
<1>3. ASSUME NEW p \in Puts
      PROVE  UserTrue(p, notify.state[p])'
  BY <1>1, StaysTrue DEF Undisturbed, Proceeds
<1>. QED BY <1>1, <1>2, <1>3 DEF IInv, TypeOK, UserTypes, Agrees, CallbacksTrue

-----------------------------------------------------------------------------
(* The theorems *)

LEMMA Steps_IInv ==
    ASSUME IInv, [Next]_vars
    PROVE  IInv'
<1>1. ASSUME NEW r \in Records, Scan(r) \/ DeviceAnswers(r)
      PROVE  IInv'
  BY <1>1, RecordStep
<1>2. ASSUME NEW p \in Puts, dbPutNotify(p) \/ PutWaited(p)
      PROVE  IInv'
  BY <1>2, BeginStep
<1>3. ASSUME NEW p \in Puts, PutWait(p)
      PROVE  IInv'
  BY <1>3, PutWaitStep
<1>4. ASSUME NEW p \in Puts, CallbackCanceled(p)
      PROVE  IInv'
  BY <1>4, CanceledStep
<1>5. ASSUME NEW p \in Puts, CallbackRestart(p)
      PROVE  IInv'
  BY <1>5, RestartStep
<1>6. ASSUME NEW p \in Puts, CallbackUser(p)
      PROVE  IInv'
  BY <1>6, UserStep
<1>7. ASSUME NEW p \in Puts, UserCalled(p)
      PROVE  IInv'
  BY <1>7, CalledStep
<1>8. CASE CallbackCalled
  <2>1. cpc \in Puts
    BY <1>8, Parts DEF CallbackCalled, UserTypes
  <2>. QED BY <1>8, <2>1, CalledStep
<1>9. ASSUME NEW p \in Puts, CancelWait(p)
      PROVE  IInv'
  BY <1>9, CancelWaitStep
<1>10. ASSUME NEW p \in Puts, CancelWaited(p)
       PROVE  IInv'
  BY <1>10, CancelWaitedStep
<1>11. ASSUME NEW p \in Puts, CancelQueued(p) \/ CancelRecords(p)
       PROVE  IInv'
  BY <1>11, CancelStep
<1>. QED BY <1>1, <1>2, <1>3, <1>4, <1>5, <1>6, <1>7, <1>8, <1>9, <1>10, <1>11, Stutters DEF Next

\* In every reachable state: records, puts and the users of puts agree.
THEOREM Invariance == Spec => []IInv
BY InitTrue, Steps_IInv, PTL DEF Spec

\* A put waits for a record only while the record is active.
THEOREM WaitsForActiveOnly == Spec => []WaitsForActive
<1>1. IInv => WaitsForActive
  <2>. SUFFICES ASSUME IInv, NEW p \in Puts, NEW i \in DOMAIN notify.waitList[p]
                PROVE  pact[notify.waitList[p][i]]
    BY DEF WaitsForActive
  <2>1. ToSet(notify.waitList[p]) \subseteq Active
    BY Parts DEF Agrees, WaitsTrue
  <2>. QED BY <2>1 DEF ToSet, Active
<1>. QED BY <1>1, Invariance, PTL

\* Records and puts agree on who has what, and no assertion of dbNotify.c fails.
THEOREM OwnersAreTrue == Spec => []OwnersTrue
<1>1. ASSUME IInv
      PROVE  OwnersTrue
  <2>1. /\ notify \in Notifies /\ ~notify.failed /\ WaitsTrue(notify, Active, {})
        /\ RestartsTrue(notify) /\ PutsTrue(notify, Canceled, {})
        /\ CallbacksTrue(notify, Canceled) /\ UserTypes
        /\ \A p \in Puts : UserTrue(p, notify.state[p])
    BY <1>1, Parts DEF Agrees
  <2>2. AssertionsHold
    <3>1. \A p \in Puts : ~(cancelWait[p] /\ userCallbackWait[p])
      BY <2>1 DEF UserTrue
    <3>. QED BY <2>1, <3>1 DEF AssertionsHold
  <2>3. ASSUME NEW p \in Puts, NEW i \in DOMAIN notify.waitList[p]
        PROVE  notify.ppn[notify.waitList[p][i]] = p
    <3>1. notify.waitList[p] \in Seq(Records)
      BY <2>1, Fields
    <3>2. notify.waitList[p][i] \in ToSet(notify.waitList[p]) /\ notify.waitList[p][i] \in Records
      BY <3>1 DEF ToSet
    <3>. QED BY <2>1, <3>2 DEF WaitsTrue
  <2>4. \A r \in Records : notify.restartList[r] # <<>> => notify.ppn[r] # NoPut
    BY <2>1 DEF RestartsTrue
  <2>5. ASSUME NEW p \in Puts
        PROVE  /\ (notify.state[p] = "WaitForRestart")
                     <=> (\E r \in Records : Contains(notify.restartList[r], p))
               /\ (/\ notify.state[p] \in {"RestartCallbackRequested", "UserCallbackRequested"}
                   /\ ~cancelEvent[p])
                     <=> Contains(notify.callbackQ, p)
    <3>1. /\ notify.callbackQ \in Seq(Puts)
          /\ \A r \in Records : notify.restartList[r] \in Seq(Puts)
      BY <2>1, Fields
    <3>2. \A r \in Records : Contains(notify.restartList[r], p) <=> p \in ToSet(notify.restartList[r])
      BY <3>1 DEF Contains, ToSet
    <3>3. Contains(notify.callbackQ, p) <=> p \in ToSet(notify.callbackQ)
      BY <3>1 DEF Contains, ToSet
    <3>. QED BY <2>1, <3>2, <3>3, Targets DEF RestartsTrue, CallbacksTrue, Canceled
  <2>6. ASSUME NEW p \in Puts
        PROVE  /\ notify.state[p] = "RestartCallbackRequested" /\ ~cancelEvent[p]
                     => notify.ppn[Target[p]] = p
               /\ (\E r \in Records : notify.ppn[r] = p)
                     => notify.state[p] \in {"RestartCallbackRequested", "RestartInProgress",
                                             "PutInProgress"}
    BY <2>1, Targets DEF PutsTrue, Canceled
  <2>7. TypeOK
    BY <1>1 DEF IInv
  <2>. QED BY <2>2, <2>3, <2>4, <2>5, <2>6, <2>7 DEF OwnersTrue
<1>. QED BY <1>1, Invariance, PTL
=============================================================================
