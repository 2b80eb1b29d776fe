---------------------------- MODULE DbLock_proof ----------------------------
(***************************************************************************)
(* Proofs about DbLock.  The inductive invariant IInv holds in every       *)
(* reachable state, and with it the types, mutual exclusion of lock sets,  *)
(* the assertions, and that no link change moves a record in use.  One     *)
(* lemma per action shows that it keeps IInv, conjunct by conjunct; the    *)
(* four steps of a link change that move records go through ChangeFrame:   *)
(* they only touch what is "in change", and nobody else relies on that.    *)
(* FullInv adds that lock sets stay inside the groups of linked records    *)
(* and mutexes with those who lock them; from it follow that lock sets are *)
(* groups, the try-lock, and the refinement of RecordGroups.               *)
(***************************************************************************)
EXTENDS DbLock, Integers, FiniteSetTheorems, SequenceTheorems, TLAPS

USE DbLockAssumption

\* Records whose lock set no link change has got hold of stay where they are.
InUseFixed == \A r \in Records : ~InChange(r) => setOf'[r] = setOf[r]

\* dbScanUnlock drops the record locked last: the shorter sequence keeps
\* its elements, and is empty only when one record was locked.
LEMMA FrontFacts ==
    ASSUME NEW S, NEW h \in Seq(S), h # << >>
    PROVE  LET f == SubSeq(h, 1, Len(h) - 1) IN
           /\ f \in Seq(S)
           /\ Len(f) = Len(h) - 1
           /\ \A i \in 1..(Len(h) - 1) : f[i] = h[i]
           /\ (f = << >>) <=> (Len(h) = 1)
<1>1. Len(h) \in Nat \ {0}
  OBVIOUS
<1>. DEFINE n == Len(h) - 1
<1>2. n \in Nat /\ n \in Int /\ 1 \in Int /\ \A i \in 1..n : h[i] \in S
  BY <1>1
<1>. HIDE DEF n
<1>3. SubSeq(h, 1, n) \in Seq(S) /\ Len(SubSeq(h, 1, n)) = n
  BY <1>2, SubSeqProperties
<1>4. \A i \in 1..n : SubSeq(h, 1, n)[i] = h[i]
  BY <1>2, SubSeqProperties
<1>5. (SubSeq(h, 1, n) = << >>) <=> (n = 0)
  BY <1>2, <1>3
<1>. QED BY <1>1, <1>3, <1>4, <1>5 DEF n

\* dbScanLock adds a record: what Append does to the sequence.
LEMMA AppendFacts ==
    ASSUME NEW S, NEW h \in Seq(S), NEW x \in S
    PROVE  LET a == Append(h, x) IN
           /\ a \in Seq(S)
           /\ Len(a) = Len(h) + 1
           /\ Len(h) \in Nat
           /\ a # << >>
           /\ \A i \in 1..Len(h) : a[i] = h[i]
           /\ a[Len(h) + 1] = x
OBVIOUS

\* The waiters of a lock set can be counted.
LEMMA WaitersFinite ==
    ASSUME NEW s PROVE IsFiniteSet(Waiters(s)) /\ Cardinality(Waiters(s)) \in Nat
BY FS_Subset, FS_CardinalityType DEF Waiters

\* A step that leaves the waiters and nWaiting alone keeps the count right.
LEMMA WaitingFrame ==
    ASSUME WaitingCounted,
           \A s \in LockSets : nWaiting'[s] = nWaiting[s],
           \A s \in LockSets, u \in Threads : (u \in Waiters(s))' <=> u \in Waiters(s)
    PROVE  WaitingCounted'
<1>1. \A s \in LockSets : Waiters(s)' = Waiters(s)
  BY DEF Waiters
<1>. QED BY <1>1 DEF WaitingCounted

\* nWaiting++ with one more waiter keeps the count right.
LEMMA WaiterEnters ==
    ASSUME WaitingCounted, NEW s \in LockSets, NEW t \in Threads,
           t \notin Waiters(s), Waiters(s)' = Waiters(s) \cup {t},
           nWaiting'[s] = nWaiting[s] + 1,
           \A q \in LockSets \ {s} : /\ Waiters(q)' = Waiters(q)
                                     /\ nWaiting'[q] = nWaiting[q]
    PROVE  WaitingCounted'
<1>1. Cardinality(Waiters(s)') = Cardinality(Waiters(s)) + 1
  BY WaitersFinite, FS_AddElement
<1>. QED BY <1>1 DEF WaitingCounted

\* nWaiting-- with one waiter less keeps the count right.
LEMMA WaiterLeaves ==
    ASSUME WaitingCounted, NEW s \in LockSets, NEW t \in Threads,
           t \in Waiters(s), Waiters(s)' = Waiters(s) \ {t},
           nWaiting'[s] = nWaiting[s] - 1,
           \A q \in LockSets \ {s} : /\ Waiters(q)' = Waiters(q)
                                     /\ nWaiting'[q] = nWaiting[q]
    PROVE  WaitingCounted'
<1>1. Cardinality(Waiters(s)') = Cardinality(Waiters(s)) - 1
  BY WaitersFinite, FS_RemoveElement
<1>. QED BY <1>1 DEF WaitingCounted

\* A step that moves no record and merges no link keeps LinkInv.
LEMMA LinkFrame ==
    ASSUME TypeOK, LinkInv, UNCHANGED <<setOf, todo, type>>, MergedLink' = MergedLink
    PROVE  LinkInv'
BY DEF LinkInv, InChange, Type

\* MergedLink only changes with the link writer and its links.
LEMMA MergedLinkFrame ==
    ASSUME UNCHANGED <<link, globalLock, target>>,
           globalLock # NoThread => rec'[globalLock] = rec[globalLock]
    PROVE  MergedLink' = MergedLink
BY DEF MergedLink

\* A thread that calls dbScanLock and has records locked owns the lock set.
LEMMA EnterFacts ==
    ASSUME IInv, NEW t \in Threads, pc[t] = "scan_enter"
    PROVE  /\ rec[t] \in Records
           /\ globalLock # t
           /\ held[t] # << >> =>
                LET s == setOf[rec[t]] IN
                /\ s \in LockSets
                /\ type[s] = "scan"
                /\ state[s] # "Free"
                /\ thread_id[s] = t
                /\ nRecursion[s] = Len(held[t])
                /\ Len(held[t]) # 0
                /\ mutex[s] = t
           /\ (setOf[rec[t]] \in LockSets /\ state[setOf[rec[t]]] # "RecordLock") =>
                type[setOf[rec[t]]] = "scan"
<1>. USE DEF IInv, TypeOK
<1>1. rec[t] \in Records
  BY DEF CallerInv, ScanLabels
<1>2. globalLock # t
  BY DEF WriterInv, WriterLabels
<1>3. ASSUME held[t] # << >>
      PROVE  /\ setOf[rec[t]] = setOf[held[t][1]]
             /\ Len(held[t]) # 0
  BY <1>3 DEF CallerInv, ThreadTypes
<1>4. ASSUME setOf[rec[t]] \in LockSets, state[setOf[rec[t]]] # "RecordLock"
      PROVE  type[setOf[rec[t]]] = "scan"
  BY <1>1, <1>4 DEF ListInv, LockSetTypes, Type
<1>. QED BY <1>1, <1>2, <1>3, <1>4 DEF OwnerInv, HolderInv

\* The thread inside a link change is the only one and has locked no record.
LEMMA WriterFacts ==
    ASSUME IInv, NEW t \in Threads, pc[t] \in WriterLabels
    PROVE  /\ globalLock = t
           /\ held[t] = << >>
           /\ \A u \in Threads : u # t => pc[u] \notin WriterLabels
           /\ pc[t] # "put_unlock" => rec[t] \in Records
BY DEF IInv, WriterInv, CallerInv, WriterLabels

\* The record dbLockSetRecordLock is about has a lock set in use.
LEMMA LockingFacts ==
    ASSUME IInv, NEW t \in Threads,
           pc[t] \in {"rl_enter", "rl_lock", "rl_locked", "rl_check"}
    PROVE  /\ Locking(t) \in Records
           /\ setOf[Locking(t)] \in LockSets
           /\ Type(Locking(t)) # "free"
           /\ todo = {}
<1>1. globalLock = t /\ Locking(t) \in Records /\ todo = {}
  BY WriterFacts DEF IInv, TypeOK, WriterInv, WriterLabels, Locking, WriterTypes
<1>. QED BY <1>1 DEF IInv, TypeOK, ListInv, RecordTypes

\* While a thread waits for a lock set, nWaiting shows it.
LEMMA MustWait ==
    ASSUME IInv, NEW t \in Threads, NEW s \in LockSets, t \in Waiters(s)
    PROVE  nWaiting[s] \in Nat \ {0}
<1>1. nWaiting[s] = Cardinality(Waiters(s)) /\ nWaiting[s] \in Nat
  BY DEF IInv, TypeOK, LockSetTypes, WaitingCounted
<1>2. Cardinality(Waiters(s)) # 0
  BY WaitersFinite, FS_EmptySet
<1>. QED BY <1>1, <1>2

\* A lock set that is not in use for scanning has no waiters.
LEMMA NoWaiters ==
    ASSUME IInv, NEW s \in LockSets, type[s] # "scan"
    PROVE  nWaiting[s] = 0
<1>1. Waiters(s) = {}
  BY DEF IInv, WaiterInv, Waiters
<1>. QED BY <1>1, FS_EmptySet DEF IInv, WaitingCounted

\* A step of the link change that only touches records in change and lock
\* sets that are not in use for scanning disturbs no other thread.
LEMMA ChangeFrame ==
    ASSUME IInv,
           UNCHANGED <<held, lset, rec, mutex, nWaiting>>,
           \A r \in Records : ~InChange(r) => setOf'[r] = setOf[r],
           \A s \in LockSets : type[s] = "scan" =>
                /\ type'[s] = "scan" /\ state'[s] = state[s]
                /\ thread_id'[s] = thread_id[s] /\ nRecursion'[s] = nRecursion[s],
           \A s \in LockSets : type'[s] = "scan" => type[s] = "scan",
           \A u \in Threads : \/ pc'[u] = pc[u]
                              \/ {pc[u], pc'[u]} \subseteq WriterLabels
    PROVE  OwnerInv' /\ CallerInv' /\ WaiterInv' /\ WaitingCounted'
<1>. USE DEF IInv
<1>1. ASSUME NEW r \in Records, setOf[r] \in LockSets, type[setOf[r]] = "scan"
      PROVE  setOf'[r] = setOf[r]
  BY <1>1 DEF InChange, Type
<1>2. \A u \in Threads : held[u] \in Seq(Records)
  BY DEF TypeOK, ThreadTypes
<1>3. \A u \in Threads : pc[u] \in WriterLabels => held[u] = << >>
  BY WriterFacts
<1>4. ASSUME NEW u \in Threads, held[u] # << >>, NEW i \in 1..Len(held[u])
      PROVE  setOf'[held[u][i]] = setOf[held[u][i]]
  <2>1. held[u][i] \in Records /\ 1 \in 1..Len(held[u])
    BY <1>2, <1>4
  <2>. QED BY <1>1, <1>4, <2>1 DEF OwnerInv, HolderInv
<1>5. \A u \in Threads : held[u] # << >> => 1 \in 1..Len(held[u])
  BY <1>2
<1>6. HolderInv'
  <2>1. ASSUME NEW u \in Threads, held[u] # << >>
        PROVE  LET s == setOf'[held[u][1]] IN
               /\ s \in LockSets
               /\ \A i \in 1..Len(held[u]) : setOf'[held[u][i]] = s
               /\ mutex[s] = u
               /\ type'[s] = "scan"
               /\ state'[s] # "Free"
               /\ thread_id'[s] = u
               /\ nRecursion'[s] = Len(held[u])
    BY <1>4, <1>5, <2>1 DEF OwnerInv, HolderInv
  <2>. QED BY <2>1 DEF HolderInv
<1>7. OwnedInv'
  BY <1>4, <1>5 DEF OwnerInv, OwnedInv
<1>8. CallerInv'
  <2>1. \A u \in Threads : pc'[u] \notin {"idle", "scan_enter"} => held[u] = << >>
    BY <1>3 DEF CallerInv
  <2>2. \A u \in Threads : pc'[u] \in ScanLabels \cup {"put_global"} =>
            pc[u] = pc'[u] /\ rec[u] \in Records
    BY DEF CallerInv, ScanLabels, WriterLabels
  <2>3. ASSUME NEW u \in Threads, pc'[u] = "scan_enter", held[u] # << >>
        PROVE  setOf'[rec[u]] = setOf'[held[u][1]]
    <3>1. pc[u] = "scan_enter" /\ rec[u] \in Records
      BY <2>2, <2>3 DEF ScanLabels
    <3>. QED BY <1>1, <1>4, <1>5, <2>3, <3>1 DEF CallerInv, OwnerInv, HolderInv
  <2>. QED BY <2>1, <2>2, <2>3 DEF CallerInv
<1>9. \A u \in Threads : pc'[u] \notin WriterLabels => pc'[u] = pc[u]
  OBVIOUS
<1>10. WaiterInv'
  <2>1. ASSUME NEW u \in Threads, pc[u] \in {"scan_wait", "scan_woken"}
        PROVE  setOf'[rec[u]] = setOf[rec[u]]
    BY <1>1, <2>1 DEF WaiterInv, CallerInv, ScanLabels
  <2>. QED BY <1>9, <2>1 DEF WaiterInv, WriterLabels
<1>11. WaitingCounted'
  <2>1. \A s \in LockSets, u \in Threads : (u \in Waiters(s))' <=> u \in Waiters(s)
    BY <1>9 DEF Waiters, WriterLabels
  <2>. QED BY <2>1, WaitingFrame
<1>. QED BY <1>6, <1>7, <1>8, <1>10, <1>11 DEF OwnerInv

\* dbLockSetMerge of two records in change, the first with a lock set.
LEMMA MergeFacts ==
    ASSUME TypeOK, ListInv, NEW p \in Records, NEW q \in Records,
           InChange(p), InChange(q), setOf[p] # NoSet, Merge(p, q)
    PROVE  /\ setOf' \in [Records -> LockSets \cup {NoSet}]
           /\ type' \in [LockSets -> {"scan", "record", "free"}]
           /\ UNCHANGED <<state, thread_id, nRecursion, nWaiting>>
           /\ \A s \in LockSets : type'[s] # type[s] =>
                    type[s] = "record" /\ type'[s] = "free"
           /\ \A r \in Records :
                /\ ~InChange(r) => setOf'[r] = setOf[r]
                /\ InChange(r) => InChange(r)'
                /\ setOf[r] # NoSet => setOf'[r] # NoSet
                /\ setOf'[r] # NoSet => Type(r)' # "free"
           /\ \A r, x \in Records :
                (setOf[r] = setOf[x] /\ setOf[r] # NoSet) => setOf'[r] = setOf'[x]
           /\ setOf'[p] = setOf'[q]
<1>. DEFINE s1 == setOf[p]
            s2 == setOf[q]
            moved == {r \in Records : r = p \/ r = q \/ (s2 # NoSet /\ setOf[r] = s2)}
<1>1. /\ setOf' = [r \in Records |-> IF r \in moved THEN s1 ELSE setOf[r]]
      /\ type' = [s \in LockSets |-> IF s = s2 /\ s1 # s2 THEN "free" ELSE type[s]]
      /\ UNCHANGED <<state, thread_id, nRecursion, nWaiting>>
  BY DEF Merge
<1>2. s1 \in LockSets /\ type[s1] = "record"
  BY DEF TypeOK, RecordTypes, InChange, Type
<1>3. s2 # NoSet => s2 \in LockSets /\ type[s2] = "record"
  BY DEF TypeOK, RecordTypes, InChange, Type
<1>4. \A r \in Records : setOf'[r] = IF r \in moved THEN s1 ELSE setOf[r]
  BY <1>1
<1>5. \A s \in LockSets : type'[s] = IF s = s2 /\ s1 # s2 THEN "free" ELSE type[s]
  BY <1>1
<1>6. \A r \in moved : InChange(r)
  BY <1>3 DEF InChange, Type
<1>7. \A r \in Records : /\ setOf[r] \in LockSets \cup {NoSet}
                         /\ setOf[r] # NoSet => type[setOf[r]] # "free"
  BY DEF TypeOK, RecordTypes, ListInv, Type
<1>8. type'[s1] = "record"
  BY <1>2, <1>5
<1>9. \A r \in Records : (r \notin moved /\ setOf[r] # NoSet) => type'[setOf[r]] = type[setOf[r]]
  BY <1>5, <1>7
<1>10. \A r, x \in Records :
            (setOf[r] = setOf[x] /\ setOf[r] # NoSet) => setOf'[r] = setOf'[x]
  <2>1. ASSUME NEW r \in Records, NEW x \in Records, setOf[r] = setOf[x],
               setOf[r] # NoSet, r \in moved, x \notin moved
        PROVE  setOf'[r] = setOf'[x]
    <3>1. setOf[r] = s1
      BY <2>1
    <3>. QED BY <1>4, <2>1, <3>1
  <2>. QED BY <1>4, <2>1
<1>11. p \in moved /\ q \in moved /\ moved \subseteq Records
  OBVIOUS
<1>12. /\ setOf' \in [Records -> LockSets \cup {NoSet}]
       /\ type' \in [LockSets -> {"scan", "record", "free"}]
  BY <1>1, <1>2, <1>7 DEF TypeOK, LockSetTypes
<1>13. \A s \in LockSets : type'[s] # type[s] => type[s] = "record" /\ type'[s] = "free"
  BY <1>3, <1>5
<1>. HIDE DEF s1, s2, moved
<1>14. \A r \in Records :
            /\ ~InChange(r) => setOf'[r] = setOf[r]
            /\ InChange(r) => InChange(r)'
            /\ setOf[r] # NoSet => setOf'[r] # NoSet
            /\ setOf'[r] # NoSet => Type(r)' # "free"
  BY <1>2, <1>4, <1>6, <1>7, <1>8, <1>9 DEF InChange, Type
<1>. QED BY <1>1, <1>4, <1>10, <1>11, <1>12, <1>13, <1>14

\* The call of dbScanLock keeps the invariant.
LEMMA ScanLockInv ==
    ASSUME IInv, NEW t \in Threads, ScanLock(t)
    PROVE  IInv'
<1>. USE DEF IInv, TypeOK, ScanLock, Goto, writerVars, lockSet
<1>1. TypeOK'
  BY DEF RecordTypes, LockSetTypes, ThreadTypes, WriterTypes, Labels,
     ScanLabels, WriterLabels
<1>2. OwnerInv'
  BY DEF OwnerInv, HolderInv, OwnedInv, RecordTypes, LockSetTypes, ThreadTypes
<1>3. CallerInv'
  BY DEF CallerInv, ThreadTypes, ScanLabels
<1>4. WaiterInv'
  BY DEF WaiterInv, RecordTypes, LockSetTypes, ThreadTypes
<1>5. WaitingCounted'
  BY WaitingFrame DEF LockSetTypes, ThreadTypes, Waiters
<1>6. ListInv'
  BY DEF ListInv, RecordTypes, LockSetTypes, WriterTypes, Type
<1>7. WriterInv'
  BY DEF WriterInv, RecordTypes, LockSetTypes, ThreadTypes, WriterTypes, Type,
     InChange, Locking, WriterLabels
<1>8. LinkInv'
  BY LinkFrame, MergedLinkFrame DEF ThreadTypes, WriterTypes, WriterInv,
     WriterLabels
<1>. QED BY <1>1, <1>2, <1>3, <1>4, <1>5, <1>6, <1>7, <1>8

\* dbScanLock of a free lock set keeps the invariant.
LEMMA ScanLockFreeInv ==
    ASSUME IInv, NEW t \in Threads, ScanLockFree(t)
    PROVE  IInv'
<1>. USE DEF IInv, TypeOK, ScanLockFree, ScanEnter, Own, Return, Goto,
   writerVars
<1>a. PICK s \in LockSets : ScanLockFree(t)!(s)
  OBVIOUS
<1>b. rec[t] \in Records /\ held[t] = << >> /\ type[s] = "scan" /\ t # globalLock
  BY <1>a, EnterFacts
<1>c. Append(held[t], rec[t]) = << rec[t] >>
  BY <1>b
<1>1. TypeOK'
  BY <1>a, <1>b, <1>c DEF RecordTypes, LockSetTypes, ThreadTypes, WriterTypes,
     Labels, ScanLabels, WriterLabels
<1>2. OwnerInv'
  BY <1>a, <1>b, <1>c DEF OwnerInv, HolderInv, OwnedInv, RecordTypes,
     LockSetTypes, ThreadTypes
<1>3. CallerInv'
  BY <1>a, <1>b, <1>c DEF CallerInv, ThreadTypes, ScanLabels
<1>4. WaiterInv'
  BY <1>a, <1>b, <1>c DEF WaiterInv, RecordTypes, LockSetTypes, ThreadTypes
<1>5. WaitingCounted'
  BY <1>a, <1>b, <1>c, WaitingFrame DEF LockSetTypes, ThreadTypes, Waiters
<1>6. ListInv'
  BY <1>a, <1>b, <1>c DEF ListInv, RecordTypes, LockSetTypes, WriterTypes, Type
<1>7. WriterInv'
  BY <1>a, <1>b, <1>c DEF WriterInv, RecordTypes, LockSetTypes, ThreadTypes,
     WriterTypes, Type, InChange, Locking, WriterLabels
<1>8. LinkInv'
  BY <1>a, <1>b, <1>c, LinkFrame, MergedLinkFrame DEF ThreadTypes, WriterTypes,
     WriterInv, WriterLabels
<1>. QED BY <1>1, <1>2, <1>3, <1>4, <1>5, <1>6, <1>7, <1>8

\* A failing assertion in dbScanLock keeps the invariant.
LEMMA ScanLockTryFailsInv ==
    ASSUME IInv, NEW t \in Threads, ScanLockTryFails(t)
    PROVE  IInv'
<1>. USE DEF IInv, TypeOK, ScanLockTryFails, ScanEnter, Goto, writerVars,
   lockSet
<1>1. TypeOK'
  BY DEF RecordTypes, LockSetTypes, ThreadTypes, WriterTypes, Labels,
     ScanLabels, WriterLabels
<1>2. OwnerInv'
  BY DEF OwnerInv, HolderInv, OwnedInv, RecordTypes, LockSetTypes, ThreadTypes
<1>3. CallerInv'
  BY EnterFacts DEF CallerInv, ThreadTypes, ScanLabels
<1>4. WaiterInv'
  BY DEF WaiterInv, RecordTypes, LockSetTypes, ThreadTypes
<1>5. WaitingCounted'
  BY WaitingFrame DEF LockSetTypes, ThreadTypes, Waiters
<1>6. ListInv'
  BY DEF ListInv, RecordTypes, LockSetTypes, WriterTypes, Type
<1>7. WriterInv'
  BY DEF WriterInv, RecordTypes, LockSetTypes, ThreadTypes, WriterTypes, Type,
     InChange, Locking, WriterLabels
<1>8. LinkInv'
  BY LinkFrame, MergedLinkFrame DEF ThreadTypes, WriterTypes, WriterInv,
     WriterLabels
<1>. QED BY <1>1, <1>2, <1>3, <1>4, <1>5, <1>6, <1>7, <1>8

\* dbScanLock behind another owner keeps the invariant.
LEMMA ScanLockWaitInv ==
    ASSUME IInv, NEW t \in Threads, ScanLockWait(t)
    PROVE  IInv'
<1>. USE DEF IInv, TypeOK, ScanLockWait, ScanEnter, Goto, writerVars
<1>a. PICK s \in LockSets : ScanLockWait(t)!(s)
  OBVIOUS
<1>b. rec[t] \in Records /\ held[t] = << >> /\ type[s] = "scan"
  BY <1>a, EnterFacts
<1>1. TypeOK'
  BY <1>a, <1>b DEF RecordTypes, LockSetTypes, ThreadTypes, WriterTypes,
     Labels, ScanLabels, WriterLabels
<1>2. OwnerInv'
  BY <1>a, <1>b DEF OwnerInv, HolderInv, OwnedInv, RecordTypes, LockSetTypes,
     ThreadTypes
<1>3. CallerInv'
  BY <1>a, <1>b DEF CallerInv, ThreadTypes, ScanLabels
<1>4. WaiterInv'
  BY <1>a, <1>b DEF WaiterInv, RecordTypes, LockSetTypes, ThreadTypes
<1>5. WaitingCounted'
  <2>1. t \notin Waiters(s) /\ Waiters(s)' = Waiters(s) \cup {t}
    BY <1>a DEF ThreadTypes, Waiters
  <2>2. \A q \in LockSets \ {s} : Waiters(q)' = Waiters(q)
    BY <1>a DEF ThreadTypes, Waiters
  <2>3. /\ nWaiting'[s] = nWaiting[s] + 1
        /\ \A q \in LockSets \ {s} : nWaiting'[q] = nWaiting[q]
    BY <1>a DEF LockSetTypes
  <2>. QED BY <2>1, <2>2, <2>3, WaiterEnters
<1>6. ListInv'
  BY <1>a, <1>b DEF ListInv, RecordTypes, LockSetTypes, WriterTypes, Type
<1>7. WriterInv'
  BY <1>a, <1>b DEF WriterInv, RecordTypes, LockSetTypes, ThreadTypes,
     WriterTypes, Type, InChange, Locking, WriterLabels
<1>8. LinkInv'
  BY <1>a, <1>b, LinkFrame, MergedLinkFrame DEF ThreadTypes, WriterTypes,
     WriterInv, WriterLabels
<1>. QED BY <1>1, <1>2, <1>3, <1>4, <1>5, <1>6, <1>7, <1>8

\* A nested dbScanLock keeps the invariant.
LEMMA ScanLockNestedInv ==
    ASSUME IInv, NEW t \in Threads, ScanLockNested(t)
    PROVE  IInv'
<1>. USE DEF IInv, TypeOK, ScanLockNested, ScanEnter, Own, Return, Goto,
   writerVars
<1>a. PICK s \in LockSets : ScanLockNested(t)!(s)
  OBVIOUS
<1>b. rec[t] \in Records /\ t # globalLock
  BY <1>a, EnterFacts
<1>c. held[t] # << >> /\ setOf[held[t][1]] = s
  <2>1. s \in LockSets /\ s = setOf[rec[t]] /\ s # NoSet /\ thread_id[s] = t
    BY <1>a
  <2>2. type[s] # "record"
    BY <1>a, <2>1 DEF ListInv
  <2>3. type[s] # "free"
    BY <1>b, <2>1 DEF ListInv, Type
  <2>. QED BY <2>1, <2>2, <2>3 DEF OwnerInv, HolderInv, OwnedInv, LockSetTypes
<1>d. /\ Append(held[t], rec[t]) \in Seq(Records)
      /\ Len(Append(held[t], rec[t])) = Len(held[t]) + 1
      /\ Len(held[t]) \in Nat \ {0}
      /\ Append(held[t], rec[t]) # << >>
      /\ \A i \in 1..Len(held[t]) : Append(held[t], rec[t])[i] = held[t][i]
      /\ Append(held[t], rec[t])[Len(held[t]) + 1] = rec[t]
  <2>1. held[t] \in Seq(Records)
    BY DEF ThreadTypes
  <2>2. Len(held[t]) # 0
    BY <1>c, <2>1
  <2>. QED BY <1>b, <2>1, <2>2, AppendFacts

<1>e. /\ held' = [held EXCEPT ![t] = Append(held[t], rec[t])]
      /\ nRecursion' = [nRecursion EXCEPT ![s] = nRecursion[s] + 1]
      /\ UNCHANGED <<setOf, type, state, thread_id, mutex>>
      /\ s = setOf[rec[t]]
  BY <1>a
<1>. HIDE DEF ScanLockNested
<1>1. TypeOK'
  BY <1>a, <1>b, <1>c, <1>d DEF RecordTypes, LockSetTypes, ThreadTypes,
     WriterTypes, Labels, ScanLabels, WriterLabels
<1>2. OwnerInv'
  <2>1. ASSUME NEW u \in Threads, held[u] # << >>, u # t
        PROVE  setOf[held[u][1]] # s
    BY <1>c, <2>1 DEF OwnerInv, HolderInv, OwnedInv
  <2>2. held'[t][1] = held[t][1] /\ held'[t] # << >> /\ Len(held'[t]) = Len(held[t]) + 1
    BY <1>d, <1>e DEF ThreadTypes
  <2>3. \A i \in 1..Len(held'[t]) : setOf[held'[t][i]] = s
    BY <1>c, <1>d, <1>e DEF OwnerInv, HolderInv, OwnedInv, ThreadTypes
  <2>4. nRecursion'[s] = Len(held'[t])
    BY <1>c, <1>e, <2>2 DEF OwnerInv, HolderInv, OwnedInv, LockSetTypes
  <2>5. \A u \in Threads : u # t => held'[u] = held[u]
    BY <1>e DEF ThreadTypes
  <2>6. \A q \in LockSets : q # s => nRecursion'[q] = nRecursion[q]
    BY <1>e DEF LockSetTypes
  <2>9. UNCHANGED <<setOf, type, state, thread_id, mutex>>
    BY <1>e
  <2>7. HolderInv'
    <3>1. ASSUME NEW u \in Threads, held'[u] # << >>
          PROVE  LET q == setOf[held'[u][1]] IN
                 /\ q \in LockSets
                 /\ \A i \in 1..Len(held'[u]) : setOf[held'[u][i]] = q
                 /\ mutex'[q] = u
                 /\ type[q] = "scan"
                 /\ state'[q] # "Free"
                 /\ thread_id'[q] = u
                 /\ nRecursion'[q] = Len(held'[u])
      <4>1. CASE u = t
        BY <1>c, <1>e, <2>2, <2>3, <2>4, <3>1, <4>1 DEF OwnerInv, HolderInv
      <4>2. CASE u # t
        <5>1. held'[u] = held[u] /\ setOf[held[u][1]] # s
          BY <2>1, <2>5, <3>1, <4>2
        <5>2. nRecursion'[setOf[held[u][1]]] = nRecursion[setOf[held[u][1]]]
          BY <2>6, <3>1, <5>1 DEF OwnerInv, HolderInv
        <5>. QED BY <2>9, <3>1, <5>1, <5>2 DEF OwnerInv, HolderInv
      <4>. QED BY <4>1, <4>2
    <3>. QED BY <2>9, <3>1 DEF HolderInv
  <2>8. OwnedInv'
    BY <1>c, <1>e, <2>2, <2>5 DEF OwnerInv, OwnedInv
  <2>. QED BY <2>7, <2>8 DEF OwnerInv
<1>3. CallerInv'
  BY <1>a, <1>b, <1>c, <1>d DEF CallerInv, ThreadTypes, ScanLabels
<1>4. WaiterInv'
  BY <1>a, <1>b, <1>c, <1>d DEF WaiterInv, RecordTypes, LockSetTypes,
     ThreadTypes
<1>5. WaitingCounted'
  BY <1>a, <1>b, <1>c, <1>d, WaitingFrame DEF LockSetTypes, ThreadTypes, Waiters
<1>6. ListInv'
  BY <1>a, <1>b, <1>c, <1>d DEF ListInv, RecordTypes, LockSetTypes,
     WriterTypes, Type
<1>7. WriterInv'
  BY <1>a, <1>b, <1>c, <1>d DEF WriterInv, RecordTypes, LockSetTypes,
     ThreadTypes, WriterTypes, Type, InChange, Locking, WriterLabels
<1>8. LinkInv'
  BY <1>a, <1>b, <1>c, <1>d, LinkFrame, MergedLinkFrame DEF ThreadTypes,
     WriterTypes, WriterInv, WriterLabels
<1>. QED BY <1>1, <1>2, <1>3, <1>4, <1>5, <1>6, <1>7, <1>8

\* dbScanLock that gives way to a link change keeps the invariant.
LEMMA ScanLockDeferInv ==
    ASSUME IInv, NEW t \in Threads, ScanLockDefer(t)
    PROVE  IInv'
<1>. USE DEF IInv, TypeOK, ScanLockDefer, ScanEnter, Goto, writerVars, lockSet
<1>1. TypeOK'
  BY DEF RecordTypes, LockSetTypes, ThreadTypes, WriterTypes, Labels,
     ScanLabels, WriterLabels
<1>2. OwnerInv'
  BY DEF OwnerInv, HolderInv, OwnedInv, RecordTypes, LockSetTypes, ThreadTypes
<1>3. CallerInv'
  BY EnterFacts DEF CallerInv, ThreadTypes, ScanLabels
<1>4. WaiterInv'
  BY DEF WaiterInv, RecordTypes, LockSetTypes, ThreadTypes
<1>5. WaitingCounted'
  BY WaitingFrame DEF LockSetTypes, ThreadTypes, Waiters
<1>6. ListInv'
  BY DEF ListInv, RecordTypes, LockSetTypes, WriterTypes, Type
<1>7. WriterInv'
  BY DEF WriterInv, RecordTypes, LockSetTypes, ThreadTypes, WriterTypes, Type,
     InChange, Locking, WriterLabels
<1>8. LinkInv'
  BY LinkFrame, MergedLinkFrame DEF ThreadTypes, WriterTypes, WriterInv,
     WriterLabels
<1>. QED BY <1>1, <1>2, <1>3, <1>4, <1>5, <1>6, <1>7, <1>8

\* The waiter that gets the mutex keeps the invariant.
LEMMA ScanLockGetMutexInv ==
    ASSUME IInv, NEW t \in Threads, ScanLockGetMutex(t)
    PROVE  IInv'
<1>. USE DEF IInv, TypeOK, ScanLockGetMutex, Goto, writerVars, lockSet
<1>1. TypeOK'
  BY DEF RecordTypes, LockSetTypes, ThreadTypes, WriterTypes, Labels,
     ScanLabels, WriterLabels
<1>2. OwnerInv'
  BY DEF OwnerInv, HolderInv, OwnedInv, RecordTypes, LockSetTypes, ThreadTypes
<1>3. CallerInv'
  BY DEF CallerInv, ThreadTypes, ScanLabels
<1>4. WaiterInv'
  BY DEF WaiterInv, RecordTypes, LockSetTypes, ThreadTypes
<1>5. WaitingCounted'
  BY WaitingFrame DEF LockSetTypes, ThreadTypes, Waiters
<1>6. ListInv'
  BY DEF ListInv, RecordTypes, LockSetTypes, WriterTypes, Type
<1>7. WriterInv'
  BY DEF WriterInv, RecordTypes, LockSetTypes, ThreadTypes, WriterTypes, Type,
     InChange, Locking, WriterLabels
<1>8. LinkInv'
  BY LinkFrame, MergedLinkFrame DEF ThreadTypes, WriterTypes, WriterInv,
     WriterLabels
<1>. QED BY <1>1, <1>2, <1>3, <1>4, <1>5, <1>6, <1>7, <1>8

\* The waiter that becomes the owner keeps the invariant.
LEMMA ScanLockWokenInv ==
    ASSUME IInv, NEW t \in Threads, ScanLockWoken(t)
    PROVE  IInv'
<1>. USE DEF IInv, TypeOK, ScanLockWoken, Own, Return, Goto, writerVars
<1>p. PICK s \in LockSets : s = lset[t]
  BY DEF WaiterInv

<1>a. rec[t] \in Records /\ held[t] = << >> /\ t # globalLock
  BY <1>p DEF WaiterInv, CallerInv, ScanLabels, WriterInv, WriterLabels
<1>b. /\ setOf[rec[t]] = s /\ mutex[s] = t
      /\ type[s] = "scan" /\ state[s] # "Free"
  BY <1>p DEF WaiterInv
<1>c. Append(held[t], rec[t]) = << rec[t] >>
  BY <1>a
<1>d. nWaiting[s] \in Nat \ {0}
  BY <1>p, MustWait DEF Waiters

<1>e. /\ held' = [held EXCEPT ![t] = << rec[t] >>]
      /\ nWaiting' = [nWaiting EXCEPT ![s] = nWaiting[s] - 1]
      /\ thread_id' = [thread_id EXCEPT ![s] = t]
      /\ nRecursion' = [nRecursion EXCEPT ![s] = 1]
      /\ pc' = [pc EXCEPT ![t] = "idle"]
      /\ rec' = [rec EXCEPT ![t] = NoRecord]
      /\ lset' = [lset EXCEPT ![t] = NoSet]
      /\ UNCHANGED <<setOf, link, type, state, mutex, globalLock, target, todo, cur>>
      /\ pc[t] = "scan_woken"
  BY <1>c, <1>p
<1>. HIDE DEF ScanLockWoken
<1>1. TypeOK'
  BY <1>p, <1>a, <1>b, <1>d, <1>e DEF RecordTypes, LockSetTypes, ThreadTypes,
     WriterTypes, Labels, ScanLabels, WriterLabels
<1>2. OwnerInv'
  <2>1. ASSUME NEW u \in Threads, held[u] # << >>, u # t
        PROVE  setOf[held[u][1]] # s
    BY <1>b, <2>1 DEF OwnerInv, HolderInv, OwnedInv
  <2>2. held'[t] = << rec[t] >> /\ \A u \in Threads : u # t => held'[u] = held[u]
    BY <1>e DEF ThreadTypes
  <2>3. /\ thread_id'[s] = t /\ nRecursion'[s] = 1
        /\ \A q \in LockSets : q # s => /\ nRecursion'[q] = nRecursion[q]
                                        /\ thread_id'[q] = thread_id[q]
    BY <1>e DEF LockSetTypes
  <2>. QED BY <1>a, <1>b, <1>e, <2>1, <2>2, <2>3 DEF OwnerInv, HolderInv, OwnedInv
<1>3. CallerInv'
  BY <1>p, <1>a, <1>b, <1>d, <1>e DEF CallerInv, ThreadTypes, ScanLabels
<1>4. WaiterInv'
  BY <1>p, <1>a, <1>b, <1>d, <1>e DEF WaiterInv, RecordTypes, LockSetTypes,
     ThreadTypes
<1>5. WaitingCounted'
  <2>1. t \in Waiters(s) /\ Waiters(s)' = Waiters(s) \ {t}
    BY <1>p, <1>e DEF ThreadTypes, Waiters
  <2>2. \A q \in LockSets \ {s} : Waiters(q)' = Waiters(q)
    BY <1>p, <1>e DEF ThreadTypes, Waiters
  <2>3. /\ nWaiting'[s] = nWaiting[s] - 1
        /\ \A q \in LockSets \ {s} : nWaiting'[q] = nWaiting[q]
    BY <1>p, <1>e DEF LockSetTypes
  <2>. QED BY <1>p, <2>1, <2>2, <2>3, WaiterLeaves
<1>6. ListInv'
  BY <1>p, <1>a, <1>b, <1>d, <1>e DEF ListInv, RecordTypes, LockSetTypes,
     WriterTypes, Type
<1>7. WriterInv'
  BY <1>p, <1>a, <1>b, <1>d, <1>e DEF WriterInv, RecordTypes, LockSetTypes,
     ThreadTypes, WriterTypes, Type, InChange, Locking, WriterLabels
<1>8. LinkInv'
  BY <1>p, <1>a, <1>b, <1>d, <1>e, LinkFrame, MergedLinkFrame DEF ThreadTypes,
     WriterTypes, WriterInv, WriterLabels
<1>. QED BY <1>1, <1>2, <1>3, <1>4, <1>5, <1>6, <1>7, <1>8

\* The waiter that gives way to a link change keeps the invariant.
LEMMA ScanLockYieldInv ==
    ASSUME IInv, NEW t \in Threads, ScanLockYield(t)
    PROVE  IInv'
<1>. USE DEF IInv, TypeOK, ScanLockYield, Goto, writerVars
<1>p. PICK s \in LockSets : s = lset[t]
  BY DEF WaiterInv

<1>a. held[t] = << >> /\ mutex[s] = t
  BY <1>p DEF WaiterInv, CallerInv, ScanLabels
<1>b. nWaiting[s] \in Nat \ {0}
  BY <1>p, MustWait DEF Waiters
<1>1. TypeOK'
  BY <1>p, <1>a, <1>b DEF RecordTypes, LockSetTypes, ThreadTypes, WriterTypes,
     Labels, ScanLabels, WriterLabels
<1>2. OwnerInv'
  BY <1>p, <1>a, <1>b DEF OwnerInv, HolderInv, OwnedInv, RecordTypes,
     LockSetTypes, ThreadTypes
<1>3. CallerInv'
  BY <1>p, <1>a, <1>b DEF CallerInv, ThreadTypes, ScanLabels
<1>4. WaiterInv'
  BY <1>p, <1>a, <1>b DEF WaiterInv, RecordTypes, LockSetTypes, ThreadTypes
<1>5. WaitingCounted'
  <2>1. t \in Waiters(s) /\ Waiters(s)' = Waiters(s) \ {t}
    BY <1>p DEF ThreadTypes, Waiters
  <2>2. \A q \in LockSets \ {s} : Waiters(q)' = Waiters(q)
    BY <1>p DEF ThreadTypes, Waiters
  <2>3. /\ nWaiting'[s] = nWaiting[s] - 1
        /\ \A q \in LockSets \ {s} : nWaiting'[q] = nWaiting[q]
    BY <1>p DEF LockSetTypes
  <2>. QED BY <1>p, <2>1, <2>2, <2>3, WaiterLeaves
<1>6. ListInv'
  BY <1>p, <1>a, <1>b DEF ListInv, RecordTypes, LockSetTypes, WriterTypes, Type
<1>7. WriterInv'
  BY <1>p, <1>a, <1>b DEF WriterInv, RecordTypes, LockSetTypes, ThreadTypes,
     WriterTypes, Type, InChange, Locking, WriterLabels
<1>8. LinkInv'
  BY <1>p, <1>a, <1>b, LinkFrame, MergedLinkFrame DEF ThreadTypes, WriterTypes,
     WriterInv, WriterLabels
<1>. QED BY <1>1, <1>2, <1>3, <1>4, <1>5, <1>6, <1>7, <1>8

\* Waiting for globalLock keeps the invariant.
LEMMA ScanLockGlobalInv ==
    ASSUME IInv, NEW t \in Threads, ScanLockGlobal(t)
    PROVE  IInv'
<1>. USE DEF IInv, TypeOK, ScanLockGlobal, Jump, Goto, lockSet, writerVars
<1>1. TypeOK'
  BY DEF RecordTypes, LockSetTypes, ThreadTypes, WriterTypes, Labels,
     ScanLabels, WriterLabels
<1>2. OwnerInv'
  BY DEF OwnerInv, HolderInv, OwnedInv, RecordTypes, LockSetTypes, ThreadTypes
<1>3. CallerInv'
  BY DEF CallerInv, ThreadTypes, ScanLabels
<1>4. WaiterInv'
  BY DEF WaiterInv, RecordTypes, LockSetTypes, ThreadTypes
<1>5. WaitingCounted'
  BY WaitingFrame DEF LockSetTypes, ThreadTypes, Waiters
<1>6. ListInv'
  BY DEF ListInv, RecordTypes, LockSetTypes, WriterTypes, Type
<1>7. WriterInv'
  BY DEF WriterInv, RecordTypes, LockSetTypes, ThreadTypes, WriterTypes, Type,
     InChange, Locking, WriterLabels
<1>8. LinkInv'
  BY LinkFrame, MergedLinkFrame DEF ThreadTypes, WriterTypes, WriterInv,
     WriterLabels
<1>. QED BY <1>1, <1>2, <1>3, <1>4, <1>5, <1>6, <1>7, <1>8

\* dbScanUnlock, nested or last, keeps the invariant.
LEMMA ScanUnlockInv ==
    ASSUME IInv, NEW t \in Threads, ScanUnlock(t)
    PROVE  IInv'
<1>. USE DEF IInv, TypeOK, ScanUnlock, writerVars
<1>. DEFINE n == Len(held[t])
            s == setOf[held[t][n]]
<1>a. n \in Nat \ {0} /\ s = setOf[held[t][1]] /\ t # globalLock
  <2>1. held[t] \in Seq(Records) /\ held[t] # << >>
    BY DEF ThreadTypes
  <2>2. Len(held[t]) \in Nat \ {0}
    BY <2>1
  <2>3. t # globalLock
    BY DEF WriterInv, WriterLabels
  <2>. QED BY <2>1, <2>2, <2>3 DEF OwnerInv, HolderInv, OwnedInv
<1>b. /\ s \in LockSets /\ mutex[s] = t /\ type[s] = "scan" /\ state[s] # "Free"
      /\ thread_id[s] = t /\ nRecursion[s] = n
  BY <1>a DEF OwnerInv, HolderInv, OwnedInv
<1>c. /\ SubSeq(held[t], 1, n - 1) \in Seq(Records)
      /\ Len(SubSeq(held[t], 1, n - 1)) = n - 1
      /\ \A i \in 1..n-1 : SubSeq(held[t], 1, n - 1)[i] = held[t][i]
      /\ (SubSeq(held[t], 1, n - 1) = << >>) <=> (n = 1)
  <2>1. held[t] \in Seq(Records) /\ held[t] # << >>
    BY DEF ThreadTypes
  <2>. QED BY <2>1, FrontFacts
<1>f. /\ n = Len(held[t]) /\ held[t] # << >>
      /\ \A i \in 1..n : setOf[held[t][i]] = s
  BY <1>a DEF OwnerInv, HolderInv
<1>d. /\ held' = [held EXCEPT ![t] = SubSeq(held[t], 1, n - 1)]
      /\ mutex' = [mutex EXCEPT ![s] = IF n = 1 THEN NoThread ELSE t]
      /\ nRecursion' = [nRecursion EXCEPT ![s] = n - 1]
      /\ thread_id' = [thread_id EXCEPT ![s] = IF n = 1 THEN NoThread ELSE t]
      /\ state' = [state EXCEPT ![s] = IF n = 1 THEN Unlocked(s) ELSE state[s]]
      /\ UNCHANGED <<setOf, link, type, nWaiting, globalLock, pc, rec, lset,
                     target, todo, cur>>
      /\ pc[t] = "idle"
  BY <1>b
<1>e. /\ Unlocked(s) \in {"Free", "ScanLock", "RecordLock"}
      /\ state[s] = "RecordLock" => Unlocked(s) = "RecordLock"
      /\ \A u \in Threads : u \in Waiters(s) => Unlocked(s) # "Free"
  BY <1>b, MustWait DEF LockSetTypes, Unlocked
<1>. HIDE DEF n, s, ScanUnlock
<1>1. TypeOK'
  <2>1. LockSetTypes'
    BY <1>a, <1>b, <1>d, <1>e DEF LockSetTypes
  <2>2. ThreadTypes'
    BY <1>c, <1>d DEF ThreadTypes
  <2>. QED BY <1>d, <2>1, <2>2 DEF RecordTypes, WriterTypes
<1>2. OwnerInv'
  <2>1. ASSUME NEW u \in Threads, held[u] # << >>, u # t
        PROVE  setOf[held[u][1]] # s
    BY <1>b, <2>1 DEF OwnerInv, HolderInv, OwnedInv
  <2>2. /\ held'[t] = SubSeq(held[t], 1, n - 1)
        /\ \A u \in Threads : u # t => held'[u] = held[u]
    BY <1>d DEF ThreadTypes
  <2>3. /\ nRecursion'[s] = n - 1
        /\ thread_id'[s] = IF n = 1 THEN NoThread ELSE t
        /\ state'[s] = IF n = 1 THEN Unlocked(s) ELSE state[s]
        /\ mutex'[s] = IF n = 1 THEN NoThread ELSE t
        /\ \A q \in LockSets : q # s => /\ nRecursion'[q] = nRecursion[q]
                                        /\ thread_id'[q] = thread_id[q]
                                        /\ state'[q] = state[q]
                                        /\ mutex'[q] = mutex[q]
    BY <1>b, <1>d DEF LockSetTypes
  <2>4. n # 1 => \A i \in 1..(n - 1) : setOf[held'[t][i]] = s
    BY <1>a, <1>c, <1>f, <2>2
  <2>5. n # 1 => held'[t] # << >> /\ setOf[held'[t][1]] = s /\ Len(held'[t]) = n - 1
    BY <1>a, <1>c, <2>2, <2>4
  <2>6. n = 1 => held'[t] = << >>
    BY <1>c, <2>2
  <2>7. UNCHANGED <<setOf, type>>
    BY <1>d
  <2>8. HolderInv'
    <3>1. ASSUME NEW u \in Threads, held'[u] # << >>
          PROVE  LET q == setOf[held'[u][1]] IN
                 /\ q \in LockSets
                 /\ \A i \in 1..Len(held'[u]) : setOf[held'[u][i]] = q
                 /\ mutex'[q] = u
                 /\ type[q] = "scan"
                 /\ state'[q] # "Free"
                 /\ thread_id'[q] = u
                 /\ nRecursion'[q] = Len(held'[u])
      <4>1. CASE u = t
        <5>1. n # 1
          BY <2>6, <3>1, <4>1
        <5>. QED BY <1>b, <2>3, <2>4, <2>5, <4>1, <5>1
      <4>2. CASE u # t
        <5>1. held'[u] = held[u] /\ held[u] # << >> /\ setOf[held[u][1]] # s
          BY <2>1, <2>2, <3>1, <4>2
        <5>2. setOf[held[u][1]] \in LockSets
          BY <5>1 DEF OwnerInv, HolderInv
        <5>. QED BY <2>3, <5>1, <5>2 DEF OwnerInv, HolderInv
      <4>. QED BY <4>1, <4>2
    <3>. QED BY <2>7, <3>1 DEF HolderInv
  <2>9. OwnedInv'
    <3>1. ASSUME NEW q \in LockSets, NEW u \in Threads, type[q] = "scan", thread_id'[q] = u
          PROVE  held'[u] # << >> /\ setOf[held'[u][1]] = q
      <4>1. CASE q = s
        BY <1>b, <2>3, <2>5, <3>1, <4>1
      <4>2. CASE q # s
        <5>1. thread_id[q] = u /\ held[u] # << >> /\ setOf[held[u][1]] = q
          BY <2>3, <3>1, <4>2 DEF OwnerInv, OwnedInv
        <5>2. u # t
          BY <1>a, <4>2, <5>1
        <5>. QED BY <2>2, <5>1, <5>2
      <4>. QED BY <4>1, <4>2
    <3>. QED BY <2>7, <3>1 DEF OwnedInv
  <2>. QED BY <2>8, <2>9 DEF OwnerInv
<1>3. CallerInv'
  BY <1>a, <1>b, <1>c, <1>d, <1>e DEF CallerInv, ThreadTypes, ScanLabels
<1>4. WaiterInv'
  BY <1>a, <1>b, <1>c, <1>d, <1>e DEF WaiterInv, RecordTypes, LockSetTypes,
     ThreadTypes, Waiters
<1>5. WaitingCounted'
  BY <1>a, <1>b, <1>c, <1>d, <1>e, WaitingFrame DEF LockSetTypes, ThreadTypes,
     Waiters
<1>6. ListInv'
  BY <1>a, <1>b, <1>c, <1>d, <1>e DEF ListInv, RecordTypes, LockSetTypes,
     WriterTypes, Type
<1>7. WriterInv'
  BY <1>a, <1>b, <1>c, <1>d, <1>e DEF WriterInv, RecordTypes, LockSetTypes,
     ThreadTypes, WriterTypes, Type, InChange, Locking, WriterLabels
<1>8. LinkInv'
  BY <1>a, <1>b, <1>c, <1>d, <1>e, LinkFrame, MergedLinkFrame DEF ThreadTypes,
     WriterTypes, WriterInv, WriterLabels
<1>. QED BY <1>1, <1>2, <1>3, <1>4, <1>5, <1>6, <1>7, <1>8

\* The call of dbPutFieldLink keeps the invariant.
LEMMA PutFieldLinkInv ==
    ASSUME IInv, NEW t \in Threads, PutFieldLink(t)
    PROVE  IInv'
<1>. USE DEF IInv, TypeOK, PutFieldLink, Goto, writerVars, lockSet
<1>1. TypeOK'
  BY DEF RecordTypes, LockSetTypes, ThreadTypes, WriterTypes, Labels,
     ScanLabels, WriterLabels
<1>2. OwnerInv'
  BY DEF OwnerInv, HolderInv, OwnedInv, RecordTypes, LockSetTypes, ThreadTypes
<1>3. CallerInv'
  BY DEF CallerInv, ThreadTypes, ScanLabels
<1>4. WaiterInv'
  BY DEF WaiterInv, RecordTypes, LockSetTypes, ThreadTypes
<1>5. WaitingCounted'
  BY WaitingFrame DEF LockSetTypes, ThreadTypes, Waiters
<1>6. ListInv'
  BY DEF ListInv, RecordTypes, LockSetTypes, WriterTypes, Type
<1>7. WriterInv'
  BY DEF WriterInv, RecordTypes, LockSetTypes, ThreadTypes, WriterTypes, Type,
     InChange, Locking, WriterLabels
<1>8. LinkInv'
  BY LinkFrame, MergedLinkFrame DEF ThreadTypes, WriterTypes, WriterInv,
     WriterLabels
<1>. QED BY <1>1, <1>2, <1>3, <1>4, <1>5, <1>6, <1>7, <1>8

\* dbLockSetGblLock keeps the invariant.
LEMMA PutGlobalInv ==
    ASSUME IInv, NEW t \in Threads, PutGlobal(t)
    PROVE  IInv'
<1>. USE DEF IInv, TypeOK, PutGlobal, Goto, writerVars, lockSet
<1>1. TypeOK'
  BY DEF RecordTypes, LockSetTypes, ThreadTypes, WriterTypes, Labels,
     ScanLabels, WriterLabels
<1>2. OwnerInv'
  BY DEF OwnerInv, HolderInv, OwnedInv, RecordTypes, LockSetTypes, ThreadTypes
<1>3. CallerInv'
  BY DEF CallerInv, ThreadTypes, ScanLabels
<1>4. WaiterInv'
  BY DEF WaiterInv, RecordTypes, LockSetTypes, ThreadTypes
<1>5. WaitingCounted'
  BY WaitingFrame DEF LockSetTypes, ThreadTypes, Waiters
<1>6. ListInv'
  BY DEF ListInv, RecordTypes, LockSetTypes, WriterTypes, Type
<1>7. WriterInv'
  BY DEF WriterInv, RecordTypes, LockSetTypes, ThreadTypes, WriterTypes, Type,
     InChange, Locking, WriterLabels, ListInv, CallerInv
<1>8. LinkInv'
  BY LinkFrame, MergedLinkFrame DEF ThreadTypes, WriterTypes, WriterInv,
     WriterLabels, MergedLink
<1>. QED BY <1>1, <1>2, <1>3, <1>4, <1>5, <1>6, <1>7, <1>8

\* dbcar at globalLock keeps the invariant.
LEMMA DbcarInv ==
    ASSUME IInv, NEW t \in Threads, Dbcar(t)
    PROVE  IInv'
<1>. USE DEF IInv, TypeOK, Dbcar, Goto, writerVars, lockSet
<1>1. TypeOK'
  BY DEF RecordTypes, LockSetTypes, ThreadTypes, WriterTypes, Labels,
     ScanLabels, WriterLabels
<1>2. OwnerInv'
  BY DEF OwnerInv, HolderInv, OwnedInv, RecordTypes, LockSetTypes, ThreadTypes
<1>3. CallerInv'
  BY DEF CallerInv, ThreadTypes, ScanLabels
<1>4. WaiterInv'
  BY DEF WaiterInv, RecordTypes, LockSetTypes, ThreadTypes
<1>5. WaitingCounted'
  BY WaitingFrame DEF LockSetTypes, ThreadTypes, Waiters
<1>6. ListInv'
  BY DEF ListInv, RecordTypes, LockSetTypes, WriterTypes, Type
<1>7. WriterInv'
  BY DEF WriterInv, RecordTypes, LockSetTypes, ThreadTypes, WriterTypes, Type,
     InChange, Locking, WriterLabels
<1>8. LinkInv'
  BY LinkFrame, MergedLinkFrame DEF ThreadTypes, WriterTypes, WriterInv,
     WriterLabels, MergedLink
<1>. QED BY <1>1, <1>2, <1>3, <1>4, <1>5, <1>6, <1>7, <1>8

\* dbLockSetRecordLock of a lock set it has keeps the invariant.
LEMMA RecordLockHaveInv ==
    ASSUME IInv, NEW t \in Threads, RecordLockHave(t)
    PROVE  IInv'
<1>. USE DEF IInv, TypeOK, RecordLockHave, Jump, Goto, lockSet, writerVars
<1>a. /\ pc[t] \in WriterLabels /\ globalLock = t /\ held[t] = << >>
      /\ rec[t] \in Records
      /\ \A u \in Threads : u # t => pc[u] \notin WriterLabels
  BY WriterFacts DEF WriterLabels
<1>b. /\ Locking(t) \in Records /\ setOf[Locking(t)] \in LockSets
      /\ Type(Locking(t)) # "free" /\ todo = {}
  BY LockingFacts
<1>c. /\ AfterRecordLock \in {"put_old", "put_merge"}
      /\ AfterRecordLock = "put_old" <=> target = NoRecord
  BY DEF AfterRecordLock
<1>1. TypeOK'
  BY <1>a, <1>b, <1>c DEF RecordTypes, LockSetTypes, ThreadTypes, WriterTypes,
     Labels, ScanLabels, WriterLabels
<1>2. OwnerInv'
  BY <1>a, <1>b, <1>c DEF OwnerInv, HolderInv, OwnedInv, RecordTypes,
     LockSetTypes, ThreadTypes
<1>3. CallerInv'
  BY <1>a, <1>b, <1>c DEF CallerInv, ThreadTypes, ScanLabels
<1>4. WaiterInv'
  BY <1>a, <1>b, <1>c DEF WaiterInv, RecordTypes, LockSetTypes, ThreadTypes
<1>5. WaitingCounted'
  BY <1>a, <1>b, <1>c, WaitingFrame DEF LockSetTypes, ThreadTypes, Waiters
<1>6. ListInv'
  BY <1>a, <1>b, <1>c DEF ListInv, RecordTypes, LockSetTypes, WriterTypes, Type
<1>7. WriterInv'
  BY <1>a, <1>b, <1>c DEF WriterInv, RecordTypes, LockSetTypes, ThreadTypes,
     WriterTypes, Type, InChange, Locking, WriterLabels
<1>8. LinkInv'
  BY <1>a, <1>b, <1>c, LinkFrame, MergedLinkFrame DEF ThreadTypes, WriterTypes,
     WriterInv, WriterLabels
<1>. QED BY <1>1, <1>2, <1>3, <1>4, <1>5, <1>6, <1>7, <1>8

\* Marking a lock set RecordLock keeps the invariant.
LEMMA RecordLockEnterInv ==
    ASSUME IInv, NEW t \in Threads, RecordLockEnter(t)
    PROVE  IInv'
<1>. USE DEF IInv, TypeOK, RecordLockEnter, Goto, writerVars
<1>a. /\ pc[t] \in WriterLabels /\ globalLock = t /\ held[t] = << >>
      /\ rec[t] \in Records
      /\ \A u \in Threads : u # t => pc[u] \notin WriterLabels
  BY WriterFacts DEF WriterLabels
<1>b. /\ Locking(t) \in Records /\ setOf[Locking(t)] \in LockSets
      /\ Type(Locking(t)) # "free" /\ todo = {}
  BY LockingFacts
<1>1. TypeOK'
  BY <1>a, <1>b DEF RecordTypes, LockSetTypes, ThreadTypes, WriterTypes,
     Labels, ScanLabels, WriterLabels
<1>2. OwnerInv'
  BY <1>a, <1>b DEF OwnerInv, HolderInv, OwnedInv, RecordTypes, LockSetTypes,
     ThreadTypes, Type
<1>3. CallerInv'
  BY <1>a, <1>b DEF CallerInv, ThreadTypes, ScanLabels
<1>4. WaiterInv'
  BY <1>a, <1>b DEF WaiterInv, RecordTypes, LockSetTypes, ThreadTypes, Type
<1>5. WaitingCounted'
  BY <1>a, <1>b, WaitingFrame DEF LockSetTypes, ThreadTypes, Waiters
<1>6. ListInv'
  BY <1>a, <1>b DEF ListInv, RecordTypes, LockSetTypes, WriterTypes, Type
<1>7. WriterInv'
  BY <1>a, <1>b DEF WriterInv, RecordTypes, LockSetTypes, ThreadTypes,
     WriterTypes, Type, InChange, Locking, WriterLabels
<1>8. LinkInv'
  BY <1>a, <1>b, LinkFrame, MergedLinkFrame DEF ThreadTypes, WriterTypes,
     WriterInv, WriterLabels
<1>. QED BY <1>1, <1>2, <1>3, <1>4, <1>5, <1>6, <1>7, <1>8

\* The link writer that gets the mutex keeps the invariant.
LEMMA RecordLockGetInv ==
    ASSUME IInv, NEW t \in Threads, RecordLockGet(t)
    PROVE  IInv'
<1>. USE DEF IInv, TypeOK, RecordLockGet, Goto, writerVars, lockSet
<1>a. /\ pc[t] \in WriterLabels /\ globalLock = t /\ held[t] = << >>
      /\ rec[t] \in Records
      /\ \A u \in Threads : u # t => pc[u] \notin WriterLabels
  BY WriterFacts DEF WriterLabels
<1>b. /\ Locking(t) \in Records /\ setOf[Locking(t)] \in LockSets
      /\ Type(Locking(t)) # "free" /\ todo = {}
  BY LockingFacts
<1>1. TypeOK'
  BY <1>a, <1>b DEF RecordTypes, LockSetTypes, ThreadTypes, WriterTypes,
     Labels, ScanLabels, WriterLabels
<1>2. OwnerInv'
  BY <1>a, <1>b DEF OwnerInv, HolderInv, OwnedInv, RecordTypes, LockSetTypes,
     ThreadTypes
<1>3. CallerInv'
  BY <1>a, <1>b DEF CallerInv, ThreadTypes, ScanLabels
<1>4. WaiterInv'
  BY <1>a, <1>b DEF WaiterInv, RecordTypes, LockSetTypes, ThreadTypes
<1>5. WaitingCounted'
  BY <1>a, <1>b, WaitingFrame DEF LockSetTypes, ThreadTypes, Waiters
<1>6. ListInv'
  BY <1>a, <1>b DEF ListInv, RecordTypes, LockSetTypes, WriterTypes, Type
<1>7. WriterInv'
  BY <1>a, <1>b DEF WriterInv, RecordTypes, LockSetTypes, ThreadTypes,
     WriterTypes, Type, InChange, Locking, WriterLabels
<1>8. LinkInv'
  BY <1>a, <1>b, LinkFrame, MergedLinkFrame DEF ThreadTypes, WriterTypes,
     WriterInv, WriterLabels
<1>. QED BY <1>1, <1>2, <1>3, <1>4, <1>5, <1>6, <1>7, <1>8

\* The link writer that releases the mutex keeps the invariant.
LEMMA RecordLockReleaseInv ==
    ASSUME IInv, NEW t \in Threads, RecordLockRelease(t)
    PROVE  IInv'
<1>. USE DEF IInv, TypeOK, RecordLockRelease, Goto, writerVars, lockSet
<1>a. /\ pc[t] \in WriterLabels /\ globalLock = t /\ held[t] = << >>
      /\ rec[t] \in Records
      /\ \A u \in Threads : u # t => pc[u] \notin WriterLabels
  BY WriterFacts DEF WriterLabels
<1>b. /\ Locking(t) \in Records /\ setOf[Locking(t)] \in LockSets
      /\ Type(Locking(t)) # "free" /\ todo = {}
  BY LockingFacts
<1>1. TypeOK'
  BY <1>a, <1>b DEF RecordTypes, LockSetTypes, ThreadTypes, WriterTypes,
     Labels, ScanLabels, WriterLabels
<1>2. OwnerInv'
  BY <1>a, <1>b DEF OwnerInv, HolderInv, OwnedInv, RecordTypes, LockSetTypes,
     ThreadTypes, WriterInv, Type
<1>3. CallerInv'
  BY <1>a, <1>b DEF CallerInv, ThreadTypes, ScanLabels
<1>4. WaiterInv'
  BY <1>a, <1>b DEF WaiterInv, RecordTypes, LockSetTypes, ThreadTypes,
     WriterInv, Type, WriterLabels
<1>5. WaitingCounted'
  BY <1>a, <1>b, WaitingFrame DEF LockSetTypes, ThreadTypes, Waiters
<1>6. ListInv'
  BY <1>a, <1>b DEF ListInv, RecordTypes, LockSetTypes, WriterTypes, Type
<1>7. WriterInv'
  BY <1>a, <1>b DEF WriterInv, RecordTypes, LockSetTypes, ThreadTypes,
     WriterTypes, Type, InChange, Locking, WriterLabels
<1>8. LinkInv'
  BY <1>a, <1>b, LinkFrame, MergedLinkFrame DEF ThreadTypes, WriterTypes,
     WriterInv, WriterLabels
<1>. QED BY <1>1, <1>2, <1>3, <1>4, <1>5, <1>6, <1>7, <1>8

\* Another round of the wait in dbLockSetRecordLock keeps the invariant.
LEMMA RecordLockRetryInv ==
    ASSUME IInv, NEW t \in Threads, RecordLockRetry(t)
    PROVE  IInv'
<1>. USE DEF IInv, TypeOK, RecordLockRetry, Jump, Goto, lockSet, writerVars
<1>a. /\ pc[t] \in WriterLabels /\ globalLock = t /\ held[t] = << >>
      /\ rec[t] \in Records
      /\ \A u \in Threads : u # t => pc[u] \notin WriterLabels
  BY WriterFacts DEF WriterLabels
<1>b. /\ Locking(t) \in Records /\ setOf[Locking(t)] \in LockSets
      /\ Type(Locking(t)) # "free" /\ todo = {}
  BY LockingFacts
<1>1. TypeOK'
  BY <1>a, <1>b DEF RecordTypes, LockSetTypes, ThreadTypes, WriterTypes,
     Labels, ScanLabels, WriterLabels
<1>2. OwnerInv'
  BY <1>a, <1>b DEF OwnerInv, HolderInv, OwnedInv, RecordTypes, LockSetTypes,
     ThreadTypes
<1>3. CallerInv'
  BY <1>a, <1>b DEF CallerInv, ThreadTypes, ScanLabels
<1>4. WaiterInv'
  BY <1>a, <1>b DEF WaiterInv, RecordTypes, LockSetTypes, ThreadTypes
<1>5. WaitingCounted'
  BY <1>a, <1>b, WaitingFrame DEF LockSetTypes, ThreadTypes, Waiters
<1>6. ListInv'
  BY <1>a, <1>b DEF ListInv, RecordTypes, LockSetTypes, WriterTypes, Type
<1>7. WriterInv'
  BY <1>a, <1>b DEF WriterInv, RecordTypes, LockSetTypes, ThreadTypes,
     WriterTypes, Type, InChange, Locking, WriterLabels
<1>8. LinkInv'
  BY <1>a, <1>b, LinkFrame, MergedLinkFrame DEF ThreadTypes, WriterTypes,
     WriterInv, WriterLabels
<1>. QED BY <1>1, <1>2, <1>3, <1>4, <1>5, <1>6, <1>7, <1>8

\* A lock set that joins the RecordLock list keeps the invariant: with no
\* owner and no waiter, no thread has its records locked.
LEMMA RecordLockDoneInv ==
    ASSUME IInv, NEW t \in Threads, RecordLockDone(t)
    PROVE  IInv'
<1>. USE DEF IInv, TypeOK, RecordLockDone, Goto, writerVars
<1>a. /\ pc[t] \in WriterLabels /\ globalLock = t /\ held[t] = << >>
      /\ rec[t] \in Records
      /\ \A u \in Threads : u # t => pc[u] \notin WriterLabels
  BY WriterFacts DEF WriterLabels
<1>b. /\ Locking(t) \in Records /\ setOf[Locking(t)] \in LockSets
      /\ Type(Locking(t)) # "free" /\ todo = {}
  BY LockingFacts
<1>c. /\ AfterRecordLock \in {"put_old", "put_merge"}
      /\ AfterRecordLock = "put_old" <=> target = NoRecord
  BY DEF AfterRecordLock

<1>. DEFINE s == setOf[Locking(t)]
<1>e. /\ s \in LockSets /\ type[s] = "scan" /\ state[s] = "RecordLock"
      /\ nRecursion[s] = 0 /\ nWaiting[s] = 0
  BY <1>a, <1>b DEF WriterInv, Type, Drained
<1>f. \A u \in Threads : u \notin Waiters(s)
  BY <1>e, MustWait
<1>g. \A u \in Threads : held[u] # << >> => setOf[held[u][1]] # s
  BY <1>e DEF OwnerInv, HolderInv, OwnedInv, ThreadTypes
<1>h. /\ type' = [type EXCEPT ![s] = "record"]
      /\ thread_id' = [thread_id EXCEPT ![s] = t]
      /\ pc' = [pc EXCEPT ![t] = AfterRecordLock]
      /\ UNCHANGED <<setOf, link, state, nRecursion, nWaiting, mutex, globalLock,
                     rec, lset, held, target, todo, cur>>
      /\ pc[t] = "rl_check"
  OBVIOUS
<1>i. \A r \in Records : InChange(r) => InChange(r)'
  BY <1>h DEF RecordTypes, LockSetTypes, InChange, Type
<1>j. InChange(Locking(t))' /\ Locking(t)' = Locking(t)
  BY <1>b, <1>e, <1>h DEF RecordTypes, LockSetTypes, InChange, Type, Locking
<1>. HIDE DEF s, RecordLockDone
<1>1. TypeOK'
  BY <1>a, <1>c, <1>e, <1>f, <1>g, <1>h DEF RecordTypes, LockSetTypes,
     ThreadTypes, WriterTypes, Labels, ScanLabels, WriterLabels
<1>2. OwnerInv'
  BY <1>a, <1>c, <1>e, <1>f, <1>g, <1>h DEF OwnerInv, HolderInv, OwnedInv,
     RecordTypes, LockSetTypes, ThreadTypes
<1>3. CallerInv'
  BY <1>a, <1>c, <1>e, <1>f, <1>g, <1>h DEF CallerInv, ThreadTypes, ScanLabels
<1>4. WaiterInv'
  BY <1>c, <1>e, <1>f, <1>h DEF WaiterInv, RecordTypes, LockSetTypes,
     ThreadTypes, Waiters
<1>5. WaitingCounted'
  BY <1>a, <1>c, <1>e, <1>f, <1>g, <1>h, WaitingFrame DEF LockSetTypes,
     ThreadTypes, Waiters
<1>6. ListInv'
  BY <1>a, <1>c, <1>e, <1>f, <1>g, <1>h DEF ListInv, RecordTypes, LockSetTypes,
     WriterTypes, Type
<1>7. WriterInv'
  BY <1>a, <1>b, <1>c, <1>e, <1>h, <1>i, <1>j
     DEF ThreadTypes, WriterTypes, WriterInv, Locking, Type, WriterLabels
<1>8. LinkInv'
  <2>1. MergedLink' = MergedLink
    BY <1>h, MergedLinkFrame
  <2>2. \A r \in Records : MergedLink[r] \in Records \cup {NoRecord}
    BY DEF MergedLink, RecordTypes
  <2>. QED BY <2>1, <2>2, <1>h, <1>i DEF LinkInv
<1>. QED BY <1>1, <1>2, <1>3, <1>4, <1>5, <1>6, <1>7, <1>8

\* A put that fails keeps the invariant.
LEMMA PutFailsInv ==
    ASSUME IInv, NEW t \in Threads, PutFails(t)
    PROVE  IInv'
<1>. USE DEF IInv, TypeOK, PutFails, Jump, Goto, lockSet, writerVars
<1>a. /\ pc[t] \in WriterLabels /\ globalLock = t /\ held[t] = << >>
      /\ rec[t] \in Records
      /\ \A u \in Threads : u # t => pc[u] \notin WriterLabels
  BY WriterFacts DEF WriterLabels
<1>1. TypeOK'
  BY <1>a DEF RecordTypes, LockSetTypes, ThreadTypes, WriterTypes, Labels,
     ScanLabels, WriterLabels
<1>2. OwnerInv'
  BY <1>a DEF OwnerInv, HolderInv, OwnedInv, RecordTypes, LockSetTypes,
     ThreadTypes
<1>3. CallerInv'
  BY <1>a DEF CallerInv, ThreadTypes, ScanLabels
<1>4. WaiterInv'
  BY <1>a DEF WaiterInv, RecordTypes, LockSetTypes, ThreadTypes
<1>5. WaitingCounted'
  BY <1>a, WaitingFrame DEF LockSetTypes, ThreadTypes, Waiters
<1>6. ListInv'
  BY <1>a DEF ListInv, RecordTypes, LockSetTypes, WriterTypes, Type
<1>7. WriterInv'
  BY <1>a DEF WriterInv, RecordTypes, LockSetTypes, ThreadTypes, WriterTypes,
     Type, InChange, Locking, WriterLabels
<1>8. LinkInv'
  BY <1>a, LinkFrame, MergedLinkFrame DEF ThreadTypes, WriterTypes, WriterInv,
     WriterLabels
<1>. QED BY <1>1, <1>2, <1>3, <1>4, <1>5, <1>6, <1>7, <1>8

\* A put over a value that is no DB link keeps the invariant.
LEMMA PutOldOtherInv ==
    ASSUME IInv, NEW t \in Threads, PutOldOther(t)
    PROVE  IInv'
<1>. USE DEF IInv, TypeOK, PutOldOther, Jump, Goto, lockSet, writerVars
<1>a. /\ pc[t] \in WriterLabels /\ globalLock = t /\ held[t] = << >>
      /\ rec[t] \in Records
      /\ \A u \in Threads : u # t => pc[u] \notin WriterLabels
  BY WriterFacts DEF WriterLabels
<1>1. TypeOK'
  BY <1>a DEF RecordTypes, LockSetTypes, ThreadTypes, WriterTypes, Labels,
     ScanLabels, WriterLabels
<1>2. OwnerInv'
  BY <1>a DEF OwnerInv, HolderInv, OwnedInv, RecordTypes, LockSetTypes,
     ThreadTypes
<1>3. CallerInv'
  BY <1>a DEF CallerInv, ThreadTypes, ScanLabels
<1>4. WaiterInv'
  BY <1>a DEF WaiterInv, RecordTypes, LockSetTypes, ThreadTypes
<1>5. WaitingCounted'
  BY <1>a, WaitingFrame DEF LockSetTypes, ThreadTypes, Waiters
<1>6. ListInv'
  BY <1>a DEF ListInv, RecordTypes, LockSetTypes, WriterTypes, Type
<1>7. WriterInv'
  BY <1>a DEF WriterInv, RecordTypes, LockSetTypes, ThreadTypes, WriterTypes,
     Type, InChange, Locking, WriterLabels
<1>8. LinkInv'
  BY <1>a, LinkFrame, MergedLinkFrame DEF ThreadTypes, WriterTypes, WriterInv,
     WriterLabels
<1>. QED BY <1>1, <1>2, <1>3, <1>4, <1>5, <1>6, <1>7, <1>8

\* Taking the records off a lock set keeps the invariant and moves no
\* record in use.
LEMMA SplitDetachInv ==
    ASSUME IInv, NEW t \in Threads, SplitDetach(t)
    PROVE  IInv' /\ InUseFixed
<1>. USE DEF IInv, TypeOK, SplitDetach, Goto
<1>a. /\ pc[t] \in WriterLabels /\ globalLock = t /\ held[t] = << >>
      /\ rec[t] \in Records
      /\ \A u \in Threads : u # t => pc[u] \notin WriterLabels
  BY WriterFacts DEF WriterLabels

<1>. DEFINE s == setOf[rec[t]]
            members == {r \in Records : setOf[r] = s}
<1>b. /\ todo = {} /\ target = NoRecord /\ \A r \in Records : setOf[r] # NoSet
      /\ s \in LockSets /\ type[s] = "record"
  BY <1>a DEF WriterInv, ListInv, RecordTypes, InChange, Type
<1>c. /\ link' = [link EXCEPT ![rec[t]] = NoRecord]
      /\ setOf' = [r \in Records |-> IF r \in members THEN NoSet ELSE setOf[r]]
      /\ type' = [type EXCEPT ![s] = "free"]
      /\ state' = [state EXCEPT ![s] = "Free"]
      /\ todo' = members
      /\ pc' = [pc EXCEPT ![t] = "split_alloc"]
      /\ UNCHANGED <<thread_id, nRecursion, nWaiting, mutex, globalLock, rec,
                     lset, held, target, cur>>
      /\ pc[t] = "put_old"
  OBVIOUS
<1>. HIDE DEF SplitDetach
<1>d. /\ \A r \in Records : setOf'[r] = IF r \in members THEN NoSet ELSE setOf[r]
      /\ \A r \in Records : r \in members <=> setOf[r] = s
      /\ type'[s] = "free" /\ \A q \in LockSets : q # s => type'[q] = type[q]
      /\ state'[s] = "Free" /\ \A q \in LockSets : q # s => state'[q] = state[q]
      /\ members \in SUBSET Records /\ rec[t] \in members
  BY <1>a, <1>b, <1>c DEF LockSetTypes
<1>. HIDE DEF s, members
<1>e. \A u \in Threads : pc'[u] = IF u = t THEN "split_alloc" ELSE pc[u]
  BY <1>c DEF ThreadTypes
<1>k. \A r \in Records : ~InChange(r) => setOf'[r] = setOf[r]
  BY <1>b, <1>d DEF InChange, Type
<1>f. OwnerInv' /\ CallerInv' /\ WaiterInv' /\ WaitingCounted'
  <2>2. \A u \in Threads : \/ pc'[u] = pc[u]
                           \/ {pc[u], pc'[u]} \subseteq WriterLabels
    BY <1>a, <1>e DEF WriterLabels
  <2>. QED BY <1>b, <1>c, <1>d, <1>k, <2>2, ChangeFrame
<1>1. TypeOK'
  BY <1>a, <1>b, <1>c, <1>d
     DEF RecordTypes, LockSetTypes, ThreadTypes, WriterTypes, Labels, WriterLabels
<1>2. OwnerInv'
  BY <1>f
<1>3. CallerInv'
  BY <1>f
<1>4. WaiterInv'
  BY <1>f
<1>5. WaitingCounted'
  BY <1>f
<1>6. ListInv'
  BY <1>a, <1>b, <1>c, <1>d DEF ListInv, RecordTypes, Type
<1>7. WriterInv'
  BY <1>a, <1>b, <1>c, <1>d, <1>e
     DEF WriterInv, InChange, Locking, WriterLabels
<1>8. LinkInv'
  <2>1. MergedLink = link /\ MergedLink' = link'
    BY <1>b, <1>c DEF MergedLink, RecordTypes
  <2>2. \A r \in Records : link'[r] = IF r = rec[t] THEN NoRecord ELSE link[r]
    BY <1>a, <1>c DEF RecordTypes
  <2>3. \A r \in Records : r \in members => InChange(r)'
    BY <1>d DEF InChange
  <2>4. \A r \in Records : link[r] = NoRecord \/ (link[r] \in Records /\ setOf[r] = setOf[link[r]])
    BY <1>b, <2>1 DEF LinkInv, RecordTypes
  <2>. QED BY <1>c, <1>d, <2>1, <2>2, <2>3, <2>4 DEF LinkInv
<1>9. InUseFixed
  BY <1>k DEF InUseFixed
<1>. QED BY <1>1, <1>2, <1>3, <1>4, <1>5, <1>6, <1>7, <1>8, <1>9

\* A new lock set for a record in change keeps the invariant and moves no
\* record in use.
LEMMA SplitAllocInv ==
    ASSUME IInv, NEW t \in Threads, SplitAlloc(t)
    PROVE  IInv' /\ InUseFixed
<1>. USE DEF IInv, TypeOK, SplitAlloc, Goto, lockSet
<1>a. /\ pc[t] \in WriterLabels /\ globalLock = t /\ held[t] = << >>
      /\ rec[t] \in Records
      /\ \A u \in Threads : u # t => pc[u] \notin WriterLabels
  BY WriterFacts DEF WriterLabels

<1>b. PICK r \in todo :
        /\ cur' = r
        /\ \/ /\ setOf[r] # NoSet
              /\ UNCHANGED <<setOf, lockSet>>
           \/ /\ setOf[r] = NoSet
              /\ \E s \in LockSets :
                    /\ type[s] = "free"
                    /\ setOf' = [setOf EXCEPT ![r] = s]
                    /\ type' = [type EXCEPT ![s] = "record"]
                    /\ state' = [state EXCEPT ![s] = "RecordLock"]
                    /\ thread_id' = [thread_id EXCEPT ![s] = t]
                    /\ nRecursion' = [nRecursion EXCEPT ![s] = 0]
                    /\ nWaiting' = [nWaiting EXCEPT ![s] = 0]
  OBVIOUS
<1>c. /\ pc' = [pc EXCEPT ![t] = "split_merge"]
      /\ pc[t] = "split_alloc"
      /\ UNCHANGED <<link, mutex, globalLock, rec, lset, held, target, todo>>
  OBVIOUS
<1>. HIDE DEF SplitAlloc
<1>d. r \in Records /\ target = NoRecord
  BY <1>a, <1>c DEF WriterTypes, WriterInv
<1>e. \A u \in Threads : pc'[u] = IF u = t THEN "split_merge" ELSE pc[u]
  BY <1>c DEF ThreadTypes
<1>g. /\ setOf' \in [Records -> LockSets \cup {NoSet}]
      /\ LockSetTypes'
      /\ nWaiting' = nWaiting
      /\ setOf'[r] # NoSet /\ Type(r)' # "free"
      /\ setOf[r] = NoSet => Type(r)' = "record"
      /\ \A x \in Records : setOf[x] # NoSet \/ x # r => setOf'[x] = setOf[x]
      /\ \A s \in LockSets : type[s] # "free" =>
            /\ type'[s] = type[s] /\ state'[s] = state[s]
            /\ thread_id'[s] = thread_id[s] /\ nRecursion'[s] = nRecursion[s]
      /\ \A s \in LockSets : type[s] = "free" =>
            \/ type'[s] = "free"
            \/ type'[s] = "record" /\ state'[s] = "RecordLock" /\ nRecursion'[s] = 0
  <2>1. CASE setOf[r] # NoSet /\ UNCHANGED <<setOf, lockSet>>
    BY <1>c, <1>d, <2>1 DEF RecordTypes, LockSetTypes, ListInv, Type
  <2>2. ASSUME setOf[r] = NoSet, NEW s \in LockSets, type[s] = "free",
               setOf' = [setOf EXCEPT ![r] = s],
               type' = [type EXCEPT ![s] = "record"],
               state' = [state EXCEPT ![s] = "RecordLock"],
               thread_id' = [thread_id EXCEPT ![s] = t],
               nRecursion' = [nRecursion EXCEPT ![s] = 0],
               nWaiting' = [nWaiting EXCEPT ![s] = 0]
        PROVE  <1>g
    <3>1. nWaiting' = nWaiting
      <4>1. nWaiting[s] = 0
        BY <2>2, NoWaiters
      <4>. QED BY <2>2, <4>1 DEF LockSetTypes
    <3>2. LockSetTypes'
      BY <1>c, <2>2 DEF LockSetTypes
    <3>3. setOf' \in [Records -> LockSets \cup {NoSet}]
      BY <2>2 DEF RecordTypes
    <3>. QED BY <1>d, <2>2, <3>1, <3>2, <3>3 DEF RecordTypes, LockSetTypes, Type
  <2>. QED BY <1>b, <2>1, <2>2
<1>h. \A x \in Records : /\ ~InChange(x) => setOf'[x] = setOf[x]
                         /\ InChange(x) => InChange(x)'
  BY <1>d, <1>g DEF InChange, Type, ListInv, RecordTypes, LockSetTypes
<1>f. OwnerInv' /\ CallerInv' /\ WaiterInv' /\ WaitingCounted'
  <2>1. \A u \in Threads : \/ pc'[u] = pc[u]
                           \/ {pc[u], pc'[u]} \subseteq WriterLabels
    BY <1>a, <1>e DEF WriterLabels
  <2>2. \A s \in LockSets : type'[s] = "scan" => type[s] = "scan"
    BY <1>g DEF LockSetTypes
  <2>. QED BY <1>c, <1>g, <1>h, <2>1, <2>2, ChangeFrame
<1>1. TypeOK'
  BY <1>a, <1>b, <1>c, <1>d, <1>g
     DEF RecordTypes, ThreadTypes, WriterTypes, Labels, WriterLabels
<1>2. OwnerInv'
  BY <1>f
<1>3. CallerInv'
  BY <1>f
<1>4. WaiterInv'
  BY <1>f
<1>5. WaitingCounted'
  BY <1>f
<1>6. ListInv'
  <2>1. \A x \in Records : setOf'[x] # NoSet => Type(x)' # "free"
    BY <1>d, <1>g DEF ListInv, RecordTypes, LockSetTypes, Type
  <2>2. \A s \in LockSets : type'[s] = "record" =>
            state'[s] = "RecordLock" /\ nRecursion'[s] = 0
    BY <1>g DEF ListInv
  <2>3. globalLock' # NoThread /\ \A x \in Records : setOf'[x] = NoSet => x \in todo'
    BY <1>a, <1>c, <1>g DEF ListInv
  <2>. QED BY <2>1, <2>2, <2>3 DEF ListInv
<1>7. WriterInv'
  BY <1>a, <1>b, <1>c, <1>d, <1>e, <1>g, <1>h DEF WriterInv, Locking, WriterLabels
<1>8. LinkInv'
  <2>1. MergedLink' = MergedLink /\ \A x \in Records : MergedLink[x] \in Records \cup {NoRecord}
    BY <1>c DEF MergedLink, RecordTypes
  <2>2. \A x \in Records : x \notin todo => setOf[x] # NoSet
    BY DEF ListInv
  <2>. QED BY <1>c, <1>d, <1>g, <1>h, <2>1, <2>2 DEF LinkInv
<1>9. InUseFixed
  BY <1>h DEF InUseFixed
<1>. QED BY <1>1, <1>2, <1>3, <1>4, <1>5, <1>6, <1>7, <1>8, <1>9

\* Following the link of a record in change keeps the invariant and moves no
\* record in use.
LEMMA SplitMergeInv ==
    ASSUME IInv, NEW t \in Threads, SplitMerge(t)
    PROVE  IInv' /\ InUseFixed
<1>. USE DEF IInv, TypeOK, SplitMerge, Goto, lockSet
<1>a. /\ pc[t] \in WriterLabels /\ globalLock = t /\ held[t] = << >>
      /\ rec[t] \in Records
      /\ \A u \in Threads : u # t => pc[u] \notin WriterLabels
  BY WriterFacts DEF WriterLabels

<1>c. /\ todo' = todo \ {cur}
      /\ cur' = NoRecord
      /\ pc' = [pc EXCEPT ![t] = IF todo \ {cur} = {} THEN "put_new" ELSE "split_alloc"]
      /\ pc[t] = "split_merge"
      /\ UNCHANGED <<link, mutex, globalLock, rec, lset, held, target>>
      /\ \/ link[cur] = NoRecord /\ UNCHANGED <<setOf, type, state, thread_id, nRecursion, nWaiting>>
         \/ link[cur] # NoRecord /\ Merge(cur, link[cur])
  OBVIOUS
<1>. HIDE DEF SplitMerge
<1>d. target = NoRecord /\ cur \in todo /\ todo \subseteq Records /\ setOf[cur] # NoSet
  BY <1>a, <1>c DEF WriterTypes, WriterInv
<1>m. MergedLink = link /\ MergedLink' = link
  BY <1>c, <1>d DEF MergedLink, RecordTypes
<1>g. /\ setOf' \in [Records -> LockSets \cup {NoSet}]
      /\ type' \in [LockSets -> {"scan", "record", "free"}]
      /\ UNCHANGED <<state, thread_id, nRecursion, nWaiting>>
      /\ \A s \in LockSets : type'[s] # type[s] =>
               type[s] = "record" /\ type'[s] = "free"
      /\ \A r \in Records :
           /\ ~InChange(r) => setOf'[r] = setOf[r]
           /\ InChange(r) => InChange(r)'
           /\ setOf[r] # NoSet => setOf'[r] # NoSet
           /\ setOf'[r] # NoSet => Type(r)' # "free"
      /\ \A r, x \in Records :
           (setOf[r] = setOf[x] /\ setOf[r] # NoSet) => setOf'[r] = setOf'[x]
      /\ link[cur] = NoRecord \/ setOf'[cur] = setOf'[link[cur]]
  <2>1. CASE link[cur] = NoRecord
    BY <1>c, <2>1 DEF RecordTypes, LockSetTypes, ListInv, Type, InChange
  <2>2. CASE link[cur] # NoRecord
    <3>1. link[cur] \in Records /\ InChange(cur) /\ InChange(link[cur])
      BY <1>d, <1>m, <2>2 DEF LinkInv, RecordTypes
    <3>. QED BY <1>c, <1>d, <2>2, <3>1, MergeFacts
  <2>. QED BY <2>1, <2>2
<1>e. \A u \in Threads : u # t => pc'[u] = pc[u]
  BY <1>c DEF ThreadTypes
<1>h. /\ pc'[t] \in {"put_new", "split_alloc"}
      /\ pc'[t] = "put_new" <=> todo' = {}
  BY <1>c DEF ThreadTypes
<1>f. OwnerInv' /\ CallerInv' /\ WaiterInv' /\ WaitingCounted'
  <2>1. \A u \in Threads : \/ pc'[u] = pc[u]
                           \/ {pc[u], pc'[u]} \subseteq WriterLabels
    BY <1>a, <1>e, <1>h DEF WriterLabels
  <2>2. \A s \in LockSets : type'[s] = "scan" <=> type[s] = "scan"
    BY <1>g
  <2>. QED BY <1>c, <1>g, <2>1, <2>2, ChangeFrame
<1>1. TypeOK'
  BY <1>a, <1>c, <1>g
     DEF RecordTypes, LockSetTypes, ThreadTypes, WriterTypes, Labels, WriterLabels
<1>2. OwnerInv'
  BY <1>f
<1>3. CallerInv'
  BY <1>f
<1>4. WaiterInv'
  BY <1>f
<1>5. WaitingCounted'
  BY <1>f
<1>6. ListInv'
  <2>1. \A r \in Records : setOf'[r] = NoSet => r \in todo'
    BY <1>c, <1>d, <1>g DEF ListInv
  <2>. QED BY <1>c, <1>g, <2>1 DEF ListInv, LockSetTypes
<1>7. WriterInv'
  BY <1>a, <1>c, <1>d, <1>e, <1>g, <1>h DEF WriterInv, Locking, WriterLabels
<1>8. LinkInv'
  <2>1. \A r \in Records : link[r] = NoRecord \/ link[r] \in Records
    BY DEF RecordTypes
  <2>2. \A x \in Records : x \notin todo => setOf[x] # NoSet
    BY DEF ListInv
  <2>. QED BY <1>c, <1>d, <1>g, <1>m, <2>1, <2>2 DEF LinkInv
<1>9. InUseFixed
  BY <1>g DEF InUseFixed
<1>. QED BY <1>1, <1>2, <1>3, <1>4, <1>5, <1>6, <1>7, <1>8, <1>9

\* A new value that is no DB link keeps the invariant.
LEMMA PutNewOtherInv ==
    ASSUME IInv, NEW t \in Threads, PutNewOther(t)
    PROVE  IInv'
<1>. USE DEF IInv, TypeOK, PutNewOther, Jump, Goto, lockSet, writerVars
<1>a. /\ pc[t] \in WriterLabels /\ globalLock = t /\ held[t] = << >>
      /\ rec[t] \in Records
      /\ \A u \in Threads : u # t => pc[u] \notin WriterLabels
  BY WriterFacts DEF WriterLabels
<1>1. TypeOK'
  BY <1>a DEF RecordTypes, LockSetTypes, ThreadTypes, WriterTypes, Labels,
     ScanLabels, WriterLabels
<1>2. OwnerInv'
  BY <1>a DEF OwnerInv, HolderInv, OwnedInv, RecordTypes, LockSetTypes,
     ThreadTypes
<1>3. CallerInv'
  BY <1>a DEF CallerInv, ThreadTypes, ScanLabels
<1>4. WaiterInv'
  BY <1>a DEF WaiterInv, RecordTypes, LockSetTypes, ThreadTypes
<1>5. WaitingCounted'
  BY <1>a, WaitingFrame DEF LockSetTypes, ThreadTypes, Waiters
<1>6. ListInv'
  BY <1>a DEF ListInv, RecordTypes, LockSetTypes, WriterTypes, Type
<1>7. WriterInv'
  BY <1>a DEF WriterInv, RecordTypes, LockSetTypes, ThreadTypes, WriterTypes,
     Type, InChange, Locking, WriterLabels
<1>8. LinkInv'
  BY <1>a, LinkFrame, MergedLinkFrame DEF ThreadTypes, WriterTypes, WriterInv,
     WriterLabels
<1>. QED BY <1>1, <1>2, <1>3, <1>4, <1>5, <1>6, <1>7, <1>8

\* A new DB link keeps the invariant.
LEMMA PutNewLinkInv ==
    ASSUME IInv, NEW t \in Threads, PutNewLink(t)
    PROVE  IInv'
<1>. USE DEF IInv, TypeOK, PutNewLink, Goto, lockSet
<1>a. /\ pc[t] \in WriterLabels /\ globalLock = t /\ held[t] = << >>
      /\ rec[t] \in Records
      /\ \A u \in Threads : u # t => pc[u] \notin WriterLabels
  BY WriterFacts DEF WriterLabels
<1>1. TypeOK'
  BY <1>a DEF RecordTypes, LockSetTypes, ThreadTypes, WriterTypes, Labels,
     ScanLabels, WriterLabels
<1>2. OwnerInv'
  BY <1>a DEF OwnerInv, HolderInv, OwnedInv, RecordTypes, LockSetTypes,
     ThreadTypes
<1>3. CallerInv'
  BY <1>a DEF CallerInv, ThreadTypes, ScanLabels
<1>4. WaiterInv'
  BY <1>a DEF WaiterInv, RecordTypes, LockSetTypes, ThreadTypes
<1>5. WaitingCounted'
  BY <1>a, WaitingFrame DEF LockSetTypes, ThreadTypes, Waiters
<1>6. ListInv'
  BY <1>a DEF ListInv, RecordTypes, LockSetTypes, WriterTypes, Type
<1>7. WriterInv'
  BY <1>a DEF WriterInv, RecordTypes, LockSetTypes, ThreadTypes, WriterTypes,
     Type, InChange, Locking, WriterLabels
<1>8. LinkInv'
  <2>1. todo = {} /\ target = NoRecord /\ UNCHANGED <<setOf, todo>>
    BY <1>a DEF WriterInv
  <2>2. \A r \in Records : /\ MergedLink[r] = link[r]
                           /\ MergedLink'[r] = IF r = rec[t] THEN NoRecord ELSE link[r]
    BY <1>a, <2>1 DEF MergedLink, RecordTypes
  <2>. QED BY <2>1, <2>2 DEF LinkInv
<1>. QED BY <1>1, <1>2, <1>3, <1>4, <1>5, <1>6, <1>7, <1>8

\* The merge for the new link keeps the invariant and moves no record in use.
LEMMA PutMergeInv ==
    ASSUME IInv, NEW t \in Threads, PutMerge(t)
    PROVE  IInv' /\ InUseFixed
<1>. USE DEF IInv, TypeOK, PutMerge, Goto
<1>a. /\ pc[t] \in WriterLabels /\ globalLock = t /\ held[t] = << >>
      /\ rec[t] \in Records
      /\ \A u \in Threads : u # t => pc[u] \notin WriterLabels
  BY WriterFacts DEF WriterLabels

<1>c. /\ pc' = [pc EXCEPT ![t] = "put_unlock"]
      /\ pc[t] = "put_merge"
      /\ target' = NoRecord
      /\ Merge(rec[t], target)
      /\ UNCHANGED <<link, mutex, globalLock, rec, lset, held, todo, cur>>
  OBVIOUS
<1>. HIDE DEF PutMerge
<1>d. /\ target \in Records /\ InChange(target) /\ InChange(rec[t])
      /\ link[rec[t]] = target /\ todo = {}
      /\ \A r \in Records : setOf[r] # NoSet
  BY <1>a, <1>c DEF WriterTypes, WriterInv, ListInv
<1>g. /\ setOf' \in [Records -> LockSets \cup {NoSet}]
      /\ type' \in [LockSets -> {"scan", "record", "free"}]
      /\ UNCHANGED <<state, thread_id, nRecursion, nWaiting>>
      /\ \A s \in LockSets : type'[s] # type[s] =>
               type[s] = "record" /\ type'[s] = "free"
      /\ \A r \in Records :
           /\ ~InChange(r) => setOf'[r] = setOf[r]
           /\ InChange(r) => InChange(r)'
           /\ setOf[r] # NoSet => setOf'[r] # NoSet
           /\ setOf'[r] # NoSet => Type(r)' # "free"
      /\ \A r, x \in Records :
           (setOf[r] = setOf[x] /\ setOf[r] # NoSet) => setOf'[r] = setOf'[x]
      /\ setOf'[rec[t]] = setOf'[target]
  BY <1>a, <1>c, <1>d, MergeFacts
<1>e. \A u \in Threads : pc'[u] = IF u = t THEN "put_unlock" ELSE pc[u]
  BY <1>c DEF ThreadTypes
<1>f. OwnerInv' /\ CallerInv' /\ WaiterInv' /\ WaitingCounted'
  <2>1. \A u \in Threads : \/ pc'[u] = pc[u]
                           \/ {pc[u], pc'[u]} \subseteq WriterLabels
    BY <1>a, <1>e DEF WriterLabels
  <2>2. \A s \in LockSets : type'[s] = "scan" <=> type[s] = "scan"
    BY <1>g
  <2>. QED BY <1>c, <1>g, <2>1, <2>2, ChangeFrame
<1>1. TypeOK'
  BY <1>a, <1>c, <1>g
     DEF RecordTypes, LockSetTypes, ThreadTypes, WriterTypes, Labels, WriterLabels
<1>2. OwnerInv'
  BY <1>f
<1>3. CallerInv'
  BY <1>f
<1>4. WaiterInv'
  BY <1>f
<1>5. WaitingCounted'
  BY <1>f
<1>6. ListInv'
  BY <1>c, <1>d, <1>g DEF ListInv, LockSetTypes
<1>7. WriterInv'
  BY <1>a, <1>c, <1>d, <1>e, <1>g DEF WriterInv, Locking, WriterLabels
<1>8. LinkInv'
  <2>1. \A r \in Records : /\ MergedLink'[r] = link[r]
                           /\ link[r] = NoRecord \/ link[r] \in Records
                           /\ r # rec[t] => MergedLink[r] = link[r]
    BY <1>a, <1>c DEF MergedLink, RecordTypes
  <2>2. \A r \in Records : r # rec[t] => link[r] = NoRecord \/ setOf[r] = setOf[link[r]]
    BY <1>d, <2>1 DEF LinkInv
  <2>3. \A r \in Records : link[r] = NoRecord \/ setOf'[r] = setOf'[link[r]]
    BY <1>a, <1>d, <1>g, <2>1, <2>2
  <2>. QED BY <1>c, <1>d, <2>1, <2>3 DEF LinkInv
<1>9. InUseFixed
  BY <1>g DEF InUseFixed
<1>. QED BY <1>1, <1>2, <1>3, <1>4, <1>5, <1>6, <1>7, <1>8, <1>9

\* dbLockSetGblUnlock keeps the invariant.
LEMMA GblUnlockInv ==
    ASSUME IInv, NEW t \in Threads, GblUnlock(t)
    PROVE  IInv'
<1>. USE DEF IInv, TypeOK, GblUnlock, Return, Goto, writerVars, Cleared
<1>a. /\ pc[t] \in WriterLabels /\ globalLock = t /\ held[t] = << >>
      /\ \A u \in Threads : u # t => pc[u] \notin WriterLabels
  BY WriterFacts DEF WriterLabels
<1>1. TypeOK'
  BY <1>a DEF RecordTypes, LockSetTypes, ThreadTypes, WriterTypes, Labels,
     ScanLabels, WriterLabels
<1>2. OwnerInv'
  BY <1>a DEF OwnerInv, HolderInv, OwnedInv, RecordTypes, LockSetTypes,
     ThreadTypes
<1>3. CallerInv'
  BY <1>a DEF CallerInv, ThreadTypes, ScanLabels
<1>4. WaiterInv'
  BY <1>a DEF WaiterInv, RecordTypes, LockSetTypes, ThreadTypes
<1>5. WaitingCounted'
  <2>1. \A s \in LockSets : nWaiting'[s] = nWaiting[s]
    BY NoWaiters
  <2>2. \A s \in LockSets, u \in Threads : (u \in Waiters(s))' <=> u \in Waiters(s)
    BY DEF ThreadTypes, Waiters
  <2>. QED BY <2>1, <2>2, WaitingFrame
<1>6. ListInv'
  BY <1>a DEF ListInv, RecordTypes, LockSetTypes, WriterTypes, Type
<1>7. WriterInv'
  BY <1>a DEF WriterInv, RecordTypes, LockSetTypes, ThreadTypes, WriterTypes,
     Type, InChange, Locking, WriterLabels
<1>8. LinkInv'
  <2>1. todo = {} /\ target = NoRecord
    BY <1>a DEF WriterInv
  <2>2. MergedLink = link /\ MergedLink' = link
    BY <2>1 DEF MergedLink, RecordTypes
  <2>. QED BY <2>1, <2>2 DEF LinkInv
<1>. QED BY <1>1, <1>2, <1>3, <1>4, <1>5, <1>6, <1>7, <1>8

\* The call of dblsr keeps the invariant.
LEMMA DblsrInv ==
    ASSUME IInv, NEW t \in Threads, Dblsr(t)
    PROVE  IInv'
<1>. USE DEF IInv, TypeOK, Dblsr, Goto, writerVars, lockSet
<1>1. TypeOK'
  BY DEF RecordTypes, LockSetTypes, ThreadTypes, WriterTypes, Labels,
     ScanLabels, WriterLabels
<1>2. OwnerInv'
  BY DEF OwnerInv, HolderInv, OwnedInv, RecordTypes, LockSetTypes, ThreadTypes
<1>3. CallerInv'
  BY DEF CallerInv, ThreadTypes, ScanLabels
<1>4. WaiterInv'
  BY DEF WaiterInv, RecordTypes, LockSetTypes, ThreadTypes
<1>5. WaitingCounted'
  BY WaitingFrame DEF LockSetTypes, ThreadTypes, Waiters
<1>6. ListInv'
  BY DEF ListInv, RecordTypes, LockSetTypes, WriterTypes, Type
<1>7. WriterInv'
  BY DEF WriterInv, RecordTypes, LockSetTypes, ThreadTypes, WriterTypes, Type,
     InChange, Locking, WriterLabels
<1>8. LinkInv'
  BY LinkFrame, MergedLinkFrame DEF ThreadTypes, WriterTypes, WriterInv,
     WriterLabels
<1>. QED BY <1>1, <1>2, <1>3, <1>4, <1>5, <1>6, <1>7, <1>8

\* The TryLock of dblsr keeps the invariant.
LEMMA DblsrTryInv ==
    ASSUME IInv, NEW t \in Threads, DblsrTry(t)
    PROVE  IInv'
<1>. USE DEF IInv, TypeOK, DblsrTry, Return, Goto, writerVars, lockSet
<1>a. /\ lset[t] \in LockSets /\ held[t] = << >> /\ globalLock # t
      /\ pc[t] = "lsr_locked" => mutex[lset[t]] = t
  BY DEF WaiterInv, CallerInv, WriterInv, WriterLabels
<1>b. \/ /\ mutex' = [mutex EXCEPT ![lset[t]] = t]
         /\ pc' = [pc EXCEPT ![t] = "lsr_locked"]
         /\ UNCHANGED <<rec, lset>>
      \/ /\ UNCHANGED mutex
         /\ pc' = [pc EXCEPT ![t] = "idle"]
         /\ rec' = [rec EXCEPT ![t] = NoRecord]
         /\ lset' = [lset EXCEPT ![t] = NoSet]
  OBVIOUS
<1>c. /\ UNCHANGED <<setOf, link, type, state, thread_id, nRecursion, nWaiting,
                     globalLock, held, target, todo, cur>>
      /\ pc[t] = "lsr_try"
      /\ mutex[lset[t]] = NoThread \/ UNCHANGED mutex
  OBVIOUS
<1>. HIDE DEF DblsrTry
<1>1. TypeOK'
  <2>1. LockSetTypes'
    <3>1. mutex' \in [LockSets -> Threads \cup {NoThread}]
      <4>1. mutex \in [LockSets -> Threads \cup {NoThread}]
        BY DEF LockSetTypes
      <4>. QED BY <1>b, <4>1
    <3>. QED BY <1>c, <3>1 DEF LockSetTypes
  <2>2. pc' \in [Threads -> Labels] /\ rec' \in [Threads -> Records \cup {NoRecord}]
    BY <1>b, <1>c DEF ThreadTypes, Labels
  <2>3. lset' \in [Threads -> LockSets \cup {NoSet}] /\ held' \in [Threads -> Seq(Records)]
    BY <1>b, <1>c DEF ThreadTypes
  <2>. QED BY <1>c, <2>1, <2>2, <2>3 DEF RecordTypes, ThreadTypes, WriterTypes
<1>2. OwnerInv'
  BY <1>a, <1>b, <1>c DEF OwnerInv, HolderInv, OwnedInv, RecordTypes,
     LockSetTypes, ThreadTypes
<1>3. CallerInv'
  BY <1>a, <1>b, <1>c DEF CallerInv, ThreadTypes, ScanLabels
<1>4. WaiterInv'
  BY <1>a, <1>b, <1>c DEF WaiterInv, RecordTypes, LockSetTypes, ThreadTypes
<1>5. WaitingCounted'
  BY <1>a, <1>b, <1>c, WaitingFrame DEF LockSetTypes, ThreadTypes, Waiters
<1>6. ListInv'
  BY <1>a, <1>b, <1>c DEF ListInv, RecordTypes, LockSetTypes, WriterTypes, Type
<1>7. WriterInv'
  <2>1. \A u \in Threads : u # t => pc'[u] = pc[u] /\ rec'[u] = rec[u]
    BY <1>b DEF ThreadTypes
  <2>2. pc'[t] \notin WriterLabels /\ pc[t] \notin WriterLabels
    BY <1>b, <1>c DEF ThreadTypes, WriterLabels
  <2>3. \A s \in LockSets : mutex[s] \in Threads => mutex'[s] = mutex[s]
    BY <1>a, <1>b, <1>c DEF LockSetTypes
  <2>4. \A u \in Threads : globalLock = u => Locking(u)' = Locking(u)
    BY <1>a, <1>c, <2>1 DEF Locking
  <2>5. ASSUME NEW u \in Threads, globalLock = u, pc[u] = "rl_locked"
        PROVE  mutex'[setOf[Locking(u)]] = u
    BY <2>3, <2>5, LockingFacts DEF WriterInv
  <2>. QED BY <1>a, <1>c, <2>1, <2>2, <2>4, <2>5 DEF WriterInv, Type, InChange
<1>8. LinkInv'
  BY <1>a, <1>b, <1>c, LinkFrame, MergedLinkFrame DEF ThreadTypes, WriterTypes,
     WriterInv, WriterLabels
<1>. QED BY <1>1, <1>2, <1>3, <1>4, <1>5, <1>6, <1>7, <1>8

\* The unlock of dblsr keeps the invariant.
LEMMA DblsrUnlockInv ==
    ASSUME IInv, NEW t \in Threads, DblsrUnlock(t)
    PROVE  IInv'
<1>. USE DEF IInv, TypeOK, DblsrUnlock, Return, Goto, writerVars, lockSet
<1>a. /\ lset[t] \in LockSets /\ held[t] = << >> /\ globalLock # t
      /\ pc[t] = "lsr_locked" => mutex[lset[t]] = t
  BY DEF WaiterInv, CallerInv, WriterInv, WriterLabels
<1>1. TypeOK'
  BY <1>a DEF RecordTypes, LockSetTypes, ThreadTypes, WriterTypes, Labels,
     ScanLabels, WriterLabels
<1>2. OwnerInv'
  BY <1>a DEF OwnerInv, HolderInv, OwnedInv, RecordTypes, LockSetTypes,
     ThreadTypes
<1>3. CallerInv'
  BY <1>a DEF CallerInv, ThreadTypes, ScanLabels
<1>4. WaiterInv'
  BY <1>a DEF WaiterInv, RecordTypes, LockSetTypes, ThreadTypes
<1>5. WaitingCounted'
  BY <1>a, WaitingFrame DEF LockSetTypes, ThreadTypes, Waiters
<1>6. ListInv'
  BY <1>a DEF ListInv, RecordTypes, LockSetTypes, WriterTypes, Type
<1>7. WriterInv'
  BY <1>a DEF WriterInv, RecordTypes, LockSetTypes, ThreadTypes, WriterTypes,
     Type, InChange, Locking, WriterLabels
<1>8. LinkInv'
  BY <1>a, LinkFrame, MergedLinkFrame DEF ThreadTypes, WriterTypes, WriterInv,
     WriterLabels
<1>. QED BY <1>1, <1>2, <1>3, <1>4, <1>5, <1>6, <1>7, <1>8

\* The state dbLockInitRecords leaves satisfies the invariant.
LEMMA InitInv == Init => IInv
<1>. SUFFICES ASSUME Init PROVE IInv
  OBVIOUS
<1>. USE DEF Init
<1>1. TypeOK
  BY DEF TypeOK, RecordTypes, LockSetTypes, ThreadTypes, WriterTypes, Labels
<1>2. OwnerInv
  BY DEF OwnerInv, HolderInv, OwnedInv
<1>3. CallerInv
  BY DEF CallerInv, ScanLabels
<1>4. WaiterInv
  BY DEF WaiterInv
<1>5. WaitingCounted
  <2>1. \A s : Waiters(s) = {}
    BY DEF Waiters
  <2>. QED BY <2>1, FS_EmptySet DEF WaitingCounted
<1>6. ListInv
  BY DEF ListInv, Type
<1>7. WriterInv
  BY DEF WriterInv, WriterLabels
<1>8. LinkInv
  <2>1. ASSUME NEW r \in Records, link[r] # NoRecord PROVE setOf[r] = setOf[link[r]]
    <3>1. link[r] \in Records
      BY <2>1
    <3>2. Connected(r, link[r])
      BY <2>1, <3>1 DEF Connected, Neighbours
    <3>. QED BY <3>1, <3>2
  <2>2. MergedLink = link
    BY DEF MergedLink
  <2>. QED BY <2>1, <2>2 DEF LinkInv
<1>. QED BY <1>1, <1>2, <1>3, <1>4, <1>5, <1>6, <1>7, <1>8 DEF IInv

\* Every step keeps the invariant.
LEMMA StepInv == IInv /\ [Next]_vars => IInv'
<1>. SUFFICES ASSUME IInv, [Next]_vars PROVE IInv'
  OBVIOUS
<1>1. ASSUME NEW t \in Threads, ScanNext(t) PROVE IInv'
  BY <1>1, ScanLockFreeInv, ScanLockTryFailsInv, ScanLockWaitInv,
     ScanLockNestedInv, ScanLockDeferInv, ScanLockGetMutexInv,
     ScanLockWokenInv, ScanLockYieldInv, ScanLockGlobalInv DEF ScanNext
<1>2. ASSUME NEW t \in Threads, RecordLockNext(t) PROVE IInv'
  BY <1>2, RecordLockHaveInv, RecordLockEnterInv, RecordLockGetInv,
     RecordLockReleaseInv, RecordLockRetryInv, RecordLockDoneInv
     DEF RecordLockNext
<1>3. ASSUME NEW t \in Threads, PutNext(t) PROVE IInv'
  BY <1>2, <1>3, PutGlobalInv, PutFailsInv, PutOldOtherInv, SplitDetachInv,
     SplitAllocInv, SplitMergeInv, PutNewOtherInv, PutNewLinkInv, PutMergeInv,
     GblUnlockInv DEF PutNext
<1>4. ASSUME NEW t \in Threads, DblsrNext(t) PROVE IInv'
  BY <1>4, DblsrTryInv, DblsrUnlockInv DEF DblsrNext
<1>5. CASE Next
  BY <1>1, <1>3, <1>4, <1>5, ScanLockInv, ScanUnlockInv, PutFieldLinkInv,
     DbcarInv, DblsrInv DEF Next, Step
<1>6. CASE UNCHANGED vars
  <2>1. UNCHANGED <<setOf, link, type, state, thread_id, nRecursion, nWaiting,
                    mutex, globalLock, pc, rec, lset, held, target, todo, cur>>
    BY <1>6 DEF vars, lockSet
  <2>2. IInv = IInv'
    BY <2>1 DEF IInv, TypeOK, RecordTypes, LockSetTypes, ThreadTypes,
       WriterTypes, OwnerInv, HolderInv, OwnedInv, CallerInv, WaiterInv,
       WaitingCounted, Waiters, ListInv, WriterInv, LinkInv, Type, InChange,
       Locking, MergedLink
  <2>. QED BY <2>2
<1>. QED BY <1>5, <1>6

-----------------------------------------------------------------------------
\* Every reachable state satisfies the inductive invariant.
THEOREM Invariance == Spec => []IInv
BY InitInv, StepInv, PTL DEF Spec

\* The fields of the lock sets keep their types: no count goes negative.
THEOREM TypeCorrect == Spec => []TypeOK
<1>1. IInv => TypeOK
  BY DEF IInv
<1>. QED BY <1>1, Invariance, PTL

\* dbScanLock never lets two threads into one lock set, for any number of
\* threads, records and lock sets and any nesting.
THEOREM Exclusion == Spec => []MutualExclusion
<1>1. IInv => MutualExclusion
  <2>. SUFFICES ASSUME IInv, NEW t \in Threads, NEW u \in Threads, t # u,
                       NEW r \in Records, NEW q \in Records,
                       Holds(t, r), Holds(u, q)
                PROVE  setOf[r] # setOf[q]
    BY DEF MutualExclusion
  <2>1. ASSUME NEW v \in Threads, NEW x \in Records, Holds(v, x)
        PROVE  mutex[setOf[x]] = v
    <3>1. PICK i \in 1..Len(held[v]) : held[v][i] = x
      BY <2>1 DEF Holds
    <3>2. held[v] # << >>
      BY <3>1 DEF IInv, TypeOK, ThreadTypes
    <3>. QED BY <3>1, <3>2 DEF IInv, OwnerInv, HolderInv
  <2>. QED BY <2>1
<1>. QED BY <1>1, Invariance, PTL

\* Between link changes, linked records share a lock set: processing a record
\* along its links stays inside the lock set that is locked.
THEOREM LinksInsideLockSets ==
    Spec => [](globalLock = NoThread =>
                \A r \in Records : link[r] # NoRecord => setOf[r] = setOf[link[r]])
<1>1. IInv => (globalLock = NoThread =>
        \A r \in Records : link[r] # NoRecord => setOf[r] = setOf[link[r]])
  <2>. SUFFICES ASSUME IInv, globalLock = NoThread
                PROVE  \A r \in Records : link[r] # NoRecord => setOf[r] = setOf[link[r]]
    OBVIOUS
  <2>1. todo = {}
    BY DEF IInv, WriterInv
  <2>2. MergedLink = link
    BY DEF MergedLink, IInv, TypeOK, RecordTypes
  <2>. QED BY <2>1, <2>2 DEF IInv, LinkInv
<1>. QED BY <1>1, Invariance, PTL

-----------------------------------------------------------------------------
(* Groups of linked records *)

\* Every record is in its own group.
LEMMA GroupSelf == ASSUME NEW r \in Records PROVE r \in Groups!Group(r)
BY DEF Groups!Group

\* A set of records that no link leaves or enters has the groups of its members.
LEMMA GroupInside ==
    ASSUME NEW S \in SUBSET Records, NEW r \in S,
           \A q \in Records : MergedLink[q] \in Records => (q \in S <=> MergedLink[q] \in S)
    PROVE  Groups!Group(r) \subseteq S
<1>1. Groups!Neighbours(S) \subseteq S
  BY DEF Groups!Neighbours
<1>. QED BY <1>1 DEF Groups!Group

\* Linked records are in one group.
LEMMA GroupOfLink ==
    ASSUME NEW r \in Records, MergedLink[r] \in Records
    PROVE  MergedLink[r] \in Groups!Group(r) /\ r \in Groups!Group(MergedLink[r])
BY DEF Groups!Group, Groups!Neighbours

\* Groups are transitive.
LEMMA GroupTransitive ==
    ASSUME NEW r \in Records, NEW q \in Groups!Group(r), NEW x \in Groups!Group(q)
    PROVE  x \in Groups!Group(r)
BY DEF Groups!Group

\* Groups are symmetric: a closed set that r is not in has a closed complement.
LEMMA GroupSymmetric ==
    ASSUME NEW r \in Records, NEW q \in Groups!Group(r)
    PROVE  r \in Groups!Group(q)
<1>. SUFFICES ASSUME NEW S \in SUBSET Records, q \in S, Groups!Neighbours(S) \subseteq S,
                     r \notin S
              PROVE  FALSE
  BY DEF Groups!Group
<1>1. Groups!Neighbours(Records \ S) \subseteq Records \ S
  BY DEF Groups!Neighbours
<1>. QED BY <1>1 DEF Groups!Group

\* With no link removed, groups only grow.
LEMMA GroupGrows ==
    ASSUME MergedLink \in [Records -> Records \cup {NoRecord}],
           \A r \in Records : MergedLink[r] # NoRecord => MergedLink'[r] = MergedLink[r],
           NEW r \in Records
    PROVE  Groups!Group(r) \subseteq Groups!Group(r)'
<1>. SUFFICES ASSUME NEW S \in SUBSET Records, r \in S, Groups!Neighbours(S)' \subseteq S
              PROVE  Groups!Group(r) \subseteq S
  BY DEF Groups!Group
<1>1. ASSUME NEW x \in Records, MergedLink[x] \in S
      PROVE  x \in S
  <2>1. MergedLink'[x] \in S
    BY <1>1
  <2>. QED BY <2>1 DEF Groups!Neighbours
<1>2. ASSUME NEW x \in S, MergedLink[x] \in Records
      PROVE  MergedLink[x] \in S
  <2>1. MergedLink'[x] = MergedLink[x]
    BY <1>2
  <2>. QED BY <1>2, <2>1 DEF Groups!Neighbours
<1>3. Groups!Neighbours(S) \subseteq S
  BY <1>1, <1>2 DEF Groups!Neighbours
<1>. QED BY <1>3 DEF Groups!Group

\* Where no link of a record's group changes hands, lock sets and links agree:
\* a record out of any link change only leads to records of its lock set.
LEMMA GroupOfScanned ==
    ASSUME IInv, NEW r \in Records, ~InChange(r)
    PROVE  \A q \in Groups!Group(r) : q \in Records /\ setOf[q] = setOf[r]
<1>. DEFINE S == {q \in Records : setOf[q] = setOf[r]}
<1>1. \A q \in S : ~InChange(q)
  BY DEF InChange, Type
<1>2. ASSUME NEW q \in Records, MergedLink[q] \in Records
      PROVE  q \in S <=> MergedLink[q] \in S
  <2>1. CASE setOf[q] = setOf[MergedLink[q]]
    BY <1>2, <2>1
  <2>2. CASE InChange(q) /\ InChange(MergedLink[q])
    BY <1>1, <2>2
  <2>. QED BY <1>2, <2>1, <2>2 DEF IInv, LinkInv
<1>3. S \in SUBSET Records /\ r \in S
  OBVIOUS
<1>. HIDE DEF S
<1>4. Groups!Group(r) \subseteq S
  BY <1>2, <1>3, GroupInside
<1>. QED BY <1>4 DEF S

\* The group of a record in a link change is in the link change with it.
LEMMA GroupInChange ==
    ASSUME IInv, NEW r \in Records, InChange(r)
    PROVE  \A q \in Groups!Group(r) : q \in Records /\ InChange(q)
<1>. DEFINE S == {q \in Records : InChange(q)}
<1>1. ASSUME NEW q \in Records, MergedLink[q] \in Records
      PROVE  q \in S <=> MergedLink[q] \in S
  <2>1. CASE setOf[q] = setOf[MergedLink[q]]
    BY <1>1, <2>1 DEF InChange, Type
  <2>2. CASE InChange(q) /\ InChange(MergedLink[q])
    BY <1>1, <2>2
  <2>. QED BY <1>1, <2>1, <2>2 DEF IInv, LinkInv
<1>2. S \in SUBSET Records /\ r \in S
  OBVIOUS
<1>. HIDE DEF S
<1>3. Groups!Group(r) \subseteq S
  BY <1>1, <1>2, GroupInside
<1>. QED BY <1>3 DEF S

\* A thread with a record locked has the mutex of its lock set, which is not
\* in a link change.
LEMMA HoldsFacts ==
    ASSUME IInv, NEW t \in Threads, NEW r \in Records, Holds(t, r)
    PROVE  /\ setOf[r] \in LockSets
           /\ mutex[setOf[r]] = t
           /\ thread_id[setOf[r]] = t
           /\ ~InChange(r)
<1>1. PICK i \in 1..Len(held[t]) : held[t][i] = r
  BY DEF Holds
<1>2. held[t] # << >>
  BY <1>1 DEF IInv, TypeOK, ThreadTypes
<1>3. LET s == setOf[r] IN
      /\ s \in LockSets /\ mutex[s] = t /\ thread_id[s] = t /\ type[s] = "scan"
  BY <1>1, <1>2 DEF IInv, OwnerInv, HolderInv
<1>. QED BY <1>3 DEF InChange, Type

\* MergedLink is a link function, and link itself when no link is being put.
LEMMA MergedLinkFacts ==
    ASSUME IInv
    PROVE  /\ MergedLink \in [Records -> Records \cup {NoRecord}]
           /\ target = NoRecord => MergedLink = link
           /\ NoRecord \notin Records
<1>1. link \in [Records -> Records \cup {NoRecord}]
  BY DEF IInv, TypeOK, RecordTypes
<1>. QED BY <1>1 DEF MergedLink

-----------------------------------------------------------------------------
(* Steps, by what they do to records, links and lock sets *)

\* Steps that lock, unlock, unlink, link or move nothing.
QuietStep(t) ==
    \/ ScanLock(t) \/ ScanLockTryFails(t) \/ ScanLockWait(t) \/ ScanLockDefer(t)
    \/ ScanLockGetMutex(t) \/ ScanLockYield(t) \/ ScanLockGlobal(t)
    \/ PutFieldLink(t) \/ PutGlobal(t) \/ Dbcar(t) \/ RecordLockNext(t)
    \/ PutFails(t) \/ PutOldOther(t) \/ PutNewOther(t) \/ PutNewLink(t)
    \/ GblUnlock(t) \/ Dblsr(t) \/ DblsrNext(t)

\* dbScanLock returns.
LocksStep(t) == ScanLockFree(t) \/ ScanLockNested(t) \/ ScanLockWoken(t)

\* Each step is one of these.
LEMMA StepKinds ==
    ASSUME Next
    PROVE  \E t \in Threads :
            \/ QuietStep(t) \/ LocksStep(t) \/ ScanUnlock(t) \/ SplitDetach(t)
            \/ SplitAlloc(t) \/ SplitMerge(t) \/ PutMerge(t)
BY DEF Next, Step, ScanNext, PutNext, QuietStep, LocksStep

\* The groups and the records locked do not notice a quiet step: the link that
\* is put counts from its merge on.
LEMMA QuietFacts ==
    ASSUME FullInv, NEW t \in Threads, QuietStep(t)
    PROVE  UNCHANGED <<held, setOf>> /\ MergedLink' = MergedLink
<1>. USE DEF Goto, Jump, Return, lockSet, writerVars
<1>1. UNCHANGED <<held, setOf>>
  BY DEF QuietStep, ScanLock, ScanLockTryFails, ScanLockWait, ScanLockDefer,
     ScanLockGetMutex, ScanLockYield, ScanLockGlobal, PutFieldLink, PutGlobal, Dbcar,
     RecordLockNext, RecordLockHave, RecordLockEnter, RecordLockGet,
     RecordLockRelease, RecordLockRetry, RecordLockDone, PutFails, PutOldOther,
     PutNewOther, PutNewLink, GblUnlock, Dblsr, DblsrNext, DblsrTry, DblsrUnlock
<1>2. rec \in [Threads -> Records \cup {NoRecord}] /\ globalLock \in Threads \cup {NoThread}
      /\ link \in [Records -> Records \cup {NoRecord}]
  BY DEF FullInv, IInv, TypeOK, ThreadTypes, WriterTypes, RecordTypes
<1>3. pc[t] \notin WriterLabels => globalLock # t
  BY DEF FullInv, IInv, WriterInv
<1>4. CASE \/ ScanLock(t) \/ ScanLockTryFails(t) \/ ScanLockWait(t)
           \/ ScanLockDefer(t) \/ ScanLockGetMutex(t) \/ ScanLockYield(t)
           \/ ScanLockGlobal(t) \/ PutFieldLink(t) \/ Dblsr(t) \/ DblsrNext(t)
  <2>1. /\ UNCHANGED <<link, globalLock, target>>
        /\ pc[t] \notin WriterLabels
        /\ \A u \in Threads : u # t => rec'[u] = rec[u]
    BY <1>2, <1>4 DEF ScanLock, ScanLockTryFails, ScanLockWait, ScanLockDefer,
       ScanEnter, ScanLockGetMutex, ScanLockYield, ScanLockGlobal, PutFieldLink,
       Dblsr, DblsrNext, DblsrTry, DblsrUnlock, WriterLabels
  <2>. QED BY <1>1, <1>2, <1>3, <2>1, MergedLinkFrame
<1>5. CASE PutGlobal(t) \/ Dbcar(t) \/ GblUnlock(t)
  <2>1. target = NoRecord
    BY <1>5 DEF PutGlobal, Dbcar, GblUnlock, FullInv, IInv, WriterInv, WriterLabels
  <2>2. UNCHANGED <<link, target>>
    BY <1>5 DEF PutGlobal, Dbcar, GblUnlock
  <2>. QED BY <1>1, <2>1, <2>2 DEF MergedLink
<1>6. CASE RecordLockNext(t) \/ PutFails(t) \/ PutOldOther(t) \/ PutNewOther(t)
  <2>1. UNCHANGED <<link, target, rec, globalLock>>
    BY <1>6 DEF RecordLockNext, RecordLockHave, RecordLockEnter, RecordLockGet,
       RecordLockRelease, RecordLockRetry, RecordLockDone, PutFails, PutOldOther,
       PutNewOther
  <2>. QED BY <1>1, <2>1, MergedLinkFrame
<1>7. CASE PutNewLink(t)
  <2>1. /\ globalLock = t /\ target = NoRecord /\ link[rec[t]] = NoRecord
        /\ rec[t] \in Records
    BY <1>7, WriterFacts DEF PutNewLink, FullInv, UnlinkedInv, IInv, WriterInv, WriterLabels
  <2>2. PICK q \in Records : target' = q /\ link' = [link EXCEPT ![rec[t]] = q]
    BY <1>7 DEF PutNewLink
  <2>3. UNCHANGED <<rec, globalLock>>
    BY <1>7 DEF PutNewLink
  <2>4. \A r \in Records : MergedLink'[r] = MergedLink[r]
    BY <1>2, <2>1, <2>2, <2>3 DEF MergedLink
  <2>. QED BY <1>1, <2>4 DEF MergedLink
<1>. QED BY <1>1, <1>4, <1>5, <1>6, <1>7 DEF QuietStep

\* Only the link writer touches its links and its record.
LEMMA OthersKeepLinks ==
    ASSUME IInv, NEW t \in Threads, NEW u \in Threads, u # t, pc[u] \in WriterLabels,
           \/ QuietStep(t) \/ LocksStep(t) \/ ScanUnlock(t) \/ SplitDetach(t)
           \/ SplitAlloc(t) \/ SplitMerge(t) \/ PutMerge(t)
    PROVE  UNCHANGED link /\ rec'[u] = rec[u]
<1>1. pc[t] \notin WriterLabels
  BY WriterFacts
<1>2. rec \in [Threads -> Records \cup {NoRecord}]
  BY DEF IInv, TypeOK, ThreadTypes
<1>. QED
  BY <1>1, <1>2 DEF QuietStep, LocksStep, WriterLabels, Goto, Jump, Return,
     Own, ScanLock,
     ScanLockTryFails, ScanLockWait, ScanLockDefer, ScanLockGetMutex, ScanLockYield,
     ScanLockGlobal, PutFieldLink, PutGlobal, Dbcar, RecordLockNext, RecordLockHave,
     RecordLockEnter, RecordLockGet, RecordLockRelease, RecordLockRetry,
     RecordLockDone, PutFails, PutOldOther, PutNewOther, PutNewLink, GblUnlock, Dblsr,
     DblsrNext, DblsrTry, DblsrUnlock, ScanLockFree, ScanLockNested, ScanLockWoken,
     ScanUnlock, SplitDetach, SplitAlloc, SplitMerge, PutMerge

\* The old link stays away until the new one is put.
LEMMA UnlinkedStep ==
    ASSUME FullInv, Next
    PROVE  UnlinkedInv'
<1>. SUFFICES ASSUME NEW u \in Threads, pc'[u] \in {"split_alloc", "split_merge", "put_new"}
              PROVE  link'[rec'[u]] = NoRecord
  BY DEF UnlinkedInv
<1>1. PICK t \in Threads :
        \/ QuietStep(t) \/ LocksStep(t) \/ ScanUnlock(t) \/ SplitDetach(t)
        \/ SplitAlloc(t) \/ SplitMerge(t) \/ PutMerge(t)
  BY StepKinds
<1>2. /\ pc \in [Threads -> Labels] /\ rec \in [Threads -> Records \cup {NoRecord}]
      /\ link \in [Records -> Records \cup {NoRecord}]
  BY DEF FullInv, IInv, TypeOK, ThreadTypes, RecordTypes
<1>3. CASE u # t
  <2>1. pc'[u] = pc[u]
    BY <1>1, <1>2, <1>3 DEF QuietStep, LocksStep, Goto, Jump, Return, Own,
       ScanLock, ScanLockTryFails, ScanLockWait, ScanLockDefer, ScanLockGetMutex,
       ScanLockYield, ScanLockGlobal, PutFieldLink, PutGlobal, Dbcar, RecordLockNext,
       RecordLockHave, RecordLockEnter, RecordLockGet, RecordLockRelease,
       RecordLockRetry, RecordLockDone, PutFails, PutOldOther, PutNewOther,
       PutNewLink, GblUnlock, Dblsr, DblsrNext, DblsrTry, DblsrUnlock, ScanLockFree,
       ScanLockNested, ScanLockWoken, ScanUnlock, SplitDetach, SplitAlloc,
       SplitMerge, PutMerge
  <2>2. pc[u] \in WriterLabels
    BY <2>1 DEF WriterLabels
  <2>. QED BY <1>1, <1>3, <2>1, <2>2, OthersKeepLinks DEF FullInv, UnlinkedInv
<1>4. CASE u = t
  <2>1. PutOldOther(t) \/ SplitDetach(t) \/ SplitAlloc(t) \/ SplitMerge(t)
    BY <1>1, <1>2, <1>4 DEF QuietStep, LocksStep, Goto, Jump, Return, Own,
       AfterRecordLock,
       ScanLock, ScanLockTryFails, ScanLockWait, ScanLockDefer, ScanLockGetMutex,
       ScanLockYield, ScanLockGlobal, PutFieldLink, PutGlobal, Dbcar, RecordLockNext,
       RecordLockHave, RecordLockEnter, RecordLockGet, RecordLockRelease,
       RecordLockRetry, RecordLockDone, PutFails, PutNewOther,
       PutNewLink, GblUnlock, Dblsr, DblsrNext, DblsrTry, DblsrUnlock, ScanLockFree,
       ScanLockNested, ScanLockWoken, ScanUnlock, PutMerge
  <2>2. CASE PutOldOther(t)
    BY <1>4, <2>2 DEF PutOldOther, Jump
  <2>3. CASE SplitDetach(t)
    <3>1. rec[t] \in Records
      BY <2>3, WriterFacts DEF SplitDetach, FullInv, WriterLabels
    <3>. QED BY <1>2, <1>4, <2>3, <3>1 DEF SplitDetach
  <2>4. CASE SplitAlloc(t) \/ SplitMerge(t)
    BY <1>4, <2>4 DEF SplitAlloc, SplitMerge, FullInv, UnlinkedInv
  <2>. QED BY <2>1, <2>2, <2>3, <2>4
<1>. QED BY <1>3, <1>4

-----------------------------------------------------------------------------
(* Lock sets are no larger than groups *)

\* Groups divide the records into classes.
GroupsAreClasses ==
    \A r \in Records :
        /\ r \in Groups!Group(r)
        /\ \A q \in Groups!Group(r) :
            /\ q \in Records
            /\ r \in Groups!Group(q)
            /\ \A x \in Groups!Group(q) : x \in Groups!Group(r)

\* So they do.
LEMMA GroupsClasses == GroupsAreClasses
<1>1. \A r \in Records : \A q \in Groups!Group(r) : q \in Records
  BY DEF Groups!Group
<1>. QED BY <1>1, GroupSelf, GroupSymmetric, GroupTransitive DEF GroupsAreClasses

\* A step that leaves the links alone leaves the groups alone.
LEMMA GroupFrame ==
    ASSUME MergedLink' = MergedLink, NEW r \in Records
    PROVE  Groups!Group(r)' = Groups!Group(r)
BY DEF Groups!Group, Groups!Neighbours

\* A step that also leaves the lock sets alone keeps GroupInv.
LEMMA GroupInvFrame ==
    ASSUME GroupInv, MergedLink' = MergedLink, UNCHANGED setOf
    PROVE  GroupInv'
BY GroupFrame DEF GroupInv

\* dbLockSetMerge of two records that are in one group after the step.
LEMMA MergeGroups ==
    ASSUME NEW p \in Records, NEW q \in Records, Merge(p, q), setOf[p] # NoSet,
           q \in Groups!Group(p)',
           \A x, y \in Records :
                setOf[x] # NoSet /\ setOf[x] = setOf[y] => y \in Groups!Group(x)'
    PROVE  GroupInv'
<1>. DEFINE s1 == setOf[p]
            s2 == setOf[q]
            moved == {r \in Records : r = p \/ r = q \/ (s2 # NoSet /\ setOf[r] = s2)}
<1>1. setOf' = [r \in Records |-> IF r \in moved THEN s1 ELSE setOf[r]]
  BY DEF Merge
<1>2. GroupsAreClasses'
  BY GroupsClasses, PTL
<1>3. ASSUME NEW x \in Records, setOf'[x] = s1
      PROVE  x \in Groups!Group(p)'
  <2>1. CASE setOf[x] = s1
    BY <2>1
  <2>2. CASE x = p \/ x = q
    BY <1>2, <2>2 DEF GroupsAreClasses
  <2>3. CASE s2 # NoSet /\ setOf[x] = s2
    <3>1. x \in Groups!Group(q)'
      BY <2>3
    <3>. QED BY <1>2, <3>1 DEF GroupsAreClasses
  <2>. QED BY <1>1, <1>3, <2>1, <2>2, <2>3
<1>4. ASSUME NEW x \in Records, NEW y \in Records, setOf'[x] # NoSet,
             setOf'[x] = setOf'[y]
      PROVE  y \in Groups!Group(x)'
  <2>1. CASE setOf'[x] = s1
    <3>1. x \in Groups!Group(p)' /\ y \in Groups!Group(p)'
      BY <1>3, <1>4, <2>1
    <3>2. p \in Groups!Group(x)'
      BY <1>2, <3>1 DEF GroupsAreClasses
    <3>. QED BY <1>2, <3>1, <3>2 DEF GroupsAreClasses
  <2>2. CASE setOf'[x] # s1
    BY <1>1, <1>4, <2>2
  <2>. QED BY <2>1, <2>2
<1>. QED BY <1>4 DEF GroupInv

\* Records of one lock set are in one group, each with itself.
LEMMA GroupInvSelf ==
    ASSUME GroupInv, NEW x \in Records, NEW y \in Records,
           setOf[x] # NoSet, setOf[x] = setOf[y]
    PROVE  y \in Groups!Group(x)
BY GroupSelf DEF GroupInv

\* The link writer splits the lock set with no link being put.
LEMMA SplitFacts ==
    ASSUME IInv, NEW t \in Threads, SplitDetach(t) \/ SplitAlloc(t) \/ SplitMerge(t)
    PROVE  /\ globalLock = t /\ rec[t] \in Records
           /\ target = NoRecord /\ target' = NoRecord
           /\ MergedLink = link /\ MergedLink' = link'
           /\ link \in [Records -> Records \cup {NoRecord}]
           /\ UNCHANGED held
<1>1. /\ pc[t] \in {"put_old", "split_alloc", "split_merge"}
      /\ UNCHANGED <<target, held>>
  BY DEF SplitDetach, SplitAlloc, SplitMerge
<1>2. link \in [Records -> Records \cup {NoRecord}]
  BY DEF IInv, TypeOK, RecordTypes
<1>3. link' \in [Records -> Records \cup {NoRecord}]
  BY <1>2 DEF SplitDetach, SplitAlloc, SplitMerge
<1>4. globalLock = t /\ rec[t] \in Records /\ target = NoRecord
  BY <1>1, WriterFacts DEF WriterLabels, IInv, WriterInv
<1>5. MergedLink = link /\ MergedLink' = link'
  BY <1>1, <1>2, <1>3, <1>4 DEF MergedLink
<1>. QED BY <1>1, <1>2, <1>4, <1>5

\* dbLockSetSplit takes the lock set apart: the others lose no link.
LEMMA SplitDetachGroups ==
    ASSUME IInv, GroupInv, NEW t \in Threads, SplitDetach(t)
    PROVE  GroupInv'
<1>. DEFINE s == setOf[rec[t]]
<1>1. /\ setOf' = [r \in Records |-> IF setOf[r] = s THEN NoSet ELSE setOf[r]]
      /\ link' = [link EXCEPT ![rec[t]] = NoRecord]
  BY DEF SplitDetach
<1>2. todo = {}
  BY SplitFacts DEF SplitDetach, IInv, WriterInv
<1>3. \A z \in Records : link[z] \in Records => setOf[z] = setOf[link[z]]
  BY <1>2, SplitFacts DEF IInv, LinkInv
<1>4. ASSUME NEW x \in Records, NEW y \in Records, setOf'[x] # NoSet,
             setOf'[x] = setOf'[y]
      PROVE  y \in Groups!Group(x)'
  <2>. SUFFICES ASSUME NEW S \in SUBSET Records, x \in S, Groups!Neighbours(S)' \subseteq S
                PROVE  y \in S
    BY DEF Groups!Group
  <2>. DEFINE T == {z \in S : setOf[z] = setOf[x]}
  <2>1. setOf[x] # NoSet /\ setOf[x] = setOf[y] /\ setOf[x] # s
    BY <1>1, <1>4
  <2>2. ASSUME NEW z \in Records, link[z] \in Records
        PROVE  z \in T <=> link[z] \in T
    <3>1. CASE setOf[z] = setOf[x]
      <4>1. link'[z] = link[z]
        BY <1>1, <2>1, <3>1, SplitFacts
      <4>2. z \in S <=> link[z] \in S
        BY <2>2, <4>1, SplitFacts DEF Groups!Neighbours
      <4>. QED BY <1>3, <2>2, <4>2
    <3>2. CASE setOf[z] # setOf[x]
      BY <1>3, <2>2, <3>2
    <3>. QED BY <3>1, <3>2
  <2>3. T \in SUBSET Records /\ x \in T
    OBVIOUS
  <2>. HIDE DEF T
  <2>4. Groups!Group(x) \subseteq T
    BY <2>2, <2>3, GroupInside, SplitFacts
  <2>5. y \in Groups!Group(x)
    BY <2>1, GroupInvSelf
  <2>. QED BY <2>4, <2>5 DEF T
<1>. QED BY <1>4 DEF GroupInv

\* A record gets a lock set of its own.
LEMMA SplitAllocGroups ==
    ASSUME IInv, GroupInv, NEW t \in Threads, SplitAlloc(t)
    PROVE  GroupInv'
<1>1. MergedLink' = MergedLink
  BY SplitFacts DEF SplitAlloc
<1>2. CASE UNCHANGED setOf
  BY <1>1, <1>2, GroupInvFrame
<1>3. ASSUME NEW r \in Records, NEW s \in LockSets, type[s] = "free",
             setOf' = [setOf EXCEPT ![r] = s]
      PROVE  GroupInv'
  <2>1. \A x \in Records : setOf[x] # s
    BY <1>3 DEF IInv, ListInv, Type
  <2>2. \A x, y \in Records : x # y /\ setOf'[x] # NoSet /\ setOf'[x] = setOf'[y] =>
            setOf[x] # NoSet /\ setOf[x] = setOf[y]
    BY <1>3, <2>1 DEF IInv, TypeOK, RecordTypes
  <2>. QED BY <1>1, <2>2, GroupFrame DEF GroupInv
<1>. QED BY <1>2, <1>3 DEF SplitAlloc, IInv, TypeOK, WriterTypes

\* The link of the record is followed.
LEMMA SplitMergeGroups ==
    ASSUME IInv, GroupInv, NEW t \in Threads, SplitMerge(t)
    PROVE  GroupInv'
<1>1. MergedLink' = MergedLink
  BY SplitFacts DEF SplitMerge
<1>2. cur \in Records /\ setOf[cur] # NoSet
  BY SplitFacts DEF SplitMerge, IInv, WriterInv, TypeOK, WriterTypes
<1>3. CASE link[cur] = NoRecord
  BY <1>1, <1>3, GroupInvFrame DEF SplitMerge
<1>4. CASE link[cur] # NoRecord
  <2>1. PICK p \in Records, q \in Records : p = cur /\ q = link[cur]
    BY <1>2, <1>4, SplitFacts
  <2>2. MergedLink[p] = q /\ Merge(p, q) /\ setOf[p] # NoSet
    BY <1>2, <1>4, <2>1, SplitFacts DEF SplitMerge
  <2>3. q \in Groups!Group(p)'
    BY <1>1, <2>2, GroupOfLink, GroupFrame
  <2>4. \A x, y \in Records :
            setOf[x] # NoSet /\ setOf[x] = setOf[y] => y \in Groups!Group(x)'
    BY <1>1, GroupInvSelf, GroupFrame
  <2>. QED BY <2>2, <2>3, <2>4, MergeGroups
<1>. QED BY <1>3, <1>4

\* The link writer puts its link: until then it did not count.
LEMMA PutMergeFacts ==
    ASSUME IInv, NEW t \in Threads, PutMerge(t)
    PROVE  /\ rec[t] \in Records /\ target \in Records
           /\ setOf[rec[t]] # NoSet /\ setOf[target] # NoSet
           /\ InChange(rec[t]) /\ InChange(target)
           /\ Merge(rec[t], target)
           /\ MergedLink[rec[t]] = NoRecord
           /\ MergedLink' = [MergedLink EXCEPT ![rec[t]] = target]
           /\ UNCHANGED held
<1>1. globalLock = t /\ rec[t] \in Records /\ todo = {}
  BY WriterFacts DEF PutMerge, WriterLabels, IInv, WriterInv
<1>2. target \in Records /\ InChange(target) /\ InChange(rec[t]) /\ link[rec[t]] = target
  BY <1>1 DEF PutMerge, IInv, WriterInv, TypeOK, WriterTypes
<1>3. setOf[rec[t]] # NoSet /\ setOf[target] # NoSet
  BY <1>1, <1>2 DEF IInv, ListInv
<1>4. /\ UNCHANGED <<link, globalLock, rec, held>> /\ target' = NoRecord
      /\ Merge(rec[t], target)
  BY DEF PutMerge
<1>5. MergedLink[rec[t]] = NoRecord
  BY <1>1, <1>2 DEF MergedLink
<1>6. link \in [Records -> Records \cup {NoRecord}]
  BY DEF IInv, TypeOK, RecordTypes
<1>7. \A r \in Records : MergedLink'[r] = IF r = rec[t] THEN target ELSE MergedLink[r]
  BY <1>1, <1>2, <1>4 DEF MergedLink
<1>8. MergedLink' = [MergedLink EXCEPT ![rec[t]] = target]
  BY <1>7 DEF MergedLink
<1>. QED BY <1>1, <1>2, <1>3, <1>4, <1>5, <1>8

\* The lock sets of source and target become one, as their groups do.
LEMMA PutMergeGroups ==
    ASSUME IInv, GroupInv, NEW t \in Threads, PutMerge(t)
    PROVE  GroupInv'
<1>1. MergedLink \in [Records -> Records \cup {NoRecord}]
  BY MergedLinkFacts
<1>2. \A r \in Records : MergedLink[r] # NoRecord => MergedLink'[r] = MergedLink[r]
  BY <1>1, PutMergeFacts
<1>3. \A x, y \in Records :
            setOf[x] # NoSet /\ setOf[x] = setOf[y] => y \in Groups!Group(x)'
  BY <1>1, <1>2, GroupInvSelf, GroupGrows
<1>4. PICK p \in Records, q \in Records : p = rec[t] /\ q = target
  BY PutMergeFacts
<1>5. MergedLink'[p] = q /\ Merge(p, q) /\ setOf[p] # NoSet
  BY <1>1, <1>4, PutMergeFacts
<1>6. q \in Groups!Group(p)'
  BY <1>5 DEF Groups!Group, Groups!Neighbours
<1>. QED BY <1>3, <1>5, <1>6, MergeGroups

\* dbScanLock returns and dbScanUnlock leave links and lock sets alone.
LEMMA LocksFacts ==
    ASSUME IInv, NEW t \in Threads, LocksStep(t) \/ ScanUnlock(t)
    PROVE  UNCHANGED setOf /\ MergedLink' = MergedLink
<1>1. UNCHANGED <<setOf, link, globalLock, target>>
  BY DEF LocksStep, ScanLockFree, ScanLockNested, ScanLockWoken, ScanUnlock, writerVars
<1>2. globalLock # t
  BY DEF LocksStep, ScanLockFree, ScanLockNested, ScanLockWoken, ScanUnlock, ScanEnter,
     IInv, WriterInv, WriterLabels
<1>3. \A u \in Threads : u # t => rec'[u] = rec[u]
  BY DEF LocksStep, ScanLockFree, ScanLockNested, ScanLockWoken, ScanUnlock, Own,
     Return, IInv, TypeOK, ThreadTypes
<1>4. globalLock \in Threads \cup {NoThread}
  BY DEF IInv, TypeOK, WriterTypes
<1>. QED BY <1>1, <1>2, <1>3, <1>4, MergedLinkFrame

\* Every step keeps lock sets inside groups.
LEMMA GroupStep ==
    ASSUME FullInv, Next
    PROVE  GroupInv'
<1>1. IInv /\ GroupInv
  BY DEF FullInv
<1>. QED BY <1>1, StepKinds, QuietFacts, LocksFacts, GroupInvFrame, SplitDetachGroups,
            SplitAllocGroups, SplitMergeGroups, PutMergeGroups

\* No step moves a record that a thread has locked.
LEMMA HeldSetStep ==
    ASSUME IInv, Next, NEW t \in Threads, NEW r \in Records, Holds(t, r)
    PROVE  setOf'[r] = setOf[r]
<1>1. ~InChange(r)
  BY HoldsFacts
<1>2. PICK u \in Threads :
        \/ QuietStep(u) \/ LocksStep(u) \/ ScanUnlock(u) \/ SplitDetach(u)
        \/ SplitAlloc(u) \/ SplitMerge(u) \/ PutMerge(u)
  BY StepKinds
<1>3. CASE QuietStep(u) \/ LocksStep(u) \/ ScanUnlock(u)
  BY <1>3 DEF QuietStep, LocksStep, Goto, Jump, lockSet, ScanLock,
     ScanLockTryFails, ScanLockWait, ScanLockDefer, ScanLockGetMutex, ScanLockYield,
     ScanLockGlobal, PutFieldLink, PutGlobal, Dbcar, RecordLockNext, RecordLockHave,
     RecordLockEnter, RecordLockGet, RecordLockRelease, RecordLockRetry,
     RecordLockDone, PutFails, PutOldOther, PutNewOther, PutNewLink, GblUnlock, Dblsr,
     DblsrNext, DblsrTry, DblsrUnlock, ScanLockFree, ScanLockNested, ScanLockWoken,
     ScanUnlock
<1>. QED BY <1>1, <1>2, <1>3, SplitDetachInv, SplitAllocInv, SplitMergeInv, PutMergeInv
         DEF InUseFixed

\* No step of a link change moves a record that a thread has locked.
THEOREM HeldSetStays == Spec => HeldSetFixed
<1>1. IInv /\ [Next]_vars =>
        [\A t \in Threads : \A r \in Records :
            Holds(t, r) => setOf'[r] = setOf[r]]_vars
  BY HeldSetStep
<1>. QED BY <1>1, Invariance, PTL DEF Spec, HeldSetFixed

-----------------------------------------------------------------------------
(* The mutex of a lock set can be had when it is free *)

\* Of the records of one thread the first stays, and stays where it is, until
\* none is left.
LEMMA FirstStays ==
    ASSUME IInv, Next, NEW u \in Threads, held[u] # << >>, held'[u] # << >>
    PROVE  held'[u][1] = held[u][1] /\ setOf'[held[u][1]] = setOf[held[u][1]]
<1>1. held \in [Threads -> Seq(Records)] /\ rec \in [Threads -> Records \cup {NoRecord}]
  BY DEF IInv, TypeOK, ThreadTypes
<1>2. held[u] \in Seq(Records) /\ Len(held[u]) \in Nat \ {0} /\ held[u][1] \in Records
  BY <1>1
<1>3. Holds(u, held[u][1])
  BY <1>2 DEF Holds
<1>4. setOf'[held[u][1]] = setOf[held[u][1]]
  BY <1>2, <1>3, HeldSetStep
<1>5. PICK t \in Threads :
        \/ QuietStep(t) \/ LocksStep(t) \/ ScanUnlock(t) \/ SplitDetach(t)
        \/ SplitAlloc(t) \/ SplitMerge(t) \/ PutMerge(t)
  BY StepKinds
<1>6. CASE LocksStep(t)
  <2>1. held' = [held EXCEPT ![t] = Append(@, rec[t])] /\ rec[t] \in Records
    BY <1>6, EnterFacts DEF LocksStep, ScanLockFree, ScanLockNested, ScanLockWoken,
       ScanEnter, Own, IInv, CallerInv, ScanLabels
  <2>2. held'[u] = held[u] \/ held'[u] = Append(held[u], rec[t])
    BY <1>1, <2>1
  <2>3. Append(held[u], rec[t])[1] = held[u][1]
    BY <1>2, <2>1, AppendFacts
  <2>. QED BY <1>4, <2>2, <2>3
<1>7. CASE ScanUnlock(t)
  <2>1. held'[u] = held[u] \/ held'[u] = SubSeq(held[u], 1, Len(held[u]) - 1)
    BY <1>1, <1>7 DEF ScanUnlock
  <2>2. ASSUME held'[u] = SubSeq(held[u], 1, Len(held[u]) - 1)
        PROVE  held'[u][1] = held[u][1]
    <3>. DEFINE n == Len(held[u])
    <3>1. /\ n \in Nat \ {0} /\ n # 1
          /\ \A i \in 1..(n - 1) : SubSeq(held[u], 1, n - 1)[i] = held[u][i]
      BY <1>2, <2>2, FrontFacts
    <3>. HIDE DEF n
    <3>2. 1 \in 1..(n - 1)
      BY <3>1
    <3>. QED BY <2>2, <3>1, <3>2 DEF n
  <2>. QED BY <1>4, <2>1, <2>2
<1>8. CASE ~LocksStep(t) /\ ~ScanUnlock(t)
  <2>1. UNCHANGED held
    BY <1>5, <1>8 DEF QuietStep, Goto, Jump, lockSet, ScanLock,
     ScanLockTryFails, ScanLockWait, ScanLockDefer, ScanLockGetMutex, ScanLockYield,
     ScanLockGlobal, PutFieldLink, PutGlobal, Dbcar, RecordLockNext, RecordLockHave,
     RecordLockEnter, RecordLockGet, RecordLockRelease, RecordLockRetry,
     RecordLockDone, PutFails, PutOldOther, PutNewOther, PutNewLink, GblUnlock, Dblsr,
     DblsrNext, DblsrTry, DblsrUnlock, SplitDetach, SplitAlloc, SplitMerge, PutMerge
  <2>. QED BY <1>4, <2>1
<1>. QED BY <1>6, <1>7, <1>8

\* Who has a mutex keeps what MutexInv asks, in steps that are not the unlock.
LEMMA MutexKept ==
    ASSUME IInv, MutexInv, Next,
           \A u \in Threads : held[u] # << >> => held'[u] # << >>,
           \A u \in Threads : pc[u] \in {"scan_woken", "lsr_locked"} =>
                pc'[u] = pc[u] /\ lset'[u] = lset[u],
           \A u \in Threads : pc[u] = "rl_locked" =>
                /\ pc'[u] = pc[u] /\ rec'[u] = rec[u]
                /\ UNCHANGED <<target, setOf>>,
           \A s \in LockSets : mutex'[s] = mutex[s]
    PROVE  MutexInv'
<1>. SUFFICES ASSUME NEW s \in LockSets, NEW u \in Threads, mutex'[s] = u
              PROVE  \/ held'[u] # << >> /\ setOf'[held'[u][1]] = s
                     \/ pc'[u] \in {"scan_woken", "lsr_locked"} /\ lset'[u] = s
                     \/ pc'[u] = "rl_locked" /\ setOf'[Locking(u)'] = s
  BY DEF MutexInv
<1>1. mutex[s] = u
  OBVIOUS
<1>2. CASE held[u] # << >> /\ setOf[held[u][1]] = s
  BY <1>2, FirstStays
<1>3. CASE pc[u] \in {"scan_woken", "lsr_locked"} /\ lset[u] = s
  BY <1>3
<1>4. CASE pc[u] = "rl_locked" /\ setOf[Locking(u)] = s
  BY <1>4 DEF Locking
<1>. QED BY <1>1, <1>2, <1>3, <1>4 DEF MutexInv
\* The steps that take or give back a mutex.
MutexStep(t) ==
    \/ ScanLockFree(t) \/ ScanLockWoken(t) \/ ScanUnlock(t) \/ ScanLockGetMutex(t)
    \/ ScanLockYield(t) \/ RecordLockGet(t) \/ RecordLockRelease(t) \/ DblsrNext(t)

\* The thread of such a step; the others keep what they have.
LEMMA MutexInvStep ==
    ASSUME IInv, MutexInv, NEW t \in Threads, MutexStep(t)
    PROVE  MutexInv'
<1>. USE DEF Goto, Return, Own, lockSet, writerVars, Locking
<1>1. /\ pc \in [Threads -> Labels] /\ rec \in [Threads -> Records \cup {NoRecord}]
      /\ lset \in [Threads -> LockSets \cup {NoSet}]
      /\ held \in [Threads -> Seq(Records)]
      /\ mutex \in [LockSets -> Threads \cup {NoThread}]
  BY DEF IInv, TypeOK, ThreadTypes, LockSetTypes
<1>2. UNCHANGED <<setOf, target>>
  BY DEF MutexStep, ScanLockFree, ScanLockWoken, ScanUnlock, ScanLockGetMutex,
     ScanLockYield, RecordLockGet, RecordLockRelease, DblsrNext, DblsrTry, DblsrUnlock
<1>3. \A u \in Threads : u # t =>
        held'[u] = held[u] /\ pc'[u] = pc[u] /\ lset'[u] = lset[u] /\ rec'[u] = rec[u]
  BY <1>1 DEF MutexStep, ScanLockFree, ScanLockWoken, ScanUnlock, ScanLockGetMutex,
     ScanLockYield, RecordLockGet, RecordLockRelease, DblsrNext, DblsrTry, DblsrUnlock
<1>4. ASSUME NEW s \in LockSets, NEW u \in Threads, u # t, mutex'[s] = u
      PROVE  mutex[s] = u
  BY <1>1, <1>4 DEF MutexStep, ScanLockFree, ScanLockWoken, ScanUnlock, ScanLockGetMutex,
     ScanLockYield, RecordLockGet, RecordLockRelease, DblsrNext, DblsrTry, DblsrUnlock
<1>5. ASSUME NEW s \in LockSets, NEW u \in Threads, u # t, mutex'[s] = u
      PROVE  \/ held'[u] # << >> /\ setOf'[held'[u][1]] = s
             \/ pc'[u] \in {"scan_woken", "lsr_locked"} /\ lset'[u] = s
             \/ pc'[u] = "rl_locked" /\ setOf'[Locking(u)'] = s
  BY <1>2, <1>3, <1>4, <1>5 DEF MutexInv
<1>6. ASSUME NEW s \in LockSets, mutex'[s] = t
      PROVE  \/ held'[t] # << >> /\ setOf'[held'[t][1]] = s
             \/ pc'[t] \in {"scan_woken", "lsr_locked"} /\ lset'[t] = s
             \/ pc'[t] = "rl_locked" /\ setOf'[Locking(t)'] = s
  <2>1. CASE ScanLockFree(t)
    <3>1. PICK q \in LockSets : ScanEnter(t, q) /\ state[q] = "Free" /\ mutex' = [mutex EXCEPT ![q] = t]
      BY <2>1 DEF ScanLockFree
    <3>2. rec[t] \in Records /\ held[t] = << >>
      BY <3>1, EnterFacts DEF ScanEnter
    <3>3. held'[t] = <<rec[t]>>
      BY <1>1, <2>1, <3>2 DEF ScanLockFree
    <3>4. s = q \/ mutex[s] = t
      BY <1>1, <1>6, <3>1
    <3>. QED BY <1>2, <3>1, <3>2, <3>3, <3>4 DEF ScanEnter, MutexInv
  <2>2. CASE ScanLockWoken(t)
    <3>1. /\ held[t] = << >> /\ rec[t] \in Records /\ setOf[rec[t]] = lset[t]
          /\ pc[t] = "scan_woken" /\ UNCHANGED mutex
      BY <2>2 DEF ScanLockWoken, IInv, CallerInv, WaiterInv, ScanLabels
    <3>2. held'[t] = <<rec[t]>>
      BY <1>1, <2>2, <3>1 DEF ScanLockWoken
    <3>. QED BY <1>2, <1>6, <3>1, <3>2 DEF MutexInv
  <2>3. CASE ScanUnlock(t)
    <3>1. pc[t] = "idle" /\ held[t] # << >>
      BY <2>3 DEF ScanUnlock
    <3>. DEFINE n == Len(held[t])
    <3>2. n \in Nat \ {0} /\ n \in 1..n
      BY <1>1, <3>1
    <3>3. /\ setOf[held[t][n]] = setOf[held[t][1]]
          /\ setOf[held[t][1]] \in LockSets
          /\ nRecursion[setOf[held[t][1]]] = n
      BY <3>1, <3>2 DEF IInv, OwnerInv, HolderInv
    <3>4. mutex' = [mutex EXCEPT ![setOf[held[t][1]]] =
                        IF n = 1 THEN NoThread ELSE @]
      BY <2>3, <3>3 DEF ScanUnlock
    <3>5. mutex[s] = t
      BY <1>1, <1>6, <3>3, <3>4
    <3>6. s = setOf[held[t][1]]
      BY <3>1, <3>5 DEF MutexInv
    <3>7. n # 1
      BY <1>1, <1>6, <3>3, <3>4, <3>6
    <3>8. held'[t] = SubSeq(held[t], 1, n - 1)
      BY <1>1, <2>3 DEF ScanUnlock
    <3>9. /\ \A i \in 1..(n - 1) : SubSeq(held[t], 1, n - 1)[i] = held[t][i]
          /\ SubSeq(held[t], 1, n - 1) # << >>
      BY <1>1, <3>1, <3>7, FrontFacts
    <3>. HIDE DEF n
    <3>10. 1 \in 1..(n - 1)
      BY <3>2, <3>7
    <3>. QED BY <1>2, <3>6, <3>8, <3>9, <3>10
  <2>4. CASE ScanLockGetMutex(t)
    <3>1. held[t] = << >> /\ pc[t] = "scan_wait" /\ lset[t] \in LockSets
      BY <2>4 DEF ScanLockGetMutex, IInv, CallerInv, WaiterInv
    <3>. QED BY <1>1, <1>6, <2>4, <3>1 DEF ScanLockGetMutex, MutexInv
  <2>5. CASE ScanLockYield(t)
    <3>1. held[t] = << >> /\ pc[t] = "scan_woken" /\ lset[t] \in LockSets
      BY <2>5 DEF ScanLockYield, IInv, CallerInv, WaiterInv
    <3>. QED BY <1>1, <1>6, <2>5, <3>1 DEF ScanLockYield, MutexInv
  <2>6. CASE RecordLockGet(t) \/ RecordLockRelease(t)
    <3>1. held[t] = << >> /\ setOf[Locking(t)] \in LockSets
      BY <2>6, LockingFacts, WriterFacts DEF RecordLockGet, RecordLockRelease, WriterLabels
    <3>2. CASE RecordLockGet(t)
      <4>1. /\ pc[t] = "rl_lock" /\ mutex' = [mutex EXCEPT ![setOf[Locking(t)]] = t]
            /\ pc' = [pc EXCEPT ![t] = "rl_locked"] /\ UNCHANGED <<rec, cur>>
        BY <3>2 DEF RecordLockGet
      <4>2. mutex[s] # t
        BY <3>1, <4>1 DEF MutexInv
      <4>3. s = setOf[Locking(t)]
        BY <1>1, <1>6, <4>1, <4>2
      <4>. QED BY <1>1, <1>2, <4>1, <4>3
    <3>3. CASE RecordLockRelease(t)
      <4>1. /\ pc[t] = "rl_locked"
            /\ mutex' = [mutex EXCEPT ![setOf[Locking(t)]] = NoThread]
        BY <3>3 DEF RecordLockRelease
      <4>2. mutex[s] = t /\ s # setOf[Locking(t)]
        BY <1>1, <1>6, <3>1, <4>1
      <4>. QED BY <3>1, <4>1, <4>2 DEF MutexInv
    <3>. QED BY <2>6, <3>2, <3>3
  <2>7. CASE DblsrNext(t)
    <3>1. held[t] = << >> /\ lset[t] \in LockSets /\ pc[t] \in {"lsr_try", "lsr_locked"}
      BY <2>7 DEF DblsrNext, DblsrTry, DblsrUnlock, IInv, CallerInv, WaiterInv
    <3>2. CASE DblsrTry(t)
      <4>1. /\ pc[t] = "lsr_try" /\ lset' \in [Threads -> LockSets \cup {NoSet}]
            /\ \/ /\ mutex' = [mutex EXCEPT ![lset[t]] = t] /\ lset' = lset
                  /\ pc' = [pc EXCEPT ![t] = "lsr_locked"]
               \/ mutex' = mutex
        BY <1>1, <3>2 DEF DblsrTry
      <4>2. mutex[s] # t
        BY <3>1, <4>1 DEF MutexInv
      <4>. QED BY <1>1, <1>6, <3>1, <4>1, <4>2
    <3>3. CASE DblsrUnlock(t)
      BY <1>1, <1>6, <3>1, <3>3 DEF DblsrUnlock, MutexInv
    <3>. QED BY <2>7, <3>2, <3>3 DEF DblsrNext
  <2>. QED BY <2>1, <2>2, <2>3, <2>4, <2>5, <2>6, <2>7 DEF MutexStep
<1>. QED BY <1>5, <1>6 DEF MutexInv

\* Every step keeps mutexes with those who lock them.
LEMMA MutexNext ==
    ASSUME FullInv, Next
    PROVE  MutexInv'
<1>. USE DEF Goto, Jump, Return, Own, lockSet, writerVars
<1>1. IInv /\ MutexInv
  BY DEF FullInv
<1>2. PICK t \in Threads :
        \/ QuietStep(t) \/ LocksStep(t) \/ ScanUnlock(t) \/ SplitDetach(t)
        \/ SplitAlloc(t) \/ SplitMerge(t) \/ PutMerge(t)
  BY StepKinds
<1>3. CASE MutexStep(t)
  BY <1>1, <1>3, MutexInvStep
<1>4. CASE ~MutexStep(t)
  <2>1. /\ pc \in [Threads -> Labels] /\ rec \in [Threads -> Records \cup {NoRecord}]
        /\ lset \in [Threads -> LockSets \cup {NoSet}]
        /\ held \in [Threads -> Seq(Records)]
    BY <1>1 DEF IInv, TypeOK, ThreadTypes
  <2>2. UNCHANGED mutex
    BY <1>2, <1>4 DEF MutexStep, QuietStep, LocksStep, ScanLock,
       ScanLockTryFails, ScanLockWait, ScanLockDefer, 
       ScanLockGlobal, PutFieldLink, PutGlobal, Dbcar, RecordLockNext, RecordLockHave,
       RecordLockEnter, RecordLockRetry, RecordLockDone, PutFails, PutOldOther, PutNewOther,
       PutNewLink, GblUnlock, Dblsr, ScanLockNested, SplitDetach, SplitAlloc, SplitMerge,
       PutMerge
  <2>3. \A u \in Threads : held[u] # << >> => held'[u] # << >>
    <3>1. held' = held \/ (ScanLockNested(t) /\ rec[t] \in Records)
      BY <1>1, <1>2, <1>4, EnterFacts DEF MutexStep, QuietStep, LocksStep, ScanLock, ScanEnter,
       ScanLockTryFails, ScanLockWait, ScanLockDefer, ScanLockNested,
       ScanLockGlobal, PutFieldLink, PutGlobal, Dbcar, RecordLockNext, RecordLockHave,
       RecordLockEnter, RecordLockRetry, RecordLockDone, PutFails, PutOldOther, PutNewOther,
       PutNewLink, GblUnlock, Dblsr, SplitDetach, SplitAlloc, SplitMerge, PutMerge
    <3>2. ASSUME ScanLockNested(t), rec[t] \in Records, NEW u \in Threads, held[u] # << >>
          PROVE  held'[u] # << >>
      <4>1. held'[u] = held[u] \/ held'[u] = Append(held[u], rec[t])
        BY <2>1, <3>2 DEF ScanLockNested
      <4>2. Append(held[u], rec[t]) # << >>
        BY <2>1, <3>2, AppendFacts
      <4>. QED BY <3>2, <4>1, <4>2
    <3>. QED BY <3>1, <3>2
  <2>4. /\ pc[t] \notin {"scan_woken", "lsr_locked", "rl_locked"}
        /\ \A u \in Threads : u # t =>
                pc'[u] = pc[u] /\ lset'[u] = lset[u] /\ rec'[u] = rec[u]
    BY <1>2, <1>4, <2>1 DEF MutexStep, QuietStep, LocksStep, ScanLock, ScanEnter,
       ScanLockTryFails, ScanLockWait, ScanLockDefer, 
       ScanLockGlobal, PutFieldLink, PutGlobal, Dbcar, RecordLockNext, RecordLockHave,
       RecordLockEnter, RecordLockRetry, RecordLockDone, PutFails, PutOldOther, PutNewOther,
       PutNewLink, GblUnlock, Dblsr, ScanLockNested, SplitDetach, SplitAlloc, SplitMerge,
       PutMerge
  <2>5. ASSUME NEW u \in Threads, pc[u] = "rl_locked"
        PROVE  UNCHANGED <<target, setOf>>
    <3>1. pc[t] \notin WriterLabels
      BY <1>1, <2>4, <2>5, WriterFacts DEF WriterLabels
    <3>. QED BY <1>2, <1>4, <3>1 DEF MutexStep, QuietStep, LocksStep, ScanLock, ScanEnter,
       ScanLockTryFails, ScanLockWait, ScanLockDefer, WriterLabels,
       ScanLockGlobal, PutFieldLink, PutGlobal, Dbcar, RecordLockNext, RecordLockHave,
       RecordLockEnter, RecordLockRetry, RecordLockDone, PutFails, PutOldOther, PutNewOther,
       PutNewLink, GblUnlock, Dblsr, ScanLockNested, SplitDetach, SplitAlloc, SplitMerge,
       PutMerge
  <2>. QED BY <1>1, <2>2, <2>3, <2>4, <2>5, MutexKept
<1>. QED BY <1>3, <1>4

\* dbScanLock is called within the bound, and has no record locked otherwise.
LEMMA NestingStep ==
    ASSUME FullInv, Next
    PROVE  NestingInv'
<1>. USE DEF Goto, Jump, Return, Own, lockSet, writerVars
<1>1. IInv /\ NestingInv
  BY DEF FullInv
<1>. SUFFICES ASSUME NEW u \in Threads, pc'[u] = "scan_enter"
              PROVE  Len(held'[u]) < MaxRecursion
  BY DEF NestingInv
<1>2. PICK t \in Threads :
        \/ QuietStep(t) \/ LocksStep(t) \/ ScanUnlock(t) \/ SplitDetach(t)
        \/ SplitAlloc(t) \/ SplitMerge(t) \/ PutMerge(t)
  BY StepKinds
<1>3. /\ pc \in [Threads -> Labels] /\ held \in [Threads -> Seq(Records)]
  BY <1>1 DEF IInv, TypeOK, ThreadTypes
<1>4. held'[u] = held[u]
  BY <1>2, <1>3 DEF QuietStep, LocksStep, ScanLock,
     ScanLockTryFails, ScanLockWait, ScanLockDefer, ScanLockGetMutex, ScanLockYield,
     ScanLockGlobal, PutFieldLink, PutGlobal, Dbcar, RecordLockNext, RecordLockHave,
     RecordLockEnter, RecordLockGet, RecordLockRelease, RecordLockRetry,
     RecordLockDone, PutFails, PutOldOther, PutNewOther, PutNewLink, GblUnlock, Dblsr,
     DblsrNext, DblsrTry, DblsrUnlock, ScanLockFree, ScanLockNested, ScanLockWoken,
     ScanUnlock, SplitDetach, SplitAlloc, SplitMerge, PutMerge
<1>5. pc[u] = "scan_enter" \/ Len(held[u]) < MaxRecursion \/ pc[u] = "scan_global"
  BY <1>2, <1>3 DEF QuietStep, LocksStep, ScanLock, AfterRecordLock,
     ScanLockTryFails, ScanLockWait, ScanLockDefer, ScanLockGetMutex, ScanLockYield,
     ScanLockGlobal, PutFieldLink, PutGlobal, Dbcar, RecordLockNext, RecordLockHave,
     RecordLockEnter, RecordLockGet, RecordLockRelease, RecordLockRetry,
     RecordLockDone, PutFails, PutOldOther, PutNewOther, PutNewLink, GblUnlock, Dblsr,
     DblsrNext, DblsrTry, DblsrUnlock, ScanLockFree, ScanLockNested, ScanLockWoken,
     ScanUnlock, SplitDetach, SplitAlloc, SplitMerge, PutMerge
<1>6. CASE pc[u] = "scan_global"
  <2>1. held[u] = << >>
    BY <1>1, <1>6 DEF IInv, CallerInv
  <2>. QED BY <1>4, <2>1
<1>. QED BY <1>1, <1>4, <1>5, <1>6 DEF NestingInv

-----------------------------------------------------------------------------
(* The stronger invariant and what follows *)

\* What FullInv adds holds of the lock sets that dbLockInitRecords has made.
LEMMA FullInit == Init => FullInv
<1>. SUFFICES ASSUME Init PROVE FullInv
  OBVIOUS
<1>1. IInv
  BY InitInv
<1>2. GroupInv
  <2>1. MergedLink = link
    BY <1>1, MergedLinkFacts DEF Init
  <2>2. \A r, q \in Records : setOf[r] = setOf[q] => Connected(r, q)
    BY DEF Init
  <2>3. \A r, q \in Records : Connected(r, q) => q \in Groups!Group(r)
    BY <2>1 DEF Connected, Neighbours, Groups!Group, Groups!Neighbours
  <2>. QED BY <2>2, <2>3 DEF GroupInv
<1>3. UnlinkedInv /\ NestingInv
  BY DEF Init, UnlinkedInv, NestingInv
<1>4. MutexInv
  BY DEF Init, MutexInv
<1>. QED BY <1>1, <1>2, <1>3, <1>4 DEF FullInv

\* Every step keeps the stronger invariant.
LEMMA FullStep == FullInv /\ [Next]_vars => FullInv'
<1>. SUFFICES ASSUME FullInv, [Next]_vars PROVE FullInv'
  OBVIOUS
<1>1. IInv'
  BY StepInv DEF FullInv
<1>2. CASE Next
  BY <1>1, <1>2, GroupStep, UnlinkedStep, NestingStep, MutexNext DEF FullInv
<1>3. CASE UNCHANGED vars
  <2>. USE <1>3 DEF vars, lockSet, FullInv
  <2>1. GroupInv'
    BY GroupInvFrame DEF MergedLink
  <2>2. UnlinkedInv' /\ NestingInv'
    BY DEF UnlinkedInv, NestingInv
  <2>3. MutexInv'
    BY DEF MutexInv, Locking
  <2>. QED BY <1>1, <2>1, <2>2, <2>3
<1>. QED BY <1>2, <1>3

\* The mutexes are with those who lock them, lock sets stay inside the groups
\* of linked records, and nesting within its bound.
THEOREM FullInvariance == Spec => []FullInv
BY FullInit, FullStep, PTL DEF Spec

\* When no link change is under way, the lock sets are exactly the groups of
\* linked records, after any number of splits and merges.
THEOREM LockSetsAreGroups == Spec => []LockSetsMatchLinks
<1>1. FullInv => LockSetsMatchLinks
  <2>. SUFFICES ASSUME FullInv, globalLock = NoThread, NEW r \in Records, NEW q \in Records
                PROVE  /\ setOf[r] # NoSet
                       /\ (setOf[r] = setOf[q]) <=> Connected(r, q)
    BY DEF LockSetsMatchLinks
  <2>1. todo = {} /\ target = NoRecord
    BY DEF FullInv, IInv, WriterInv
  <2>2. setOf[r] \in LockSets /\ ~InChange(r)
    <3>1. setOf[r] \in LockSets
      BY <2>1 DEF FullInv, IInv, ListInv, TypeOK, RecordTypes
    <3>. QED BY <3>1 DEF FullInv, IInv, ListInv, InChange, Type
  <2>3. MergedLink = link
    BY <2>1, MergedLinkFacts DEF FullInv
  <2>4. Connected(r, q) <=> q \in Groups!Group(r)
    BY <2>3 DEF Connected, Neighbours, Groups!Group, Groups!Neighbours
  <2>5. setOf[r] = setOf[q] => q \in Groups!Group(r)
    BY <2>2, GroupInvSelf DEF FullInv
  <2>6. q \in Groups!Group(r) => setOf[r] = setOf[q]
    BY <2>2, GroupOfScanned DEF FullInv
  <2>. QED BY <2>2, <2>4, <2>5, <2>6
<1>. QED BY <1>1, FullInvariance, PTL

\* No assertion of dbLock.c fails but, with dblsr, the one on the try-lock.
THEOREM Assertions == Spec => []AssertionsHold
<1>1. IInv => AssertionsHold
  <2>. SUFFICES ASSUME IInv, NEW t \in Threads
                PROVE  AssertionsHold!(t)
    BY DEF AssertionsHold
  <2>1. pc[t] = "scan_woken" => state[lset[t]] # "Free"
    BY DEF IInv, WaiterInv
  <2>2. ASSUME pc[t] = "idle", held[t] # << >>
        PROVE  LET s == setOf[held[t][Len(held[t])]] IN
               s # NoSet /\ thread_id[s] = t /\ nRecursion[s] >= 1
    <3>. DEFINE n == Len(held[t])
    <3>1. n \in Nat \ {0} /\ n \in 1..n
      BY <2>2 DEF IInv, TypeOK, ThreadTypes
    <3>2. LET s == setOf[held[t][n]] IN
          s \in LockSets /\ thread_id[s] = t /\ nRecursion[s] = n
      BY <2>2, <3>1 DEF IInv, OwnerInv, HolderInv
    <3>. HIDE DEF n
    <3>3. LET s == setOf[held[t][n]] IN
          s # NoSet /\ thread_id[s] = t /\ nRecursion[s] >= 1
      BY <3>1, <3>2
    <3>. QED BY <3>3 DEF n
  <2>3. ASSUME pc[t] = "rl_enter"
        PROVE  /\ setOf[Locking(t)] # NoSet
               /\ \/ type[setOf[Locking(t)]] = "record"
                  \/ thread_id[setOf[Locking(t)]] # t
    <3>1. setOf[Locking(t)] \in LockSets /\ Type(Locking(t)) # "free"
      BY <2>3, LockingFacts
    <3>2. held[t] = << >>
      BY <2>3, WriterFacts DEF WriterLabels
    <3>. QED BY <3>1, <3>2 DEF Type, IInv, OwnerInv, OwnedInv, TypeOK, LockSetTypes
  <2>4. ASSUME pc[t] = "rl_check"
        PROVE  /\ type[setOf[Locking(t)]] = "scan"
               /\ state[setOf[Locking(t)]] = "RecordLock"
    <3>1. globalLock = t
      BY <2>4, WriterFacts DEF WriterLabels
    <3>. QED BY <2>4, <3>1 DEF IInv, WriterInv, Type
  <2>5. ASSUME pc[t] = "put_old"
        PROVE  state[setOf[rec[t]]] = "RecordLock" /\ type[setOf[rec[t]]] = "record"
    <3>1. InChange(rec[t]) /\ todo = {} /\ rec[t] \in Records
      BY <2>5, WriterFacts DEF IInv, WriterInv, WriterLabels
    <3>2. type[setOf[rec[t]]] = "record" /\ setOf[rec[t]] \in LockSets
      BY <3>1 DEF IInv, ListInv, InChange, Type, TypeOK, RecordTypes
    <3>. QED BY <3>2 DEF IInv, ListInv
  <2>6. ASSUME pc[t] = "split_merge", link[cur] # NoRecord, setOf[link[cur]] # NoSet
        PROVE  type[setOf[cur]] = type[setOf[link[cur]]]
    <3>1. cur \in todo /\ setOf[cur] # NoSet /\ target = NoRecord
      BY <2>6, WriterFacts DEF IInv, WriterInv, WriterLabels
    <3>2. cur \in Records /\ MergedLink = link
      BY <3>1, MergedLinkFacts DEF IInv, TypeOK, WriterTypes
    <3>3. InChange(cur) /\ InChange(link[cur])
      BY <2>6, <3>1, <3>2 DEF IInv, LinkInv
    <3>. QED BY <2>6, <3>1, <3>3 DEF InChange, Type
  <2>7. ASSUME pc[t] = "put_merge"
        PROVE  type[setOf[rec[t]]] = type[setOf[target]]
    <3>1. /\ InChange(rec[t]) /\ InChange(target) /\ todo = {}
          /\ rec[t] \in Records /\ target \in Records
      BY <2>7, WriterFacts DEF IInv, WriterInv, WriterLabels, TypeOK, WriterTypes
    <3>. QED BY <3>1 DEF IInv, ListInv, InChange, Type
  <2>. QED BY <2>1, <2>2, <2>3, <2>4, <2>5, <2>6, <2>7
<1>. QED BY <1>1, Invariance, PTL

\* Without dblsr, dbScanLock gets the mutex of a lock set in state Free at once.
THEOREM TryLock == ASSUME Shell = {} PROVE Spec => []TryLockSucceeds
<1>. DEFINE NoShell == \A t \in Threads : pc[t] \notin {"lsr_try", "lsr_locked", "suspended"}
<1>1. Init => NoShell
  BY DEF Init
<1>2. FullInv /\ NoShell /\ [Next]_vars => NoShell'
  <2>. SUFFICES ASSUME FullInv, NoShell, [Next]_vars PROVE NoShell'
    OBVIOUS
  <2>1. pc \in [Threads -> Labels]
    BY DEF FullInv, IInv, TypeOK, ThreadTypes
  <2>2. ASSUME NEW t \in Threads PROVE ~ScanLockTryFails(t) /\ ~Dblsr(t) /\ ~DblsrNext(t)
    <3>1. ASSUME ScanLockTryFails(t) PROVE FALSE
      <4>1. PICK s \in LockSets :
                pc[t] = "scan_enter" /\ s = setOf[rec[t]] /\ state[s] = "Free" /\ mutex[s] # NoThread
        BY <3>1 DEF ScanLockTryFails, ScanEnter
      <4>2. PICK u \in Threads : mutex[s] = u
        BY <4>1 DEF FullInv, IInv, TypeOK, LockSetTypes
      <4>3. CASE held[u] # << >> /\ setOf[held[u][1]] = s
        BY <4>1, <4>3 DEF FullInv, IInv, OwnerInv, HolderInv
      <4>4. CASE pc[u] \in {"scan_woken", "lsr_locked"} /\ lset[u] = s
        BY <4>1, <4>4 DEF FullInv, IInv, WaiterInv
      <4>5. CASE pc[u] = "rl_locked" /\ setOf[Locking(u)] = s
        <5>1. globalLock = u
          BY <4>5, WriterFacts DEF FullInv, WriterLabels
        <5>. QED BY <4>1, <4>5, <5>1 DEF FullInv, IInv, WriterInv
      <4>. QED BY <4>2, <4>3, <4>4, <4>5 DEF FullInv, MutexInv
    <3>. QED BY <3>1 DEF Dblsr, DblsrNext, DblsrTry, DblsrUnlock
  <2>3. CASE Next
    <3>1. PICK t \in Threads :
            \/ QuietStep(t) \/ LocksStep(t) \/ ScanUnlock(t) \/ SplitDetach(t)
            \/ SplitAlloc(t) \/ SplitMerge(t) \/ PutMerge(t)
      BY <2>3, StepKinds
    <3>2. pc' = pc \/ \E label \in Labels \ {"lsr_try", "lsr_locked", "suspended"} :
                        pc' = [pc EXCEPT ![t] = label]
      BY <2>1, <2>2, <3>1 DEF QuietStep, LocksStep, Goto, Jump, Return, Own, AfterRecordLock,
         Labels, ScanLabels, WriterLabels, ScanLock, ScanLockWait, ScanLockDefer,
         ScanLockGetMutex, ScanLockYield, ScanLockGlobal, PutFieldLink, PutGlobal, Dbcar,
         RecordLockNext, RecordLockHave, RecordLockEnter, RecordLockGet, RecordLockRelease,
         RecordLockRetry, RecordLockDone, PutFails, PutOldOther, PutNewOther, PutNewLink,
         GblUnlock, ScanLockFree, ScanLockNested, ScanLockWoken, ScanUnlock, SplitDetach,
         SplitAlloc, SplitMerge, PutMerge
    <3>. QED BY <2>1, <3>2
  <2>4. CASE UNCHANGED vars
    BY <2>4 DEF vars
  <2>. QED BY <2>3, <2>4
<1>3. NoShell => TryLockSucceeds
  BY DEF TryLockSucceeds
<1>. QED BY <1>1, <1>2, <1>3, FullInvariance, PTL DEF Spec

-----------------------------------------------------------------------------
(* DbLock implements RecordGroups *)

\* No other thread has a record of the group of a record whose lock set is t's.
LEMMA GroupIdle ==
    ASSUME IInv, NEW r \in Records, ~InChange(r), NEW T \in SUBSET Threads,
           \A u \in T : mutex[setOf[r]] # u \/ thread_id[setOf[r]] # u
    PROVE  Groups!Idle(T, r)
<1>. SUFFICES ASSUME NEW u \in T, NEW q \in Groups!Group(r), Groups!Holds(u, q)
              PROVE  FALSE
  BY DEF Groups!Idle
<1>1. q \in Records /\ setOf[q] = setOf[r]
  BY GroupOfScanned
<1>2. Holds(u, q)
  BY DEF Holds, Groups!Holds
<1>. QED BY <1>1, <1>2, HoldsFacts

\* No thread has a record of the group of a record in a link change.
LEMMA ChangeIdle ==
    ASSUME IInv, NEW r \in Records, InChange(r)
    PROVE  Groups!Idle(Threads, r)
<1>. SUFFICES ASSUME NEW u \in Threads, NEW q \in Groups!Group(r), Groups!Holds(u, q)
              PROVE  FALSE
  BY DEF Groups!Idle
<1>1. q \in Records /\ InChange(q)
  BY GroupInChange
<1>2. Holds(u, q)
  BY DEF Holds, Groups!Holds
<1>. QED BY <1>1, <1>2, HoldsFacts

\* dbScanLock returns: the abstract Lock.
LEMMA LocksRefines ==
    ASSUME FullInv, NEW t \in Threads, LocksStep(t)
    PROVE  \E r \in Records : Groups!Lock(t, r)
<1>. USE DEF FullInv
<1>1. rec[t] \in Records /\ held' = [held EXCEPT ![t] = Append(@, rec[t])]
  BY EnterFacts DEF LocksStep, ScanLockFree, ScanLockNested, ScanLockWoken, ScanEnter, Own,
     IInv, CallerInv, ScanLabels
<1>2. UNCHANGED setOf /\ MergedLink' = MergedLink
  BY LocksFacts
<1>3. held \in [Threads -> Seq(Records)]
  BY DEF IInv, TypeOK, ThreadTypes
<1>4. Len(held[t]) < MaxRecursion
  <2>1. CASE pc[t] = "scan_enter"
    BY <2>1 DEF NestingInv
  <2>2. CASE pc[t] # "scan_enter"
    <3>1. held[t] = << >>
      BY <2>2 DEF LocksStep, ScanLockFree, ScanLockNested, ScanLockWoken, ScanEnter,
         IInv, CallerInv
    <3>. QED BY <3>1
  <2>. QED BY <2>1, <2>2
<1>5. ~InChange(rec[t]) /\ setOf[rec[t]] \in LockSets
  <2>1. CASE ScanLockWoken(t)
    BY <2>1 DEF ScanLockWoken, IInv, WaiterInv, InChange, Type
  <2>2. CASE ScanLockFree(t) \/ ScanLockNested(t)
    <3>1. PICK s \in LockSets :
            /\ pc[t] = "scan_enter" /\ s = setOf[rec[t]]
            /\ state[s] # "RecordLock" \/ nRecursion[s] # 0
      BY <2>2 DEF ScanLockFree, ScanLockNested, ScanEnter
    <3>2. type[s] # "record"
      BY <3>1 DEF IInv, ListInv
    <3>. QED BY <3>1, <3>2 DEF InChange, Type
  <2>. QED BY <2>1, <2>2 DEF LocksStep
<1>6. \A u \in Threads \ {t} :
            mutex[setOf[rec[t]]] # u \/ thread_id[setOf[rec[t]]] # u
  <2>1. CASE ScanLockFree(t)
    BY <2>1 DEF ScanLockFree, ScanEnter
  <2>2. CASE ScanLockNested(t)
    BY <2>2 DEF ScanLockNested, ScanEnter
  <2>3. CASE ScanLockWoken(t)
    BY <2>3 DEF ScanLockWoken, IInv, WaiterInv
  <2>. QED BY <2>1, <2>2, <2>3 DEF LocksStep
<1>7. Groups!Idle(Threads \ {t}, rec[t])
  BY <1>1, <1>5, <1>6, GroupIdle
<1>8. ASSUME held[t] # << >>
      PROVE  held[t][1] \in Groups!Group(rec[t])
  <2>1. pc[t] = "scan_enter"
    BY <1>8 DEF LocksStep, ScanLockFree, ScanLockNested, ScanLockWoken, ScanEnter,
       IInv, CallerInv
  <2>2. setOf[held[t][1]] = setOf[rec[t]]
    BY <1>8, <2>1 DEF IInv, CallerInv
  <2>3. held[t][1] \in Records
    BY <1>3, <1>8
  <2>. QED BY <1>1, <1>5, <2>2, <2>3, GroupInvSelf
<1>9. Groups!Lock(t, rec[t])
  BY <1>1, <1>2, <1>4, <1>7, <1>8 DEF Groups!Lock
<1>. QED BY <1>1, <1>9

\* The old link is removed: the abstract Unlink.
LEMMA SplitDetachRefines ==
    ASSUME FullInv, NEW t \in Threads, SplitDetach(t)
    PROVE  \E r \in Records : Groups!Unlink(r)
<1>1. InChange(rec[t]) /\ rec[t] \in Records
  BY SplitFacts DEF FullInv, IInv, WriterInv, SplitDetach
<1>2. /\ MergedLink[rec[t]] # NoRecord
      /\ MergedLink' = [MergedLink EXCEPT ![rec[t]] = NoRecord]
      /\ UNCHANGED held
  BY SplitFacts DEF FullInv, SplitDetach
<1>3. Groups!Idle(Threads, rec[t])
  BY <1>1, ChangeIdle DEF FullInv
<1>4. Groups!Unlink(rec[t])
  BY <1>2, <1>3 DEF Groups!Unlink
<1>. QED BY <1>1, <1>4

\* The new link is merged: the abstract Link.
LEMMA PutMergeRefines ==
    ASSUME FullInv, NEW t \in Threads, PutMerge(t)
    PROVE  \E r \in Records : \E q \in Records : Groups!Link(r, q)
<1>1. /\ rec[t] \in Records /\ target \in Records /\ MergedLink[rec[t]] = NoRecord
      /\ MergedLink' = [MergedLink EXCEPT ![rec[t]] = target]
      /\ UNCHANGED held
  BY PutMergeFacts DEF FullInv
<1>2. Groups!Idle(Threads, rec[t]) /\ Groups!Idle(Threads, target)
  BY PutMergeFacts, ChangeIdle DEF FullInv
<1>3. Groups!Link(rec[t], target)
  BY <1>1, <1>2 DEF Groups!Link
<1>. QED BY <1>1, <1>3

\* dbLock.c implements locks on groups of linked records: dbScanLock returns
\* only when no other thread has a record of the group, and a link only changes
\* while nobody is at work in the groups it touches.
THEOREM ImplementsGroups == Spec => GroupsSpec
<1>1. Init => Groups!Init
  <2>1. Init => MergedLink = link
    BY InitInv, MergedLinkFacts DEF Init
  <2>. QED BY <2>1 DEF Init, Groups!Init
<1>2. FullInv /\ [Next]_vars => [Groups!Next]_(Groups!vars)
  <2>. SUFFICES ASSUME FullInv, [Next]_vars
                PROVE  Groups!Next \/ UNCHANGED <<held, MergedLink>>
    BY DEF Groups!vars
  <2>1. CASE UNCHANGED vars
    BY <2>1 DEF vars, MergedLink
  <2>2. CASE Next
    <3>1. PICK t \in Threads :
            \/ QuietStep(t) \/ LocksStep(t) \/ ScanUnlock(t) \/ SplitDetach(t)
            \/ SplitAlloc(t) \/ SplitMerge(t) \/ PutMerge(t)
      BY <2>2, StepKinds
    <3>2. CASE QuietStep(t)
      BY <3>2, QuietFacts
    <3>3. CASE LocksStep(t)
      BY <3>3, LocksRefines DEF Groups!Next
    <3>4. CASE ScanUnlock(t)
      <4>1. Groups!Unlock(t)
        BY <3>4, LocksFacts DEF ScanUnlock, Groups!Unlock, FullInv
      <4>. QED BY <4>1 DEF Groups!Next
    <3>5. CASE SplitDetach(t)
      BY <3>5, SplitDetachRefines DEF Groups!Next
    <3>6. CASE SplitAlloc(t) \/ SplitMerge(t)
      <4>1. UNCHANGED link
        BY <3>6 DEF SplitAlloc, SplitMerge
      <4>. QED BY <3>6, <4>1, SplitFacts DEF FullInv
    <3>7. CASE PutMerge(t)
      BY <3>7, PutMergeRefines DEF Groups!Next
    <3>. QED BY <3>1, <3>2, <3>3, <3>4, <3>5, <3>6, <3>7
  <2>. QED BY <2>1, <2>2
<1>. QED BY <1>1, <1>2, FullInvariance, PTL DEF Spec, GroupsSpec, Groups!Spec
=============================================================================
