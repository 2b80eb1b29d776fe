------------------------------- MODULE DbLock -------------------------------
(***************************************************************************)
(* Record locking of the IOC database: base/src/db/dbLock.c, driven by     *)
(* dbScanLock/dbScanUnlock around record processing and by dbPutFieldLink  *)
(* of base/src/db/dbAccess.c, which moves records between lock sets while  *)
(* other threads scan.                                                     *)
(*                                                                         *)
(* Records joined by database links share a lock set.  Three kinds of      *)
(* mutex are involved: globalLock, held by one link writer for the whole   *)
(* change; lockSetModifyLock, which guards the fields of every lock set;   *)
(* and one mutex per lock set, held while its records are processed.       *)
(*                                                                         *)
(* An action is one critical section of lockSetModifyLock or one blocking  *)
(* call.  No section blocks once it has lockSetModifyLock, so the mutex    *)
(* itself is not a variable: it is taken only when an assertion fails in   *)
(* the section, which suspends the thread with the mutex locked.           *)
(***************************************************************************)
EXTENDS Naturals, Sequences, FiniteSets

CONSTANTS
    Threads,        \* threads that process records and write link fields
    Records,        \* record instances, each with one link field
    LockSets,       \* lockSet structures, allocated or not yet
    Shell,          \* the threads that also run dblsr
    MaxRecursion,   \* bound: nested dbScanLock calls of one thread
    NoThread, NoRecord, NoSet   \* null pointers

ASSUME DbLockAssumption ==
    /\ IsFiniteSet(Threads)
    /\ Shell \subseteq Threads
    /\ MaxRecursion \in Nat \ {0}
    /\ NoThread \notin Threads
    /\ NoRecord \notin Records
    /\ NoSet \notin LockSets

VARIABLES
    setOf,      \* lockRecord.plockSet of each record
    link,       \* the record a DB_LINK field points to
    type, state, thread_id, nRecursion, nWaiting,
                \* the fields of each lockSet of these names
    mutex,      \* holder of lockSet.lock
    globalLock, \* holder of globalLock
    pc,         \* where each thread is
    rec,        \* the record argument of the call the thread is in
    lset,       \* the local plockSet of dbScanLock and dblsr
    held,       \* the records a thread has locked, last one last
    target,     \* the new DB link target of the link writer
    todo,       \* paplockRecord of dbLockSetSplit: records still to regroup
    cur         \* the record dbLockSetSplit is at

lockSet == <<type, state, thread_id, nRecursion, nWaiting>>
vars == <<setOf, link, lockSet, mutex, globalLock, pc, rec, lset, held,
          target, todo, cur>>

\* the link writer's own variables
writerVars == <<target, todo, cur>>

ScanLabels == {"scan_enter", "scan_wait", "scan_woken", "scan_global"}
WriterLabels == {"rl_enter", "rl_lock", "rl_locked", "rl_check", "put_old",
                 "split_alloc", "split_merge", "put_new", "put_merge",
                 "put_unlock"}
Labels == ScanLabels \cup WriterLabels
            \cup {"idle", "put_global", "lsr_try", "lsr_locked", "suspended"}

Goto(t, label) == pc' = [pc EXCEPT ![t] = label]

\* Nothing but the label changes.
Jump(t, label) ==
    /\ Goto(t, label)
    /\ UNCHANGED <<setOf, link, lockSet, mutex, globalLock, rec, lset, held,
                   writerVars>>

\* The call returns: its arguments and locals are gone.
Return(t) ==
    /\ Goto(t, "idle")
    /\ rec' = [rec EXCEPT ![t] = NoRecord]
    /\ lset' = [lset EXCEPT ![t] = NoSet]

\* lockSetModifyLock can be had.
ModifyFree == \A t \in Threads : pc[t] # "suspended"

Neighbours(S) == {r \in Records : link[r] \in S}
                    \cup {q \in Records : \E r \in S : link[r] = q}

\* r and q are joined by a chain of DB links, in either direction.
Connected(r, q) ==
    \A S \in SUBSET Records : (r \in S /\ Neighbours(S) \subseteq S) => q \in S

-----------------------------------------------------------------------------
\* dbLockInitRecords has run: one lock set per group of linked records.
Init ==
    /\ link \in [Records -> Records \cup {NoRecord}]
    /\ setOf \in [Records -> LockSets]
    /\ \A r, q \in Records : (setOf[r] = setOf[q]) <=> Connected(r, q)
    /\ type = [s \in LockSets |->
                IF \E r \in Records : setOf[r] = s THEN "scan" ELSE "free"]
    /\ state = [s \in LockSets |-> "Free"]
    /\ thread_id = [s \in LockSets |-> NoThread]
    /\ nRecursion = [s \in LockSets |-> 0]
    /\ nWaiting = [s \in LockSets |-> 0]
    /\ mutex = [s \in LockSets |-> NoThread]
    /\ globalLock = NoThread
    /\ pc = [t \in Threads |-> "idle"]
    /\ rec = [t \in Threads |-> NoRecord]
    /\ lset = [t \in Threads |-> NoSet]
    /\ held = [t \in Threads |-> << >>]
    /\ target = NoRecord /\ todo = {} /\ cur = NoRecord

-----------------------------------------------------------------------------
(* dbScanLock *)

\* A thread that holds records only locks others its links lead to, which
\* are in the same lock set.
ScanLock(t) ==
    /\ pc[t] = "idle"
    /\ Len(held[t]) < MaxRecursion
    /\ \E r \in Records :
        /\ held[t] # << >> => setOf[r] = setOf[held[t][1]]
        /\ rec' = [rec EXCEPT ![t] = r]
    /\ Goto(t, "scan_enter")
    /\ UNCHANGED <<setOf, link, lockSet, mutex, globalLock, lset, held,
                   writerVars>>

\* dbScanLock returns with the record locked.
Own(t) == held' = [held EXCEPT ![t] = Append(@, rec[t])] /\ Return(t)

ScanEnter(t, s) ==
    /\ pc[t] = "scan_enter"
    /\ ModifyFree
    /\ s = setOf[rec[t]]

\* case lockSetStateFree
ScanLockFree(t) ==
    \E s \in LockSets :
        /\ ScanEnter(t, s)
        /\ state[s] = "Free"
        /\ mutex[s] = NoThread
        /\ mutex' = [mutex EXCEPT ![s] = t]
        /\ state' = [state EXCEPT ![s] = "ScanLock"]
        /\ thread_id' = [thread_id EXCEPT ![s] = t]
        /\ nRecursion' = [nRecursion EXCEPT ![s] = 1]
        /\ Own(t)
        /\ UNCHANGED <<setOf, link, type, nWaiting, globalLock, writerVars>>

\* assert(status==epicsMutexLockOK) fails: the thread is suspended.
ScanLockTryFails(t) ==
    \E s \in LockSets :
        /\ ScanEnter(t, s)
        /\ state[s] = "Free"
        /\ mutex[s] # NoThread
        /\ Goto(t, "suspended")
        /\ UNCHANGED <<setOf, link, lockSet, mutex, globalLock, rec, lset,
                       held, writerVars>>

\* case lockSetStateScanLock, another thread is the owner
ScanLockWait(t) ==
    \E s \in LockSets :
        /\ ScanEnter(t, s)
        /\ state[s] = "ScanLock"
        /\ thread_id[s] # t
        /\ nWaiting' = [nWaiting EXCEPT ![s] = @ + 1]
        /\ lset' = [lset EXCEPT ![t] = s]
        /\ Goto(t, "scan_wait")
        /\ UNCHANGED <<setOf, link, type, state, thread_id, nRecursion, mutex,
                       globalLock, rec, held, writerVars>>

\* Fault: a lock set on its way to a link change lets any thread in.
ScanLockNestedAnyone(t) ==
    \E s \in LockSets :
        /\ ScanEnter(t, s)
        /\ \/ state[s] = "ScanLock" /\ thread_id[s] = t
           \/ state[s] = "RecordLock" /\ nRecursion[s] # 0
        /\ nRecursion' = [nRecursion EXCEPT ![s] = @ + 1]
        /\ Own(t)
        /\ UNCHANGED <<setOf, link, type, state, thread_id, nWaiting, mutex,
                       globalLock, writerVars>>

\* recursive locking, in either state
ScanLockNested(t) ==
    \E s \in LockSets :
        /\ ScanEnter(t, s)
        /\ thread_id[s] = t
        /\ \/ state[s] = "ScanLock"
           \/ state[s] = "RecordLock" /\ nRecursion[s] # 0
        /\ nRecursion' = [nRecursion EXCEPT ![s] = @ + 1]
        /\ Own(t)
        /\ UNCHANGED <<setOf, link, type, state, thread_id, nWaiting, mutex,
                       globalLock, writerVars>>

\* goto getGlobalLock: no lock set, or a link change has it
ScanLockDefer(t) ==
    \E s \in LockSets \cup {NoSet} :
        /\ ScanEnter(t, s)
        /\ s # NoSet => /\ state[s] = "RecordLock"
                        /\ nRecursion[s] = 0 \/ thread_id[s] # t
        /\ Goto(t, "scan_global")
        /\ UNCHANGED <<setOf, link, lockSet, mutex, globalLock, rec, lset,
                       held, writerVars>>

\* epicsMutexMustLock(plockSet->lock) returns
ScanLockGetMutex(t) ==
    /\ pc[t] = "scan_wait"
    /\ mutex[lset[t]] = NoThread
    /\ mutex' = [mutex EXCEPT ![lset[t]] = t]
    /\ Goto(t, "scan_woken")
    /\ UNCHANGED <<setOf, link, lockSet, globalLock, rec, lset, held,
                   writerVars>>

\* the waiter becomes the owner
ScanLockWoken(t) ==
    LET s == lset[t] IN
    /\ pc[t] = "scan_woken"
    /\ ModifyFree
    /\ state[s] # "RecordLock"
    /\ nWaiting' = [nWaiting EXCEPT ![s] = @ - 1]
    /\ thread_id' = [thread_id EXCEPT ![s] = t]
    /\ nRecursion' = [nRecursion EXCEPT ![s] = 1]
    /\ Own(t)
    /\ UNCHANGED <<setOf, link, type, state, mutex, globalLock, writerVars>>

\* the waiter gives way to a link change
ScanLockYield(t) ==
    LET s == lset[t] IN
    /\ pc[t] = "scan_woken"
    /\ ModifyFree
    /\ state[s] = "RecordLock"
    /\ nWaiting' = [nWaiting EXCEPT ![s] = @ - 1]
    /\ mutex' = [mutex EXCEPT ![s] = NoThread]
    /\ lset' = [lset EXCEPT ![t] = NoSet]
    /\ Goto(t, "scan_global")
    /\ UNCHANGED <<setOf, link, type, state, thread_id, nRecursion, globalLock,
                   rec, held, writerVars>>

\* getGlobalLock: lock and unlock globalLock, then try again
ScanLockGlobal(t) ==
    /\ pc[t] = "scan_global"
    /\ globalLock = NoThread
    /\ Jump(t, "scan_enter")

(* dbScanUnlock, of the record locked last *)

\* Faults: waiters are not looked at; a pending link change is forgotten.
UnlockedIgnoresWaiters(s) ==
    IF state[s] = "ScanLock" THEN "Free" ELSE state[s]
UnlockedIgnoresWriter(s) ==
    IF nWaiting[s] = 0 THEN "Free" ELSE state[s]

\* the state the last dbScanUnlock leaves
Unlocked(s) ==
    IF state[s] = "ScanLock" /\ nWaiting[s] = 0
    THEN "Free" ELSE state[s]

ScanUnlock(t) ==
    LET s == setOf[held[t][Len(held[t])]]
        last == nRecursion[s] = 1
    IN
    /\ pc[t] = "idle"
    /\ held[t] # << >>
    /\ ModifyFree
    /\ held' = [held EXCEPT ![t] = SubSeq(@, 1, Len(@) - 1)]
    /\ nRecursion' = [nRecursion EXCEPT ![s] = @ - 1]
    /\ thread_id' = [thread_id EXCEPT ![s] = IF last THEN NoThread ELSE @]
    /\ state' = [state EXCEPT ![s] = IF last THEN Unlocked(s) ELSE @]
    /\ mutex' = [mutex EXCEPT ![s] = IF last THEN NoThread ELSE @]
    /\ UNCHANGED <<setOf, link, type, nWaiting, globalLock, pc, rec, lset,
                   writerVars>>

-----------------------------------------------------------------------------
(* dbPutFieldLink: the source record is rec[t], the new target is target *)

PutFieldLink(t) ==
    /\ pc[t] = "idle"
    /\ held[t] = << >>
    /\ \E r \in Records : rec' = [rec EXCEPT ![t] = r]
    /\ Goto(t, "put_global")
    /\ UNCHANGED <<setOf, link, lockSet, mutex, globalLock, lset, held,
                   writerVars>>

\* dbLockSetGblLock
PutGlobal(t) ==
    /\ pc[t] = "put_global"
    /\ globalLock = NoThread
    /\ globalLock' = t
    /\ Goto(t, "rl_enter")
    /\ UNCHANGED <<setOf, link, lockSet, mutex, rec, lset, held, writerVars>>

\* dbcar takes and releases globalLock around its look at each link.
Dbcar(t) ==
    /\ pc[t] = "idle"
    /\ held[t] = << >>
    /\ globalLock = NoThread
    /\ globalLock' = t
    /\ Goto(t, "put_unlock")
    /\ UNCHANGED <<setOf, link, lockSet, mutex, rec, lset, held, writerVars>>

(* dbLockSetRecordLock, of the source and then of the target *)
Locking(t) == IF target = NoRecord THEN rec[t] ELSE target
\* Fault: the lock sets of source and target are not merged.
AfterRecordLockNoMerge == IF target = NoRecord THEN "put_old" ELSE "put_unlock"
AfterRecordLock == IF target = NoRecord THEN "put_old" ELSE "put_merge"

RecordLockHave(t) ==
    /\ pc[t] = "rl_enter"
    /\ ModifyFree
    /\ type[setOf[Locking(t)]] = "record"
    /\ Jump(t, AfterRecordLock)

RecordLockEnter(t) ==
    LET s == setOf[Locking(t)] IN
    /\ pc[t] = "rl_enter"
    /\ ModifyFree
    /\ type[s] # "record"
    /\ state' = [state EXCEPT ![s] = "RecordLock"]
    /\ Goto(t, "rl_lock")
    /\ UNCHANGED <<setOf, link, type, thread_id, nRecursion, nWaiting, mutex,
                   globalLock, rec, lset, held, writerVars>>

\* epicsMutexMustLock(plockSet->lock); epicsMutexUnlock(plockSet->lock)
RecordLockGet(t) ==
    LET s == setOf[Locking(t)] IN
    /\ pc[t] = "rl_lock"
    /\ mutex[s] = NoThread
    /\ mutex' = [mutex EXCEPT ![s] = t]
    /\ Goto(t, "rl_locked")
    /\ UNCHANGED <<setOf, link, lockSet, globalLock, rec, lset, held,
                   writerVars>>

\* Fault: the mutex is not given back.
RecordLockReleaseNot(t) ==
    /\ pc[t] = "rl_locked"
    /\ Goto(t, "rl_check")
    /\ UNCHANGED <<setOf, link, mutex, lockSet, globalLock, rec, lset, held,
                   writerVars>>

RecordLockRelease(t) ==
    /\ pc[t] = "rl_locked"
    /\ mutex' = [mutex EXCEPT ![setOf[Locking(t)]] = NoThread]
    /\ Goto(t, "rl_check")
    /\ UNCHANGED <<setOf, link, lockSet, globalLock, rec, lset, held,
                   writerVars>>

\* Fault: the wait of dbLockSetRecordLock does not look at nWaiting.
DrainedOfOwners(s) == nRecursion[s] = 0

Drained(s) == nWaiting[s] = 0 /\ nRecursion[s] = 0

\* owners or waiters are left: epicsThreadSleep(.1) and again
RecordLockRetry(t) ==
    /\ pc[t] = "rl_check"
    /\ ModifyFree
    /\ ~Drained(setOf[Locking(t)])
    /\ Jump(t, "rl_lock")

RecordLockDone(t) ==
    LET s == setOf[Locking(t)] IN
    /\ pc[t] = "rl_check"
    /\ ModifyFree
    /\ Drained(s)
    /\ type' = [type EXCEPT ![s] = "record"]
    /\ thread_id' = [thread_id EXCEPT ![s] = t]
    /\ Goto(t, AfterRecordLock)
    /\ UNCHANGED <<setOf, link, state, nRecursion, nWaiting, mutex, globalLock,
                   rec, lset, held, writerVars>>

\* No device support for the field, or del_record fails: nothing changes.
PutFails(t) ==
    /\ pc[t] = "put_old"
    /\ Jump(t, "put_unlock")

\* The old value is not a DB link.
PutOldOther(t) ==
    /\ pc[t] = "put_old"
    /\ link[rec[t]] = NoRecord
    /\ Jump(t, "put_new")

\* The old value is a DB link: it is removed and dbLockSetSplit takes every
\* record off the lock set, which goes to the free list.
SplitDetach(t) ==
    LET s == setOf[rec[t]]
        members == {r \in Records : setOf[r] = s}
    IN
    /\ pc[t] = "put_old"
    /\ ModifyFree
    /\ link[rec[t]] # NoRecord
    /\ link' = [link EXCEPT ![rec[t]] = NoRecord]
    /\ setOf' = [r \in Records |-> IF r \in members THEN NoSet ELSE setOf[r]]
    /\ type' = [type EXCEPT ![s] = "free"]
    /\ state' = [state EXCEPT ![s] = "Free"]
    /\ todo' = members
    /\ Goto(t, "split_alloc")
    /\ UNCHANGED <<thread_id, nRecursion, nWaiting, mutex, globalLock, rec,
                   lset, held, target, cur>>

\* allocLockSet for a record that has no lock set yet
SplitAlloc(t) ==
    /\ pc[t] = "split_alloc"
    /\ ModifyFree
    /\ \E r \in todo :
        /\ cur' = r
        /\ \/ /\ setOf[r] # NoSet
              /\ UNCHANGED <<setOf, lockSet>>
           \/ /\ setOf[r] = NoSet
              /\ \E s \in LockSets :
                    /\ type[s] = "free"
                    /\ setOf' = [setOf EXCEPT ![r] = s]
                    /\ type' = [type EXCEPT ![s] = "record"]
                    /\ state' = [state EXCEPT ![s] = "RecordLock"]
                    /\ thread_id' = [thread_id EXCEPT ![s] = t]
                    /\ nRecursion' = [nRecursion EXCEPT ![s] = 0]
                    /\ nWaiting' = [nWaiting EXCEPT ![s] = 0]
    /\ Goto(t, "split_merge")
    /\ UNCHANGED <<link, mutex, globalLock, rec, lset, held, target, todo>>

\* dbLockSetMerge(p, q): the records of q's lock set move to p's.
Merge(p, q) ==
    LET s1 == setOf[p]
        s2 == setOf[q]
        into == IF s1 = NoSet THEN s2 ELSE s1
        moved == {r \in Records : r = p \/ r = q \/ (s2 # NoSet /\ setOf[r] = s2)}
    IN
    /\ setOf' = [r \in Records |-> IF r \in moved THEN into ELSE setOf[r]]
    /\ type' = [s \in LockSets |->
                    IF s = s2 /\ s1 \notin {s2, NoSet} THEN "free" ELSE type[s]]
    /\ UNCHANGED <<state, thread_id, nRecursion, nWaiting>>

\* the DB link of the record, if it has one, is followed again
SplitMerge(t) ==
    /\ pc[t] = "split_merge"
    /\ ModifyFree
    /\ \/ link[cur] = NoRecord /\ UNCHANGED <<setOf, lockSet>>
       \/ link[cur] # NoRecord /\ Merge(cur, link[cur])
    /\ todo' = todo \ {cur}
    /\ cur' = NoRecord
    /\ Goto(t, IF todo' = {} THEN "put_new" ELSE "split_alloc")
    /\ UNCHANGED <<link, mutex, globalLock, rec, lset, held, target>>

\* The new value is a constant or a CA link, or putting it failed.
PutNewOther(t) ==
    /\ pc[t] = "put_new"
    /\ Jump(t, "put_unlock")

\* Fault: the lock set of the target is merged without being locked.
PutNewLinkUnlocked(t) ==
    /\ pc[t] = "put_new"
    /\ \E q \in Records :
        /\ target' = q
        /\ link' = [link EXCEPT ![rec[t]] = q]
    /\ Goto(t, "put_merge")
    /\ UNCHANGED <<setOf, lockSet, mutex, globalLock, rec, lset, held, todo,
                   cur>>

\* The new value is a DB link: dbLockSetRecordLock(target) comes next.
PutNewLink(t) ==
    /\ pc[t] = "put_new"
    /\ \E q \in Records :
        /\ target' = q
        /\ link' = [link EXCEPT ![rec[t]] = q]
    /\ Goto(t, "rl_enter")
    /\ UNCHANGED <<setOf, lockSet, mutex, globalLock, rec, lset, held, todo,
                   cur>>

\* dbLockSetMerge(precord,pdbAddr->precord)
PutMerge(t) ==
    /\ pc[t] = "put_merge"
    /\ ModifyFree
    /\ Merge(rec[t], target)
    /\ target' = NoRecord
    /\ Goto(t, "put_unlock")
    /\ UNCHANGED <<link, mutex, globalLock, rec, lset, held, todo, cur>>

\* Fault: the lock sets leave the RecordLock list as they are.
ClearedNot(field, initial) == field

\* the field takes its initial value in the lock sets of the RecordLock list
Cleared(field, initial) ==
    [s \in LockSets |-> IF type[s] = "record" THEN initial ELSE field[s]]

\* dbLockSetGblUnlock
GblUnlock(t) ==
    /\ pc[t] = "put_unlock"
    /\ ModifyFree
    /\ type' = [s \in LockSets |-> IF type[s] = "record" THEN "scan" ELSE type[s]]
    /\ state' = Cleared(state, "Free")
    /\ thread_id' = Cleared(thread_id, NoThread)
    /\ nRecursion' = Cleared(nRecursion, 0)
    /\ nWaiting' = Cleared(nWaiting, 0)
    /\ globalLock' = NoThread
    /\ Return(t)
    /\ UNCHANGED <<setOf, link, mutex, held, writerVars>>

-----------------------------------------------------------------------------
(* dblsr tries every lock set's mutex without lockSetModifyLock *)

Dblsr(t) ==
    /\ t \in Shell
    /\ pc[t] = "idle"
    /\ held[t] = << >>
    /\ \E s \in LockSets :
        /\ type[s] # "free"
        /\ lset' = [lset EXCEPT ![t] = s]
    /\ Goto(t, "lsr_try")
    /\ UNCHANGED <<setOf, link, lockSet, mutex, globalLock, rec, held,
                   writerVars>>

DblsrTry(t) ==
    LET s == lset[t] IN
    /\ pc[t] = "lsr_try"
    /\ \/ /\ mutex[s] = NoThread
          /\ mutex' = [mutex EXCEPT ![s] = t]
          /\ Goto(t, "lsr_locked")
          /\ UNCHANGED <<rec, lset>>
       \/ /\ mutex[s] # NoThread
          /\ UNCHANGED mutex
          /\ Return(t)
    /\ UNCHANGED <<setOf, link, lockSet, globalLock, held, writerVars>>

DblsrUnlock(t) ==
    /\ pc[t] = "lsr_locked"
    /\ mutex' = [mutex EXCEPT ![lset[t]] = NoThread]
    /\ Return(t)
    /\ UNCHANGED <<setOf, link, lockSet, globalLock, held, writerVars>>

-----------------------------------------------------------------------------
\* dbScanLock's steps after the call
ScanNext(t) ==
    \/ ScanLockFree(t) \/ ScanLockTryFails(t) \/ ScanLockWait(t)
    \/ ScanLockNested(t) \/ ScanLockDefer(t)
    \/ ScanLockGetMutex(t) \/ ScanLockWoken(t) \/ ScanLockYield(t)
    \/ ScanLockGlobal(t)

RecordLockNext(t) ==
    \/ RecordLockHave(t) \/ RecordLockEnter(t) \/ RecordLockGet(t)
    \/ RecordLockRelease(t) \/ RecordLockRetry(t) \/ RecordLockDone(t)

\* dbPutFieldLink's steps after the call
PutNext(t) ==
    \/ PutGlobal(t) \/ RecordLockNext(t) \/ PutFails(t) \/ PutOldOther(t)
    \/ SplitDetach(t) \/ SplitAlloc(t) \/ SplitMerge(t)
    \/ PutNewOther(t) \/ PutNewLink(t) \/ PutMerge(t) \/ GblUnlock(t)

DblsrNext(t) == DblsrTry(t) \/ DblsrUnlock(t)

Step(t) == ScanNext(t) \/ PutNext(t) \/ DblsrNext(t)

Next ==
    \E t \in Threads :
        \/ ScanLock(t) \/ ScanUnlock(t) \/ PutFieldLink(t) \/ Dbcar(t) \/ Dblsr(t)
        \/ Step(t)

Spec == Init /\ [][Next]_vars

\* A thread inside a call gets on with it: a mutex it waits for and that is
\* released again and again is its own in the end (only the thread itself
\* leaves a label, so one condition serves all of them).  A thread that
\* processes records comes to the unlock that pairs each lock.
Fairness ==
    \A t \in Threads :
        /\ SF_vars(Step(t))
        /\ \A d \in 1..MaxRecursion : SF_vars(ScanUnlock(t) /\ Len(held[t]) = d)

FairSpec == Spec /\ Fairness

-----------------------------------------------------------------------------
(* Properties *)

RecordTypes ==
    /\ setOf \in [Records -> LockSets \cup {NoSet}]
    /\ link \in [Records -> Records \cup {NoRecord}]

LockSetTypes ==
    /\ type \in [LockSets -> {"scan", "record", "free"}]
    /\ state \in [LockSets -> {"Free", "ScanLock", "RecordLock"}]
    /\ thread_id \in [LockSets -> Threads \cup {NoThread}]
    /\ nRecursion \in [LockSets -> Nat]
    /\ nWaiting \in [LockSets -> Nat]
    /\ mutex \in [LockSets -> Threads \cup {NoThread}]

ThreadTypes ==
    /\ pc \in [Threads -> Labels]
    /\ rec \in [Threads -> Records \cup {NoRecord}]
    /\ lset \in [Threads -> LockSets \cup {NoSet}]
    /\ held \in [Threads -> Seq(Records)]

WriterTypes ==
    /\ globalLock \in Threads \cup {NoThread}
    /\ target \in Records \cup {NoRecord}
    /\ todo \in SUBSET Records
    /\ cur \in Records \cup {NoRecord}

\* The variables keep the types of the code's structures; a waiting or nesting
\* count that went below zero would not.
TypeOK == RecordTypes /\ LockSetTypes /\ ThreadTypes /\ WriterTypes

Holds(t, r) == \E i \in 1..Len(held[t]) : held[t][i] = r

\* What dbScanLock is for: two threads never have records of one lock set
\* locked at the same time, whatever link changes run beside them.
MutualExclusion ==
    \A t, u \in Threads : \A r, q \in Records :
        (t # u /\ Holds(t, r) /\ Holds(u, q)) => setOf[r] # setOf[q]

\* A record is not moved to another lock set, nor taken off its lock set,
\* while a thread has it locked: dbScanUnlock would unlock the wrong mutex.
HeldSetFixed ==
    [][\A t \in Threads : \A r \in Records :
            Holds(t, r) => setOf'[r] = setOf[r]]_vars

\* Between link changes the lock sets are the groups of linked records,
\* neither smaller (a race) nor larger (a lost split).
LockSetsMatchLinks ==
    globalLock = NoThread =>
        \A r, q \in Records :
            /\ setOf[r] # NoSet
            /\ (setOf[r] = setOf[q]) <=> Connected(r, q)

Waiters(s) == {t \in Threads : pc[t] \in {"scan_wait", "scan_woken"} /\ lset[t] = s}

\* nWaiting is the number of threads between the two sections of the wait
\* in dbScanLock.
WaitingCounted ==
    \A s \in LockSets : nWaiting[s] = Cardinality(Waiters(s))

\* The assertions of dbLock.c, each at the section that evaluates it, but
\* for the one of ScanLockTryFails.
AssertionsHold ==
    \A t \in Threads :
        /\ pc[t] = "scan_woken" => state[lset[t]] # "Free"
        /\ (pc[t] = "idle" /\ held[t] # << >>) =>
                LET s == setOf[held[t][Len(held[t])]] IN
                /\ s # NoSet
                /\ thread_id[s] = t
                /\ nRecursion[s] >= 1
        /\ pc[t] = "rl_enter" =>
                /\ setOf[Locking(t)] # NoSet
                /\ \/ type[setOf[Locking(t)]] = "record"
                   \/ thread_id[setOf[Locking(t)]] # t
        /\ (pc[t] = "rl_check" /\ Drained(setOf[Locking(t)])) =>
                /\ type[setOf[Locking(t)]] = "scan"
                /\ state[setOf[Locking(t)]] = "RecordLock"
        /\ (pc[t] = "put_old" /\ link[rec[t]] # NoRecord) =>
                /\ state[setOf[rec[t]]] = "RecordLock"
                /\ type[setOf[rec[t]]] = "record"
        /\ (pc[t] = "split_merge" /\ link[cur] # NoRecord) =>
                \/ setOf[link[cur]] = NoSet
                \/ type[setOf[cur]] = type[setOf[link[cur]]]
        /\ pc[t] = "put_merge" =>
                type[setOf[rec[t]]] = type[setOf[target]]

\* assert(status==epicsMutexLockOK) of dbScanLock: the mutex of a lock set in
\* state Free can be had at once.
TryLockSucceeds == \A t \in Threads : pc[t] # "suspended"

\* Only link changes keep a dbScanLock call waiting: from every point of the
\* call on, it returns or another link change begins.
ScanLockReturns ==
    \A t \in Threads :
        pc[t] \in ScanLabels ~>
            (pc[t] = "idle" \/ globalLock # NoThread \/ ~TryLockSucceeds)

\* A link change gets through against threads that keep scanning.
LinkChangeEnds ==
    \A t \in Threads :
        pc[t] = "put_global" ~> (pc[t] = "idle" \/ ~TryLockSucceeds)

\* The links the lock sets answer for: a new link counts from its merge on.
MergedLink ==
    [r \in Records |->
        IF target # NoRecord /\ globalLock # NoThread /\ r = rec[globalLock]
        THEN NoRecord ELSE link[r]]

\* dbLock.c implements locks on groups of linked records.
Groups == INSTANCE RecordGroups WITH link <- MergedLink
GroupsSpec == Groups!Spec

-----------------------------------------------------------------------------
(* The inductive invariant behind MutualExclusion and HeldSetFixed *)

Type(r) == type[setOf[r]]

\* The record is off its lock set or on one of the RecordLock list.
InChange(r) == setOf[r] = NoSet \/ Type(r) = "record"

\* A thread with records locked owns their one lock set, which no link change
\* has got hold of, and a lock set with an owner is one it has locked.
HolderInv ==
    \A t \in Threads : held[t] # << >> =>
        LET s == setOf[held[t][1]] IN
        /\ s \in LockSets
        /\ \A i \in 1..Len(held[t]) : setOf[held[t][i]] = s
        /\ mutex[s] = t
        /\ type[s] = "scan"
        /\ state[s] # "Free"
        /\ thread_id[s] = t
        /\ nRecursion[s] = Len(held[t])

OwnedInv ==
    \A s \in LockSets : \A t \in Threads :
        (type[s] = "scan" /\ thread_id[s] = t) =>
            held[t] # << >> /\ setOf[held[t][1]] = s

OwnerInv == HolderInv /\ OwnedInv

\* Only dbScanLock is called by a thread with records locked, and for a
\* record of the same lock set.
CallerInv ==
    \A t \in Threads :
        /\ pc[t] \notin {"idle", "scan_enter"} => held[t] = << >>
        /\ pc[t] \in ScanLabels \cup {"put_global"} => rec[t] \in Records
        /\ (pc[t] = "scan_enter" /\ held[t] # << >>) =>
                setOf[rec[t]] = setOf[held[t][1]]

\* A lock set cannot change under a thread that waits for it.
WaiterInv ==
    \A t \in Threads :
        /\ pc[t] \in {"scan_wait", "scan_woken"} =>
                /\ lset[t] \in LockSets
                /\ setOf[rec[t]] = lset[t]
                /\ type[lset[t]] = "scan"
                /\ state[lset[t]] # "Free"
        /\ pc[t] \in {"lsr_try", "lsr_locked"} => lset[t] \in LockSets
        /\ pc[t] \in {"scan_woken", "lsr_locked"} => mutex[lset[t]] = t

\* Lock sets on the RecordLock list are nobody's but the link writer's, and
\* those on the free list have no records.
ListInv ==
    /\ \A s \in LockSets : type[s] = "record" =>
            /\ globalLock # NoThread
            /\ state[s] = "RecordLock"
            /\ nRecursion[s] = 0
    /\ \A r \in Records :
            /\ setOf[r] # NoSet => Type(r) # "free"
            /\ setOf[r] = NoSet => r \in todo

\* Where the link writer is, and what it has got hold of so far.
WriterInv ==
    /\ \A t \in Threads : pc[t] \in WriterLabels <=> globalLock = t
    /\ globalLock = NoThread => target = NoRecord
    /\ \A t \in Threads : globalLock = t =>
        /\ pc[t] # "put_unlock" => rec[t] \in Records
        /\ pc[t] \notin {"split_alloc", "split_merge"} => todo = {}
        /\ pc[t] = "split_alloc" => todo # {}
        /\ pc[t] = "split_merge" => cur \in todo /\ setOf[cur] # NoSet
        /\ pc[t] \in {"put_old", "split_alloc", "split_merge", "put_new",
                      "put_merge"} => InChange(rec[t])
        /\ pc[t] \in {"put_old", "split_alloc", "split_merge", "put_new",
                      "put_unlock"} => target = NoRecord
        /\ pc[t] = "put_merge" => target # NoRecord /\ InChange(target)
        /\ target # NoRecord => InChange(rec[t]) /\ link[rec[t]] = target
        /\ pc[t] \in {"rl_lock", "rl_locked", "rl_check"} =>
                /\ Type(Locking(t)) = "scan"
                /\ state[setOf[Locking(t)]] = "RecordLock"
        /\ pc[t] = "rl_locked" => mutex[setOf[Locking(t)]] = t
    /\ globalLock = NoThread => todo = {}

\* Linked records share a lock set, but for the link being put and the
\* records that dbLockSetSplit has not come to yet.
LinkInv ==
    \A r \in Records :
        \/ MergedLink[r] = NoRecord
        \/ setOf[r] = setOf[MergedLink[r]] /\ r \notin todo
        \/ r \in todo /\ InChange(r) /\ InChange(MergedLink[r])

IInv ==
    /\ TypeOK /\ OwnerInv /\ CallerInv /\ WaiterInv /\ WaitingCounted
    /\ ListInv /\ WriterInv /\ LinkInv

(* What the other properties need beyond IInv *)

\* A lock set's mutex is held by its owner, by the waiter that comes next, by
\* the link writer on its way through, or by dblsr.
MutexInv ==
    \A s \in LockSets : \A t \in Threads : mutex[s] = t =>
        \/ held[t] # << >> /\ setOf[held[t][1]] = s
        \/ pc[t] \in {"scan_woken", "lsr_locked"} /\ lset[t] = s
        \/ pc[t] = "rl_locked" /\ setOf[Locking(t)] = s

\* A lock set is no larger than a group: dbLockSetSplit takes records together
\* only along links.
GroupInv ==
    \A r \in Records : \A q \in Records \ {r} :
        setOf[r] # NoSet /\ setOf[r] = setOf[q] => q \in Groups!Group(r)

\* The old link is gone when its records are regrouped and the new one is put.
UnlinkedInv ==
    \A t \in Threads :
        pc[t] \in {"split_alloc", "split_merge", "put_new"} => link[rec[t]] = NoRecord

\* Nesting stays within its bound.
NestingInv ==
    \A t \in Threads : pc[t] = "scan_enter" => Len(held[t]) < MaxRecursion

FullInv == IInv /\ GroupInv /\ UnlinkedInv /\ NestingInv /\ MutexInv
=============================================================================
