----------------------------- MODULE ScanLists -----------------------------
(***************************************************************************)
(* A scan list of dbScan.c: the list is scanned by its task (scanList)     *)
(* while puts to the SCAN and PHAS fields, made by other threads or by the *)
(* records that are processed, take records off it (deleteFromList) and    *)
(* put them on it (addToList).  The list is sorted by PHAS.                *)
(*                                                                         *)
(* A critical section of psl->lock is one action.  A put holds the lock of *)
(* the record's lock set from scanDelete to scanAdd, the scan while it     *)
(* processes a record.                                                     *)
(*                                                                         *)
(* Left out: which list a record goes to (scanAdd's tables of periods,     *)
(* events and interrupts; another list is the same as none), what starts a *)
(* scan, and the queue of scanOnce.                                        *)
(***************************************************************************)
EXTENDS Naturals, SequencesExt

CONSTANTS
    Records,
    LockSets, LockSetOf,    \* the lock set of each record
    Scanner,    \* the task that scans the list
    Putters,    \* other threads that put to SCAN and PHAS
    MaxPhas,    \* bound: PHAS is 0..MaxPhas
    NoRecord, NoThread

Threads == Putters \cup {Scanner}

VARIABLES
    list, modified,     \* of the scan_list
    phas,
    owner,              \* of the locks of the lock sets
    pse, prev, next,    \* locals of scanList
    pc,                 \* of the scan
    moving,             \* the record a thread has taken off and may add again
    onList,             \* history of this scan: records on the list throughout,
    done, twice,        \* those processed, whether one was so twice,
    rejoined            \* whether one left and came back

listVars == <<list, modified, phas>>
scanVars == <<pse, prev, next, pc>>
history == <<onList, done, twice, rejoined>>
vars == <<listVars, owner, scanVars, moving, history>>

ScanListsAssumption ==
    /\ NoRecord \notin Records /\ NoThread \notin Threads
    /\ LockSetOf \in [Records -> LockSets]
    /\ MaxPhas \in Nat

TypeOK ==
    /\ list \in Seq(Records)
    /\ \A i, j \in DOMAIN list :
            i < j => list[i] # list[j] /\ phas[list[i]] <= phas[list[j]]
    /\ modified \in BOOLEAN
    /\ phas \in [Records -> 0..MaxPhas]
    /\ owner \in [LockSets -> Threads \cup {NoThread}]
    /\ {pse, prev, next} \subseteq Records \cup {NoRecord}
    /\ pc \in {"idle", "lock", "process", "step", "early"}
    /\ pse = NoRecord <=> pc \in {"idle", "early"}
    /\ moving \in [Threads -> Records \cup {NoRecord}]
    /\ \A th \in Threads : moving[th] # NoRecord =>
            ~Contains(list, moving[th]) /\ owner[LockSetOf[moving[th]]] = th
    /\ onList \subseteq ToSet(list)
    /\ done \subseteq Records
    /\ {twice, rejoined} \subseteq BOOLEAN

Init ==
    /\ list = << >> /\ modified = FALSE
    /\ phas = [r \in Records |-> 0]
    /\ owner = [s \in LockSets |-> NoThread]
    /\ pse = NoRecord /\ prev = NoRecord /\ next = NoRecord
    /\ pc = "idle"
    /\ moving = [th \in Threads |-> NoRecord]
    /\ onList = {} /\ done = {} /\ twice = FALSE /\ rejoined = FALSE

First(l) == IF l = << >> THEN NoRecord ELSE l[1]
Neighbour(r, d) ==
    LET i == CHOOSE i \in DOMAIN list : list[i] = r
    IN IF i + d \in DOMAIN list THEN list[i + d] ELSE NoRecord
ellNext(r) == Neighbour(r, 1)
ellPrevious(r) == Neighbour(r, -1)
OnList(r) == r # NoRecord /\ Contains(list, r)

-----------------------------------------------------------------------------
(* scanList *)

ScanBegin ==
    /\ pc \in {"idle", "early"} /\ list # << >>
    /\ modified' = FALSE
    /\ pse' = First(list)
    /\ prev' = NoRecord
    /\ next' = ellNext(First(list))
    /\ pc' = "lock"
    /\ onList' = ToSet(list) /\ done' = {} /\ twice' = FALSE /\ rejoined' = FALSE
    /\ UNCHANGED <<list, phas, owner, moving>>

ScanLock ==
    /\ pc = "lock"
    /\ owner[LockSetOf[pse]] = NoThread
    /\ owner' = [owner EXCEPT ![LockSetOf[pse]] = Scanner]
    /\ pc' = "process"
    /\ twice' = (twice \/ pse \in done)
    /\ done' = done \cup {pse}
    /\ UNCHANGED <<listVars, pse, prev, next, moving, onList, rejoined>>

ScanUnlock ==
    /\ pc = "process" /\ moving[Scanner] = NoRecord
    /\ owner' = [owner EXCEPT ![LockSetOf[pse]] = NoThread]
    /\ pc' = "step"
    /\ UNCHANGED <<listVars, pse, prev, next, moving, history>>

\* Fault: prev stays behind.
GoOnBehind(r, p) ==
    /\ pse' = r /\ prev' = IF prev = NoRecord THEN p ELSE prev
    /\ next' = IF r = NoRecord THEN next ELSE ellNext(r)
    /\ modified' = FALSE
    /\ pc' = IF r = NoRecord THEN "idle" ELSE "lock"

\* The scan goes on at record r, whose predecessor is p, or ends.
GoOn(r, p) ==
    /\ pse' = r
    /\ prev' = p
    /\ next' = IF r = NoRecord THEN next ELSE ellNext(r)
    /\ modified' = FALSE
    /\ pc' = IF r = NoRecord THEN "idle" ELSE "lock"

\* From the record just processed, or the one before it or after it when that
\* one has left; "Too many changes. Just wait till next period".
ScanStep ==
    /\ pc = "step"
    /\ IF ~modified \/ OnList(pse) THEN GoOn(ellNext(pse), pse)
       ELSE IF OnList(prev)
       THEN LET r == ellNext(prev)
            IN GoOn(r, IF r = NoRecord THEN prev ELSE ellPrevious(r))
       ELSE IF OnList(next) THEN GoOn(next, ellPrevious(next))
       ELSE /\ pc' = "early" /\ pse' = NoRecord
            /\ UNCHANGED <<prev, next, modified>>
    /\ UNCHANGED <<list, phas, owner, moving, history>>

-----------------------------------------------------------------------------
(* Puts to SCAN and PHAS *)

\* A thread takes the lock, a record that is processed has it already.
MayPut(th, r) ==
    /\ moving[th] = NoRecord
    /\ IF th = Scanner THEN pc = "process" /\ LockSetOf[r] = LockSetOf[pse]
                       ELSE owner[LockSetOf[r]] = NoThread

scanDelete(th, r) ==
    /\ MayPut(th, r)
    /\ owner' = [owner EXCEPT ![LockSetOf[r]] = th]
    /\ moving' = [moving EXCEPT ![th] = r]
    /\ list' = RemoveFirst(list, r)
    /\ modified' = (modified \/ OnList(r))
    /\ onList' = onList \ {r}
    /\ UNCHANGED <<phas, scanVars, done, twice, rejoined>>

Release(th, r) ==
    /\ moving' = [moving EXCEPT ![th] = NoRecord]
    /\ owner' = [owner EXCEPT ![LockSetOf[r]] = IF th = Scanner THEN @ ELSE NoThread]

\* The last record whose PHAS is not greater than p: behind it a record is put.
LastUpTo(p) ==
    CHOOSE n \in 0..Len(list) :
        /\ n > 0 => phas[list[n]] <= p
        /\ \A i \in n + 1..Len(list) : phas[list[i]] > p

scanAdd(th, p) ==
    /\ moving[th] # NoRecord
    /\ LET r == moving[th]
       IN /\ phas' = [phas EXCEPT ![r] = p]
          /\ list' = InsertAt(list, LastUpTo(p) + 1, r)
          /\ rejoined' = (rejoined \/ r \in done \/ r \in {pse, prev, next})
          /\ Release(th, r)
    /\ modified' = TRUE
    /\ UNCHANGED <<scanVars, onList, done, twice>>

\* The record stays off this list.
StaysOff(th) ==
    /\ moving[th] # NoRecord
    /\ Release(th, moving[th])
    /\ UNCHANGED <<listVars, scanVars, history>>

-----------------------------------------------------------------------------
Next ==
    \/ ScanBegin \/ ScanLock \/ ScanUnlock \/ ScanStep
    \/ \E th \in Threads :
        \/ \E r \in Records : scanDelete(th, r)
        \/ \E p \in 0..MaxPhas : scanAdd(th, p)
        \/ StaysOff(th)

Spec == Init /\ [][Next]_vars

-----------------------------------------------------------------------------
\* However many records leave and join the list while it is scanned, no record
\* is processed twice, and a scan that gets to the end has processed each one
\* that was on the list throughout -- unless a record that the scan had
\* processed, or was to go on from, left and came back.
ScansOnce ==
    ~rejoined =>
        /\ ~twice
        /\ pc = "idle" => onList \subseteq done

-----------------------------------------------------------------------------
(* The inductive invariant, for the proofs *)

\* Record a is ahead of record b.
Ahead(a, b) == \E i, j \in DOMAIN list : i < j /\ list[i] = a /\ list[j] = b

Others == ToSet(list) \ {pse}
ToDo == onList \ done

\* Records processed are ahead of a record the scan can go on from, records
\* still to be processed behind it.
Behind(q) == \A r \in Others :
    /\ r \in done => r = q \/ Ahead(r, q)
    /\ r \in ToDo => Ahead(q, r)
\* Those to be processed start with record q.
From(q) == \A r \in Others :
    /\ r \in done => Ahead(r, q)
    /\ r \in ToDo => r = q \/ Ahead(q, r)

\* The scan holds the lock of the record it processes.
ScanLocks ==
    /\ pc = "process" => owner[LockSetOf[pse]] = Scanner
    /\ moving[Scanner] # NoRecord => pc = "process"
    /\ \A s \in LockSets : owner[s] = Scanner => pc = "process" /\ s = LockSetOf[pse]

\* What holds of a scan as long as none that matters to it came back.
InOrder ==
    /\ ~twice
    /\ pc = "idle" => onList \subseteq done
    /\ pc = "lock" => pse \notin done
    /\ pc \in {"process", "step"} => pse \in done
    /\ pc \in {"lock", "process", "step"} =>
        /\ OnList(pse) => Behind(pse)
        /\ OnList(prev) => Behind(prev)
        /\ OnList(next) => From(next)

IInv ==
    /\ TypeOK
    /\ pc \in {"lock", "process", "step"} /\ ~modified => OnList(pse)
    /\ ScanLocks
    /\ ~rejoined => InOrder
=============================================================================
