---------------------------- MODULE RecordGroups ----------------------------
(***************************************************************************)
(* What the record locks of dbLock.c promise, without lock sets, waiting   *)
(* counts or mutexes: a thread that processes a record has the whole group *)
(* of records its links lead to for itself, and a link only changes when   *)
(* no thread is at work in the groups it touches.                          *)
(***************************************************************************)
EXTENDS Naturals, Sequences

CONSTANTS Threads, Records, NoRecord, MaxRecursion

VARIABLES
    held,   \* the records each thread has locked
    link    \* the record each record's link points to, or NoRecord

vars == <<held, link>>

Neighbours(S) == {r \in Records : link[r] \in S}
                    \cup {q \in Records : \E r \in S : link[r] = q}

Group(r) ==
    {q \in Records : \A S \in SUBSET Records :
        (r \in S /\ Neighbours(S) \subseteq S) => q \in S}

Holds(t, r) == \E i \in 1..Len(held[t]) : held[t][i] = r

\* No thread of T has a record of the group of r.
Idle(T, r) == \A u \in T : \A q \in Group(r) : ~Holds(u, q)

Init ==
    /\ held = [t \in Threads |-> << >>]
    /\ link \in [Records -> Records \cup {NoRecord}]

Lock(t, r) ==
    /\ Len(held[t]) < MaxRecursion
    /\ held' = [held EXCEPT ![t] = Append(@, r)]
    /\ UNCHANGED link
    /\ held[t] # << >> => held[t][1] \in Group(r)
    /\ Idle(Threads \ {t}, r)

Unlock(t) ==
    /\ held[t] # << >>
    /\ held' = [held EXCEPT ![t] = SubSeq(@, 1, Len(@) - 1)]
    /\ UNCHANGED link

Unlink(r) ==
    /\ link[r] # NoRecord
    /\ link' = [link EXCEPT ![r] = NoRecord]
    /\ UNCHANGED held
    /\ Idle(Threads, r)

Link(r, q) ==
    /\ link[r] = NoRecord
    /\ link' = [link EXCEPT ![r] = q]
    /\ UNCHANGED held
    /\ Idle(Threads, r)
    /\ Idle(Threads, q)

Next ==
    \/ \E t \in Threads : Unlock(t) \/ \E r \in Records : Lock(t, r)
    \/ \E r \in Records : Unlink(r) \/ \E q \in Records : Link(r, q)

Spec == Init /\ [][Next]_vars
=============================================================================
