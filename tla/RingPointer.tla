----------------------------- MODULE RingPointer -----------------------------
(***************************************************************************)
(* epicsRingPointer: base/src/libCom/ring/epicsRingPointer.h, with one     *)
(* writer and one reader and no lock.                                      *)
(*                                                                         *)
(* "Space is allocated for one additional element.  A put request is       *)
(* rejected if the it would cause nextPush to equal nextPop."  An action   *)
(* is one access to a variable the other thread uses: reading its index,   *)
(* writing or reading the buffer, storing the own index.                   *)
(***************************************************************************)
EXTENDS Integers, Sequences

CONSTANTS Values, Null,
    SizeArg         \* the size asked of epicsRingPointerCreate, at least 1

VARIABLES
    nextPush, nextPop, buffer,
    wpc, p,         \* writer: label, and the pointer to push
    rpc, q,         \* reader: label, and the pointer taken
    pushed, popped  \* what push and pop returned last

writer == <<wpc, p, pushed>>
reader == <<rpc, q, popped>>
vars == <<nextPush, nextPop, buffer, writer, reader>>

size == SizeArg + 1
Slots == 0..size - 1

Increment(i) == IF i + 1 >= size THEN 0 ELSE i + 1

getUsed == IF nextPush - nextPop < 0 THEN nextPush - nextPop + size
           ELSE nextPush - nextPop
isEmpty == nextPush = nextPop
isFull == nextPush - nextPop + 1 \in {0, size}

Init ==
    /\ nextPush = 0 /\ nextPop = 0
    /\ buffer = [i \in Slots |-> Null]
    /\ wpc = "idle" /\ p = Null /\ pushed = Null
    /\ rpc = "idle" /\ q = Null /\ popped = Null

-----------------------------------------------------------------------------
Rejects == Increment(nextPush) = nextPop

PushStart(v) ==
    /\ wpc = "idle"
    /\ IF Rejects
       THEN pushed' = FALSE /\ UNCHANGED <<wpc, p>>
       ELSE wpc' = "store" /\ p' = v /\ UNCHANGED pushed
    /\ UNCHANGED <<nextPush, nextPop, buffer, reader>>

PushStore ==
    /\ wpc = "store"
    /\ buffer' = [buffer EXCEPT ![nextPush] = p]
    /\ wpc' = "advance"
    /\ UNCHANGED <<nextPush, nextPop, p, pushed, reader>>

PushAdvance ==
    /\ wpc = "advance"
    /\ nextPush' = Increment(nextPush)
    /\ wpc' = "idle" /\ p' = Null /\ pushed' = TRUE
    /\ UNCHANGED <<nextPop, buffer, reader>>

PopStart ==
    /\ rpc = "idle"
    /\ IF isEmpty
       THEN popped' = Null /\ UNCHANGED rpc
       ELSE rpc' = "take" /\ UNCHANGED popped
    /\ UNCHANGED <<nextPush, nextPop, buffer, q, writer>>

PopTake ==
    /\ rpc = "take"
    /\ q' = buffer[nextPop]
    /\ rpc' = "advance"
    /\ UNCHANGED <<nextPush, nextPop, buffer, popped, writer>>

\* Fault: the slot is read again after it was given back.
TakenLate == buffer[nextPop']
Taken == q

PopAdvance ==
    /\ rpc = "advance"
    /\ nextPop' = Increment(nextPop)
    /\ rpc' = "idle" /\ q' = Null /\ popped' = Taken
    /\ UNCHANGED <<nextPush, buffer, writer>>

Next ==
    \/ \E v \in Values : PushStart(v)
    \/ PushStore \/ PushAdvance
    \/ PopStart \/ PopTake \/ PopAdvance

Spec == Init /\ [][Next]_vars

-----------------------------------------------------------------------------
\* The indices stay inside the buffer.
TypeOK ==
    /\ nextPush \in Slots /\ nextPop \in Slots
    /\ buffer \in [Slots -> Values \cup {Null}]
    /\ wpc \in {"idle", "store", "advance"} /\ p \in Values \cup {Null}
    /\ rpc \in {"idle", "take", "advance"} /\ q \in Values \cup {Null}
    /\ pushed \in BOOLEAN \cup {Null}
    /\ popped \in Values \cup {Null}

\* The inductive invariant: while an operation is under way the other side
\* leaves it its room, or its value, and touches neither.
IInv ==
    /\ TypeOK
    /\ wpc # "idle" => ~Rejects /\ p \in Values
    /\ wpc = "advance" => buffer[nextPush] = p
    /\ rpc # "idle" => ~isEmpty
    /\ rpc = "advance" => q = buffer[nextPop]

\* The slot i places after the one to be popped next, for i < size.
Place(i) == IF nextPop + i < size THEN nextPop + i ELSE nextPop + i - size
Contents == [i \in 1..getUsed |-> buffer[Place(i - 1)]]

\* The unlocked ring is a queue of at most SizeArg pointers.
Queue == INSTANCE BoundedQueue WITH queue <- Contents, Size <- SizeArg
ImplementsQueue == Queue!Spec
=============================================================================
