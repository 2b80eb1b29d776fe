---------------------------- MODULE BoundedQueue ----------------------------
(***************************************************************************)
(* What a ring buffer of pointers promises a writer and a reader: a queue  *)
(* of at most Size values.  A push fails only on a full queue and a pop    *)
(* only on an empty one; values leave in the order they entered.           *)
(***************************************************************************)
EXTENDS Naturals, Sequences

CONSTANTS Values, Size, Null

VARIABLES
    queue,
    pushed,         \* outcome of the last push: Null before the first
    popped          \* outcome of the last pop: Null for an empty queue

vars == <<queue, pushed, popped>>

Init == queue = <<>> /\ pushed = Null /\ popped = Null

Push(v) ==
    /\ Len(queue) < Size
    /\ queue' = Append(queue, v)
    /\ pushed' = TRUE
    /\ UNCHANGED popped

PushFails ==
    /\ Len(queue) = Size
    /\ pushed' = FALSE
    /\ UNCHANGED <<queue, popped>>

Pop ==
    /\ queue # <<>>
    /\ popped' = Head(queue)
    /\ queue' = Tail(queue)
    /\ UNCHANGED pushed

PopFails ==
    /\ queue = <<>>
    /\ popped' = Null
    /\ UNCHANGED <<queue, pushed>>

Next == (\E v \in Values : Push(v)) \/ PushFails \/ Pop \/ PopFails

Spec == Init /\ [][Next]_vars
=============================================================================
