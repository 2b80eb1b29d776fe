---------------------------- MODULE CallbackQueue ----------------------------
(***************************************************************************)
(* General purpose callbacks: base/src/db/callback.c for one priority,     *)
(* composed with the ring buffer of RingPointer that is its callbackQ.     *)
(*                                                                         *)
(* Any thread requests callbacks; one callback task runs them.  The        *)
(* interrupt lock makes the requesters one writer of the ring; the task is *)
(* its reader and takes no lock.  A callback may request callbacks itself. *)
(*                                                                         *)
(* An action is one step of RingPointer, or one operation on ringOverflow  *)
(* or on the semaphore: ringOverflow is read and written without the lock. *)
(***************************************************************************)
EXTENDS Integers, Sequences

CONSTANTS
    Callbacks,
    Requesters,     \* threads that request callbacks
    Task,           \* the callback task, which may be one of them
    callbackQueueSize,
    NoCallback

ASSUME CallbackQueueAssumption ==
    /\ callbackQueueSize \in Nat \ {0}
    /\ NoCallback \notin Callbacks

VARIABLES
    nextPush, nextPop, buffer, wpc, p, rpc, q, pushed, popped,
                    \* the ring buffer; popped is the task's pcallback
    callbackSem, ringOverflow,
    pc, pcallback,  \* each requester: label and callback
    tpc             \* callback task: label

callbackQ == INSTANCE RingPointer WITH
    Values <- Callbacks, Null <- NoCallback, SizeArg <- callbackQueueSize

ring == <<nextPush, nextPop, buffer, wpc, p, rpc, q, pushed, popped>>
requests == <<pc, pcallback>>
vars == <<ring, callbackSem, ringOverflow, requests, tpc>>

Goto(r, label) == pc' = [pc EXCEPT ![r] = label]

Init ==
    /\ callbackQ!Init
    /\ callbackSem = FALSE /\ ringOverflow = FALSE
    /\ pc = [r \in Requesters |-> "idle"]
    /\ pcallback = [r \in Requesters |-> NoCallback]
    /\ tpc = "wait"

-----------------------------------------------------------------------------
(* callbackRequest *)

\* The request is dropped at once while the ring overflows.
Request(r) ==
    /\ pc[r] = "idle"
    /\ r = Task => tpc = "run"
    /\ ~ringOverflow
    /\ \E cb \in Callbacks : pcallback' = [pcallback EXCEPT ![r] = cb]
    /\ Goto(r, "lock")
    /\ UNCHANGED <<ring, callbackSem, ringOverflow, tpc>>

\* With the interrupt lock, which is free when no requester is the writer.
Push(r) ==
    /\ pc[r] = "lock"
    /\ callbackQ!PushStart(pcallback[r])
    /\ Goto(r, IF callbackQ!Rejects THEN "overflow" ELSE "push")
    /\ UNCHANGED <<callbackSem, ringOverflow, pcallback, tpc>>

PushStore(r) ==
    /\ pc[r] = "push"
    /\ callbackQ!PushStore
    /\ UNCHANGED <<callbackSem, ringOverflow, requests, tpc>>

PushAdvance(r) ==
    /\ pc[r] = "push"
    /\ callbackQ!PushAdvance
    /\ Goto(r, "signal")
    /\ UNCHANGED <<callbackSem, ringOverflow, pcallback, tpc>>

\* "callbackRequest ring buffer full"
Overflow(r) ==
    /\ pc[r] = "overflow"
    /\ ringOverflow' = TRUE
    /\ Goto(r, "signal")
    /\ UNCHANGED <<ring, callbackSem, pcallback, tpc>>

Signal(r) ==
    /\ pc[r] = "signal"
    /\ callbackSem' = TRUE
    /\ Goto(r, "idle")
    /\ pcallback' = [pcallback EXCEPT ![r] = NoCallback]
    /\ UNCHANGED <<ring, ringOverflow, tpc>>

-----------------------------------------------------------------------------
(* callbackTask *)

TaskWait ==
    /\ tpc = "wait"
    /\ callbackSem
    /\ callbackSem' = FALSE
    /\ tpc' = "pop"
    /\ UNCHANGED <<ring, ringOverflow, requests>>

Pop ==
    /\ tpc = "pop" /\ rpc = "idle"
    /\ callbackQ!PopStart
    /\ tpc' = IF callbackQ!isEmpty THEN "wait" ELSE "pop"
    /\ UNCHANGED <<callbackSem, ringOverflow, requests>>

PopTake ==
    /\ callbackQ!PopTake
    /\ UNCHANGED <<callbackSem, ringOverflow, requests, tpc>>

PopAdvance ==
    /\ callbackQ!PopAdvance
    /\ tpc' = "popped"
    /\ UNCHANGED <<callbackSem, ringOverflow, requests>>

ClearOverflow ==
    /\ tpc = "popped"
    /\ ringOverflow' = FALSE
    /\ tpc' = "run"
    /\ UNCHANGED <<ring, callbackSem, requests>>

\* Fault: one callback is run for each signal.
AfterRunWait == "wait"
AfterRun == "pop"

\* The callback returns.
Run ==
    /\ tpc = "run"
    /\ Task \in Requesters => pc[Task] = "idle"
    /\ tpc' = AfterRun
    /\ UNCHANGED <<ring, callbackSem, ringOverflow, requests>>

-----------------------------------------------------------------------------
RequestNext(r) == Push(r) \/ PushStore(r) \/ PushAdvance(r) \/ Overflow(r) \/ Signal(r)
TaskNext == TaskWait \/ Pop \/ PopTake \/ PopAdvance \/ ClearOverflow \/ Run

Next == (\E r \in Requesters : Request(r) \/ RequestNext(r)) \/ TaskNext

Spec == Init /\ [][Next]_vars

-----------------------------------------------------------------------------
\* The variables keep the types of the code's structures: the indices of the
\* ring stay inside its buffer.
TypeOK ==
    /\ callbackQ!TypeOK
    /\ callbackSem \in BOOLEAN /\ ringOverflow \in BOOLEAN
    /\ pc \in [Requesters -> {"idle", "lock", "push", "overflow", "signal"}]
    /\ pcallback \in [Requesters -> Callbacks \cup {NoCallback}]
    /\ tpc \in {"wait", "pop", "popped", "run"}

\* The ring is a queue of callbackQueueSize callbacks: none is lost, run twice
\* or overtaken, and a request is refused only when it is full.
ImplementsQueue == callbackQ!ImplementsQueue

Requesting == \E r \in Requesters : pc[r] # "idle"

\* The callback task does not sleep on a queued callback.
NoLostWakeup ==
    (tpc = "wait" /\ ~callbackSem /\ ~Requesting) => callbackQ!isEmpty

\* The inductive invariant: a callback was queued by a requester that is still
\* to signal, unless the task has seen the signal.
IInv ==
    /\ TypeOK /\ callbackQ!IInv
    /\ rpc # "idle" => tpc = "pop"
    /\ \A r \in Requesters : pc[r] = "lock" => pcallback[r] \in Callbacks
    /\ tpc = "wait" /\ ~callbackSem /\ ~callbackQ!isEmpty =>
        \E r \in Requesters : pc[r] = "signal"

\* callback.c: callbackRequest "places requests into callback queue": requests
\* are not refused for good.  An overflow ends when the task has room again,
\* so that an idle task with an empty queue takes requests.
OverflowEnds ==
    (tpc = "wait" /\ ~callbackSem /\ ~Requesting) => ~ringOverflow
=============================================================================
