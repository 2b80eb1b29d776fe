# TLA+ models of the EPICS-VMS input/output controller

The repository is EPICS base 3.14.8.2 ported to OpenVMS, with drivers,
sequencer and site applications. This project models the concurrent core of the
input/output controller (IOC): record locks, event queues, puts with
notification and their callbacks over the network, and the services that drivers
and records rest on: callback tasks, timers, scan lists, asynchronous ports,
Channel Access links, the error log and state programs. TLC checks small
instances; TLAPS proves what matters most of nearly every module for every size.
Paths below are
relative to `src/base/src` unless they start with `src/`.

## The system

An IOC is one process that holds a database of records. Records are processed
by many threads: scan tasks, callback tasks, the threads of network clients.
Links lead from record to record, so a thread processes groups of records.
Channel Access (CA) clients read, write and monitor fields through a server
with two threads per client, one that reads requests and an event task that
sends what happens later.

| Component | State | Operations | Talks to |
|---|---|---|---|
| Record locks `db/dbLock.c` | lock sets (state, owner, nesting and waiting counts, mutex), three lists, `globalLock`, `lockSetModifyLock` | `dbScanLock`, `dbScanUnlock`, `dbLockSetGblLock/Unlock`, `dbLockSetRecordLock`, `dbLockSetMerge`, `dbLockSetSplit`, `dblsr` | everybody who processes or changes records |
| Database access `db/dbAccess.c` | the records | `dbPutFieldLink`, `dbPut`, `dbGet`, `dbProcess` | locks, events, put notify, CA links |
| Event queues `db/dbEvent.c` | per user a chain of rings, counters of pending, duplicate and canceled entries, flow control, extra labor | `db_add_event`, `db_cancel_event`, `db_event_enable/disable`, `db_post_events`, `db_post_single_event`, flow control, `db_close_events`, event task | record processing posts; rsrv and the local CA service subscribe and are called back |
| CA server `rsrv/` | clients, channels, subscriptions, put blocks, reply queue | one handler per request, `destroy_tcp_client` | events, put notify, access security, sockets |
| Put notify `db/dbNotify.c` | per put a state and wait flags, per record its put and a restart list | `dbPutNotify`, `dbNotifyCancel`, `dbNotifyCompletion`, `notifyCallback` | locks, callback tasks, rsrv |
| Callback tasks `db/callback.c` | per priority a ring, an event and `ringOverflow` | `callbackRequest`, `callbackTask`, delayed requests, restart | any thread; the ring; timers; task watchdog |
| Rings `libCom/ring` | buffer and two indices | push, pop, flush | callback tasks, scan tasks (`onceTask`), drivers |
| Scan tasks `db/dbScan.c` | scan lists, `onceQ`, I/O event lists | add, delete, `scanList`, `scanOnce` | locks, callback tasks |
| CA links `db/dbCa.c`, local CA service `db/db*.cpp` | links and their work list; subscriptions | link task, connect, monitor and put callbacks | CA client library, events, put notify |
| CA client `ca/` | circuits, channels, searches | connection life cycle, requests | sockets, timers |
| Access security `as/` | groups, rules, clients | rule evaluation, rights callbacks | rsrv toggles events (`camessage.c`) |
| Timers `libCom/timer`, task watchdog, error log, message queue, threads `libCom/osi` | sorted timer queue; task list; log queue; waiting senders and receivers | start, cancel, expire; insert, remove; log, flush; send, receive | all |
| asyn `src/support/asyn/4_11/asyn/asynDriver` | per port a request queue, lock and connection state | `queueRequest`, `cancelRequest`, `queueLockPort`, port thread | drivers |
| Sequencer `src/seq/seq-2.0.11` | state sets, event flags, monitors | `seq_task`, `seq_ca` | CA client |
| ISIS beam driver `src/ioc/ISISBEAM` | parameters, shutdown flag | polling thread | asyn port driver |

What makes this code hard is that nearly every operation of the core drops a
lock in the middle, waits, and goes on with what it read before; that the
unlocked fast paths (ring buffers, `extra_labor`, `ringOverflow`, the quota)
depend on the order of single accesses; and that teardown (cancel, clear,
disconnect) races with callbacks and with timeouts. `hazards` in PROJECT.json
lists the places line by line.

What makes each component correct:
locks: one thread at a time in a group of linked records, groups that follow
the links, no thread left waiting. Events: no callback after a cancel, order,
nothing lost but by replacement, no lost wakeup, cancel and close end. Put
callbacks: one reply for each request, from the reply or the timeout. Put notify:
records and puts agree on who owns what, each put ends and each cancel returns.
Callbacks: what is queued runs, and overflow passes. Rings: a queue without a lock.
Scan lists: a record scanned once per pass. Timers: no callback after a cancel,
no sleep past the first timer. CA links: no block freed that something leads to,
one answer for each put, a monitor for each link that is read. Error log: one
answer for each flush. Sequencer: no event missed between a test and the wait,
nothing freed that is used. asyn: no request forgotten, a timeout for each that
has one, a cancel that waits for the callback it finds, a port that goes on trying
to connect.

## Modules

| Module | Models | State and actions |
|---|---|---|
| `RecordGroups` | the promise of the record locks | which records each thread has, and the links; lock, unlock, unlink, link |
| `DbLock` | `dbLock.c`, link part of `dbPutFieldLink` | the fields of every lock set under their names; an action per section of `lockSetModifyLock` and per blocking call |
| `DbLock_proof` | | theorems about `DbLock`, and that it implements `RecordGroups` |
| `DbEvent` | `dbEvent.c` and its clients' calls | fields of `event_que`, `evSubscrip`, `event_user` under their names; an action per section of a queue's writelock |
| `DbNotify` | `dbNotify.c` with competing puts; `dbProcess` and `recGblFwdLink` as they take part | state and flags of each put, `ppn`, `pact` and restart list of each record; a step from `dbScanLock` to `dbScanUnlock` |
| `WriteNotify` | put callbacks: `camessage.c`, `caservertask.c`, extra labor of `dbEvent.c`, `dbNotify.c` without competing puts | client thread, callback task, event task; an action per locked section or unlocked access |
| `BoundedQueue` | the promise of a ring | a sequence and the outcomes of push and pop |
| `RingPointer` | `epicsRingPointer.h` | the two indices and the buffer; an action per access the other side can see |
| `CallbackQueue` | `callback.c` over `RingPointer` (`INSTANCE`) | the ring, the event, `ringOverflow`; an action per access |
| `TimerQueue` | `timer.cpp`, `timerQueue.cpp`, `timerQueueActive.cpp` | `curState`, `exp`, the sorted list, `pExpireTmr`, `cancelPending`, the events; an action per section of the queue's mutex, `Tick` for time |
| `ScanLists` | a scan list of `dbScan.c` | the list, `modified`, the locals of `scanList`; an action per section of `psl->lock` |
| `AsynPort` | one port of `asynManager.c` | `userPvt`, `dpCommon` and `port` fields under their names; an action per section of `asynManagerLock` |
| `DbCa` | `dbCa.c` with what it sees of the CA client | the fields of `caLink`, `workList`, the record's link; an action per section of `pca->lock` |
| `ErrLog` | `errlog.c` | the message buffer, `missedMessages`, the events; an action per section of `msgQueueLock` |
| `Sequencer` | `seq_task.c`, `seq_ca.c`, `seq_efSet` | masks and semaphores of each state set, who is in `seqWakeup` and how far; an action per access another thread can see |
| `QueueLemmas` | | lemmas about sequences without repetition: remove, append, prepend, take the head, insert, find the place in a sorted one |
| `DbEvent_proof`, `DbNotify_proof`, `WriteNotify_proof`, `DbCa_proof`, `Sequencer_proof` | | theorems about the module each is named after |
| `MCServices` | the seven services in one run | `part` says which one a behaviour is of |
| `Services_proof` | | theorems about `MCServices`: timers, scan lists, callbacks, rings, error log, state programs, CA links, asynchronous ports, the types of all |
| `MC...` | instances for TLC | symmetry sets, requests, chains |

Definitions have the names of the code. Where a definition's comment begins with
"Fault:" it is not part of the specification: it is the code with a plausible
mistake, kept to show that the properties notice (`mutants` in PROJECT.json
says which notices which).

How the models read the code:

* `lockSetModifyLock` is never kept across a blocking call, so a section under
  it is one step; the exception, a thread suspended by a failed assertion, keeps
  it, and blocks every later section (`ModifyFree`). `lset`, `rec`, `todo` are
  the locals that live from one section to the next.
* A record has one link field. Records with several links join the same groups
  by more edges; split and merge treat each link alike.
* A caller of `dbScanLock` that already has records only goes to records of the
  same lock set: it follows links. `HeldSetFixed` and `LinksInsideLockSets` say
  why that stays true.
* The event task keeps the writelock of a queue from one callback to the next,
  so the model has a label `read` in which no one else gets it. The record's
  scan lock and `mlok` are the variable `poster`.
* Values are counted up so that order and loss can be told; a field without a
  queued value (`byValue` FALSE: arrays and strings) is read by the callback
  under the scan lock.
* A thread in `db_flush_extra_labor_event` polls; the step is enabled when the
  flag is down.
* A put callback may run in the client's own thread (put disabled, nothing to
  process) or in the callback task; `upc` follows both.
* `RingPointer` splits push and pop where the other thread could look: the test,
  the buffer access, the index store. Memory is taken to be coherent and stores
  ordered, as on the uniprocessor and interrupt-locked use the code is made for.
* In `DbNotify` the records are of one lock set, so that what a thread does
  between `dbScanLock` and `dbScanUnlock` is one step. A record's device answers
  at once or later (`DeviceAnswers`), forward links lead along `Chain`, and
  a record that is active is not processed again. The callback
  queue is never full here.
* `TimerQueue` measures time by what is left: `exp` of a timer, `delay` of the
  task's sleep, `lag` the age of the time that `process` works with.
* `ScanLists` has the one list; a record that moves to another is one that
  leaves. A put to `SCAN` or `PHAS` holds the record's lock set, as the scan does
  while it processes.
* In `AsynPort` the port thread keeps `asynManagerLock` from the end of a callback
  to its next choice. The connect user is one more user, its timer and callback
  are `portConnectTimerCallback` and the code it queues. Drivers connect and
  disconnect the port at any time. As in the code, `queueRequest` asks whether the
  user is queued and nothing else: its thread, and its callbacks, may queue it again
  from the moment a request has left the queue, while a timer is still to be
  stopped, a callback runs or another is to begin. Three histories remember what
  came of it: `found` (callbacks a cancel found active), `overlap` (users with two
  callbacks at once), `hurried` (users queued again before the timer of the request
  before was stopped).
* In `DbCa` a record is changed from one link to another; the freed block can be
  allocated again, which `NothingFreed` needs to say anything. Callbacks of the
  client library come one at a time, and `ca_clear_channel` waits for them.
* In `ErrLog` a message has a length; the buffer is filled from its start to its
  end.
* In `Sequencer` a condition may be true or false whenever it is looked at;
  `changed` notes what happened since. `seqWakeup` is a step per state set, as
  masks change while it walks. Where `seqStop` gives up, the model ends.

## Runs

Passing:

| Run | Question | Instance |
|---|---|---|
| `DbLockSafety` | Are groups exclusive, lock sets right, assertions true? Is this `RecordGroups`? | 3 threads, 3 records, 3 lock sets, nesting 2 |
| `DbLockLiveness` | Does everybody get through, also with `dblsr`? Does the invariant of the proofs (`FullInv`) hold? | 2 threads, 2 records, `dblsr` in one |
| `DbEventRing` | Cancel from threads and callbacks at once, threads that pass the quota together; does a canceller that waits hear of its callback's end (`FlushComes`)? | 2 callers and the task, 3 events, ring of 2 |
| `DbEventQueues` | Full queue, second queue, order | 1 thread, two rings of 4, 3 values |
| `DbEventLiveness` | Wakeups, flow control, close ends | 1 thread, ring of 4, flow control |
| `WriteNotify` | One answer each, close ends | 2 channels, 2 requests |
| `DbNotify` | Who owns what, does every put end and every cancel return? | 3 puts, 3 records in a chain, each may answer late |
| `Services` | Is what is queued served, does a cancel wait, is nothing freed that is used? | see below |

`Services` runs the seven services of `MCServices`: callbacks of two threads and
of the task itself with a ring of 2; two timers, two threads and the timer task;
three records in two lock sets, one thread that moves them while they are
scanned; two users of a port, one with a timeout, one that also blocks and queues
a request to connect, both queued again at any time; a record whose link
changes between three blocks; two threads that log and flush with room for two
to four messages; a program of two state sets with an event flag, and one with
two channels that is stopped. The services share no variable, so the reachable
states are those of each, side by side: one run says of each what a run of its
own would say. The properties tell which service they are about. The port has two
such parts, `asyn` where only one user waits in `cancelRequest`, and the port stays
enabled, and `switched` where it is disabled and enabled but the second user does
not queue or block (`AsynBound`): both at once have too many states. The theorems
have no such bound.

| Property | Says |
|---|---|
| `CallbacksServed`, `ImplementsQueue` | the callback task does not sleep on a callback; the ring is a bounded queue |
| `WaitsOut`, `NeverOversleeps` | a cancel that found a callback running returns after it; the timer task wakes for the first timer |
| `ScansOnce` | each record that stays is processed once, though others come and go |
| `CancelOutwaits`, `QueuedTimesOut`, `PortServes`, `ConnectRetried` | asyn: a cancel that takes nothing off the queue returns after the callback it found active, and is told of its end, unless two callbacks of the user overlap; a queued request with a timeout has its timer, unless it was queued before the timer of the one before was stopped; the port thread does not sleep on a request it could serve; a port without a connection has its connect timer or request under way |
| `NothingFreed`, `CalledOnce`, `MonitorComes` | CA links: nothing on the way to a block that was freed; a put's callback is called once; a link that is read has a monitor or one coming |
| `FlushAnswered` | each `errlogFlush` that waits is answered, and no answer is left over |
| `StateSetsServed` | a state set does not sleep on a change it listens to or on a request to exit, waits for channels only while some are missing, and is freed when nobody uses it |

Expected violations, each a disagreement between the code and what it says:

| Run | Property | What TLC finds |
|---|---|---|
| `DbEventInUse` | `InUseFlagTrue` | A callback cancels another subscription; `pSuicideEvent` stays set for its freed block. The next subscription in that block has its first callback taken for a suicide, `callBackInProgress` stays set, and its cancel waits for good. |
| `WriteNotifyFlush` | `LaborFlushed` | The second look for labor of the event task, after `extraLaborBusy` is down and without the lock, runs when the disconnecting client believes labor is over. |
| `CallbackQueueOverflow` | `OverflowEnds` | A request finds the ring full; before it sets `ringOverflow` the task empties the ring and resets the flag. Set afterwards, it makes every later request return at once: no callback of that priority runs again. |
| `AsynCancel` | `CancelWaits` | A user is queued again while its callback runs, by its own thread or by the callback; `cancelRequest` then takes the request off the queue and does not look whether the callback still runs (`asynManager.c:1436`), though `asynDriver.html:1384` promises that it waits. `CancelOutwaits` (`Services`) says what remains of the promise. |

Other disagreements seen while modelling, without a run of their own: a ring
within its quota can overflow through canceled entries plus duplicates
(`dbEvent.c:730`, comment at 728); two threads that add a queue at once lose one
(`dbEvent.c:388`); a value posted between the first post and the enable of a
subscription waits for the next change (`camessage.c:1865`); `eventsRemaining`
counts placeholders (`dbEvent.c:897`); the second signal of `db_close_events`
may follow the task's end (`dbEvent.c:351`); a put block may be freed while
`callUser` is still to look at it (`camessage.c:1608`). With `dblsr` running,
the assertion at `dbLock.c:247` can fail, which the comment at line 40 warns of.
A `callbackRequest` that is dropped is not repeated by `dbNotify.c:422`, so its
put never ends.

* `dbCa.c`: a put that meets a disconnect at line 853 is dropped, and as line 315
  marks `pvlOptOutString` for a native put, not repeated; type and count are read
  after a possible disconnect (914-919), and the subscription stays wrong;
  `pgetNative` is freed (557) while the old subscription may still deliver, which
  fails the assertion at 629; `printLinks` (139, 146) reads `plink` that may be
  NULL by then.
* `dbEvent.c`: all cancellers of an `event_user` share `pflush_sem`. The callback of
  `e1` ends and signals; before its canceller wakes, the callback of `e2` starts and
  a second thread cancels `e2` and waits. It takes the signal, finds its own callback
  running and waits again; the one signal to come is for two, and one of them waits
  for good (554). Nothing else loses a signal (`FlushComes`), so that with one
  canceller at a time, which is how the clients in this repository do it (`rsrv` from
  the client's thread, the CA library under a mutex), a cancel returns.
* `asynManager.c`, for a user queued again while its callback is active, which
  `asynDriver.html:1368` allows: between the dequeue and the unlocked
  `epicsTimerCancel` (708, 787, 1478) the new request loses its timer and never times
  out; and its timeout callback may then run beside the callback before, where 572
  or 784 overwrites the `callbackCanceled` of a cancel, which waits for good, and
  whichever ends first answers a cancel that came after. `QueuedTimesOut` and
  `CancelOutwaits` exempt these cases and no other.
* `asynManager.c`: `callTimeoutUser` (765-770) keeps its value over the elements it looks at after;
  `numConnectPortWait` is never counted down (2533); `exceptionDisconnect` (1805)
  uses `connectTimer` that is NULL before `iocInit`.
* `timer.cpp`: a cancel that waits for a callback leaves the timer in limbo (153);
  a second thread that cancels it finds it so and returns while the callback runs.
* `dbScan.c`: a record that leaves and comes back during a scan may be skipped or
  processed twice.
* `errlog.c`: a flush may be answered before a message queued just before it is
  sent (comment at 452); a flush that waits when the IOC exits is not answered.
* `taskwd.c`: line 178 calls the callback of the suspended task's entry in place of
  that of the one who asked for any task,
  the list of those is walked without `anylock`, and after a callback `lock` is
  released a second time.
* Sequencer: `seq_task.c:202` says that PV events are locked out while conditions
  are evaluated; `proc_db_events` takes no lock and writes values meanwhile.
  `seq_if.c:805` calls a set flag with an empty queue impossible; the queue is
  changed outside the lock (`seq_ca.c:305`), so it is not, and the last entry of
  a full queue may be freed while it is written (321). `seqStop` passes over
  threads that have not started (`seq_task.c:447`) and waits ten seconds (466,
  496), while `seq_waitConnect` looks for a request to exit every 10 to 40
  seconds; the program is freed all the same. Other state sets may use a channel
  that the first has destroyed (`seq_ca.c:372`). A late answer to a `pvGet` that
  timed out completes the next. The old event flag mode clears with `!` where `~`
  is meant (`seq_task.c:215`), so it clears nearly every flag of the word.

### Bounds and why they are enough

`MaxRecursion` 2 has a nested and a plain lock. Three threads give an owner, a
waiter and a link writer at once; three records are the least with a chain that
splits into two groups. In `DbEvent` the real numbers are 4 entries for 32
events; the instances keep the relation (a ring is entries times events) and are
small enough to fill, so that replacement at `ringSpace <= EVENTSPERQUE`,
wrapping, placeholders and the second queue all occur. `MaxVal` bounds the
values of the record, `MaxQueues` the memory for queues; two events are the
least with duplicates of one behind entries of the other. `MaxRequests` bounds a
client's puts: two on one channel serialize, two on two channels share the reply
queue. `callbackQueueSize` 2 with three requesters fills the ring and wraps it.

In `DbNotify` three puts are the least with an owner, one that waits and one that
is canceled while it waits; three records in a chain are the least with one
between the first and the last. `MaxDelay` 2 lets timers differ, `MaxLag` 1 lets
time pass in callbacks. In `ScanLists` three records are predecessor, current
and successor. `MaxBlock` 1 bounds calls of `blockProcessCallback` not yet
undone; `AsynBound` is described with the runs. Three blocks in `DbCa` are the old,
the new and one freed. `MaxMissed` bounds messages that are dropped.

Deadlock is checked in `DbLockSafety`, `CallbackQueueOverflow` and `AsynCancel`.
It is off where the system may stop: after a failed assertion
(`DbLockLiveness`), when the bounded values are posted, the requests made, the
puts ended or the client closed (`DbEvent`, `WriteNotify`, `DbNotify`), and when
`ringOverflow` sticks or a program has ended (`Services`); there the liveness
properties, or invariants that say that nobody sleeps on work, take its place.

Symmetry is used only in runs without liveness properties: over threads,
records, lock sets, events and callers that are alike.

Exemptions, each named in its property: puts that `dbCa.c` drops, ports that
refused the connect request while disabled, records that rejoin a scan,
programs whose `seqStop` gave up.

### Fairness

A thread inside a call of `dbLock.c` is scheduled, and a mutex that is released
again and again is its own in the end: strong fairness for each thread's steps.
A thread that has records locked comes to the unlock (`ScanUnlock` at each
depth); no thread has to start a call. In `DbEvent` threads, the poster and the
event task are strongly fair for the same reason, callbacks return, and nothing
forces a subscription, a post or a cancel to begin. In `WriteNotify` processing
of a record completes, the tasks run, and the client's polls see the idle
moments; the 60 s timeout may strike at any time or never. In `DbNotify` devices
answer, the callback task runs what was requested, user callbacks return and
waits end when signalled; nobody has to put or to cancel. The services are
checked for safety: that nobody sleeps on work is an invariant there and needs
no fairness.

## Proofs

Every theorem holds for every value of the constants that satisfies the
assumption of its module (`...Assumption`; TLC evaluates each in a run): any
number of threads, records, lock sets, queues, channels, timers, blocks, and any
bound on the counters. The pattern is the same throughout: an invariant that is
inductive, with a part for each thing the code relies on, one lemma per action
that keeps it, and the property of the run from it. TLC has checked each
inductive invariant before it was proved.

### Record locks (`DbLock_proof`)

* `Invariance`, `TypeCorrect`, `Exclusion`, `HeldSetStays`,
  `LinksInsideLockSets`: `IInv`, types, `MutualExclusion`, `HeldSetFixed`, and
  that linked records share a lock set between link changes.
* `FullInvariance`: `FullInv`, which `DbLockLiveness` checks; `LockSetsAreGroups`:
  lock sets are exactly the groups of linked records (`LockSetsMatchLinks`).
* `Assertions`: no assertion of `dbLock.c` fails but, with `dblsr`, the one on the
  try-lock; `TryLock`: without `dblsr` (`Shell = {}`) that does not either.
* `ImplementsGroups`: `DbLock` implements `RecordGroups` under the refinement
  mapping: initial states map to initial states, each step to a step or a stutter.

`MutualExclusion` is not inductive. It follows from `OwnerInv`: a thread with
records has them in one lock set whose mutex and ownership it has. To keep that
through a step one needs to know that a lock set in the hands of the link writer
has neither owners nor waiters. That is so because `dbLockSetRecordLock` waits
for both counts, so `WaitingCounted` ties `nWaiting` to the threads between the
two sections of the wait, `WaiterInv` says the lock set they wait for is their
record's and still in use, `ListInv` what the RecordLock and free lists hold,
and `WriterInv` where the one link writer is and what it has got hold of.
`LinkInv` says that links lead into the same lock set except those being put or
not yet come to by `dbLockSetSplit`. `CallerInv` keeps calls well formed.
`FullInv` adds what the other properties need: a mutex is with the thread that
locked it (`MutexInv`, for the try-lock), a lock set is no larger than a group
(`GroupInv`, by paths of links: a merge joins two groups by the new link, a split
takes only what is linked), the old link is gone while its records are regrouped
(`UnlinkedInv`), and nesting stays in its bound (`NestingInv`, for the
refinement).

### Event queues (`DbEvent_proof`)

`RingIsInOrder` (`RingInOrder`), `NoCallbackAfter` (`NoCallbackAfterCancel`),
`InOrder` (`DeliveredInOrder`), `FlushesCome` (`FlushComes`), `NothingIsLost`
(`NothingLost`), and `InductiveInvariance` (`IInv`). The proof sees a ring as a row: the slots from
`getix` on, in the order they are read. `nCanceled` and `nDuplicates` are counts
over a row, and each handler puts one entry at its end, takes one from its
front, or turns entries of one subscription into canceled ones. `QuotaCounted`
(the quota of a queue is that of the subscriptions charged to it) is what keeps a
row from overtaking itself; `CallsOwn` gives each block to one thread while it is
added or canceled, without which a post could reach a block that is free;
`InCallback` says the callback that runs holds off a canceller; for `FlushesCome`
`CallerOwns` adds that whoever waits has taken away `user_sub` and all entries of its
block, so that the end of the callback sees that there is somebody to tell; `FullRing` that
the ring is full where a post finds its slot taken; `LastLogInRing` that
`pLastLog` is a slot; `ValuesInOrder` orders what was seen, what is delivered
and the entries, where the overwrite of the last entry is the hard case.
`NothingIsLost` has the hypothesis `OneSubscriber` (one thread subscribes, or
there is one queue): with two that find no room at once the code loses a queue
(`dbEvent.c:388`, under "Other disagreements").

### Put notify (`DbNotify_proof`)

`OwnersAreTrue` (`OwnersTrue`), `WaitsForActiveOnly` (`WaitsForActive`) and
`Invariance` (`IInv`), for any records, forward links and puts. A step of
`DbNotify` calls `dbNotifyAdd` and `dbNotifyCompletion` for one record after the
other, and in between records and puts do not fit each other yet. So the main
part of the invariant, `Agrees`, is a statement about a state `n` of `notify`,
whether the variable has it or a step goes through it, with three sets that say
what is under way: `A`, the records that are active or being processed; `E`, the
puts whose callback will not come again; `F`, the records that are being given
up. Between steps these are `Active`, `Canceled` and none.

* `WaitsTrue` says that a put waits for exactly the records it has, while it is in
  progress; `RestartsTrue` that the puts that wait for a record are on its restart
  list; `PutsTrue` who may have a record; `CallbacksTrue` which puts have a
  callback. `UserTrue` relates the state of a put to what its user is doing.
* Each routine has a lemma on what it does to `Agrees`: `AddKeeps`, `Completes`
  (`dbNotifyCompletion`: the record comes off the list, `TakesOff`, then it is
  given up, or the put ends, `Finishes`, or is requested again, `Requested`),
  `RestartChecked`, `TakesCall`, `Queues`, `Unqueues`, `Begins`, `Ends`.
* A run of any length is an induction over its records: `Recursion` shows that
  the recursive functions of the model exist and what a step of them is,
  `CountedUp` is the induction, by a least counterexample, `AddedKeeps`,
  `CompletedKeeps` and `TakenOutKeeps` carry `Agrees` along, and `Follows` puts
  the way down and the way back up together.
* `RecordStep` ... `CancelStep` are one lemma per group of actions.

That a put waits for active records only rests on the two halves of a run: what
is added on the way down is finished on the way back up, but for the record at
which the run stops, which is active then. `TakenOutKeeps` also shows that
`if(precord->ppn==ppn) restartCheck(...)` at the end of `dbNotifyCancel`
(`dbNotify.c:391`) never applies: a put in progress has no record it does not
wait for.

### Put callbacks (`WriteNotify_proof`)

`QueueIsTrue` (`QueueTrue`), `RequestsAnsweredOnce` (`AnsweredOnce`),
`CodeChecksHold` (`ChecksHold`), `Invariance` (`IInv`). `OneUnderWay` says that a
channel has one put between its start and its place in the reply queue;
`UsersTrue` that one thread is in its user callback; `WaitsTrue` that the client
only waits for a callback that is requested or running, or whose event is set;
`BlocksTrue` and `AtWork` when the put block exists. `RepliesTrue` does the
accounting: a request is owed its reply (`Owed`) until exactly one was sent, by
the event task or by the timeout.

### Callbacks, rings, error log (`Services_proof`)

`CallbackWakeup` (`CallbacksServed`): a callback in the ring was queued by a
requester that is still to signal, unless the task has seen the signal.
`RingIsQueue` (`ImplementsQueue`): the ring of two indices implements
`BoundedQueue`, step by step, from the fact that while one side is between its
accesses the other cannot touch its slot. `FlushIsAnswered` (`FlushAnswered`): a
message that comes after the thread found the buffer empty wakes it again.

### Timers and scan lists (`Services_proof`)

`TimersTypeCorrect`, `CancelWaitsOut` (`WaitsOut`), `SleepIsShort`
(`NeverOversleeps`). The list is sorted and holds the pending timers once;
insertion puts a timer at the place that the number of earlier ones gives. While a
callback runs, `cancelPending` says whether its timer was canceled, and who waits
in a cancel waits for the timer that `pExpireTmr` names.

`ScanListsTypeCorrect`, `ScannedOnce` (`ScansOnce`). `scanList` drops the list's
lock while it processes a record and goes on from `pse`, from `prev` or from
`next`, whichever is still on the list. That this meets each record once follows
from `InOrder`: whichever of `pse` and `prev` is still on the list, the
records already processed are ahead of it and those to be processed behind it
(`Behind`), and those to be processed start at `next` (`From`). `modified` tells
when `pse` may be gone, `ScanLocks` that nobody moves the record that is being
processed. To keep `InOrder`, a deletion and an insertion must leave the order of
the other records as it was (`ListMoves`), and the step must find the right one
of the three (`GoesOnFrom`). It holds as long as no record that the scan had
processed, or was to go on from, has come back (`rejoined`): with such a record
the code does skip, or process twice (under "Other disagreements").

### Asynchronous ports (`Services_proof`)

* `AsynTypeCorrect`: a user is marked as queued exactly if it is in one queue, once.
* `CancelsOutwait` (`CancelOutwaits`), `RequestsTimeOut` (`QueuedTimesOut`).
* `PortAwake` (`PortServes`), `PortRetries` (`ConnectRetried`).

Each is a theorem of `Asyn!Spec`, with any users, requests and blockers, and of the
run's `ServicesSpec`. There is no hypothesis on who queues when: a user may be
queued again while its callback is active. `CallTrue` relates a user's state to the
callbacks that are active: unless two of them overlap, an active callback shows in
the state, a cancel that waits has its mark there or its signal, and what a cancel
found active is still active until it is told. `HurriedTrue` says that a user that
is queued while the timer of its last request is still to be stopped is
remembered, so that stopping it takes nobody else's. `PortServes` is a
statement about a thread that looks at its queues, drops the lock for callbacks,
and sleeps later: `ConnectsSeen` and `ChangeSeen` say that what it found stays
true until it sleeps, or a signal is on its way, or `queueStateChange` sends it
round again. `TryUnderWay` follows the request to connect from the timer
through the queue and the callback back to the timer.

`ServicesTypeCorrect` (`ServicesTypeOK`) collects the types of all seven services.

### State programs (`Sequencer_proof`, `StateSetsAwake` in `Services_proof`)

`StateSetsAreServed` holds for any number of state sets, channels and flags;
`StateSetsAwake` takes it over to the two programs of the run. `WakersTrue` says
who walks through the state sets in `seqWakeup`, so that a change not yet
signalled has somebody who will; `ExitTold` the same of the request to exit;
`ChannelsTrue` and `FirstsKept` that the signal for the first connections and
values is there for a state set that comes late; `PhasesTrue` how far each
thread is when `seqStop` goes on, without which the program could be freed in use.

### CA links (`DbCa_proof`, `Services_proof`)

`CaLinksAreTrue` holds for any set of blocks; `NothingIsFreed`, `CallbackOnce` and
`MonitorIsMade` take it over to the run. `BlockTrue` says that a block is the
link's, or being removed, or going to be cleared, and that nothing is added to one
that is being cleared; `ChannelTrue` what is impossible before the channel
exists, and after; `PutTrue` that a put that was not answered is in one place
only (requested, taken, sent, answered or dropped), and `OwedOf` that its
callback is owed as long; `OrderTrue` that blocks of former links are cleared
before that of the link is connected, so that their callbacks are not taken for
its own: `workList` is in order. `EventTrue` gives each value a buffer,
`WorkSeen` the task its wakeup.

### Only model-checked

That `db_cancel_event` returns is not a property of any run, as it is not true of
several cancellers at once; `FlushComes` is its safety half. Liveness under fairness
and `ENABLED` are out of the prover's reach: `ScanLockReturns`
and `LinkChangeEnds` (`DbLock`), `PostsDelivered` and `CloseEnds`
(`DbEvent`), `RequestAnswered` and `CloseEnds` (`WriteNotify`), `PutEnds` and
`CancelReturns` (`DbNotify`) stay with TLC. Every other property of a passing run
is stated by a theorem.

## Not modelled

Record support, device support, conversions and expression evaluation compute
data and are left to unit tests; they, the portable CA server, the CA client
library, generated parsers, tools and displays are most of the repository's
lines, and have sequential or network behaviour of their own. Not modelled yet
are access security, the task watchdog, the message queue (used by a test only),
the byte ring, the local CA service, server circuits, IOC start and the beam
driver; the `components` of PROJECT.json give the reason for each. In the
modelled parts the following are left out: shortage of memory except for queues,
task priorities, logging, the content of messages and values, access rights,
`asTrapWrite`, callback task restart, destruction of timers, which list a record
goes to and the ring of `scanOnce`, several devices on a port and `lockPort`,
string links, channels that come back with another type, listeners of the error
log, get, put and queued monitors of the sequencer.

## Plan

Models: queued monitors and get/put completion of the sequencer; the task
watchdog and restart of callback tasks; `dbPutNotifyBlocker` of the local CA
service over `DbNotify`; the composition of `DbNotify` with `CallbackQueue`, where
dropped requests matter; channels that come back with another type in `DbCa`;
several devices and `lockPort` in `AsynPort`; the send buffer and `camsgtask.c`
flow control over `DbEvent`; shutdown of the beam driver.
