--------------------------- MODULE WriteNotify_proof ---------------------------
(***************************************************************************)
(* Proofs about the put callbacks of WriteNotify: the reply queue, that    *)
(* each request is answered once, and the checks of the code.              *)
(***************************************************************************)
EXTENDS WriteNotify, QueueLemmas

-----------------------------------------------------------------------------
(* The number of requests *)

\* A client that has not read MaxRequests requests has room for one more on any
\* channel.
LEMMA AskedRoom ==
    ASSUME asked \in [Channels -> 0..MaxRequests], NEW ch \in Channels,
           Cardinality(Asked) < MaxRequests
    PROVE  asked[ch] + 1 \in 0..MaxRequests
<1>. USE WriteNotifyAssumption
<1>1. SUFFICES ASSUME asked[ch] = MaxRequests PROVE FALSE
  BY SMT
<1>2. IsFiniteSet(Requests) /\ Cardinality(Requests) = MaxRequests
  BY FS_Interval, SMT DEF Requests
<1>3. /\ IsFiniteSet({ch}) /\ Cardinality({ch}) = 1
      /\ IsFiniteSet({ch} \X Requests)
      /\ Cardinality({ch} \X Requests) = Cardinality({ch}) * Cardinality(Requests)
  BY <1>2, FS_Singleton, FS_Product
<1>4. Cardinality({ch} \X Requests) = MaxRequests
  BY <1>2, <1>3
<1>5. IsFiniteSet(Channels \X Requests)
  BY <1>2, FS_Product
<1>6. {ch} \X Requests \subseteq Asked /\ Asked \subseteq Channels \X Requests
  BY <1>1 DEF Asked, Requests
<1>7. IsFiniteSet(Asked)
  BY <1>5, <1>6, FS_Subset
<1>8. Cardinality({ch} \X Requests) <= Cardinality(Asked)
  BY <1>6, <1>7, FS_Subset
<1>9. Cardinality(Asked) \in Nat
  BY <1>7, FS_CardinalityType
<1>. QED BY <1>4, <1>8, <1>9

-----------------------------------------------------------------------------
(* Types *)

\* The initial state has the types.
LEMMA TypeInit == Init => TypeOK
<1>1. <<>> \in Seq(Channels)
  BY EmptySeq
<1>. SUFFICES ASSUME Init PROVE TypeOK
  OBVIOUS
<1>2. NotifyTypes
  BY <1>1, WriteNotifyAssumption DEF Init, NotifyTypes
<1>3. PutTypes
  BY DEF Init, PutTypes
<1>4. LaborTypes
  BY DEF Init, LaborTypes
<1>5. HistoryTypes
  BY WriteNotifyAssumption DEF Init, HistoryTypes
<1>6. ClientTypes
  BY DEF Init, ClientTypes
<1>7. UserTypes
  BY DEF Init, UserTypes
<1>8. TaskTypes
  BY DEF Init, TaskTypes
<1>. QED BY <1>2, <1>3, <1>4, <1>5, <1>6, <1>7, <1>8 DEF TypeOK

\* What is on the queue are channels.
LEMMA QueueChannels ==
    ASSUME TypeOK
    PROVE  \A ch \in ToSet(putNotifyQue) : ch \in Channels
  BY LenProperties, ElementOfSeq DEF TypeOK, NotifyTypes, ToSet

\* Dequeued takes a channel that is marked as queued off the queue.
LEMMA Dequeuing ==
    ASSUME QueueTrue, NEW ch \in Channels,
        ch \in ToSet(putNotifyQue) \/ ~onExtraLaborQueue[ch] 
    PROVE  /\ Dequeued(ch) \in Seq(Channels) /\ IsInjective(Dequeued(ch))
           /\ ToSet(Dequeued(ch)) = IF onExtraLaborQueue[ch] THEN ToSet(putNotifyQue) \ {ch}
                                    ELSE ToSet(putNotifyQue)
<1>1. putNotifyQue \in Seq(Channels) /\ IsInjective(putNotifyQue)
  BY DEF QueueTrue, TypeOK, NotifyTypes
<1>2. CASE onExtraLaborQueue[ch]
  <2>1. ch \in ToSet(putNotifyQue) /\ Dequeued(ch) = RemoveFirst(putNotifyQue, ch)
    BY <1>2 DEF Dequeued
  <2>. QED BY <1>1, <1>2, <2>1, Removed
<1>3. CASE ~onExtraLaborQueue[ch]
  BY <1>1, <1>3 DEF Dequeued
<1>. QED BY <1>2, <1>3

\* What is unchanged keeps its types.
LEMMA TypeFrame ==
    ASSUME TypeOK
    PROVE  /\ UNCHANGED notifies => NotifyTypes'
           /\ UNCHANGED puts => PutTypes'
           /\ UNCHANGED <<labor, sems>> => LaborTypes'
           /\ UNCHANGED history => HistoryTypes'
           /\ UNCHANGED client => ClientTypes'
           /\ UNCHANGED users => UserTypes'
           /\ UNCHANGED task => TaskTypes'
<1>1. UNCHANGED notifies => NotifyTypes'
  BY DEF TypeOK, NotifyTypes, notifies
<1>2. UNCHANGED puts => PutTypes'
  BY DEF TypeOK, PutTypes, puts
<1>3. UNCHANGED <<labor, sems>> => LaborTypes'
  BY DEF TypeOK, LaborTypes, labor, sems, labor, sems
<1>4. UNCHANGED history => HistoryTypes'
  BY DEF TypeOK, HistoryTypes, history
<1>5. UNCHANGED client => ClientTypes'
  BY DEF TypeOK, ClientTypes, client
<1>6. UNCHANGED users => UserTypes'
  BY DEF TypeOK, UserTypes, users
<1>7. UNCHANGED task => TaskTypes'
  BY DEF TypeOK, TaskTypes, task
<1>. QED BY <1>1, <1>2, <1>3, <1>4, <1>5, <1>6, <1>7

\* The channel the client's thread is at work on is one of its addrq.
LEMMA Working ==
    ASSUME TypeOK, AtWork, pc \notin {"idle", "flush1", "flush2", "closing", "gone"}
    PROVE  pch \in Channels /\ pch \in open
  BY DEF AtWork, TypeOK, ClientTypes, HistoryTypes

\* A block that expires or is freed is on the queue if it is marked so.
LEMMA Unlinked ==
    ASSUME IInv,
           (pc = "expire" /\ busy[pch]) \/ (pc = "free" /\ pPutNotify[pch] # "null")
    PROVE  /\ pch \in Channels
           /\ Dequeued(pch) \in Seq(Channels) /\ IsInjective(Dequeued(pch))
           /\ ToSet(Dequeued(pch)) = ToSet(putNotifyQue) \ {pch}
<1>1. pch \in Channels
  BY Working DEF IInv, QueueTrue
<1>2. onExtraLaborQueue[pch] <=> pch \in ToSet(putNotifyQue)
  <2>1. CASE pc = "expire" /\ busy[pch]
    BY <1>1, <2>1 DEF IInv, BlocksTrue, QueueTrue
  <2>2. CASE pc = "free" /\ pPutNotify[pch] # "null"
    BY <1>1, <2>2 DEF IInv, QueueTrue
  <2>. QED BY <2>1, <2>2
<1>. QED BY <1>1, <1>2, Dequeuing DEF IInv

\* The head of the queue is a put that is complete and not answered.
LEMMA Taken ==
    ASSUME IInv, putNotifyQue # <<>>
    PROVE  /\ Head(putNotifyQue) \in Channels
           /\ Tail(putNotifyQue) \in Seq(Channels) /\ IsInjective(Tail(putNotifyQue))
           /\ ToSet(Tail(putNotifyQue)) = ToSet(putNotifyQue) \ {Head(putNotifyQue)}
           /\ pPutNotify[Head(putNotifyQue)] = "allocated"
           /\ busy[Head(putNotifyQue)] /\ onExtraLaborQueue[Head(putNotifyQue)]
           /\ msg[Head(putNotifyQue)] \in Requests
<1>1. putNotifyQue \in Seq(Channels) /\ IsInjective(putNotifyQue)
  BY DEF IInv, QueueTrue, TypeOK, NotifyTypes
<1>2. /\ Head(putNotifyQue) \in Channels /\ Head(putNotifyQue) \in ToSet(putNotifyQue)
      /\ Tail(putNotifyQue) \in Seq(Channels) /\ IsInjective(Tail(putNotifyQue))
      /\ ToSet(Tail(putNotifyQue)) = ToSet(putNotifyQue) \ {Head(putNotifyQue)}
  BY <1>1, HeadTaken
<1>3. /\ pPutNotify[Head(putNotifyQue)] = "allocated"
      /\ busy[Head(putNotifyQue)] /\ onExtraLaborQueue[Head(putNotifyQue)]
  BY <1>2 DEF IInv, QueueTrue
<1>4. msg[Head(putNotifyQue)] > 0 /\ msg[Head(putNotifyQue)] \in 0..MaxRequests
  BY <1>2, <1>3 DEF IInv, RepliesTrue, QueueTrue, TypeOK, NotifyTypes
<1>. QED BY <1>2, <1>3, <1>4, WriteNotifyAssumption DEF Requests

\* Whoever queues a put adds one that is allocated, busy and not on the queue.
LEMMA Queued ==
    ASSUME IInv, NEW r \in Runners, upc[r] = "add"
    PROVE  /\ uch[r] \in Channels /\ uch[r] \notin ToSet(putNotifyQue)
           /\ Append(putNotifyQue, uch[r]) \in Seq(Channels)
           /\ IsInjective(Append(putNotifyQue, uch[r]))
           /\ ToSet(Append(putNotifyQue, uch[r])) = ToSet(putNotifyQue) \cup {uch[r]}
           /\ pPutNotify[uch[r]] = "allocated" /\ ~Double(uch[r])
<1>1. uch[r] \in Channels
  <2>1. uch[r] \in Channels \cup {NoChannel}
    BY DEF IInv, QueueTrue, TypeOK, UserTypes
  <2>2. uch[r] # NoChannel
    BY DEF IInv, UsersTrue
  <2>. QED BY <2>1, <2>2
<1>2. UnderWay(uch[r])
  BY DEF UnderWay, Adds
<1>3. /\ pPutNotify[uch[r]] = "allocated"
      /\ busy[uch[r]] /\ ~onExtraLaborQueue[uch[r]]
  BY <1>1, <1>2 DEF IInv, OneUnderWay
<1>4. uch[r] \notin ToSet(putNotifyQue)
  BY <1>1, <1>3 DEF IInv, QueueTrue
<1>5. putNotifyQue \in Seq(Channels) /\ IsInjective(putNotifyQue)
  BY DEF IInv, QueueTrue, TypeOK, NotifyTypes
<1>. QED BY <1>1, <1>3, <1>4, <1>5, Appended DEF Double

\* While a put is busy no reply to its request is on its way.
LEMMA NotOnItsWay ==
    ASSUME TypeOK, RepliesTrue, NEW ch \in Channels, busy[ch]
    PROVE  /\ msg[ch] \in Requests /\ tmsg # <<ch, msg[ch]>>
           /\ replies[ch][msg[ch]] = 0
<1>1. msg[ch] \in Requests
  BY WriteNotifyAssumption DEF TypeOK, NotifyTypes, RepliesTrue, Requests
<1>2. ASSUME tmsg = <<ch, msg[ch]>> PROVE FALSE
  <2>1. tmsg # <<NoChannel, 0>>
    BY <1>2, WriteNotifyAssumption
  <2>2. tpc = "reply" /\ tmsg[1] = ch /\ tmsg[2] = msg[ch]
    BY <1>2, <2>1 DEF RepliesTrue
  <2>3. msg[ch] < msg[ch] \/ ~busy[ch]
    BY <2>2 DEF RepliesTrue
  <2>. QED BY <2>3, <1>1 DEF Requests
<1>3. Owed(ch, msg[ch])
  BY DEF Owed
<1>. QED BY <1>1, <1>2, <1>3 DEF RepliesTrue

LEMMA RepliedTypes ==
    ASSUME HistoryTypes, NEW ch, NEW n, Reply(ch, n)
    PROVE  replies' \in [Channels -> [Requests -> Nat]]
<1>. DEFINE line == [replies[ch] EXCEPT ![n] = replies[ch][n] + 1]
<1>1. replies' = [replies EXCEPT ![ch] = line]
  BY DEF Reply
<1>2. replies \in [Channels -> [Requests -> Nat]]
  BY DEF HistoryTypes
<1>3. ASSUME ch \in Channels
      PROVE  line \in [Requests -> Nat]
  <2>1. CASE n \in Requests
    BY <1>2, <1>3, <2>1
  <2>2. CASE n \notin Requests
    BY <1>2, <1>3, <2>2
  <2>. QED BY <2>1, <2>2
<1>. HIDE DEF line
<1>. QED BY <1>1, <1>2, <1>3

LEMMA CalledTypes ==
    ASSUME UserTypes, NEW r, NEW ch \in Channels, NEW user \in BOOLEAN, CallBack(r, ch, user)
    PROVE  UserTypes'
BY DEF UserTypes, CallBack

\* The end of callUser: the put may be over.
LEMMA EndTypes ==
    ASSUME PutTypes, NEW r, UserEnd(r)
    PROVE  /\ state' \in [Channels -> {"none", "PutInProgress", "UserCallbackRequested",
                                      "UserCallbackActive"}]
           /\ cancelWait' \in [Channels -> BOOLEAN]
           /\ userCallbackWait' \in [Channels -> BOOLEAN]
<1>1. \E ch \in {uch[r]} :
        \/ UNCHANGED <<state, cancelWait, userCallbackWait>>
        \/ /\ cancelWait' = [cancelWait EXCEPT ![ch] = FALSE]
           /\ userCallbackWait' = [userCallbackWait EXCEPT ![ch] = FALSE]
           /\ state' = state \/ state' = [state EXCEPT ![ch] = "none"]
  <2>1. callUser[r] => state' = [state EXCEPT ![uch[r]] =
            IF cancelWait[uch[r]] \/ userCallbackWait[uch[r]] THEN state[uch[r]] ELSE "none"]
    BY DEF UserEnd
  <2>2. [state EXCEPT ![uch[r]] = state[uch[r]]] = state
    BY DEF PutTypes
  <2>3. callUser[r] => /\ cancelWait' = [cancelWait EXCEPT ![uch[r]] = FALSE]
                       /\ userCallbackWait' = [userCallbackWait EXCEPT ![uch[r]] = FALSE]
    BY DEF UserEnd
  <2>4. ~callUser[r] => UNCHANGED <<state, cancelWait, userCallbackWait>>
    BY DEF UserEnd
  <2>. QED BY <2>1, <2>2, <2>3, <2>4
<1>. QED BY <1>1 DEF PutTypes

\* Each step keeps the types; a write notify request finds room for its number.
LEMMA TypeStep == IInv /\ [Next]_vars => TypeOK'
<1>. SUFFICES ASSUME IInv, [Next]_vars PROVE TypeOK'
  OBVIOUS
<1>0. TypeOK
  BY DEF IInv, QueueTrue
<1>w. pc \notin {"idle", "flush1", "flush2", "closing", "gone"} => pch \in Channels
  BY <1>0, Working DEF IInv
<1>u. ASSUME NEW r \in Runners, upc[r] # "none"
      PROVE  uch[r] \in Channels
  <2>1. uch[r] \in Channels \cup {NoChannel}
    BY <1>0 DEF TypeOK, UserTypes
  <2>2. uch[r] # NoChannel
    BY <1>u DEF IInv, UsersTrue
  <2>. QED BY <2>1, <2>2
<1>t. ASSUME tpc = "reply"
      PROVE  tmsg \in Channels \X Requests
  <2>1. tmsg \in (Channels \X Requests) \cup {<<NoChannel, 0>>}
    BY <1>0 DEF TypeOK, TaskTypes
  <2>2. tmsg # <<NoChannel, 0>>
    BY <1>t DEF IInv, RepliesTrue
  <2>. QED BY <2>1, <2>2
<1>. USE <1>0, TypeFrame, WriteNotifyAssumption
<1>1. CASE WriteNotify
  <2>1. PICK ch \in open : 
         /\ Cardinality(Asked) < MaxRequests
         /\ asked' = [asked EXCEPT ![ch] = @ + 1]
         /\ pch' = ch
         /\ pPutNotify' = [pPutNotify EXCEPT ![ch] = "allocated"]
    BY <1>1 DEF WriteNotify
  <2>2. asked[ch] + 1 \in 0..MaxRequests /\ ch \in Channels
    BY <2>1, AskedRoom DEF TypeOK, HistoryTypes
  <2>3. NotifyTypes'
    BY <1>1, <2>1, <2>2 DEF WriteNotify, TypeOK, NotifyTypes
  <2>4. HistoryTypes'
    BY <1>1, <2>1, <2>2 DEF WriteNotify, TypeOK, HistoryTypes
  <2>5. ClientTypes'
    BY <1>1, <2>1, <2>2 DEF WriteNotify, TypeOK, ClientTypes
  <2>. QED BY <1>1, <2>3, <2>4, <2>5 DEF WriteNotify, TypeOK
<1>2. CASE ClearChannel
  <2>1. ClientTypes'
    BY <1>2 DEF ClearChannel, TypeOK, ClientTypes, HistoryTypes
  <2>. QED BY <1>2, <2>1 DEF ClearChannel, TypeOK
<1>3. CASE Disconnect
  <2>1. LaborTypes'
    BY <1>3 DEF Disconnect, TypeOK, LaborTypes, labor, sems
  <2>2. ClientTypes'
    BY <1>3 DEF Disconnect, TypeOK, ClientTypes
  <2>. QED BY <1>3, <2>1, <2>2 DEF Disconnect, TypeOK
<1>4. CASE BlockTimeout
  <2>1. ClientTypes'
    BY <1>4 DEF BlockTimeout, TypeOK, ClientTypes
  <2>. QED BY <1>4, <2>1 DEF BlockTimeout, TypeOK
<1>5. CASE Serialize
  <2>1. ClientTypes'
    BY <1>5 DEF Serialize, TypeOK, ClientTypes
  <2>. QED BY <1>5, <2>1 DEF Serialize, TypeOK
<1>6. CASE BlockWake
  <2>1. LaborTypes'
    BY <1>6 DEF BlockWake, TypeOK, LaborTypes, labor, sems
  <2>2. ClientTypes'
    BY <1>6 DEF BlockWake, TypeOK, ClientTypes
  <2>. QED BY <1>6, <2>1, <2>2 DEF BlockWake, TypeOK
<1>7. CASE Expire
  <2>1. NotifyTypes'
    BY <1>7, <1>w, Unlinked DEF Expire, Expires, TypeOK, NotifyTypes
  <2>2. HistoryTypes'
    BY <1>7 DEF Expire, Reply, TypeOK, HistoryTypes
  <2>3. ClientTypes'
    BY <1>7 DEF Expire, Reply, TypeOK, ClientTypes
  <2>. QED BY <1>7, <2>1, <2>2, <2>3 DEF Expire, TypeOK
<1>8. CASE Start
  <2>1. NotifyTypes'
    BY <1>8, <1>w DEF Start, Kept, TypeOK, NotifyTypes, HistoryTypes
  <2>2. HistoryTypes'
    <3>1. UNCHANGED <<asked, open>>
          /\ (replies' = replies \/ Reply(pch, asked[pch]))
      BY <1>8 DEF Start
    <3>2. HistoryTypes
      BY DEF TypeOK
    <3>3. replies' \in [Channels -> [Requests -> Nat]]
      BY <3>1, <3>2, RepliedTypes DEF HistoryTypes
    <3>. QED BY <3>1, <3>2, <3>3 DEF HistoryTypes
  <2>3. ClientTypes'
    BY <1>8 DEF Start, Kept, Reply, TypeOK, ClientTypes
  <2>. QED BY <1>8, <2>1, <2>2, <2>3 DEF Start, TypeOK
<1>9. CASE PutDisabled
  <2>1. ClientTypes'
    BY <1>9 DEF PutDisabled, CallBack, Runners, TypeOK, ClientTypes
  <2>2. UserTypes'
    BY <1>9, <1>w DEF PutDisabled, CallBack, Runners, TypeOK, UserTypes
  <2>. QED BY <1>9, <2>1, <2>2 DEF PutDisabled, TypeOK
<1>10. CASE Put
  <2>1. PutTypes'
    BY <1>10 DEF Put, PutCommon, CallBack, Runners, TypeOK, PutTypes
  <2>2. ClientTypes'
    BY <1>10 DEF Put, PutCommon, CallBack, Runners, TypeOK, ClientTypes
  <2>3. UserTypes'
    <3>1. UNCHANGED users \/ CallBack("client", pch, TRUE)
      BY <1>10 DEF Put, PutCommon
    <3>2. UserTypes /\ pch \in Channels
      BY <1>10, <1>w DEF Put, TypeOK
    <3>. QED BY <3>1, <3>2, CalledTypes DEF UserTypes, users
  <2>. QED BY <1>10, <2>1, <2>2, <2>3 DEF Put, TypeOK
<1>11. CASE PutWait
  <2>1. PutTypes'
    BY <1>11 DEF PutWait, TypeOK, PutTypes
  <2>2. ClientTypes'
    BY <1>11 DEF PutWait, TypeOK, ClientTypes
  <2>. QED BY <1>11, <2>1, <2>2 DEF PutWait, TypeOK
<1>12. CASE PutWaited
  <2>1. PutTypes'
    BY <1>12 DEF PutWaited, PutCommon, CallBack, Runners, TypeOK, PutTypes
  <2>2. ClientTypes'
    BY <1>12 DEF PutWaited, PutCommon, CallBack, Runners, TypeOK, ClientTypes
  <2>3. UserTypes'
    <3>1. UNCHANGED users \/ CallBack("client", pch, TRUE)
      BY <1>12 DEF PutWaited, PutCommon
    <3>2. UserTypes /\ pch \in Channels
      BY <1>12, <1>w DEF PutWaited, TypeOK
    <3>. QED BY <3>1, <3>2, CalledTypes DEF UserTypes, users
  <2>. QED BY <1>12, <2>1, <2>2, <2>3 DEF PutWaited, TypeOK
<1>13. CASE NotifyCancel
  <2>1. PutTypes'
    BY <1>13 DEF NotifyCancel, TypeOK, PutTypes
  <2>2. ClientTypes'
    BY <1>13 DEF NotifyCancel, TypeOK, ClientTypes
  <2>. QED BY <1>13, <2>1, <2>2 DEF NotifyCancel, TypeOK
<1>14. CASE NotifyCancelled
  <2>1. PutTypes'
    BY <1>14 DEF NotifyCancelled, TypeOK, PutTypes
  <2>2. ClientTypes'
    BY <1>14 DEF NotifyCancelled, TypeOK, ClientTypes
  <2>. QED BY <1>14, <2>1, <2>2 DEF NotifyCancelled, TypeOK
<1>15. CASE FlushClosing
  <2>1. ClientTypes'
    BY <1>15 DEF FlushClosing, Flush, TypeOK, ClientTypes
  <2>. QED BY <1>15, <2>1 DEF FlushClosing, Flush, TypeOK
<1>16. CASE CloseChannel
  <2>1. ClientTypes'
    BY <1>16 DEF CloseChannel, TypeOK, ClientTypes, HistoryTypes
  <2>. QED BY <1>16, <2>1 DEF CloseChannel, TypeOK
<1>17. CASE Release
  <2>1. ClientTypes'
    BY <1>17 DEF Release, TypeOK, ClientTypes
  <2>. QED BY <1>17, <2>1 DEF Release, TypeOK
<1>18. CASE Free
  <2>1. NotifyTypes'
    BY <1>18, <1>w, Unlinked DEF Free, TypeOK, NotifyTypes
  <2>2. HistoryTypes'
    BY <1>18 DEF Free, TypeOK, HistoryTypes
  <2>3. ClientTypes'
    BY <1>18 DEF Free, TypeOK, ClientTypes
  <2>. QED BY <1>18, <2>1, <2>2, <2>3 DEF Free, TypeOK
<1>19. CASE Cleared
  <2>1. HistoryTypes'
    BY <1>19 DEF Cleared, Flush, TypeOK, HistoryTypes
  <2>2. ClientTypes'
    BY <1>19 DEF Cleared, Flush, TypeOK, ClientTypes
  <2>. QED BY <1>19, <2>1, <2>2 DEF Cleared, Flush, TypeOK
<1>20. CASE Close
  <2>1. LaborTypes'
    BY <1>20 DEF Close, TypeOK, LaborTypes, labor, sems
  <2>2. ClientTypes'
    BY <1>20 DEF Close, TypeOK, ClientTypes
  <2>. QED BY <1>20, <2>1, <2>2 DEF Close, TypeOK
<1>21. ASSUME NEW ch \in Channels, Completion(ch) PROVE TypeOK'
  <2>1. PutTypes'
    BY <1>21 DEF Completion, TypeOK, PutTypes
  <2>. QED BY <1>21, <2>1 DEF Completion, TypeOK
<1>22. ASSUME NEW ch \in Channels, notifyCallback(ch) PROVE TypeOK'
  <2>1. PutTypes'
    BY <1>22 DEF notifyCallback, CallBack, Runners, TypeOK, PutTypes
  <2>2. UserTypes'
    BY <1>22 DEF notifyCallback, CallBack, Runners, TypeOK, UserTypes
  <2>. QED BY <1>22, <2>1, <2>2 DEF notifyCallback, TypeOK
<1>23. ASSUME NEW r \in Runners, UserAdd(r) PROVE TypeOK'
  <2>1. NotifyTypes'
    BY <1>23, Queued DEF UserAdd, TypeOK, NotifyTypes
  <2>2. UserTypes'
    BY <1>23 DEF UserAdd, Runners, TypeOK, UserTypes
  <2>. QED BY <1>23, <2>1, <2>2 DEF UserAdd, TypeOK
<1>24. ASSUME NEW r \in Runners, UserPost(r) PROVE TypeOK'
  <2>1. UserTypes'
    BY <1>24 DEF UserPost, Runners, TypeOK, UserTypes
  <2>. QED BY <1>24, <2>1 DEF UserPost, TypeOK
<1>25. ASSUME NEW r \in Runners, UserLock(r) PROVE TypeOK'
  <2>1. LaborTypes'
    BY <1>25 DEF UserLock, Runners, TypeOK, LaborTypes, labor, sems
  <2>2. UserTypes'
    BY <1>25 DEF UserLock, Runners, TypeOK, UserTypes
  <2>. QED BY <1>25, <2>1, <2>2 DEF UserLock, TypeOK
<1>26. ASSUME NEW r \in Runners, UserSignal(r) PROVE TypeOK'
  <2>1. LaborTypes'
    BY <1>26 DEF UserSignal, Runners, TypeOK, LaborTypes, labor, sems
  <2>2. UserTypes'
    BY <1>26 DEF UserSignal, Runners, TypeOK, UserTypes
  <2>. QED BY <1>26, <2>1, <2>2 DEF UserSignal, TypeOK
<1>27. ASSUME NEW r \in Runners, UserEnd(r) PROVE TypeOK'
  <2>1. PutTypes'
    <3>1. /\ state' \in [Channels -> {"none", "PutInProgress", "UserCallbackRequested",
                                      "UserCallbackActive"}]
          /\ cancelWait' \in [Channels -> BOOLEAN] /\ userCallbackWait' \in [Channels -> BOOLEAN]
      BY <1>27, EndTypes DEF TypeOK
    <3>2. cancelEvent' \in [Channels -> BOOLEAN] /\ userCallbackEvent' \in [Channels -> BOOLEAN]
      BY <1>27 DEF UserEnd, Runners, TypeOK, PutTypes, UserTypes
    <3>3. requested' \in [Channels -> BOOLEAN]
      BY <1>27 DEF UserEnd, TypeOK, PutTypes
    <3>. QED BY <3>1, <3>2, <3>3 DEF PutTypes
  <2>2. ClientTypes'
    BY <1>27 DEF UserEnd, Runners, TypeOK, ClientTypes
  <2>3. UserTypes'
    BY <1>27 DEF UserEnd, Runners, TypeOK, UserTypes
  <2>. QED BY <1>27, <2>1, <2>2, <2>3 DEF UserEnd, TypeOK
<1>28. CASE PostEvent
  <2>1. LaborTypes'
    BY <1>28 DEF PostEvent, TypeOK, LaborTypes, labor, sems
  <2>. QED BY <1>28, <2>1 DEF PostEvent, TypeOK
<1>29. CASE TaskWake
  <2>1. LaborTypes'
    BY <1>29 DEF TaskWake, Step, TypeOK, LaborTypes, labor, sems
  <2>2. TaskTypes'
    BY <1>29 DEF TaskWake, Step, TypeOK, TaskTypes
  <2>. QED BY <1>29, <2>1, <2>2 DEF TaskWake, Step, TypeOK
<1>30. CASE TaskBusy
  <2>1. LaborTypes'
    BY <1>30 DEF TaskBusy, Step, TypeOK, LaborTypes, labor, sems
  <2>2. TaskTypes'
    BY <1>30 DEF TaskBusy, Step, TypeOK, TaskTypes
  <2>. QED BY <1>30, <2>1, <2>2 DEF TaskBusy, Step, TypeOK
<1>31. CASE TaskCheck
  <2>1. TaskTypes'
    BY <1>31 DEF TaskCheck, Step, HasLabor, TypeOK, TaskTypes
  <2>. QED BY <1>31, <2>1 DEF TaskCheck, Step, TypeOK
<1>32. CASE TaskTake
  <2>1. LaborTypes'
    BY <1>32 DEF TaskTake, Step, HasLabor, TypeOK, LaborTypes, labor, sems
  <2>2. TaskTypes'
    BY <1>32 DEF TaskTake, Step, HasLabor, TypeOK, TaskTypes
  <2>. QED BY <1>32, <2>1, <2>2 DEF TaskTake, Step, TypeOK
<1>33. CASE TaskUnbusy
  <2>1. LaborTypes'
    BY <1>33 DEF TaskUnbusy, Step, TypeOK, LaborTypes, labor, sems
  <2>2. TaskTypes'
    BY <1>33 DEF TaskUnbusy, Step, TypeOK, TaskTypes
  <2>. QED BY <1>33, <2>1, <2>2 DEF TaskUnbusy, Step, TypeOK
<1>34. CASE TaskAgain
  <2>1. TaskTypes'
    BY <1>34 DEF TaskAgain, Step, HasLabor, TypeOK, TaskTypes
  <2>. QED BY <1>34, <2>1 DEF TaskAgain, Step, TypeOK
<1>35. CASE TaskClear
  <2>1. LaborTypes'
    BY <1>35 DEF TaskClear, Step, TypeOK, LaborTypes, labor, sems
  <2>2. TaskTypes'
    BY <1>35 DEF TaskClear, Step, TypeOK, TaskTypes
  <2>. QED BY <1>35, <2>1, <2>2 DEF TaskClear, Step, TypeOK
<1>36. CASE TaskCall
  <2>1. TaskTypes'
    BY <1>36 DEF TaskCall, Step, TypeOK, TaskTypes
  <2>. QED BY <1>36, <2>1 DEF TaskCall, Step, TypeOK
<1>37. CASE ReplyTake
  <2>1. NotifyTypes'
    BY <1>37, Taken DEF ReplyTake, Step, TypeOK, NotifyTypes
  <2>2. TaskTypes'
    BY <1>37, Taken DEF ReplyTake, Step, TypeOK, TaskTypes
  <2>. QED BY <1>37, <2>1, <2>2 DEF ReplyTake, Step, TypeOK
<1>38. CASE ReplySend
  <2>1. HistoryTypes'
    BY <1>38, <1>t DEF ReplySend, Reply, Step, TypeOK, HistoryTypes
  <2>2. TaskTypes'
    BY <1>38 DEF ReplySend, Reply, Step, TypeOK, TaskTypes
  <2>. QED BY <1>38, <2>1, <2>2 DEF ReplySend, Step, TypeOK
<1>39. CASE ReplyEnd
  <2>1. LaborTypes'
    BY <1>39 DEF ReplyEnd, Step, TypeOK, LaborTypes, labor, sems
  <2>2. TaskTypes'
    BY <1>39 DEF ReplyEnd, Step, IInv, RepliesTrue, TypeOK, TaskTypes
  <2>. QED BY <1>39, <2>1, <2>2 DEF ReplyEnd, Step, TypeOK
<1>40. CASE TaskEvents
  <2>1. TaskTypes'
    BY <1>40 DEF TaskEvents, Step, TypeOK, TaskTypes
  <2>. QED BY <1>40, <2>1 DEF TaskEvents, Step, TypeOK
<1>41. CASE UNCHANGED vars
  BY <1>41 DEF vars, TypeOK
<1>. QED BY <1>1, <1>2, <1>3, <1>4, <1>5, <1>6, <1>7, <1>8, <1>9, <1>10, <1>11, <1>12,
    <1>13, <1>14, <1>15, <1>16, <1>17, <1>18, <1>19, <1>20, <1>21, <1>22, <1>23, <1>24,
    <1>25, <1>26, <1>27, <1>28, <1>29, <1>30, <1>31, <1>32, <1>33, <1>34, <1>35, <1>36,
    <1>37, <1>38, <1>39, <1>40, <1>41
    DEF Next, ClientCall, ClientNext, UserNext, CallbackNext, TaskNext

\* What a step may start from.
LEMMA Known ==
    ASSUME IInv
    PROVE  /\ TypeOK /\ QueueTrue /\ AtWork /\ BlocksTrue /\ UsersTrue /\ WaitsTrue
           /\ OneUnderWay /\ RepliesTrue
           /\ pc \notin {"idle", "flush1", "flush2", "closing", "gone"} =>
                pch \in Channels /\ pch \in open
           /\ NoChannel \notin Channels
           /\ \A c \in ToSet(putNotifyQue) : c \in Channels
  BY Working, QueueChannels, WriteNotifyAssumption DEF IInv, QueueTrue

\* The client waits while the last put of the channel is busy, or for 60 seconds.
LEMMA WaitingStep ==
    ASSUME IInv, TypeOK', Serialize \/ BlockWake \/ BlockTimeout
    PROVE  IInv'
<1>1. QueueTrue'
  BY Known DEF Serialize, MustBlock, BlockWake, BlockTimeout, QueueTrue, TypeOK,
      NotifyTypes,
      notifies, client
<1>2. AtWork'
  BY Known DEF Serialize, MustBlock, BlockWake, BlockTimeout, AtWork, TypeOK,
      ClientTypes, HistoryTypes,
      history, client
<1>3. BlocksTrue'
  BY Known DEF Serialize, MustBlock, BlockWake, BlockTimeout, BlocksTrue, TypeOK,
      NotifyTypes, ClientTypes,
      notifies, history, client
<1>4. UsersTrue'
  BY Known DEF Serialize, MustBlock, BlockWake, BlockTimeout, UsersTrue, CallsUser, Adds,
      Runners, TypeOK, PutTypes, ClientTypes, UserTypes,
      puts, client, users
<1>5. WaitsTrue'
  BY Known DEF Serialize, MustBlock, BlockWake, BlockTimeout, WaitsTrue, CallsUser,
      Runners, TypeOK, PutTypes, ClientTypes, UserTypes,
      puts, client, users
<1>6. OneUnderWay'
  BY Known DEF Serialize, MustBlock, BlockWake, BlockTimeout, OneUnderWay, UnderWay,
      Adds, Runners, TypeOK, NotifyTypes, PutTypes, ClientTypes, UserTypes,
      notifies, puts, client, users
<1>7. RepliesTrue'
  BY Known DEF Serialize, MustBlock, BlockWake, BlockTimeout, RepliesTrue, ToStart, Owed,
      TypeOK, NotifyTypes, HistoryTypes, ClientTypes, TaskTypes,
      notifies, history, client, task
<1>. QED BY <1>1, <1>2, <1>3, <1>4, <1>5, <1>6, <1>7 DEF IInv

\* A channel to be cleared is chosen or taken off addrq, or the client goes away.
LEMMA LeavingStep ==
    ASSUME IInv, TypeOK',
        ClearChannel \/ Disconnect \/ FlushClosing \/ CloseChannel \/ Cleared \/ Close
    PROVE  IInv'
<1>1. QueueTrue'
  BY Known DEF ClearChannel, Disconnect, FlushClosing, CloseChannel, Cleared, Close,
      Flush, QueueTrue, TypeOK, NotifyTypes,
      notifies, client
<1>2. AtWork'
  BY Known DEF ClearChannel, Disconnect, FlushClosing, CloseChannel, Cleared, Close,
      Flush, AtWork, TypeOK, ClientTypes, HistoryTypes,
      history, client
<1>3. BlocksTrue'
  BY Known DEF ClearChannel, Disconnect, FlushClosing, CloseChannel, Cleared, Close,
      Flush, BlocksTrue, TypeOK, NotifyTypes, ClientTypes,
      notifies, history, client
<1>4. UsersTrue'
  BY Known DEF ClearChannel, Disconnect, FlushClosing, CloseChannel, Cleared, Close,
      Flush, UsersTrue, CallsUser, Adds, Runners, TypeOK, PutTypes, ClientTypes, UserTypes,
      puts, client, users
<1>5. WaitsTrue'
  BY Known DEF ClearChannel, Disconnect, FlushClosing, CloseChannel, Cleared, Close,
      Flush, WaitsTrue, CallsUser, Runners, TypeOK, PutTypes, ClientTypes, UserTypes,
      puts, client, users
<1>6. OneUnderWay'
  BY Known DEF ClearChannel, Disconnect, FlushClosing, CloseChannel, Cleared, Close,
      Flush, OneUnderWay, UnderWay, Adds, Runners, TypeOK, NotifyTypes, PutTypes,
      ClientTypes, UserTypes,
      notifies, puts, client, users
<1>7. RepliesTrue'
  <2>1. /\ UNCHANGED <<asked, msg, busy, replies, tpc, tmsg, ret>>
        /\ \A ch \in Channels : ToStart(ch)' = ToStart(ch)
    BY Known DEF ClearChannel, Disconnect, FlushClosing, CloseChannel, Cleared, Close,
        Flush, ToStart, TypeOK, ClientTypes, notifies, history, task
  <2>2. \A ch \in Channels : \A n \in Requests : Owed(ch, n)' = Owed(ch, n)
    BY <2>1 DEF Owed
  <2>3. RepliesTrue
    BY DEF IInv
  <2>. QED BY <2>1, <2>2, <2>3 DEF RepliesTrue
<1>. QED BY <1>1, <1>2, <1>3, <1>4, <1>5, <1>6, <1>7 DEF IInv

-----------------------------------------------------------------------------
(* Each step keeps the inductive invariant *)

\* A request is read: its put is not started, its channel's block is allocated.
LEMMA WriteNotifyStep ==
    ASSUME IInv, TypeOK', WriteNotify
    PROVE  IInv'
<1>1. QueueTrue'
  <2>1. PICK ch \in open :
            /\ pch' = ch
            /\ asked' = [asked EXCEPT ![ch] = @ + 1]
            /\ pPutNotify' = [pPutNotify EXCEPT ![ch] = "allocated"]
            /\ pc' = IF pPutNotify[ch] = "null" THEN "start" ELSE "serialize"
    BY DEF WriteNotify
  <2>2. UNCHANGED <<putNotifyQue, busy, onExtraLaborQueue>>
    BY DEF WriteNotify
  <2>3. /\ ch \in Channels /\ pPutNotify[ch] # "freed"
        /\ pPutNotify[ch] = "null" => ~busy[ch] /\ ch \notin ToSet(putNotifyQue)
    BY Known, <2>1 DEF WriteNotify, BlocksTrue, QueueTrue, TypeOK, HistoryTypes
  <2>4. pPutNotify \in [Channels -> {"null", "allocated", "freed"}]
    BY Known DEF TypeOK, NotifyTypes
  <2>5. \A c \in ToSet(putNotifyQue') : pPutNotify'[c] = "allocated"
    BY Known, <2>1, <2>2, <2>4 DEF QueueTrue
  <2>6. \A c \in Channels : pPutNotify'[c] = "allocated" =>
            (c \in ToSet(putNotifyQue') <=> busy'[c] /\ onExtraLaborQueue'[c])
    BY Known, <2>1, <2>2, <2>3, <2>4 DEF QueueTrue
  <2>. QED BY Known, <2>1, <2>2, <2>5, <2>6 DEF QueueTrue
<1>2. AtWork'
  BY Known DEF WriteNotify, AtWork, TypeOK, ClientTypes, HistoryTypes,
      history, client
<1>3. BlocksTrue'
  BY Known DEF WriteNotify, BlocksTrue, TypeOK, NotifyTypes, ClientTypes,
      notifies, history, client
<1>4. UsersTrue'
  BY Known DEF WriteNotify, UsersTrue, CallsUser, Adds, Runners, TypeOK, PutTypes,
      ClientTypes, UserTypes,
      puts, client, users
<1>5. WaitsTrue'
  BY Known DEF WriteNotify, WaitsTrue, CallsUser, Runners, TypeOK, PutTypes, ClientTypes,
      UserTypes,
      puts, client, users
<1>6. OneUnderWay'
  <2>1. \A c \in Channels : UnderWay(c)' =>
            (pPutNotify[c] = "allocated" /\ busy[c] /\ ~onExtraLaborQueue[c])'
    <3>1. PICK ch \in open : pPutNotify' = [pPutNotify EXCEPT ![ch] = "allocated"]
      BY DEF WriteNotify
    <3>2. UNCHANGED <<busy, onExtraLaborQueue, state, requested, upc, uch>>
      BY DEF WriteNotify, puts, users
    <3>3. \A c \in Channels : UnderWay(c)' <=> UnderWay(c)
      BY <3>2 DEF UnderWay, Adds
    <3>. QED BY Known, <3>1, <3>2, <3>3 DEF OneUnderWay, TypeOK, NotifyTypes
  <2>2. \A c \in Channels : onExtraLaborQueue'[c] =>
            busy'[c] \/ (pc' \in {"serialize", "start"} /\ pch' = c)
    BY Known DEF WriteNotify, OneUnderWay, UnderWay, Adds, Runners, TypeOK, NotifyTypes,
        PutTypes, ClientTypes, UserTypes,
        notifies, puts, client, users
  <2>3. \A q \in Runners : upc'[q] = "add" =>
            state'[uch'[q]] \in {"none", "UserCallbackActive"}
    BY Known DEF WriteNotify, OneUnderWay, UnderWay, Adds, Runners, TypeOK, NotifyTypes,
        PutTypes, ClientTypes, UserTypes,
        notifies, puts, client, users
  <2>4. pc' = "start" => ~busy'[pch']
    <3>1. PICK ch \in open :
            pch' = ch /\ pc' = IF pPutNotify[ch] = "null" THEN "start" ELSE "serialize"
      BY DEF WriteNotify
    <3>2. UNCHANGED busy /\ ch \in Channels
      BY Known DEF WriteNotify, TypeOK, HistoryTypes
    <3>. QED BY Known, <3>1, <3>2 DEF BlocksTrue
  <2>5. pc' \in {"expire", "free"} => ~UnderWay(pch)'
    BY Known DEF WriteNotify, OneUnderWay, UnderWay, Adds, Runners, TypeOK, NotifyTypes,
        PutTypes, ClientTypes, UserTypes,
        notifies, puts, client, users
  <2>6. pc' \in {"put", "putwait"} =>
            busy'[pch'] /\ ~onExtraLaborQueue'[pch'] /\ ~UnderWay(pch)'
    BY Known DEF WriteNotify, OneUnderWay, UnderWay, Adds, Runners, TypeOK, NotifyTypes,
        PutTypes, ClientTypes, UserTypes,
        notifies, puts, client, users
  <2>. QED BY <2>1, <2>2, <2>3, <2>4, <2>5, <2>6 DEF OneUnderWay
<1>7. RepliesTrue'
  BY Known DEF WriteNotify, RepliesTrue, ToStart, Owed, TypeOK, NotifyTypes,
      HistoryTypes, ClientTypes, TaskTypes,
      notifies, history, client, task
<1>. QED BY <1>1, <1>2, <1>3, <1>4, <1>5, <1>6, <1>7 DEF IInv

\* A block is released: a put under way is cancelled before.
LEMMA ReleaseStep ==
    ASSUME IInv, TypeOK', Release
    PROVE  IInv'
<1>1. QueueTrue'
  <2>1. UNCHANGED <<putNotifyQue, busy, onExtraLaborQueue, pPutNotify, pch>>
    BY DEF Release, notifies
  <2>2. pc' = "free" => ~busy[pch] /\ ~onExtraLaborQueue[pch]
    BY Known DEF Release, OneUnderWay
  <2>. QED BY Known, <2>1, <2>2 DEF QueueTrue
<1>2. AtWork'
  BY Known DEF Release, AtWork, TypeOK, ClientTypes, HistoryTypes,
      history, client
<1>3. BlocksTrue'
  BY Known DEF Release, BlocksTrue, TypeOK, NotifyTypes, ClientTypes,
      notifies, history, client
<1>4. UsersTrue'
  BY Known DEF Release, UsersTrue, CallsUser, Adds, Runners, TypeOK, PutTypes,
      ClientTypes, UserTypes,
      puts, client, users
<1>5. WaitsTrue'
  BY Known DEF Release, WaitsTrue, CallsUser, Runners, TypeOK, PutTypes, ClientTypes,
      UserTypes,
      puts, client, users
<1>6. OneUnderWay'
  BY Known DEF Release, OneUnderWay, UnderWay, Adds, Runners, TypeOK, NotifyTypes,
      PutTypes, ClientTypes, UserTypes,
      notifies, puts, client, users
<1>7. RepliesTrue'
  BY Known DEF Release, RepliesTrue, ToStart, Owed, TypeOK, NotifyTypes, HistoryTypes,
      ClientTypes, TaskTypes,
      notifies, history, client, task
<1>. QED BY <1>1, <1>2, <1>3, <1>4, <1>5, <1>6, <1>7 DEF IInv

\* A put that has timed out is answered and taken off the queue.
LEMMA ExpireStep ==
    ASSUME IInv, TypeOK', Expire
    PROVE  IInv'
<1>t. tpc = "reply" => tmsg \in Channels \X Requests
  BY Known DEF RepliesTrue, TypeOK, TaskTypes
<1>1. QueueTrue'
  <2>1. pc' = "serialize" /\ UNCHANGED <<pPutNotify, onExtraLaborQueue>>
    BY DEF Expire
  <2>2. CASE ~busy[pch]
    <3>1. UNCHANGED <<putNotifyQue, busy>>
      BY <2>2 DEF Expire, Expires
    <3>. QED BY Known, <2>1, <3>1 DEF QueueTrue
  <2>3. CASE busy[pch]
    <3>1. putNotifyQue' = Dequeued(pch) /\ busy' = [busy EXCEPT ![pch] = FALSE]
      BY <2>3 DEF Expire, Expires
    <3>2. /\ IsInjective(putNotifyQue')
          /\ ToSet(putNotifyQue') = ToSet(putNotifyQue) \ {pch} /\ pch \in Channels
      BY <2>3, <3>1, Unlinked DEF Expire
    <3>3. \A c \in Channels : busy'[c] <=> busy[c] /\ c # pch
      BY Known, <3>1, <3>2 DEF TypeOK, NotifyTypes
    <3>. QED BY Known, <2>1, <3>2, <3>3 DEF QueueTrue
  <2>. QED BY <2>2, <2>3
<1>2. AtWork'
  BY Known DEF Expire, Expires, Reply, AtWork, TypeOK, ClientTypes, HistoryTypes,
      history, client
<1>3. BlocksTrue'
  BY Known DEF Expire, Expires, Reply, BlocksTrue, TypeOK, NotifyTypes, ClientTypes,
      notifies, history, client
<1>4. UsersTrue'
  BY Known DEF Expire, Expires, Reply, UsersTrue, CallsUser, Adds, Runners, TypeOK,
      PutTypes, ClientTypes, UserTypes,
      puts, client, users
<1>5. WaitsTrue'
  BY Known DEF Expire, Expires, Reply, WaitsTrue, CallsUser, Runners, TypeOK, PutTypes,
      ClientTypes, UserTypes,
      puts, client, users
<1>6. OneUnderWay'
  <2>1. \A c \in Channels : UnderWay(c)' =>
            (pPutNotify[c] = "allocated" /\ busy[c] /\ ~onExtraLaborQueue[c])'
    BY Known DEF Expire, Expires, Reply, OneUnderWay, UnderWay, Adds, Runners, TypeOK,
        NotifyTypes, PutTypes, ClientTypes, UserTypes,
        notifies, puts, client, users
  <2>2. \A c \in Channels : onExtraLaborQueue'[c] =>
            busy'[c] \/ (pc' \in {"serialize", "start"} /\ pch' = c)
    BY Known DEF Expire, Expires, Reply, OneUnderWay, UnderWay, Adds, Runners, TypeOK,
        NotifyTypes, PutTypes, ClientTypes, UserTypes,
        notifies, puts, client, users
  <2>3. \A q \in Runners : upc'[q] = "add" =>
            state'[uch'[q]] \in {"none", "UserCallbackActive"}
    BY Known DEF Expire, Expires, Reply, OneUnderWay, UnderWay, Adds, Runners, TypeOK,
        NotifyTypes, PutTypes, ClientTypes, UserTypes,
        notifies, puts, client, users
  <2>4. pc' = "start" => ~busy'[pch']
    BY Known DEF Expire, Expires, Reply, OneUnderWay, UnderWay, Adds, Runners, TypeOK,
        NotifyTypes, PutTypes, ClientTypes, UserTypes,
        notifies, puts, client, users
  <2>5. pc' \in {"expire", "free"} => ~UnderWay(pch)'
    BY Known DEF Expire, Expires, Reply, OneUnderWay, UnderWay, Adds, Runners, TypeOK,
        NotifyTypes, PutTypes, ClientTypes, UserTypes,
        notifies, puts, client, users
  <2>6. pc' \in {"put", "putwait"} =>
            busy'[pch'] /\ ~onExtraLaborQueue'[pch'] /\ ~UnderWay(pch)'
    BY Known DEF Expire, Expires, Reply, OneUnderWay, UnderWay, Adds, Runners, TypeOK,
        NotifyTypes, PutTypes, ClientTypes, UserTypes,
        notifies, puts, client, users
  <2>. QED BY <2>1, <2>2, <2>3, <2>4, <2>5, <2>6 DEF OneUnderWay
<1>7. RepliesTrue'
  <2>1. \A c \in Channels : ToStart(c)' <=> ToStart(c)
    BY DEF Expire, ToStart
  <2>2. UNCHANGED <<asked, msg, tpc, tmsg, ret>>
    BY DEF Expire, task
  <2>3. CASE ~busy[pch]
    <3>1. UNCHANGED <<replies, busy>>
      BY <2>3 DEF Expire, Expires
    <3>. QED BY Known, <2>1, <2>2, <3>1 DEF RepliesTrue, Owed
  <2>4. CASE busy[pch]
    <3>1. /\ replies' = [replies EXCEPT ![pch][msg[pch]] = @ + 1]
          /\ busy' = [busy EXCEPT ![pch] = FALSE]
      BY <2>4 DEF Expire, Expires, Reply
    <3>2. /\ pch \in Channels /\ msg[pch] \in Requests
          /\ tmsg # <<pch, msg[pch]>> /\ replies[pch][msg[pch]] = 0
      BY Known, <2>4, NotOnItsWay DEF Expire
    <3>3. \A c \in Channels : busy'[c] <=> busy[c] /\ c # pch
      BY Known, <3>1, <3>2 DEF TypeOK, NotifyTypes
    <3>4. ASSUME NEW c \in Channels, NEW n \in Requests
          PROVE  replies'[c][n] = IF Owed(c, n)' THEN 0 ELSE 1
      <4>1. CASE c = pch /\ n = msg[pch]
        <5>1. replies'[c][n] = 1
          BY Known, <3>1, <3>2, <4>1 DEF TypeOK, HistoryTypes
        <5>2. ~Owed(c, n)'
          BY <2>2, <3>2, <3>3, <4>1 DEF Owed, Requests
        <5>. QED BY <5>1, <5>2
      <4>2. CASE ~(c = pch /\ n = msg[pch])
        <5>1. replies'[c][n] = replies[c][n]
          BY Known, <3>1, <3>2, <4>2 DEF TypeOK, HistoryTypes
        <5>2. Owed(c, n)' <=> Owed(c, n)
          BY <2>2, <3>3, <4>2 DEF Owed
        <5>. QED BY Known, <5>1, <5>2 DEF RepliesTrue
      <4>. QED BY <4>1, <4>2
    <3>5. tpc = "reply" => ~busy'[tmsg[1]] \/ tmsg[2] < msg[tmsg[1]]
      BY Known, <1>t, <3>3 DEF RepliesTrue
    <3>. QED BY Known, <1>t, <2>1, <2>2, <3>3, <3>4, <3>5 DEF RepliesTrue
  <2>. QED BY <2>3, <2>4
<1>. QED BY <1>1, <1>2, <1>3, <1>4, <1>5, <1>6, <1>7 DEF IInv

\* A put is started; all earlier requests have their replies, or it is on its way.
LEMMA StartStep ==
    ASSUME IInv, TypeOK', Start
    PROVE  IInv'
<1>t. tpc = "reply" => tmsg \in Channels \X Requests
  BY Known DEF RepliesTrue, TypeOK, TaskTypes
<1>1. QueueTrue'
  <2>1. /\ pc' \in {"put", "idle"} /\ UNCHANGED <<pPutNotify, putNotifyQue>>
        /\ onExtraLaborQueue' = [onExtraLaborQueue EXCEPT ![pch] = FALSE]
        /\ busy' \in {busy, [busy EXCEPT ![pch] = TRUE]}
    BY DEF Start
  <2>2. pch \in Channels /\ pch \notin ToSet(putNotifyQue)
    BY Known DEF Start, OneUnderWay, QueueTrue
  <2>3. \A c \in Channels : /\ onExtraLaborQueue'[c] <=> onExtraLaborQueue[c] /\ c # pch
                            /\ c # pch => busy'[c] = busy[c]
    BY Known, <2>1, <2>2 DEF TypeOK, NotifyTypes
  <2>. QED BY Known, <2>1, <2>2, <2>3 DEF QueueTrue
<1>2. AtWork'
  BY Known DEF Start, Kept, Reply, AtWork, TypeOK, ClientTypes, HistoryTypes,
      history, client
<1>3. BlocksTrue'
  BY Known DEF Start, Kept, Reply, BlocksTrue, TypeOK, NotifyTypes, ClientTypes,
      notifies, history, client
<1>4. UsersTrue'
  BY Known DEF Start, Kept, Reply, UsersTrue, CallsUser, Adds, Runners, TypeOK, PutTypes,
      ClientTypes, UserTypes,
      puts, client, users
<1>5. WaitsTrue'
  BY Known DEF Start, Kept, Reply, WaitsTrue, CallsUser, Runners, TypeOK, PutTypes,
      ClientTypes, UserTypes,
      puts, client, users
<1>6. OneUnderWay'
  <2>1. \A c \in Channels : UnderWay(c)' =>
            (pPutNotify[c] = "allocated" /\ busy[c] /\ ~onExtraLaborQueue[c])'
    BY Known DEF Start, Kept, Reply, OneUnderWay, UnderWay, Adds, Runners, TypeOK,
        NotifyTypes, PutTypes, ClientTypes, UserTypes,
        notifies, puts, client, users
  <2>2. \A c \in Channels : onExtraLaborQueue'[c] =>
            busy'[c] \/ (pc' \in {"serialize", "start"} /\ pch' = c)
    BY Known DEF Start, Kept, Reply, OneUnderWay, UnderWay, Adds, Runners, TypeOK,
        NotifyTypes, PutTypes, ClientTypes, UserTypes,
        notifies, puts, client, users
  <2>3. \A q \in Runners : upc'[q] = "add" =>
            state'[uch'[q]] \in {"none", "UserCallbackActive"}
    BY Known DEF Start, Kept, Reply, OneUnderWay, UnderWay, Adds, Runners, TypeOK,
        NotifyTypes, PutTypes, ClientTypes, UserTypes,
        notifies, puts, client, users
  <2>4. pc' = "start" => ~busy'[pch']
    BY Known DEF Start, Kept, Reply, OneUnderWay, UnderWay, Adds, Runners, TypeOK,
        NotifyTypes, PutTypes, ClientTypes, UserTypes,
        notifies, puts, client, users
  <2>5. pc' \in {"expire", "free"} => ~UnderWay(pch)'
    BY Known DEF Start, Kept, Reply, OneUnderWay, UnderWay, Adds, Runners, TypeOK,
        NotifyTypes, PutTypes, ClientTypes, UserTypes,
        notifies, puts, client, users
  <2>6. pc' \in {"put", "putwait"} =>
            busy'[pch'] /\ ~onExtraLaborQueue'[pch'] /\ ~UnderWay(pch)'
    BY Known DEF Start, Kept, Reply, OneUnderWay, UnderWay, Adds, Runners, TypeOK,
        NotifyTypes, PutTypes, ClientTypes, UserTypes,
        notifies, puts, client, users
  <2>. QED BY <2>1, <2>2, <2>3, <2>4, <2>5, <2>6 DEF OneUnderWay
<1>7. RepliesTrue'
  <2>1. /\ UNCHANGED <<asked, tpc, tmsg, ret>> /\ msg' = [msg EXCEPT ![pch] = asked[pch]]
        /\ pc = "start"
    BY DEF Start, Kept, task
  <2>2. /\ pch \in Channels /\ ~busy[pch] /\ asked[pch] = msg[pch] + 1
        /\ asked[pch] \in Requests /\ msg[pch] \in Nat
    BY Known, <2>1 DEF OneUnderWay, RepliesTrue, ToStart, TypeOK, NotifyTypes,
        HistoryTypes, Requests
  <2>3. \A c \in Channels : ~ToStart(c)' /\ (c # pch => ~ToStart(c))
    BY Known DEF Start, ToStart
  <2>4. /\ msg'[pch] = msg[pch] + 1
        /\ \A c \in Channels : c # pch => msg'[c] = msg[c]
    BY Known, <2>1, <2>2 DEF TypeOK, NotifyTypes
  <2>5. /\ \A c \in Channels : c # pch => busy'[c] = busy[c]
        /\ \/ busy'[pch] /\ UNCHANGED replies
           \/ ~busy'[pch] /\ replies' = [replies EXCEPT ![pch][asked[pch]] = @ + 1]
    BY Known, <2>1, <2>2 DEF Start, Reply, TypeOK, NotifyTypes
  <2>6. tmsg # <<pch, asked[pch]>>
    <3>1. ASSUME tmsg = <<pch, asked[pch]>> PROVE FALSE
      <4>1. tpc = "reply"
        BY Known, <2>2, <3>1 DEF RepliesTrue
      <4>2. tmsg[1] = pch /\ tmsg[2] = msg[pch] + 1
        BY <2>2, <3>1
      <4>3. tmsg[2] < msg[pch] \/ tmsg[2] = msg[pch]
        BY Known, <4>1, <4>2 DEF RepliesTrue
      <4>. QED BY <2>2, <4>2, <4>3
    <3>. QED BY <3>1
  <2>7. ASSUME NEW c \in Channels, NEW n \in Requests
        PROVE  replies'[c][n] = IF Owed(c, n)' THEN 0 ELSE 1
    <3>0. replies[c][n] = IF Owed(c, n) THEN 0 ELSE 1
      BY Known DEF RepliesTrue
    <3>1. CASE c # pch
      <4>1. replies'[c][n] = replies[c][n]
        BY Known, <2>2, <2>5, <3>1 DEF TypeOK, HistoryTypes
      <4>2. Owed(c, n)' <=> Owed(c, n)
        BY <2>1, <2>4, <2>5, <3>1 DEF Owed
      <4>. QED BY <3>0, <4>1, <4>2
    <3>2. CASE c = pch /\ n # asked[pch]
      <4>1. replies'[c][n] = replies[c][n]
        BY Known, <2>2, <2>5, <3>2 DEF TypeOK, HistoryTypes
      <4>2. Owed(c, n)' <=> Owed(c, n)
        BY <2>1, <2>2, <2>4, <3>2 DEF Owed, Requests
      <4>. QED BY <3>0, <4>1, <4>2
    <3>3. CASE c = pch /\ n = asked[pch]
      <4>1. Owed(c, n) /\ replies[c][n] = 0
        BY <2>2, <3>0, <3>3 DEF Owed
      <4>2. Owed(c, n)' <=> busy'[pch]
        BY <2>1, <2>2, <2>4, <2>6, <3>3 DEF Owed
      <4>3. replies'[c][n] = IF busy'[pch] THEN 0 ELSE 1
        BY Known, <2>2, <2>5, <3>3, <4>1 DEF TypeOK, HistoryTypes
      <4>. QED BY <4>2, <4>3
    <3>. QED BY <3>1, <3>2, <3>3
  <2>8. ASSUME tpc = "reply"
        PROVE  \/ tmsg[2] < msg'[tmsg[1]]
               \/ tmsg[2] = msg'[tmsg[1]] /\ ~busy'[tmsg[1]]
    <3>1. tmsg[1] \in Channels /\ tmsg[2] \in Nat
      BY <1>t, <2>8 DEF Requests
    <3>2. tmsg[2] < msg[tmsg[1]] \/ (tmsg[2] = msg[tmsg[1]] /\ ~busy[tmsg[1]])
      BY Known, <2>8 DEF RepliesTrue
    <3>. QED BY <2>2, <2>4, <2>5, <3>1, <3>2
  <2>9. \A c \in Channels : /\ asked[c] = msg'[c] /\ (busy'[c] => msg'[c] > 0)
    <3>1. ASSUME NEW c \in Channels, c # pch
          PROVE  /\ asked[c] = msg[c] + 0 /\ msg[c] \in Nat /\ ~ToStart(c)
                 /\ busy[c] => msg[c] > 0
      BY Known, <2>3, <3>1 DEF RepliesTrue, TypeOK, NotifyTypes
    <3>. QED BY <2>2, <2>4, <2>5, <3>1
  <2>. QED BY Known, <2>1, <2>3, <2>7, <2>8, <2>9 DEF RepliesTrue, TypeOK, NotifyTypes
<1>. QED BY <1>1, <1>2, <1>3, <1>4, <1>5, <1>6, <1>7 DEF IInv

\* The user callback of a disabled put is called at once.
LEMMA PutDisabledStep ==
    ASSUME IInv, TypeOK', PutDisabled
    PROVE  IInv'
<1>c. /\ pch \in Channels /\ pc' = "called" /\ pch' = pch /\ upc["client"] = "none"
      /\ upc' = [upc EXCEPT !["client"] = "add"]
      /\ uch' = [uch EXCEPT !["client"] = pch]
      /\ callUser' = [callUser EXCEPT !["client"] = FALSE]
      /\ pPutNotify' = pPutNotify /\ busy' = busy /\ state' = state
      /\ onExtraLaborQueue' = onExtraLaborQueue /\ requested' = requested
  BY Known DEF PutDisabled, CallBack, UsersTrue, notifies, puts
<1>u. /\ upc'["client"] = "add" /\ uch'["client"] = pch /\ callUser'["client"] = FALSE
      /\ \A r \in Runners : r # "client" =>
            upc'[r] = upc[r] /\ uch'[r] = uch[r] /\ callUser'[r] = callUser[r]
  BY Known, <1>c DEF TypeOK, UserTypes, Runners
<1>n. ~UnderWay(pch) /\ busy[pch] /\ ~onExtraLaborQueue[pch] /\ "client" \in Runners
  BY Known DEF PutDisabled, OneUnderWay, Runners
<1>a. \A r \in Runners : ~(upc[r] = "add" /\ uch[r] = pch)
  BY <1>n DEF UnderWay, Adds
<1>1. QueueTrue'
  BY Known DEF PutDisabled, CallBack, QueueTrue, TypeOK, NotifyTypes,
      notifies, client
<1>2. AtWork'
  BY Known DEF PutDisabled, CallBack, AtWork, TypeOK, ClientTypes, HistoryTypes,
      history, client
<1>3. BlocksTrue'
  BY Known DEF PutDisabled, CallBack, BlocksTrue, TypeOK, NotifyTypes, ClientTypes,
      notifies, history, client
<1>4. UsersTrue'
  <2>1. ASSUME NEW r \in Runners
        PROVE  /\ uch'[r] = NoChannel <=> upc'[r] = "none"
               /\ callUser'[r] => upc'[r] # "none" /\ state'[uch'[r]] = "UserCallbackActive"
               /\ upc'[r] # "none" /\ ~callUser'[r] => r = "client"
    <3>1. CASE r = "client"
      BY Known, <1>c, <1>u, <3>1
    <3>2. CASE r # "client"
      BY Known, <1>c, <1>u, <3>2 DEF UsersTrue
    <3>. QED BY <3>1, <3>2
  <2>2. ASSUME NEW ch \in Channels, NEW q \in Runners, NEW r \in Runners,
               (CallsUser(q, ch)' /\ CallsUser(r, ch)') \/ (Adds(q, ch)' /\ Adds(r, ch)')
        PROVE  q = r
    <3>1. \A t \in Runners : CallsUser(t, ch)' => CallsUser(t, ch)
      BY <1>u DEF CallsUser
    <3>2. \A t \in Runners : Adds(t, ch)' => Adds(t, ch) \/ (t = "client" /\ ch = pch)
      BY <1>u DEF Adds
    <3>3. \A t \in Runners : ~Adds(t, pch)
      BY <1>a DEF Adds
    <3>4. CASE CallsUser(q, ch)' /\ CallsUser(r, ch)'
      BY Known, <3>1, <3>4 DEF UsersTrue
    <3>5. CASE Adds(q, ch)' /\ Adds(r, ch)'
      BY Known, <3>2, <3>3, <3>5 DEF UsersTrue
    <3>. QED BY <2>2, <3>4, <3>5
  <2>3. upc'["client"] # "none" /\ uch'["client"] = pch
    BY <1>u, <1>n
  <2>. QED BY <1>c, <2>1, <2>2, <2>3 DEF UsersTrue
<1>5. WaitsTrue'
  BY Known DEF PutDisabled, CallBack, WaitsTrue, CallsUser, Runners, TypeOK, PutTypes,
      ClientTypes, UserTypes,
      puts, client, users
<1>6. OneUnderWay'
  <2>1. \A c \in Channels : UnderWay(c)' =>
            (pPutNotify[c] = "allocated" /\ busy[c] /\ ~onExtraLaborQueue[c])'
    <3>1. \A c \in Channels : UnderWay(c)' => UnderWay(c) \/ c = pch
      BY <1>c, <1>u DEF UnderWay, Adds
    <3>2. pPutNotify[pch] = "allocated"
      BY Known DEF PutDisabled, BlocksTrue
    <3>. QED BY Known, <1>c, <1>n, <3>1, <3>2 DEF OneUnderWay
  <2>2. \A c \in Channels : onExtraLaborQueue'[c] =>
            busy'[c] \/ (pc' \in {"serialize", "start"} /\ pch' = c)
    BY Known DEF PutDisabled, CallBack, OneUnderWay, UnderWay, Adds, Runners, TypeOK,
        NotifyTypes, PutTypes, ClientTypes, UserTypes,
        notifies, puts, client, users
  <2>3. \A q \in Runners : upc'[q] = "add" =>
            state'[uch'[q]] \in {"none", "UserCallbackActive"}
    <3>1. state[pch] \in {"none", "UserCallbackActive"}
      <4>1. state[pch] # "PutInProgress" /\ ~requested[pch]
        BY <1>n DEF UnderWay
      <4>2. state[pch] # "UserCallbackRequested"
        BY Known, <1>c, <4>1 DEF PutDisabled, WaitsTrue
      <4>. QED BY Known, <1>c, <4>1, <4>2 DEF TypeOK, PutTypes
    <3>2. ASSUME NEW q \in Runners, upc'[q] = "add"
          PROVE  state[uch'[q]] \in {"none", "UserCallbackActive"}
      <4>1. CASE q = "client"
        BY <1>u, <3>1, <4>1
      <4>2. CASE q # "client"
        BY Known, <1>u, <3>2, <4>2 DEF OneUnderWay
      <4>. QED BY <4>1, <4>2
    <3>. QED BY <1>c, <3>2
  <2>4. pc' = "start" => ~busy'[pch']
    BY Known DEF PutDisabled, CallBack, OneUnderWay, UnderWay, Adds, Runners, TypeOK,
        NotifyTypes, PutTypes, ClientTypes, UserTypes,
        notifies, puts, client, users
  <2>5. pc' \in {"expire", "free"} => ~UnderWay(pch)'
    BY Known DEF PutDisabled, CallBack, OneUnderWay, UnderWay, Adds, Runners, TypeOK,
        NotifyTypes, PutTypes, ClientTypes, UserTypes,
        notifies, puts, client, users
  <2>6. pc' \in {"put", "putwait"} =>
            busy'[pch'] /\ ~onExtraLaborQueue'[pch'] /\ ~UnderWay(pch)'
    BY Known DEF PutDisabled, CallBack, OneUnderWay, UnderWay, Adds, Runners, TypeOK,
        NotifyTypes, PutTypes, ClientTypes, UserTypes,
        notifies, puts, client, users
  <2>. QED BY <2>1, <2>2, <2>3, <2>4, <2>5, <2>6 DEF OneUnderWay
<1>7. RepliesTrue'
  BY Known DEF PutDisabled, CallBack, RepliesTrue, ToStart, Owed, TypeOK, NotifyTypes,
      HistoryTypes, ClientTypes, TaskTypes,
      notifies, history, client, task
<1>. QED BY <1>1, <1>2, <1>3, <1>4, <1>5, <1>6, <1>7 DEF IInv

\* No callback of the last put runs: the put is made.
LEMMA PutStep ==
    ASSUME IInv, TypeOK', Put
    PROVE  IInv'
<1>c. /\ pch \in Channels /\ pc \in {"put", "putwait"} /\ upc["client"] = "none"
      /\ pPutNotify' = pPutNotify /\ busy' = busy
      /\ onExtraLaborQueue' = onExtraLaborQueue /\ requested' = requested
  BY Known DEF Put, PutCommon, UsersTrue, notifies
<1>n. ~UnderWay(pch) /\ busy[pch] /\ ~onExtraLaborQueue[pch] /\ "client" \in Runners
  BY Known, <1>c DEF OneUnderWay, Runners
<1>a. \A r \in Runners : ~Adds(r, pch) /\ ~CallsUser(r, pch)
  BY Known, <1>c, <1>n DEF Put, UnderWay, UsersTrue, WaitsTrue, CallsUser
<1>s. \A c \in Channels : c # pch => state'[c] = state[c]
  BY Known, <1>c DEF Put, PutCommon, TypeOK, PutTypes
<1>i. \/ /\ state'[pch] = "PutInProgress" /\ pc' = "idle" /\ pch' = NoChannel
         /\ upc' = upc /\ uch' = uch /\ callUser' = callUser
      \/ /\ state'[pch] = "UserCallbackActive" /\ pc' = "called" /\ pch' = pch
         /\ upc' = [upc EXCEPT !["client"] = "add"]
         /\ uch' = [uch EXCEPT !["client"] = pch]
         /\ callUser' = [callUser EXCEPT !["client"] = TRUE]
  BY Known, <1>c DEF Put, PutCommon, CallBack, users, TypeOK, PutTypes
<1>b. pc' = "called" =>
      /\ upc'["client"] = "add" /\ uch'["client"] = pch /\ callUser'["client"] = TRUE
      /\ \A r \in Runners : r # "client" =>
            upc'[r] = upc[r] /\ uch'[r] = uch[r] /\ callUser'[r] = callUser[r]
  BY Known, <1>i DEF TypeOK, UserTypes, Runners
<1>1. QueueTrue'
  BY Known DEF Put, PutCommon, CallBack, QueueTrue, TypeOK, NotifyTypes,
      notifies, client
<1>2. AtWork'
  BY Known DEF Put, PutCommon, CallBack, AtWork, TypeOK, ClientTypes, HistoryTypes,
      history, client
<1>3. BlocksTrue'
  BY Known DEF Put, PutCommon, CallBack, BlocksTrue, TypeOK, NotifyTypes, ClientTypes,
      notifies, history, client
<1>4. UsersTrue'
  <2>1. CASE pc' = "idle"
    <3>1. upc' = upc /\ uch' = uch /\ callUser' = callUser
      BY <1>i, <2>1
    <3>2. \A r \in Runners : callUser[r] => uch[r] # pch
      BY <1>a DEF CallsUser
    <3>3. \A r \in Runners : callUser[r] => uch[r] \in Channels
      BY Known DEF UsersTrue, TypeOK, UserTypes
    <3>4. pc' # "called" /\ upc["client"] = "none"
      BY <1>c, <2>1
    <3>. QED BY Known, <1>s, <3>1, <3>2, <3>3, <3>4 DEF UsersTrue, CallsUser, Adds
  <2>2. CASE pc' = "called"
    <3>1. ASSUME NEW r \in Runners
          PROVE  /\ uch'[r] = NoChannel <=> upc'[r] = "none"
                 /\ callUser'[r] => /\ upc'[r] # "none"
                                    /\ state'[uch'[r]] = "UserCallbackActive"
                 /\ upc'[r] # "none" /\ ~callUser'[r] => r = "client"
      <4>1. CASE r = "client"
        BY Known, <1>c, <1>b, <1>i, <2>2, <4>1
      <4>2. CASE r # "client"
        <5>1. upc'[r] = upc[r] /\ uch'[r] = uch[r] /\ callUser'[r] = callUser[r]
          BY <1>b, <2>2, <4>2
        <5>2. callUser[r] => uch[r] \in Channels /\ uch[r] # pch
          BY Known, <1>a DEF UsersTrue, CallsUser, TypeOK, UserTypes
        <5>. QED BY Known, <1>s, <4>2, <5>1, <5>2 DEF UsersTrue
      <4>. QED BY <4>1, <4>2
    <3>2. ASSUME NEW ch \in Channels, NEW q \in Runners, NEW r \in Runners,
                 (CallsUser(q, ch)' /\ CallsUser(r, ch)') \/ (Adds(q, ch)' /\ Adds(r, ch)')
          PROVE  q = r
      <4>1. \A t \in Runners : CallsUser(t, ch)' =>
                CallsUser(t, ch) \/ (t = "client" /\ ch = pch)
        BY <1>b, <2>2 DEF CallsUser
      <4>2. \A t \in Runners : Adds(t, ch)' => Adds(t, ch) \/ (t = "client" /\ ch = pch)
        BY <1>b, <2>2 DEF Adds
      <4>3. CASE CallsUser(q, ch)' /\ CallsUser(r, ch)'
        BY Known, <1>a, <4>1, <4>3 DEF UsersTrue
      <4>4. CASE Adds(q, ch)' /\ Adds(r, ch)'
        BY Known, <1>a, <4>2, <4>4 DEF UsersTrue
      <4>. QED BY <3>2, <4>3, <4>4
    <3>3. upc'["client"] # "none" /\ uch'["client"] = pch'
      BY <1>b, <1>i, <2>2
    <3>. QED BY <2>2, <3>1, <3>2, <3>3 DEF UsersTrue
  <2>. QED BY <1>i, <2>1, <2>2
<1>5. WaitsTrue'
  BY Known DEF Put, PutCommon, CallBack, WaitsTrue, CallsUser, Runners, TypeOK, PutTypes,
      ClientTypes, UserTypes,
      puts, client, users
<1>6. OneUnderWay'
  <2>1. \A c \in Channels : UnderWay(c)' =>
            (pPutNotify[c] = "allocated" /\ busy[c] /\ ~onExtraLaborQueue[c])'
    <3>1. \A c \in Channels : UnderWay(c)' => UnderWay(c) \/ c = pch
      <4>1. CASE pc' = "idle"
        BY <1>c, <1>i, <1>s, <4>1 DEF UnderWay, Adds
      <4>2. CASE pc' = "called"
        BY <1>c, <1>b, <1>s, <4>2 DEF UnderWay, Adds
      <4>. QED BY <1>i, <4>1, <4>2
    <3>2. pPutNotify[pch] = "allocated"
      BY Known, <1>c DEF BlocksTrue
    <3>. QED BY Known, <1>c, <1>n, <3>1, <3>2 DEF OneUnderWay
  <2>2. \A c \in Channels : onExtraLaborQueue'[c] =>
            busy'[c] \/ (pc' \in {"serialize", "start"} /\ pch' = c)
    BY Known DEF Put, PutCommon, CallBack, OneUnderWay, UnderWay, Adds, Runners, TypeOK,
        NotifyTypes, PutTypes, ClientTypes, UserTypes,
        notifies, puts, client, users
  <2>3. \A q \in Runners : upc'[q] = "add" =>
            state'[uch'[q]] \in {"none", "UserCallbackActive"}
    <3>1. ASSUME NEW q \in Runners, upc'[q] = "add"
          PROVE  state'[uch'[q]] \in {"none", "UserCallbackActive"}
      <4>1. CASE pc' = "called" /\ q = "client"
        BY <1>b, <1>i, <4>1
      <4>2. CASE ~(pc' = "called" /\ q = "client")
        <5>1. upc[q] = "add" /\ uch'[q] = uch[q]
          BY <1>b, <1>i, <3>1, <4>2
        <5>2. uch[q] \in Channels /\ uch[q] # pch
          BY Known, <1>a, <5>1 DEF UsersTrue, Adds, TypeOK, UserTypes
        <5>. QED BY Known, <1>s, <5>1, <5>2 DEF OneUnderWay
      <4>. QED BY <4>1, <4>2
    <3>. QED BY <3>1
  <2>4. pc' = "start" => ~busy'[pch']
    BY Known DEF Put, PutCommon, CallBack, OneUnderWay, UnderWay, Adds, Runners, TypeOK,
        NotifyTypes, PutTypes, ClientTypes, UserTypes,
        notifies, puts, client, users
  <2>5. pc' \in {"expire", "free"} => ~UnderWay(pch)'
    BY Known DEF Put, PutCommon, CallBack, OneUnderWay, UnderWay, Adds, Runners, TypeOK,
        NotifyTypes, PutTypes, ClientTypes, UserTypes,
        notifies, puts, client, users
  <2>6. pc' \in {"put", "putwait"} =>
            busy'[pch'] /\ ~onExtraLaborQueue'[pch'] /\ ~UnderWay(pch)'
    BY Known DEF Put, PutCommon, CallBack, OneUnderWay, UnderWay, Adds, Runners, TypeOK,
        NotifyTypes, PutTypes, ClientTypes, UserTypes,
        notifies, puts, client, users
  <2>. QED BY <2>1, <2>2, <2>3, <2>4, <2>5, <2>6 DEF OneUnderWay
<1>7. RepliesTrue'
  BY Known DEF Put, PutCommon, CallBack, RepliesTrue, ToStart, Owed, TypeOK, NotifyTypes,
      HistoryTypes, ClientTypes, TaskTypes,
      notifies, history, client, task
<1>. QED BY <1>1, <1>2, <1>3, <1>4, <1>5, <1>6, <1>7 DEF IInv

\* A callback of the last put still runs: dbPutNotify waits for it.
LEMMA PutWaitStep ==
    ASSUME IInv, TypeOK', PutWait
    PROVE  IInv'
<1>1. QueueTrue'
  BY Known DEF PutWait, QueueTrue, TypeOK, NotifyTypes,
      notifies, client
<1>2. AtWork'
  BY Known DEF PutWait, AtWork, TypeOK, ClientTypes, HistoryTypes,
      history, client
<1>3. BlocksTrue'
  BY Known DEF PutWait, BlocksTrue, TypeOK, NotifyTypes, ClientTypes,
      notifies, history, client
<1>4. UsersTrue'
  BY Known DEF PutWait, UsersTrue, CallsUser, Adds, Runners, TypeOK, PutTypes,
      ClientTypes, UserTypes,
      puts, client, users
<1>5. WaitsTrue'
  <2>1. /\ pch \in Channels /\ pc = "put" /\ pc' = "putwait" /\ pch' = pch
        /\ userCallbackWait' = [userCallbackWait EXCEPT ![pch] = TRUE]
        /\ UNCHANGED <<state, cancelWait, cancelEvent, userCallbackEvent, requested, uch,
            callUser>>
    BY Known DEF PutWait, users
  <2>2. state[pch] = "UserCallbackActive"
    <3>1. state[pch] # "PutInProgress" /\ ~requested[pch]
      BY Known, <2>1 DEF OneUnderWay, UnderWay
    <3>2. state[pch] # "UserCallbackRequested"
      BY Known, <2>1, <3>1 DEF WaitsTrue
    <3>. QED BY Known, <2>1, <3>1, <3>2 DEF PutWait, TypeOK, PutTypes
  <2>3. /\ userCallbackWait'[pch]
        /\ \A c \in Channels : c # pch => userCallbackWait'[c] = userCallbackWait[c]
    BY Known, <2>1 DEF TypeOK, PutTypes
  <2>4. \A r \in Runners, c \in Channels : CallsUser(r, c)' <=> CallsUser(r, c)
    BY <2>1 DEF CallsUser
  <2>. QED BY Known, <2>1, <2>2, <2>3, <2>4 DEF WaitsTrue
<1>6. OneUnderWay'
  BY Known DEF PutWait, OneUnderWay, UnderWay, Adds, Runners, TypeOK, NotifyTypes,
      PutTypes, ClientTypes, UserTypes,
      notifies, puts, client, users
<1>7. RepliesTrue'
  BY Known DEF PutWait, RepliesTrue, ToStart, Owed, TypeOK, NotifyTypes, HistoryTypes,
      ClientTypes, TaskTypes,
      notifies, history, client, task
<1>. QED BY <1>1, <1>2, <1>3, <1>4, <1>5, <1>6, <1>7 DEF IInv

\* The callback of the last put has returned: the put is made.
LEMMA PutWaitedStep ==
    ASSUME IInv, TypeOK', PutWaited
    PROVE  IInv'
<1>c. /\ pch \in Channels /\ pc \in {"put", "putwait"} /\ upc["client"] = "none"
      /\ pPutNotify' = pPutNotify /\ busy' = busy
      /\ onExtraLaborQueue' = onExtraLaborQueue /\ requested' = requested
  BY Known DEF PutWaited, PutCommon, UsersTrue, notifies
<1>n. ~UnderWay(pch) /\ busy[pch] /\ ~onExtraLaborQueue[pch] /\ "client" \in Runners
  BY Known, <1>c DEF OneUnderWay, Runners
<1>a. \A r \in Runners : ~Adds(r, pch) /\ ~CallsUser(r, pch)
  BY Known, <1>c, <1>n DEF PutWaited, UnderWay, UsersTrue, WaitsTrue, CallsUser
<1>s. \A c \in Channels : c # pch => state'[c] = state[c]
  BY Known, <1>c DEF PutWaited, PutCommon, TypeOK, PutTypes
<1>i. \/ /\ state'[pch] = "PutInProgress" /\ pc' = "idle" /\ pch' = NoChannel
         /\ upc' = upc /\ uch' = uch /\ callUser' = callUser
      \/ /\ state'[pch] = "UserCallbackActive" /\ pc' = "called" /\ pch' = pch
         /\ upc' = [upc EXCEPT !["client"] = "add"]
         /\ uch' = [uch EXCEPT !["client"] = pch]
         /\ callUser' = [callUser EXCEPT !["client"] = TRUE]
  BY Known, <1>c DEF PutWaited, PutCommon, CallBack, users, TypeOK, PutTypes
<1>b. pc' = "called" =>
      /\ upc'["client"] = "add" /\ uch'["client"] = pch /\ callUser'["client"] = TRUE
      /\ \A r \in Runners : r # "client" =>
            upc'[r] = upc[r] /\ uch'[r] = uch[r] /\ callUser'[r] = callUser[r]
  BY Known, <1>i DEF TypeOK, UserTypes, Runners
<1>1. QueueTrue'
  BY Known DEF PutWaited, PutCommon, CallBack, QueueTrue, TypeOK, NotifyTypes,
      notifies, client
<1>2. AtWork'
  BY Known DEF PutWaited, PutCommon, CallBack, AtWork, TypeOK, ClientTypes, HistoryTypes,
      history, client
<1>3. BlocksTrue'
  BY Known DEF PutWaited, PutCommon, CallBack, BlocksTrue, TypeOK, NotifyTypes, ClientTypes,
      notifies, history, client
<1>4. UsersTrue'
  <2>1. CASE pc' = "idle"
    <3>1. upc' = upc /\ uch' = uch /\ callUser' = callUser
      BY <1>i, <2>1
    <3>2. \A r \in Runners : callUser[r] => uch[r] # pch
      BY <1>a DEF CallsUser
    <3>3. \A r \in Runners : callUser[r] => uch[r] \in Channels
      BY Known DEF UsersTrue, TypeOK, UserTypes
    <3>4. pc' # "called" /\ upc["client"] = "none"
      BY <1>c, <2>1
    <3>. QED BY Known, <1>s, <3>1, <3>2, <3>3, <3>4 DEF UsersTrue, CallsUser, Adds
  <2>2. CASE pc' = "called"
    <3>1. ASSUME NEW r \in Runners
          PROVE  /\ uch'[r] = NoChannel <=> upc'[r] = "none"
                 /\ callUser'[r] => /\ upc'[r] # "none"
                                    /\ state'[uch'[r]] = "UserCallbackActive"
                 /\ upc'[r] # "none" /\ ~callUser'[r] => r = "client"
      <4>1. CASE r = "client"
        BY Known, <1>c, <1>b, <1>i, <2>2, <4>1
      <4>2. CASE r # "client"
        <5>1. upc'[r] = upc[r] /\ uch'[r] = uch[r] /\ callUser'[r] = callUser[r]
          BY <1>b, <2>2, <4>2
        <5>2. callUser[r] => uch[r] \in Channels /\ uch[r] # pch
          BY Known, <1>a DEF UsersTrue, CallsUser, TypeOK, UserTypes
        <5>. QED BY Known, <1>s, <4>2, <5>1, <5>2 DEF UsersTrue
      <4>. QED BY <4>1, <4>2
    <3>2. ASSUME NEW ch \in Channels, NEW q \in Runners, NEW r \in Runners,
                 (CallsUser(q, ch)' /\ CallsUser(r, ch)') \/ (Adds(q, ch)' /\ Adds(r, ch)')
          PROVE  q = r
      <4>1. \A t \in Runners : CallsUser(t, ch)' =>
                CallsUser(t, ch) \/ (t = "client" /\ ch = pch)
        BY <1>b, <2>2 DEF CallsUser
      <4>2. \A t \in Runners : Adds(t, ch)' => Adds(t, ch) \/ (t = "client" /\ ch = pch)
        BY <1>b, <2>2 DEF Adds
      <4>3. CASE CallsUser(q, ch)' /\ CallsUser(r, ch)'
        BY Known, <1>a, <4>1, <4>3 DEF UsersTrue
      <4>4. CASE Adds(q, ch)' /\ Adds(r, ch)'
        BY Known, <1>a, <4>2, <4>4 DEF UsersTrue
      <4>. QED BY <3>2, <4>3, <4>4
    <3>3. upc'["client"] # "none" /\ uch'["client"] = pch'
      BY <1>b, <1>i, <2>2
    <3>. QED BY <2>2, <3>1, <3>2, <3>3 DEF UsersTrue
  <2>. QED BY <1>i, <2>1, <2>2
<1>5. WaitsTrue'
  BY Known DEF PutWaited, PutCommon, CallBack, WaitsTrue, CallsUser, Runners, TypeOK,
      PutTypes, ClientTypes, UserTypes,
      puts, client, users
<1>6. OneUnderWay'
  <2>1. \A c \in Channels : UnderWay(c)' =>
            (pPutNotify[c] = "allocated" /\ busy[c] /\ ~onExtraLaborQueue[c])'
    <3>1. \A c \in Channels : UnderWay(c)' => UnderWay(c) \/ c = pch
      <4>1. CASE pc' = "idle"
        BY <1>c, <1>i, <1>s, <4>1 DEF UnderWay, Adds
      <4>2. CASE pc' = "called"
        BY <1>c, <1>b, <1>s, <4>2 DEF UnderWay, Adds
      <4>. QED BY <1>i, <4>1, <4>2
    <3>2. pPutNotify[pch] = "allocated"
      BY Known, <1>c DEF BlocksTrue
    <3>. QED BY Known, <1>c, <1>n, <3>1, <3>2 DEF OneUnderWay
  <2>2. \A c \in Channels : onExtraLaborQueue'[c] =>
            busy'[c] \/ (pc' \in {"serialize", "start"} /\ pch' = c)
    BY Known DEF PutWaited, PutCommon, CallBack, OneUnderWay, UnderWay, Adds, Runners,
        TypeOK, NotifyTypes, PutTypes, ClientTypes, UserTypes,
        notifies, puts, client, users
  <2>3. \A q \in Runners : upc'[q] = "add" =>
            state'[uch'[q]] \in {"none", "UserCallbackActive"}
    <3>1. ASSUME NEW q \in Runners, upc'[q] = "add"
          PROVE  state'[uch'[q]] \in {"none", "UserCallbackActive"}
      <4>1. CASE pc' = "called" /\ q = "client"
        BY <1>b, <1>i, <4>1
      <4>2. CASE ~(pc' = "called" /\ q = "client")
        <5>1. upc[q] = "add" /\ uch'[q] = uch[q]
          BY <1>b, <1>i, <3>1, <4>2
        <5>2. uch[q] \in Channels /\ uch[q] # pch
          BY Known, <1>a, <5>1 DEF UsersTrue, Adds, TypeOK, UserTypes
        <5>. QED BY Known, <1>s, <5>1, <5>2 DEF OneUnderWay
      <4>. QED BY <4>1, <4>2
    <3>. QED BY <3>1
  <2>4. pc' = "start" => ~busy'[pch']
    BY Known DEF PutWaited, PutCommon, CallBack, OneUnderWay, UnderWay, Adds, Runners,
        TypeOK, NotifyTypes, PutTypes, ClientTypes, UserTypes,
        notifies, puts, client, users
  <2>5. pc' \in {"expire", "free"} => ~UnderWay(pch)'
    BY Known DEF PutWaited, PutCommon, CallBack, OneUnderWay, UnderWay, Adds, Runners,
        TypeOK, NotifyTypes, PutTypes, ClientTypes, UserTypes,
        notifies, puts, client, users
  <2>6. pc' \in {"put", "putwait"} =>
            busy'[pch'] /\ ~onExtraLaborQueue'[pch'] /\ ~UnderWay(pch)'
    BY Known DEF PutWaited, PutCommon, CallBack, OneUnderWay, UnderWay, Adds, Runners,
        TypeOK, NotifyTypes, PutTypes, ClientTypes, UserTypes,
        notifies, puts, client, users
  <2>. QED BY <2>1, <2>2, <2>3, <2>4, <2>5, <2>6 DEF OneUnderWay
<1>7. RepliesTrue'
  BY Known DEF PutWaited, PutCommon, CallBack, RepliesTrue, ToStart, Owed, TypeOK,
      NotifyTypes, HistoryTypes, ClientTypes, TaskTypes,
      notifies, history, client, task
<1>. QED BY <1>1, <1>2, <1>3, <1>4, <1>5, <1>6, <1>7 DEF IInv

\* A put is cancelled, or its callback is waited for.
LEMMA NotifyCancelStep ==
    ASSUME IInv, TypeOK', NotifyCancel
    PROVE  IInv'
<1>s. /\ pch \in Channels /\ pc = "cancel" /\ pch' = pch
      /\ upc' = upc /\ uch' = uch /\ callUser' = callUser /\ requested' = requested
      /\ \A c \in Channels : state'[c] \in {state[c], "none"}
  BY Known DEF NotifyCancel, users, TypeOK, PutTypes
<1>1. QueueTrue'
  <2>1. UNCHANGED <<pPutNotify, busy, onExtraLaborQueue, putNotifyQue, pch>>
    BY DEF NotifyCancel, notifies
  <2>2. /\ pch \in Channels /\ pPutNotify[pch] = "allocated"
        /\ onExtraLaborQueue[pch] => busy[pch]
    BY Known DEF NotifyCancel, BlocksTrue, OneUnderWay
  <2>. QED BY Known, <2>1, <2>2 DEF QueueTrue
<1>2. AtWork'
  BY Known DEF NotifyCancel, AtWork, TypeOK, ClientTypes, HistoryTypes,
      history, client
<1>3. BlocksTrue'
  BY Known DEF NotifyCancel, BlocksTrue, TypeOK, NotifyTypes, ClientTypes,
      notifies, history, client
<1>4. UsersTrue'
  BY Known DEF NotifyCancel, UsersTrue, CallsUser, Adds, Runners, TypeOK, PutTypes,
      ClientTypes, UserTypes,
      puts, client, users
<1>5. WaitsTrue'
  BY Known DEF NotifyCancel, WaitsTrue, CallsUser, Runners, TypeOK, PutTypes,
      ClientTypes, UserTypes,
      puts, client, users
<1>6. OneUnderWay'
  <2>1. \A c \in Channels : UnderWay(c)' =>
            (pPutNotify[c] = "allocated" /\ busy[c] /\ ~onExtraLaborQueue[c])'
    BY Known DEF NotifyCancel, OneUnderWay, UnderWay, Adds, Runners, TypeOK, NotifyTypes,
        PutTypes, ClientTypes, UserTypes,
        notifies, puts, client, users
  <2>2. \A c \in Channels : onExtraLaborQueue'[c] =>
            busy'[c] \/ (pc' \in {"serialize", "start"} /\ pch' = c)
    BY Known DEF NotifyCancel, OneUnderWay, UnderWay, Adds, Runners, TypeOK, NotifyTypes,
        PutTypes, ClientTypes, UserTypes,
        notifies, puts, client, users
  <2>3. \A q \in Runners : upc'[q] = "add" =>
            state'[uch'[q]] \in {"none", "UserCallbackActive"}
    <3>1. ASSUME NEW q \in Runners, upc[q] = "add"
          PROVE  state'[uch[q]] \in {"none", "UserCallbackActive"}
      <4>1. uch[q] \in Channels
        BY Known, <3>1 DEF UsersTrue, TypeOK, UserTypes
      <4>2. state[uch[q]] \in {"none", "UserCallbackActive"}
        BY Known, <3>1 DEF OneUnderWay
      <4>3. state'[uch[q]] \in {state[uch[q]], "none"}
        BY <1>s, <4>1
      <4>. QED BY <4>2, <4>3
    <3>. QED BY <1>s, <3>1
  <2>4. pc' = "start" => ~busy'[pch']
    BY Known DEF NotifyCancel, OneUnderWay, UnderWay, Adds, Runners, TypeOK, NotifyTypes,
        PutTypes, ClientTypes, UserTypes,
        notifies, puts, client, users
  <2>5. pc' \in {"expire", "free"} => ~UnderWay(pch)'
    <3>. SUFFICES ASSUME pc' \in {"expire", "free"} PROVE ~UnderWay(pch)'
      OBVIOUS
    <3>1. /\ state[pch] \notin {"UserCallbackRequested", "UserCallbackActive"}
          /\ state'[pch] = "none"
      BY Known, <1>s DEF NotifyCancel, TypeOK, PutTypes
    <3>2. ~requested[pch]
      BY Known, <1>s, <3>1 DEF WaitsTrue
    <3>3. ASSUME NEW r \in Runners, Adds(r, pch) PROVE FALSE
      <4>1. callUser[r]
        BY Known, <1>s, <3>3 DEF UsersTrue, Adds
      <4>. QED BY Known, <3>1, <3>3, <4>1 DEF UsersTrue, Adds
    <3>. QED BY <1>s, <3>1, <3>2, <3>3 DEF UnderWay, Adds
  <2>6. pc' \in {"put", "putwait"} =>
            busy'[pch'] /\ ~onExtraLaborQueue'[pch'] /\ ~UnderWay(pch)'
    BY Known DEF NotifyCancel, OneUnderWay, UnderWay, Adds, Runners, TypeOK, NotifyTypes,
        PutTypes, ClientTypes, UserTypes,
        notifies, puts, client, users
  <2>. QED BY <2>1, <2>2, <2>3, <2>4, <2>5, <2>6 DEF OneUnderWay
<1>7. RepliesTrue'
  BY Known DEF NotifyCancel, RepliesTrue, ToStart, Owed, TypeOK, NotifyTypes,
      HistoryTypes, ClientTypes, TaskTypes,
      notifies, history, client, task
<1>. QED BY <1>1, <1>2, <1>3, <1>4, <1>5, <1>6, <1>7 DEF IInv

\* The callback that was waited for has returned or was dropped.
LEMMA NotifyCancelledStep ==
    ASSUME IInv, TypeOK', NotifyCancelled
    PROVE  IInv'
<1>s. /\ pch \in Channels /\ pc = "cancelwait" /\ pch' = pch /\ cancelEvent[pch]
      /\ upc' = upc /\ uch' = uch /\ callUser' = callUser /\ requested' = requested
      /\ state'[pch] = "none" /\ \A c \in Channels : c # pch => state'[c] = state[c]
  BY Known DEF NotifyCancelled, users, TypeOK, PutTypes
<1>r. ~requested[pch] /\ \A r \in Runners : ~CallsUser(r, pch)
  BY Known, <1>s DEF WaitsTrue
<1>1. QueueTrue'
  <2>1. UNCHANGED <<pPutNotify, busy, onExtraLaborQueue, putNotifyQue, pch>>
    BY DEF NotifyCancelled, notifies
  <2>2. /\ pch \in Channels /\ pPutNotify[pch] = "allocated"
        /\ onExtraLaborQueue[pch] => busy[pch]
    BY Known DEF NotifyCancelled, BlocksTrue, OneUnderWay
  <2>. QED BY Known, <2>1, <2>2 DEF QueueTrue
<1>2. AtWork'
  BY Known DEF NotifyCancelled, AtWork, TypeOK, ClientTypes, HistoryTypes,
      history, client
<1>3. BlocksTrue'
  BY Known DEF NotifyCancelled, BlocksTrue, TypeOK, NotifyTypes, ClientTypes,
      notifies, history, client
<1>4. UsersTrue'
  <2>1. pc' # "called" /\ upc["client"] = "none"
    BY Known, <1>s DEF NotifyCancelled, AtWork, UsersTrue
  <2>2. ASSUME NEW r \in Runners, callUser[r]
        PROVE  state'[uch[r]] = "UserCallbackActive"
    <3>1. uch[r] \in Channels /\ uch[r] # pch
      BY Known, <1>r, <2>2 DEF UsersTrue, CallsUser, TypeOK, UserTypes
    <3>. QED BY Known, <1>s, <2>2, <3>1 DEF UsersTrue
  <2>. QED BY Known, <1>s, <2>1, <2>2 DEF UsersTrue, CallsUser, Adds
<1>5. WaitsTrue'
  BY Known DEF NotifyCancelled, WaitsTrue, CallsUser, Runners, TypeOK, PutTypes,
      ClientTypes, UserTypes,
      puts, client, users
<1>6. OneUnderWay'
  <2>1. \A c \in Channels : UnderWay(c)' =>
            (pPutNotify[c] = "allocated" /\ busy[c] /\ ~onExtraLaborQueue[c])'
    BY Known DEF NotifyCancelled, OneUnderWay, UnderWay, Adds, Runners, TypeOK,
        NotifyTypes, PutTypes, ClientTypes, UserTypes,
        notifies, puts, client, users
  <2>2. \A c \in Channels : onExtraLaborQueue'[c] =>
            busy'[c] \/ (pc' \in {"serialize", "start"} /\ pch' = c)
    BY Known DEF NotifyCancelled, OneUnderWay, UnderWay, Adds, Runners, TypeOK,
        NotifyTypes, PutTypes, ClientTypes, UserTypes,
        notifies, puts, client, users
  <2>3. \A q \in Runners : upc'[q] = "add" =>
            state'[uch'[q]] \in {"none", "UserCallbackActive"}
    BY Known DEF NotifyCancelled, OneUnderWay, UnderWay, Adds, Runners, TypeOK,
        NotifyTypes, PutTypes, ClientTypes, UserTypes,
        notifies, puts, client, users
  <2>4. pc' = "start" => ~busy'[pch']
    BY Known DEF NotifyCancelled, OneUnderWay, UnderWay, Adds, Runners, TypeOK,
        NotifyTypes, PutTypes, ClientTypes, UserTypes,
        notifies, puts, client, users
  <2>5. pc' \in {"expire", "free"} => ~UnderWay(pch)'
    <3>1. ASSUME NEW r \in Runners, Adds(r, pch) PROVE FALSE
      <4>1. callUser[r]
        BY Known, <1>s, <3>1 DEF UsersTrue, Adds
      <4>. QED BY <1>r, <3>1, <4>1 DEF CallsUser, Adds
    <3>. QED BY <1>s, <1>r, <3>1 DEF UnderWay, Adds
  <2>6. pc' \in {"put", "putwait"} =>
            busy'[pch'] /\ ~onExtraLaborQueue'[pch'] /\ ~UnderWay(pch)'
    BY Known DEF NotifyCancelled, OneUnderWay, UnderWay, Adds, Runners, TypeOK,
        NotifyTypes, PutTypes, ClientTypes, UserTypes,
        notifies, puts, client, users
  <2>. QED BY <2>1, <2>2, <2>3, <2>4, <2>5, <2>6 DEF OneUnderWay
<1>7. RepliesTrue'
  BY Known DEF NotifyCancelled, RepliesTrue, ToStart, Owed, TypeOK, NotifyTypes,
      HistoryTypes, ClientTypes, TaskTypes,
      notifies, history, client, task
<1>. QED BY <1>1, <1>2, <1>3, <1>4, <1>5, <1>6, <1>7 DEF IInv

\* A block is freed and taken off the queue.
LEMMA FreeStep ==
    ASSUME IInv, TypeOK', Free
    PROVE  IInv'
<1>1. QueueTrue'
  <2>1. pch \in Channels /\ pc' # "free" /\ UNCHANGED <<busy, onExtraLaborQueue>>
    BY Known DEF Free
  <2>2. CASE pPutNotify[pch] = "null"
    <3>1. UNCHANGED <<putNotifyQue, pPutNotify>>
      BY <2>2 DEF Free
    <3>. QED BY Known, <2>1, <3>1 DEF QueueTrue
  <2>3. CASE pPutNotify[pch] # "null"
    <3>1. /\ putNotifyQue' = Dequeued(pch)
          /\ pPutNotify' = [pPutNotify EXCEPT ![pch] = "freed"]
      BY <2>3 DEF Free
    <3>2. /\ IsInjective(putNotifyQue')
          /\ ToSet(putNotifyQue') = ToSet(putNotifyQue) \ {pch}
      BY <2>3, <3>1, Unlinked DEF Free
    <3>3. \A c \in Channels : pPutNotify'[c] = IF c = pch THEN "freed" ELSE pPutNotify[c]
      BY Known, <2>1, <3>1 DEF TypeOK, NotifyTypes
    <3>. QED BY Known, <2>1, <3>2, <3>3 DEF QueueTrue
  <2>. QED BY <2>2, <2>3
<1>2. AtWork'
  BY Known DEF Free, AtWork, TypeOK, ClientTypes, HistoryTypes,
      history, client
<1>3. BlocksTrue'
  BY Known DEF Free, BlocksTrue, TypeOK, NotifyTypes, ClientTypes,
      notifies, history, client
<1>4. UsersTrue'
  BY Known DEF Free, UsersTrue, CallsUser, Adds, Runners, TypeOK, PutTypes, ClientTypes,
      UserTypes,
      puts, client, users
<1>5. WaitsTrue'
  BY Known DEF Free, WaitsTrue, CallsUser, Runners, TypeOK, PutTypes, ClientTypes,
      UserTypes,
      puts, client, users
<1>6. OneUnderWay'
  BY Known DEF Free, OneUnderWay, UnderWay, Adds, Runners, TypeOK, NotifyTypes, PutTypes,
      ClientTypes, UserTypes,
      notifies, puts, client, users
<1>7. RepliesTrue'
  BY Known DEF Free, RepliesTrue, ToStart, Owed, TypeOK, NotifyTypes, HistoryTypes,
      ClientTypes, TaskTypes,
      notifies, history, client, task
<1>. QED BY <1>1, <1>2, <1>3, <1>4, <1>5, <1>6, <1>7 DEF IInv

\* A put completes: its callback is requested.
LEMMA CompletionStep ==
    ASSUME IInv, TypeOK', NEW ch \in Channels, Completion(ch)
    PROVE  IInv'
<1>1. QueueTrue'
  BY Known DEF Completion, QueueTrue, TypeOK, NotifyTypes,
      notifies, client
<1>2. AtWork'
  BY Known DEF Completion, AtWork, TypeOK, ClientTypes, HistoryTypes,
      history, client
<1>3. BlocksTrue'
  BY Known DEF Completion, BlocksTrue, TypeOK, NotifyTypes, ClientTypes,
      notifies, history, client
<1>4. UsersTrue'
  BY Known DEF Completion, UsersTrue, CallsUser, Adds, Runners, TypeOK, PutTypes,
      ClientTypes, UserTypes,
      puts, client, users
<1>5. WaitsTrue'
  BY Known DEF Completion, WaitsTrue, CallsUser, Runners, TypeOK, PutTypes, ClientTypes,
      UserTypes,
      puts, client, users
<1>6. OneUnderWay'
  BY Known DEF Completion, OneUnderWay, UnderWay, Adds, Runners, TypeOK, NotifyTypes,
      PutTypes, ClientTypes, UserTypes,
      notifies, puts, client, users
<1>7. RepliesTrue'
  BY Known DEF Completion, RepliesTrue, ToStart, Owed, TypeOK, NotifyTypes, HistoryTypes,
      ClientTypes, TaskTypes,
      notifies, history, client, task
<1>. QED BY <1>1, <1>2, <1>3, <1>4, <1>5, <1>6, <1>7 DEF IInv

\* The callback is called, or dropped for a canceller.
LEMMA notifyCallbackStep ==
    ASSUME IInv, TypeOK', NEW ch \in Channels, notifyCallback(ch)
    PROVE  IInv'
<1>c. /\ requested[ch] /\ state[ch] = "UserCallbackRequested" /\ upc["callback"] = "none"
      /\ "callback" \in Runners
      /\ requested' = [requested EXCEPT ![ch] = FALSE]
      /\ pc' = pc /\ pch' = pch /\ cancelWait' = cancelWait
      /\ userCallbackWait' = userCallbackWait /\ userCallbackEvent' = userCallbackEvent
      /\ pPutNotify' = pPutNotify /\ busy' = busy /\ onExtraLaborQueue' = onExtraLaborQueue
  BY Known DEF notifyCallback, WaitsTrue, client, Runners, notifies
<1>i. \/ /\ cancelWait[ch] /\ state' = state
         /\ cancelEvent' = [cancelEvent EXCEPT ![ch] = TRUE]
         /\ upc' = upc /\ uch' = uch /\ callUser' = callUser
      \/ /\ ~cancelWait[ch] /\ cancelEvent' = cancelEvent
         /\ state' = [state EXCEPT ![ch] = "UserCallbackActive"]
         /\ upc' = [upc EXCEPT !["callback"] = "add"]
         /\ uch' = [uch EXCEPT !["callback"] = ch]
         /\ callUser' = [callUser EXCEPT !["callback"] = TRUE]
  BY DEF notifyCallback, CallBack, users
<1>b. ~cancelWait[ch] =>
      /\ upc'["callback"] = "add" /\ uch'["callback"] = ch /\ callUser'["callback"] = TRUE
      /\ \A r \in Runners : r # "callback" =>
            upc'[r] = upc[r] /\ uch'[r] = uch[r] /\ callUser'[r] = callUser[r]
  BY Known, <1>i DEF TypeOK, UserTypes, Runners
<1>a. \A r \in Runners : ~Adds(r, ch) /\ ~CallsUser(r, ch)
  BY Known, <1>c DEF OneUnderWay, UsersTrue, CallsUser, Adds
<1>s. /\ \A c \in Channels : c # ch => state'[c] = state[c]
      /\ ~cancelWait[ch] => state'[ch] = "UserCallbackActive"
      /\ ~requested'[ch] /\ \A c \in Channels : c # ch => requested'[c] = requested[c]
  BY Known, <1>c, <1>i DEF TypeOK, PutTypes
<1>1. QueueTrue'
  BY Known DEF notifyCallback, CallBack, QueueTrue, TypeOK, NotifyTypes,
      notifies, client
<1>2. AtWork'
  BY Known DEF notifyCallback, CallBack, AtWork, TypeOK, ClientTypes, HistoryTypes,
      history, client
<1>3. BlocksTrue'
  BY Known DEF notifyCallback, CallBack, BlocksTrue, TypeOK, NotifyTypes, ClientTypes,
      notifies, history, client
<1>4. UsersTrue'
  <2>1. CASE cancelWait[ch]
    <3>1. upc' = upc /\ uch' = uch /\ callUser' = callUser /\ state' = state
      BY <1>i, <2>1
    <3>. QED BY Known, <1>c, <3>1 DEF UsersTrue, CallsUser, Adds
  <2>2. CASE ~cancelWait[ch]
    <3>1. ASSUME NEW r \in Runners
          PROVE  /\ uch'[r] = NoChannel <=> upc'[r] = "none"
                 /\ callUser'[r] => /\ upc'[r] # "none"
                                    /\ state'[uch'[r]] = "UserCallbackActive"
                 /\ upc'[r] # "none" /\ ~callUser'[r] => r = "client"
      <4>1. CASE r = "callback"
        BY Known, <1>b, <1>s, <2>2, <4>1
      <4>2. CASE r # "callback"
        <5>1. upc'[r] = upc[r] /\ uch'[r] = uch[r] /\ callUser'[r] = callUser[r]
          BY <1>b, <2>2, <4>2
        <5>2. callUser[r] => uch[r] \in Channels /\ uch[r] # ch
          BY Known, <1>a DEF UsersTrue, CallsUser, TypeOK, UserTypes
        <5>. QED BY Known, <1>s, <5>1, <5>2 DEF UsersTrue
      <4>. QED BY <4>1, <4>2
    <3>2. ASSUME NEW c \in Channels, NEW q \in Runners, NEW r \in Runners,
                 (CallsUser(q, c)' /\ CallsUser(r, c)') \/ (Adds(q, c)' /\ Adds(r, c)')
          PROVE  q = r
      <4>1. \A t \in Runners : CallsUser(t, c)' =>
                CallsUser(t, c) \/ (t = "callback" /\ c = ch)
        BY <1>b, <2>2 DEF CallsUser
      <4>2. \A t \in Runners : Adds(t, c)' => Adds(t, c) \/ (t = "callback" /\ c = ch)
        BY <1>b, <2>2 DEF Adds
      <4>3. CASE CallsUser(q, c)' /\ CallsUser(r, c)'
        BY Known, <1>a, <4>1, <4>3 DEF UsersTrue
      <4>4. CASE Adds(q, c)' /\ Adds(r, c)'
        BY Known, <1>a, <4>2, <4>4 DEF UsersTrue
      <4>. QED BY <3>2, <4>3, <4>4
    <3>3. upc'["client"] = upc["client"] /\ uch'["client"] = uch["client"]
      BY <1>b, <2>2 DEF Runners
    <3>. QED BY Known, <1>c, <3>1, <3>2, <3>3 DEF UsersTrue
  <2>. QED BY <2>1, <2>2
<1>5. WaitsTrue'
  <2>1. CASE cancelWait[ch]
    <3>1. /\ uch' = uch /\ callUser' = callUser /\ state' = state
          /\ cancelEvent' = [cancelEvent EXCEPT ![ch] = TRUE]
      BY <1>i, <2>1
    <3>2. pc = "cancelwait" /\ pch = ch
      BY Known, <1>c, <2>1 DEF WaitsTrue
    <3>3. cancelEvent'[ch] /\ \A c \in Channels : c # ch => cancelEvent'[c] = cancelEvent[c]
      BY Known, <3>1 DEF TypeOK, PutTypes
    <3>4. \A r \in Runners, c \in Channels : CallsUser(r, c)' <=> CallsUser(r, c)
      BY <3>1 DEF CallsUser
    <3>. QED BY Known, <1>c, <1>a, <1>s, <3>1, <3>2, <3>3, <3>4 DEF WaitsTrue
  <2>2. CASE ~cancelWait[ch]
    <3>1. cancelEvent' = cancelEvent
      BY <1>i, <2>2
    <3>2. ~cancelEvent[ch] /\ ~userCallbackEvent[ch]
      BY Known, <1>c DEF WaitsTrue
    <3>3. \A r \in Runners, c \in Channels :
                c # ch => (CallsUser(r, c)' <=> CallsUser(r, c) /\ r # "callback")
      BY <1>b, <2>2 DEF CallsUser
    <3>4. ASSUME NEW c \in Channels
          PROVE  /\ requested'[c] => state'[c] = "UserCallbackRequested"
                 /\ state'[c] = "UserCallbackRequested" =>
                        requested'[c] \/ (pc = "cancelwait" /\ pch = c)
                 /\ cancelWait[c] => (pc = "cancelwait" /\ pch = c) \/ state'[c] = "none"
                 /\ cancelEvent[c] => pc = "cancelwait" /\ pch = c /\ ~requested'[c]
                 /\ cancelEvent[c] \/ userCallbackEvent[c] =>
                        \A r \in Runners : ~CallsUser(r, c)'
      <4>1. CASE c = ch
        BY <1>s, <2>2, <3>2, <4>1
      <4>2. CASE c # ch
        BY Known, <1>s, <3>3, <4>2 DEF WaitsTrue
      <4>. QED BY <4>1, <4>2
    <3>5. pc \in {"cancelwait", "putwait"} => pch \in Channels
      BY Known
    <3>6. pc = "cancelwait" =>
            state'[pch] \in {"UserCallbackRequested", "UserCallbackActive"}
      BY Known, <1>s, <2>2, <3>5 DEF WaitsTrue
    <3>7. pc = "putwait" => state'[pch] = "UserCallbackActive"
      BY Known, <1>s, <2>2, <3>5 DEF WaitsTrue
    <3>. QED BY Known, <1>c, <3>1, <3>4, <3>6, <3>7 DEF WaitsTrue
  <2>. QED BY <2>1, <2>2
<1>6. OneUnderWay'
  <2>1. \A c \in Channels : UnderWay(c)' =>
            (pPutNotify[c] = "allocated" /\ busy[c] /\ ~onExtraLaborQueue[c])'
    BY Known DEF notifyCallback, CallBack, OneUnderWay, UnderWay, Adds, Runners, TypeOK,
        NotifyTypes, PutTypes, ClientTypes, UserTypes,
        notifies, puts, client, users
  <2>2. \A c \in Channels : onExtraLaborQueue'[c] =>
            busy'[c] \/ (pc' \in {"serialize", "start"} /\ pch' = c)
    BY Known DEF notifyCallback, CallBack, OneUnderWay, UnderWay, Adds, Runners, TypeOK,
        NotifyTypes, PutTypes, ClientTypes, UserTypes,
        notifies, puts, client, users
  <2>3. \A q \in Runners : upc'[q] = "add" =>
            state'[uch'[q]] \in {"none", "UserCallbackActive"}
    <3>1. ASSUME NEW q \in Runners, upc'[q] = "add"
          PROVE  state'[uch'[q]] \in {"none", "UserCallbackActive"}
      <4>1. CASE ~cancelWait[ch] /\ q = "callback"
        BY <1>b, <1>s, <4>1
      <4>2. CASE ~(~cancelWait[ch] /\ q = "callback")
        <5>1. upc[q] = "add" /\ uch'[q] = uch[q]
          BY <1>b, <1>i, <3>1, <4>2
        <5>2. uch[q] \in Channels /\ uch[q] # ch
          BY Known, <1>a, <5>1 DEF UsersTrue, Adds, TypeOK, UserTypes
        <5>. QED BY Known, <1>s, <5>1, <5>2 DEF OneUnderWay
      <4>. QED BY <4>1, <4>2
    <3>. QED BY <3>1
  <2>4. pc' = "start" => ~busy'[pch']
    BY Known DEF notifyCallback, CallBack, OneUnderWay, UnderWay, Adds, Runners, TypeOK,
        NotifyTypes, PutTypes, ClientTypes, UserTypes,
        notifies, puts, client, users
  <2>5. pc' \in {"expire", "free"} => ~UnderWay(pch)'
    BY Known DEF notifyCallback, CallBack, OneUnderWay, UnderWay, Adds, Runners, TypeOK,
        NotifyTypes, PutTypes, ClientTypes, UserTypes,
        notifies, puts, client, users
  <2>6. pc' \in {"put", "putwait"} =>
            busy'[pch'] /\ ~onExtraLaborQueue'[pch'] /\ ~UnderWay(pch)'
    BY Known DEF notifyCallback, CallBack, OneUnderWay, UnderWay, Adds, Runners, TypeOK,
        NotifyTypes, PutTypes, ClientTypes, UserTypes,
        notifies, puts, client, users
  <2>. QED BY <2>1, <2>2, <2>3, <2>4, <2>5, <2>6 DEF OneUnderWay
<1>7. RepliesTrue'
  BY Known DEF notifyCallback, CallBack, RepliesTrue, ToStart, Owed, TypeOK, NotifyTypes,
      HistoryTypes, ClientTypes, TaskTypes,
      notifies, history, client, task
<1>. QED BY <1>1, <1>2, <1>3, <1>4, <1>5, <1>6, <1>7 DEF IInv

\* The user callback queues the put, which was the only one under way.
LEMMA UserAddStep ==
    ASSUME IInv, TypeOK', NEW r \in Runners, UserAdd(r)
    PROVE  IInv'
<1>q. /\ uch[r] \in Channels /\ uch[r] \notin ToSet(putNotifyQue)
      /\ IsInjective(putNotifyQue')
      /\ ToSet(putNotifyQue') = ToSet(putNotifyQue) \cup {uch[r]}
      /\ pPutNotify[uch[r]] = "allocated" /\ ~Double(uch[r])
      /\ onExtraLaborQueue' = [onExtraLaborQueue EXCEPT ![uch[r]] = TRUE]
      /\ upc' = [upc EXCEPT ![r] = "post"]
  BY Queued DEF UserAdd
<1>c. /\ busy' = busy /\ pPutNotify' = pPutNotify /\ uch' = uch /\ state' = state
      /\ requested' = requested /\ pc' = pc /\ upc[r] = "add"
  BY DEF UserAdd, client, puts
<1>l. /\ onExtraLaborQueue'[uch[r]]
      /\ \A c \in Channels : c # uch[r] => onExtraLaborQueue'[c] = onExtraLaborQueue[c]
      /\ \A t \in Runners : upc'[t] = IF t = r THEN "post" ELSE upc[t]
  BY Known, <1>q DEF TypeOK, NotifyTypes, UserTypes
<1>1. QueueTrue'
  <2>1. pc = "free" => pch \in Channels /\ pch' = pch
    BY Known DEF UserAdd, client
  <2>2. busy[uch[r]]
    BY <1>q DEF Double
  <2>. QED BY Known, <1>q, <1>c, <1>l, <2>1, <2>2 DEF QueueTrue
<1>2. AtWork'
  BY Known DEF UserAdd, AtWork, TypeOK, ClientTypes, HistoryTypes,
      history, client
<1>3. BlocksTrue'
  BY Known DEF UserAdd, BlocksTrue, TypeOK, NotifyTypes, ClientTypes,
      notifies, history, client
<1>4. UsersTrue'
  BY Known DEF UserAdd, UsersTrue, CallsUser, Adds, Runners, TypeOK, PutTypes,
      ClientTypes, UserTypes,
      puts, client, users
<1>5. WaitsTrue'
  BY Known DEF UserAdd, WaitsTrue, CallsUser, Runners, TypeOK, PutTypes, ClientTypes,
      UserTypes,
      puts, client, users
<1>6. OneUnderWay'
  <2>1. \A c \in Channels : UnderWay(c)' =>
            (pPutNotify[c] = "allocated" /\ busy[c] /\ ~onExtraLaborQueue[c])'
    <3>1. \A c \in Channels, t \in Runners : Adds(t, c)' => Adds(t, c) /\ t # r
      BY <1>c, <1>l DEF Adds
    <3>2. \A t \in Runners : Adds(t, uch[r]) => t = r
      BY Known, <1>q, <1>c DEF UsersTrue, Adds
    <3>3. state[uch[r]] # "PutInProgress" /\ ~requested[uch[r]]
      BY Known, <1>q, <1>c DEF OneUnderWay, WaitsTrue
    <3>4. \A c \in Channels : UnderWay(c)' => UnderWay(c) /\ c # uch[r]
      BY <1>c, <3>1, <3>2, <3>3 DEF UnderWay
    <3>. QED BY Known, <1>c, <1>l, <3>4 DEF OneUnderWay
  <2>2. \A c \in Channels : onExtraLaborQueue'[c] =>
            busy'[c] \/ (pc' \in {"serialize", "start"} /\ pch' = c)
    BY Known DEF UserAdd, OneUnderWay, UnderWay, Adds, Runners, TypeOK, NotifyTypes,
        PutTypes, ClientTypes, UserTypes,
        notifies, puts, client, users
  <2>3. \A q \in Runners : upc'[q] = "add" =>
            state'[uch'[q]] \in {"none", "UserCallbackActive"}
    BY Known DEF UserAdd, OneUnderWay, UnderWay, Adds, Runners, TypeOK, NotifyTypes,
        PutTypes, ClientTypes, UserTypes,
        notifies, puts, client, users
  <2>4. pc' = "start" => ~busy'[pch']
    BY Known DEF UserAdd, OneUnderWay, UnderWay, Adds, Runners, TypeOK, NotifyTypes,
        PutTypes, ClientTypes, UserTypes,
        notifies, puts, client, users
  <2>5. pc' \in {"expire", "free"} => ~UnderWay(pch)'
    BY Known DEF UserAdd, OneUnderWay, UnderWay, Adds, Runners, TypeOK, NotifyTypes,
        PutTypes, ClientTypes, UserTypes,
        notifies, puts, client, users
  <2>6. pc' \in {"put", "putwait"} =>
            busy'[pch'] /\ ~onExtraLaborQueue'[pch'] /\ ~UnderWay(pch)'
    BY Known DEF UserAdd, OneUnderWay, UnderWay, Adds, Runners, TypeOK, NotifyTypes,
        PutTypes, ClientTypes, UserTypes,
        notifies, puts, client, users
  <2>. QED BY <2>1, <2>2, <2>3, <2>4, <2>5, <2>6 DEF OneUnderWay
<1>7. RepliesTrue'
  BY Known DEF UserAdd, RepliesTrue, ToStart, Owed, TypeOK, NotifyTypes, HistoryTypes,
      ClientTypes, TaskTypes,
      notifies, history, client, task
<1>. QED BY <1>1, <1>2, <1>3, <1>4, <1>5, <1>6, <1>7 DEF IInv

\* The user callback returns and tells who waits for it.
LEMMA UserEndStep ==
    ASSUME IInv, TypeOK', NEW r \in Runners, UserEnd(r)
    PROVE  IInv'
<1>c. /\ upc[r] = "end" /\ uch[r] \in Channels
      /\ upc' = [upc EXCEPT ![r] = "none"]
      /\ uch' = [uch EXCEPT ![r] = NoChannel]
      /\ callUser' = [callUser EXCEPT ![r] = FALSE]
      /\ pPutNotify' = pPutNotify /\ busy' = busy /\ open' = open
      /\ onExtraLaborQueue' = onExtraLaborQueue /\ requested' = requested
      /\ msg' = msg /\ asked' = asked /\ replies' = replies /\ tpc' = tpc /\ tmsg' = tmsg
      /\ ret' = ret /\ next' = next
  BY Known DEF UserEnd, UsersTrue, TypeOK, UserTypes, notifies, history, task
<1>p. IF r = "client" THEN pc = "called" /\ pc' = "idle" /\ pch' = NoChannel
      ELSE pc' = pc /\ pch' = pch
  BY Known, <1>c DEF UserEnd, UsersTrue, Runners
<1>u. /\ upc'[r] = "none" /\ ~callUser'[r]
      /\ \A t \in Runners : t # r => upc'[t] = upc[t] /\ uch'[t] = uch[t]
                                     /\ callUser'[t] = callUser[t]
  BY Known, <1>c DEF TypeOK, UserTypes
<1>s. /\ \A c \in Channels : state'[c] \in {state[c], "none"}
      /\ \A c \in Channels : c # uch[r] =>
            /\ state'[c] = state[c] /\ cancelWait'[c] = cancelWait[c]
            /\ userCallbackWait'[c] = userCallbackWait[c]
            /\ cancelEvent'[c] = cancelEvent[c]
            /\ userCallbackEvent'[c] = userCallbackEvent[c]
      /\ ~callUser[r] => UNCHANGED <<state, cancelWait, userCallbackWait>>
  BY Known, <1>c DEF UserEnd, TypeOK, PutTypes
<1>e. /\ callUser[r] =>
            /\ ~cancelWait'[uch[r]] /\ ~userCallbackWait'[uch[r]]
            /\ state'[uch[r]] = IF cancelWait[uch[r]] \/ userCallbackWait[uch[r]]
                                THEN state[uch[r]] ELSE "none"
      /\ cancelEvent'[uch[r]] <=>
            cancelEvent[uch[r]] \/ (callUser[r] /\ cancelWait[uch[r]])
      /\ userCallbackEvent'[uch[r]] <=> userCallbackEvent[uch[r]] \/
            (callUser[r] /\ ~cancelWait[uch[r]] /\ userCallbackWait[uch[r]])
  BY Known, <1>c DEF UserEnd, SignalsCancel, TypeOK, PutTypes
<1>1. QueueTrue'
  BY Known DEF UserEnd, SignalsCancel, QueueTrue, TypeOK, NotifyTypes,
      notifies, client
<1>2. AtWork'
  BY Known DEF UserEnd, SignalsCancel, AtWork, TypeOK, ClientTypes, HistoryTypes,
      history, client
<1>3. BlocksTrue'
  BY Known, <1>c, <1>p DEF BlocksTrue
<1>4. UsersTrue'
  BY Known DEF UserEnd, SignalsCancel, UsersTrue, CallsUser, Adds, Runners, TypeOK,
      PutTypes, ClientTypes, UserTypes,
      puts, client, users
<1>5. WaitsTrue'
  <2>1. callUser[r] => state[uch[r]] = "UserCallbackActive" /\ ~requested[uch[r]]
    BY Known, <1>c DEF UsersTrue, WaitsTrue
  <2>2. \A t \in Runners, c \in Channels : CallsUser(t, c)' => CallsUser(t, c)
    BY <1>u DEF CallsUser
  <2>3. \A c \in Channels, t \in Runners :
            callUser[r] /\ c = uch[r] => ~CallsUser(t, c)'
    BY Known, <1>c, <1>u DEF UsersTrue, CallsUser
  <2>4. pc' \in {"cancelwait", "putwait"} <=> pc \in {"cancelwait", "putwait"}
    BY <1>p
  <2>5. pc \in {"cancelwait", "putwait"} => pc' = pc /\ pch' = pch /\ pch \in Channels
    BY Known, <1>p
  <2>6. ASSUME NEW c \in Channels, c # uch[r]
        PROVE  /\ requested'[c] => state'[c] = "UserCallbackRequested"
               /\ state'[c] = "UserCallbackRequested" =>
                    requested'[c] \/ (pc' = "cancelwait" /\ pch' = c)
               /\ cancelWait'[c] => (pc' = "cancelwait" /\ pch' = c) \/ state'[c] = "none"
               /\ userCallbackWait'[c] => pc' = "putwait" /\ pch' = c
               /\ cancelEvent'[c] => pc' = "cancelwait" /\ pch' = c /\ ~requested'[c]
               /\ userCallbackEvent'[c] => pc' = "putwait" /\ pch' = c
               /\ cancelEvent'[c] \/ userCallbackEvent'[c] =>
                    \A t \in Runners : ~CallsUser(t, c)'
    BY Known, <1>c, <1>s, <2>2, <2>5, <2>6 DEF WaitsTrue
  <2>7. ASSUME NEW c \in Channels, c = uch[r]
        PROVE  /\ requested'[c] => state'[c] = "UserCallbackRequested"
               /\ state'[c] = "UserCallbackRequested" =>
                    requested'[c] \/ (pc' = "cancelwait" /\ pch' = c)
               /\ cancelWait'[c] => (pc' = "cancelwait" /\ pch' = c) \/ state'[c] = "none"
               /\ userCallbackWait'[c] => pc' = "putwait" /\ pch' = c
               /\ cancelEvent'[c] => pc' = "cancelwait" /\ pch' = c /\ ~requested'[c]
               /\ userCallbackEvent'[c] => pc' = "putwait" /\ pch' = c
               /\ cancelEvent'[c] \/ userCallbackEvent'[c] =>
                    \A t \in Runners : ~CallsUser(t, c)'
    <3>1. CASE callUser[r]
      <4>1. CallsUser(r, c)
        BY <2>7, <3>1 DEF CallsUser
      <4>2. ~cancelEvent[c] /\ ~userCallbackEvent[c]
        BY Known, <4>1 DEF WaitsTrue
      <4>3. /\ cancelWait[c] => pc = "cancelwait" /\ pch = c
            /\ userCallbackWait[c] => pc = "putwait" /\ pch = c
        BY Known, <2>1, <2>7, <3>1 DEF WaitsTrue
      <4>4. /\ ~cancelWait'[c] /\ ~userCallbackWait'[c] /\ ~requested'[c]
            /\ state'[c] \in {"UserCallbackActive", "none"}
            /\ cancelEvent'[c] => cancelWait[c]
            /\ userCallbackEvent'[c] => userCallbackWait[c]
        BY <1>c, <1>e, <2>1, <2>7, <3>1, <4>2
      <4>. QED BY <2>3, <2>5, <2>7, <3>1, <4>3, <4>4
    <3>2. CASE ~callUser[r]
      BY Known, <1>c, <1>s, <1>e, <2>2, <2>5, <2>7, <3>2 DEF WaitsTrue
    <3>. QED BY <3>1, <3>2
  <2>8. ASSUME pc' \in {"cancelwait", "putwait"}, pch = uch[r], callUser[r]
        PROVE  /\ pc' = "cancelwait" => cancelEvent'[pch]
                    /\ state'[pch] \in {"UserCallbackRequested", "UserCallbackActive"}
               /\ pc' = "putwait" => userCallbackEvent'[pch]
                    /\ state'[pch] = "UserCallbackActive"
    <3>1. CASE pc = "cancelwait"
      <4>1. cancelWait[pch]
        BY Known, <2>5, <2>8, <3>1 DEF WaitsTrue, CallsUser
      <4>. QED BY <1>e, <2>1, <2>5, <2>8, <3>1, <4>1
    <3>2. CASE pc = "putwait"
      <4>1. userCallbackWait[pch] /\ ~cancelWait[pch]
        BY Known, <2>5, <2>8, <3>2 DEF WaitsTrue, CallsUser
      <4>. QED BY <1>e, <2>1, <2>5, <2>8, <3>2, <4>1
    <3>. QED BY <2>4, <2>8, <3>1, <3>2
  <2>9. ASSUME pc' \in {"cancelwait", "putwait"}, ~(pch = uch[r] /\ callUser[r])
        PROVE  /\ state'[pch] = state[pch] /\ cancelWait'[pch] = cancelWait[pch]
               /\ userCallbackWait'[pch] = userCallbackWait[pch]
               /\ cancelEvent[pch] => cancelEvent'[pch]
               /\ userCallbackEvent[pch] => userCallbackEvent'[pch]
    BY <1>s, <1>e, <2>4, <2>5, <2>9
  <2>10. /\ pc' = "cancelwait" => /\ cancelWait'[pch'] \/ cancelEvent'[pch']
                                 /\ state'[pch'] \in {"UserCallbackRequested",
                                                      "UserCallbackActive"}
         /\ pc' = "putwait" => /\ userCallbackWait'[pch'] \/ userCallbackEvent'[pch']
                               /\ state'[pch'] = "UserCallbackActive"
    BY Known, <2>4, <2>5, <2>8, <2>9 DEF WaitsTrue
  <2>. QED BY <2>6, <2>7, <2>10 DEF WaitsTrue
<1>6. OneUnderWay'
  <2>1. \A c \in Channels : UnderWay(c)' =>
            (pPutNotify[c] = "allocated" /\ busy[c] /\ ~onExtraLaborQueue[c])'
    BY Known DEF UserEnd, SignalsCancel, OneUnderWay, UnderWay, Adds, Runners, TypeOK,
        NotifyTypes, PutTypes, ClientTypes, UserTypes,
        notifies, puts, client, users
  <2>2. \A c \in Channels : onExtraLaborQueue'[c] =>
            busy'[c] \/ (pc' \in {"serialize", "start"} /\ pch' = c)
    BY Known, <1>c, <1>p DEF OneUnderWay
  <2>3. \A q \in Runners : upc'[q] = "add" =>
            state'[uch'[q]] \in {"none", "UserCallbackActive"}
    <3>1. ASSUME NEW q \in Runners, upc'[q] = "add"
          PROVE  state'[uch'[q]] \in {"none", "UserCallbackActive"}
      <4>1. upc[q] = "add" /\ uch'[q] = uch[q]
        BY <1>u, <3>1
      <4>2. uch[q] \in Channels
        BY Known, <4>1 DEF UsersTrue, TypeOK, UserTypes
      <4>. QED BY Known, <1>s, <4>1, <4>2 DEF OneUnderWay
    <3>. QED BY <3>1
  <2>4. pc' = "start" => ~busy'[pch']
    BY Known DEF UserEnd, SignalsCancel, OneUnderWay, UnderWay, Adds, Runners, TypeOK,
        NotifyTypes, PutTypes, ClientTypes, UserTypes,
        notifies, puts, client, users
  <2>5. pc' \in {"expire", "free"} => ~UnderWay(pch)'
    BY Known DEF UserEnd, SignalsCancel, OneUnderWay, UnderWay, Adds, Runners, TypeOK,
        NotifyTypes, PutTypes, ClientTypes, UserTypes,
        notifies, puts, client, users
  <2>6. pc' \in {"put", "putwait"} =>
            busy'[pch'] /\ ~onExtraLaborQueue'[pch'] /\ ~UnderWay(pch)'
    BY Known DEF UserEnd, SignalsCancel, OneUnderWay, UnderWay, Adds, Runners, TypeOK,
        NotifyTypes, PutTypes, ClientTypes, UserTypes,
        notifies, puts, client, users
  <2>. QED BY <2>1, <2>2, <2>3, <2>4, <2>5, <2>6 DEF OneUnderWay
<1>7. RepliesTrue'
  <2>1. \A c \in Channels : ToStart(c)' <=> ToStart(c)
    BY Known, <1>c, <1>p DEF ToStart
  <2>. QED BY Known, <1>c, <2>1 DEF RepliesTrue, Owed
<1>. QED BY <1>1, <1>2, <1>3, <1>4, <1>5, <1>6, <1>7 DEF IInv

\* The event task takes a put off the queue.
LEMMA ReplyTakeStep ==
    ASSUME IInv, TypeOK', ReplyTake
    PROVE  IInv'
<1>t. tpc = "reply" => tmsg \in Channels \X Requests
  BY Known DEF RepliesTrue, TypeOK, TaskTypes

<1>q. /\ tpc = "labor" /\ tpc' = "reply" /\ Head(putNotifyQue) \in Channels
      /\ IsInjective(putNotifyQue')
      /\ ToSet(putNotifyQue') = ToSet(putNotifyQue) \ {Head(putNotifyQue)}
      /\ busy[Head(putNotifyQue)] /\ onExtraLaborQueue[Head(putNotifyQue)]
      /\ msg[Head(putNotifyQue)] \in Requests
      /\ tmsg' = <<Head(putNotifyQue), msg[Head(putNotifyQue)]>>
  BY Taken DEF ReplyTake, Step
<1>h. PICK h \in Channels : h = Head(putNotifyQue)
  BY <1>q
<1>c. /\ pPutNotify' = pPutNotify /\ state' = state /\ requested' = requested
      /\ upc' = upc /\ uch' = uch /\ pc' = pc /\ pch' = pch /\ msg' = msg
      /\ asked' = asked /\ replies' = replies /\ next' = next /\ ret' = ret
  BY DEF ReplyTake, client, users, puts, history
<1>b. /\ ~onExtraLaborQueue'[h] /\ ~busy'[h]
      /\ \A c \in Channels : c # h =>
            onExtraLaborQueue'[c] = onExtraLaborQueue[c] /\ busy'[c] = busy[c]
  BY Known, <1>h DEF ReplyTake, TypeOK, NotifyTypes
<1>1. QueueTrue'
  <2>1. pc = "free" => pch \in Channels
    BY Known
  <2>. QED BY Known, <1>q, <1>h, <1>c, <1>b, <2>1 DEF QueueTrue
<1>2. AtWork'
  BY Known DEF ReplyTake, Step, AtWork, TypeOK, ClientTypes, HistoryTypes,
      history, client
<1>3. BlocksTrue'
  BY Known DEF ReplyTake, Step, BlocksTrue, TypeOK, NotifyTypes, ClientTypes,
      notifies, history, client
<1>4. UsersTrue'
  BY Known DEF ReplyTake, Step, UsersTrue, CallsUser, Adds, Runners, TypeOK, PutTypes,
      ClientTypes, UserTypes,
      puts, client, users
<1>5. WaitsTrue'
  BY Known DEF ReplyTake, Step, WaitsTrue, CallsUser, Runners, TypeOK, PutTypes,
      ClientTypes, UserTypes,
      puts, client, users
<1>6. OneUnderWay'
  <2>1. \A c \in Channels : UnderWay(c)' =>
            (pPutNotify[c] = "allocated" /\ busy[c] /\ ~onExtraLaborQueue[c])'
    <3>1. \A c \in Channels : UnderWay(c)' <=> UnderWay(c)
      BY <1>c DEF UnderWay, Adds
    <3>2. ~UnderWay(h)
      BY Known, <1>q, <1>h DEF OneUnderWay
    <3>. QED BY Known, <1>c, <1>b, <3>1, <3>2 DEF OneUnderWay
  <2>2. \A c \in Channels : onExtraLaborQueue'[c] =>
            busy'[c] \/ (pc' \in {"serialize", "start"} /\ pch' = c)
    BY Known DEF ReplyTake, Step, OneUnderWay, UnderWay, Adds, Runners, TypeOK,
        NotifyTypes, PutTypes, ClientTypes, UserTypes,
        notifies, puts, client, users
  <2>3. \A q \in Runners : upc'[q] = "add" =>
            state'[uch'[q]] \in {"none", "UserCallbackActive"}
    BY Known DEF ReplyTake, Step, OneUnderWay, UnderWay, Adds, Runners, TypeOK,
        NotifyTypes, PutTypes, ClientTypes, UserTypes,
        notifies, puts, client, users
  <2>4. pc' = "start" => ~busy'[pch']
    BY Known DEF ReplyTake, Step, OneUnderWay, UnderWay, Adds, Runners, TypeOK,
        NotifyTypes, PutTypes, ClientTypes, UserTypes,
        notifies, puts, client, users
  <2>5. pc' \in {"expire", "free"} => ~UnderWay(pch)'
    BY Known DEF ReplyTake, Step, OneUnderWay, UnderWay, Adds, Runners, TypeOK,
        NotifyTypes, PutTypes, ClientTypes, UserTypes,
        notifies, puts, client, users
  <2>6. pc' \in {"put", "putwait"} =>
            busy'[pch'] /\ ~onExtraLaborQueue'[pch'] /\ ~UnderWay(pch)'
    <3>1. UnderWay(pch)' <=> UnderWay(pch)
      BY <1>c DEF UnderWay, Adds
    <3>2. pc \in {"put", "putwait"} => pch \in Channels
      BY Known
    <3>. QED BY Known, <1>q, <1>h, <1>c, <1>b, <3>1, <3>2 DEF OneUnderWay
  <2>. QED BY <2>1, <2>2, <2>3, <2>4, <2>5, <2>6 DEF OneUnderWay
<1>7. RepliesTrue'
  <2>1. tmsg = <<NoChannel, 0>>
    BY Known, <1>q DEF RepliesTrue
  <2>2. \A c \in Channels, n \in Requests : tmsg # <<c, n>>
    BY Known, <2>1
  <2>3. \A c \in Channels, n \in Requests :
            tmsg' = <<c, n>> <=> c = h /\ n = msg[h]
    BY <1>q, <1>h
  <2>4. \A c \in Channels, n \in Requests : Owed(c, n)' <=> Owed(c, n)
    BY <1>q, <1>h, <1>c, <1>b, <2>2, <2>3 DEF Owed
  <2>5. \A c \in Channels : ToStart(c)' <=> ToStart(c)
    BY <1>c DEF ToStart
  <2>6. tmsg' # <<NoChannel, 0>> /\ tmsg'[1] = h /\ tmsg'[2] = msg[h]
    BY Known, <1>q, <1>h
  <2>7. ret # "idle"
    BY Known, <1>q DEF RepliesTrue
  <2>8. \A c \in Channels : busy'[c] => busy[c]
    BY <1>b
  <2>. QED BY Known, <1>q, <1>c, <1>b, <2>4, <2>5, <2>6, <2>7, <2>8 DEF RepliesTrue
<1>. QED BY <1>1, <1>2, <1>3, <1>4, <1>5, <1>6, <1>7 DEF IInv

\* The event task sends the reply it took.
LEMMA ReplySendStep ==
    ASSUME IInv, TypeOK', ReplySend
    PROVE  IInv'
<1>t. tpc = "reply" => tmsg \in Channels \X Requests
  BY Known DEF RepliesTrue, TypeOK, TaskTypes
<1>1. QueueTrue'
  BY Known DEF ReplySend, Step, Reply, QueueTrue, TypeOK, NotifyTypes,
      notifies, client
<1>2. AtWork'
  BY Known DEF ReplySend, Step, Reply, AtWork, TypeOK, ClientTypes, HistoryTypes,
      history, client
<1>3. BlocksTrue'
  BY Known DEF ReplySend, Step, Reply, BlocksTrue, TypeOK, NotifyTypes, ClientTypes,
      notifies, history, client
<1>4. UsersTrue'
  BY Known DEF ReplySend, Step, Reply, UsersTrue, CallsUser, Adds, Runners, TypeOK,
      PutTypes, ClientTypes, UserTypes,
      puts, client, users
<1>5. WaitsTrue'
  BY Known DEF ReplySend, Step, Reply, WaitsTrue, CallsUser, Runners, TypeOK, PutTypes,
      ClientTypes, UserTypes,
      puts, client, users
<1>6. OneUnderWay'
  BY Known DEF ReplySend, Step, Reply, OneUnderWay, UnderWay, Adds, Runners, TypeOK,
      NotifyTypes, PutTypes, ClientTypes, UserTypes,
      notifies, puts, client, users
<1>7. RepliesTrue'
  <2>1. /\ tpc = "reply" /\ tpc' = "labor" /\ tmsg' = <<NoChannel, 0>>
        /\ replies' = [replies EXCEPT ![tmsg[1]][tmsg[2]] = @ + 1]
        /\ asked' = asked /\ msg' = msg /\ busy' = busy /\ ret' = ret
        /\ pc' = pc /\ pch' = pch /\ next' = next
    BY DEF ReplySend, Step, Reply, notifies, client
  <2>2. PICK h \in Channels, m \in Requests : tmsg = <<h, m>>
    BY <1>t, <2>1
  <2>3. Owed(h, m) /\ replies[h][m] = 0
    BY Known, <2>2 DEF RepliesTrue, Owed
  <2>4. \A c \in Channels : ToStart(c)' <=> ToStart(c)
    BY <2>1 DEF ToStart
  <2>5. m < msg[h] \/ (m = msg[h] /\ ~busy[h])
    BY Known, <2>1, <2>2 DEF RepliesTrue
  <2>6. msg[h] \in Nat
    BY Known DEF TypeOK, NotifyTypes
  <2>7. ASSUME NEW c \in Channels, NEW n \in Requests
        PROVE  replies'[c][n] = IF Owed(c, n)' THEN 0 ELSE 1
    <3>1. tmsg' # <<c, n>>
      BY Known, <2>1
    <3>2. CASE c = h /\ n = m
      <4>1. replies'[c][n] = 1
        BY Known, <2>1, <2>2, <2>3, <3>2 DEF TypeOK, HistoryTypes
      <4>2. ~Owed(c, n)'
        BY <2>1, <2>5, <2>6, <3>1, <3>2 DEF Owed, Requests
      <4>. QED BY <4>1, <4>2
    <3>3. CASE ~(c = h /\ n = m)
      <4>1. replies'[c][n] = replies[c][n]
        BY Known, <2>1, <2>2, <3>3 DEF TypeOK, HistoryTypes
      <4>2. Owed(c, n)' <=> Owed(c, n)
        BY <2>1, <2>2, <3>1, <3>3 DEF Owed
      <4>. QED BY Known, <4>1, <4>2 DEF RepliesTrue
    <3>. QED BY <3>2, <3>3
  <2>. QED BY Known, <2>1, <2>4, <2>7 DEF RepliesTrue
<1>. QED BY <1>1, <1>2, <1>3, <1>4, <1>5, <1>6, <1>7 DEF IInv

-----------------------------------------------------------------------------
(* The steps that do not matter, and the theorems *)

\* What else the user callbacks and the event task do to post and to find labor.
Quiet ==
    /\ UNCHANGED <<notifies, puts, history, client, uch, callUser, tmsg>>
    /\ \A r \in Runners :
        \/ upc'[r] = upc[r]
        \/ upc[r] \notin {"none", "add"} /\ upc'[r] \notin {"none", "add"}
    /\ tpc' = "reply" <=> tpc = "reply"
    /\ tpc' \in {"labor", "reply"} => ret' # "idle"

\* These steps keep the invariant.
LEMMA QuietKeeps == ASSUME IInv, TypeOK', Quiet PROVE IInv'
<1>0. TypeOK /\ QueueTrue /\ AtWork /\ BlocksTrue /\ UsersTrue /\ WaitsTrue /\ OneUnderWay
      /\ RepliesTrue
  BY DEF IInv, QueueTrue
<1>1. /\ pPutNotify' = pPutNotify /\ busy' = busy /\ msg' = msg
      /\ onExtraLaborQueue' = onExtraLaborQueue /\ putNotifyQue' = putNotifyQue
  BY DEF Quiet, notifies
<1>2. /\ state' = state /\ cancelWait' = cancelWait /\ cancelEvent' = cancelEvent
      /\ userCallbackWait' = userCallbackWait
      /\ userCallbackEvent' = userCallbackEvent /\ requested' = requested
  BY DEF Quiet, puts
<1>3. /\ asked' = asked /\ replies' = replies /\ open' = open /\ pc' = pc /\ pch' = pch
      /\ next' = next /\ uch' = uch /\ callUser' = callUser /\ tmsg' = tmsg
  BY DEF Quiet, history, client
<1>4. \A r \in Runners : /\ upc'[r] = "none" <=> upc[r] = "none"
                         /\ upc'[r] = "add" <=> upc[r] = "add"
  BY DEF Quiet
<1>5. QueueTrue'
  BY <1>0, <1>1, <1>3 DEF QueueTrue
<1>6. AtWork'
  BY <1>0, <1>3 DEF AtWork
<1>7. BlocksTrue'
  BY <1>0, <1>1, <1>3 DEF BlocksTrue
<1>8. UsersTrue'
  BY <1>0, <1>2, <1>3, <1>4 DEF UsersTrue, CallsUser, Adds, Runners
<1>9. WaitsTrue'
  BY <1>0, <1>2, <1>3 DEF WaitsTrue, CallsUser
<1>10. OneUnderWay'
  BY <1>0, <1>1, <1>2, <1>3, <1>4 DEF OneUnderWay, UnderWay, Adds
<1>11. RepliesTrue'
  BY <1>0, <1>1, <1>3 DEF Quiet, RepliesTrue, ToStart, Owed
<1>. QED BY <1>5, <1>6, <1>7, <1>8, <1>9, <1>10, <1>11 DEF IInv

\* Such are the steps that are left.
LEMMA QuietSteps ==
    ASSUME IInv,
           \/ \E r \in Runners : UserPost(r) \/ UserLock(r) \/ UserSignal(r)
           \/ PostEvent
           \/ TaskWake \/ TaskBusy \/ TaskCheck \/ TaskTake \/ TaskUnbusy \/ TaskAgain
           \/ TaskClear \/ TaskCall \/ ReplyEnd \/ TaskEvents
           \/ UNCHANGED vars
    PROVE  Quiet
<1>0. upc \in [Runners -> {"none", "add", "post", "lock", "signal", "end"}]
  BY DEF IInv, QueueTrue, TypeOK, UserTypes
<1>1. tpc \in {"labor", "reply"} => ret \in {"unbusy", "events"}
  BY DEF IInv, QueueTrue, TypeOK, TaskTypes, RepliesTrue
<1>2. ASSUME NEW r \in Runners, UserPost(r) \/ UserLock(r) \/ UserSignal(r)
      PROVE  Quiet
  <2>1. /\ UNCHANGED <<notifies, puts, history, client, uch, callUser, task>>
        /\ upc[r] \in {"post", "lock", "signal"}
        /\ \E l \in {"post", "lock", "signal", "end"} : upc' = [upc EXCEPT ![r] = l]
    BY <1>2 DEF UserPost, UserLock, UserSignal
  <2>. QED BY <1>0, <1>1, <2>1 DEF Quiet, task
<1>3. CASE PostEvent \/ UNCHANGED vars
  BY <1>1, <1>3 DEF PostEvent, Quiet, vars, users, task
<1>4. CASE TaskWake \/ TaskBusy \/ TaskCheck \/ TaskTake \/ TaskUnbusy
  BY <1>1, <1>4 DEF TaskWake, TaskBusy, TaskCheck, TaskTake, TaskUnbusy, Step, Quiet, users
<1>5. CASE TaskAgain \/ TaskClear \/ TaskCall \/ ReplyEnd \/ TaskEvents
  BY <1>1, <1>5 DEF TaskAgain, TaskClear, TaskCall, ReplyEnd, TaskEvents, Step, Quiet, users
<1>. QED BY <1>2, <1>3, <1>4, <1>5

\* The initial state has the invariant.
LEMMA InitIInv == Init => IInv
<1>. SUFFICES ASSUME Init PROVE IInv
  OBVIOUS
<1>. USE WriteNotifyAssumption
<1>1. TypeOK
  BY TypeInit
<1>2. IsInjective(putNotifyQue) /\ ToSet(putNotifyQue) = {}
  BY DEF Init, IsInjective, ToSet
<1>3. QueueTrue
  BY <1>1, <1>2 DEF Init, QueueTrue
<1>4. AtWork /\ BlocksTrue
  BY DEF Init, AtWork, BlocksTrue
<1>5. UsersTrue
  BY DEF Init, UsersTrue, CallsUser, Adds, Runners
<1>6. WaitsTrue
  BY DEF Init, WaitsTrue
<1>7. OneUnderWay
  BY DEF Init, OneUnderWay, UnderWay, Adds, Runners
<1>8. RepliesTrue
  BY DEF Init, RepliesTrue, ToStart, Owed, Requests
<1>. QED BY <1>3, <1>4, <1>5, <1>6, <1>7, <1>8 DEF IInv

\* Every step keeps the invariant.
LEMMA Step_IInv == IInv /\ [Next]_vars => IInv'
<1>. SUFFICES ASSUME IInv, [Next]_vars PROVE IInv'
  OBVIOUS
<1>t. TypeOK'
  BY TypeStep
<1>1. CASE ClientCall \/ BlockTimeout
  BY <1>1, <1>t, WriteNotifyStep, LeavingStep, WaitingStep
     DEF ClientCall
<1>2. CASE Serialize \/ BlockWake \/ Expire \/ Start
  BY <1>2, <1>t, WaitingStep, ExpireStep, StartStep
<1>3. CASE PutDisabled \/ Put \/ PutWait \/ PutWaited
  BY <1>3, <1>t, PutDisabledStep, PutStep, PutWaitStep, PutWaitedStep
<1>4. CASE NotifyCancel \/ NotifyCancelled
  BY <1>4, <1>t, NotifyCancelStep, NotifyCancelledStep
<1>5. CASE FlushClosing \/ CloseChannel \/ Release \/ Free \/ Cleared \/ Close
  BY <1>5, <1>t, LeavingStep, ReleaseStep, FreeStep
<1>6. ASSUME NEW ch \in Channels, Completion(ch) \/ notifyCallback(ch) PROVE IInv'
  BY <1>6, <1>t, CompletionStep, notifyCallbackStep
<1>7. ASSUME NEW r \in Runners, UserAdd(r) \/ UserEnd(r) PROVE IInv'
  BY <1>7, <1>t, UserAddStep, UserEndStep
<1>8. CASE ReplyTake \/ ReplySend
  BY <1>8, <1>t, ReplyTakeStep, ReplySendStep
<1>9. CASE \/ \E r \in Runners : UserPost(r) \/ UserLock(r) \/ UserSignal(r)
           \/ PostEvent
           \/ TaskWake \/ TaskBusy \/ TaskCheck \/ TaskTake \/ TaskUnbusy \/ TaskAgain
           \/ TaskClear \/ TaskCall \/ ReplyEnd \/ TaskEvents
           \/ UNCHANGED vars
  BY <1>9, <1>t, QuietSteps, QuietKeeps
<1>10. CASE ClientNext
  BY <1>2, <1>3, <1>4, <1>5, <1>10 DEF ClientNext
<1>11. CASE CallbackNext \/ \E ch \in Channels : Completion(ch)
  BY <1>6, <1>11 DEF CallbackNext
<1>12. CASE \E r \in Runners : UserNext(r)
  BY <1>7, <1>9, <1>12 DEF UserNext
<1>13. CASE TaskNext
  BY <1>8, <1>9, <1>13 DEF TaskNext
<1>. QED BY <1>1, <1>9, <1>10, <1>11, <1>12, <1>13 DEF Next

\* The inductive invariant holds.
THEOREM Invariance == Spec => []IInv
<1>. QED BY InitIInv, Step_IInv, PTL DEF Spec

\* The reply queue of write_notify_call_back and write_notify_reply holds the
\* puts that are complete and not answered, each once, and none that is freed.
THEOREM QueueIsTrue == Spec => []QueueTrue
<1>1. IInv => QueueTrue
  BY DEF IInv
<1>. QED BY <1>1, Invariance, PTL

\* No request is answered twice, by write_notify_reply and by a timeout of
\* write_notify_action, and none is overtaken without an answer.
THEOREM RequestsAnsweredOnce == Spec => []AnsweredOnce
<1>1. ASSUME IInv PROVE AnsweredOnce
  <2>1. ASSUME NEW ch \in Channels, NEW n \in Requests PROVE replies[ch][n] <= 1
    BY <1>1 DEF IInv, RepliesTrue
  <2>2. ASSUME pc = "start", NEW n \in 1..asked[pch] - 1
        PROVE  replies[pch][n] = 1 \/ tmsg = <<pch, n>>
    <3>1. pch \in Channels
      BY <1>1, <2>2, Working DEF IInv, QueueTrue
    <3>2. asked[pch] \in 0..MaxRequests /\ msg[pch] \in 0..MaxRequests
      BY <1>1, <3>1 DEF IInv, QueueTrue, TypeOK, NotifyTypes, HistoryTypes
    <3>3. ~busy[pch] /\ asked[pch] = msg[pch] + 1
      BY <1>1, <2>2, <3>1 DEF IInv, OneUnderWay, RepliesTrue, ToStart
    <3>4. n \in Requests /\ ~(n > msg[pch])
      BY <3>2, <3>3, WriteNotifyAssumption DEF Requests
    <3>. QED BY <1>1, <3>1, <3>3, <3>4 DEF IInv, RepliesTrue, Owed
  <2>. QED BY <2>1, <2>2 DEF AnsweredOnce
<1>. QED BY <1>1, Invariance, PTL

\* "Double DB put notify call back!!" is never logged and the checks of dbNotify
\* on the state of a put hold.
THEOREM CodeChecksHold == Spec => []ChecksHold
<1>1. ASSUME IInv PROVE ChecksHold
  <2>1. ASSUME NEW r \in Runners, upc[r] = "add" PROVE ~Double(uch[r])
    BY <1>1, <2>1, Queued
  <2>2. ASSUME NEW ch \in Channels PROVE ~(cancelWait[ch] /\ userCallbackWait[ch])
    BY <1>1 DEF IInv, WaitsTrue
  <2>3. ASSUME pc = "put", state[pch] # "none" PROVE state[pch] = "UserCallbackActive"
    <3>1. pch \in Channels
      BY <1>1, <2>3, Working DEF IInv, QueueTrue
    <3>2. state[pch] # "PutInProgress" /\ ~requested[pch]
      BY <1>1, <2>3 DEF IInv, OneUnderWay, UnderWay
    <3>3. state[pch] # "UserCallbackRequested"
      BY <1>1, <2>3, <3>1, <3>2 DEF IInv, WaitsTrue
    <3>. QED BY <1>1, <2>3, <3>1, <3>2, <3>3 DEF IInv, QueueTrue, TypeOK, PutTypes
  <2>4. \A ch \in Channels : requested[ch] => state[ch] = "UserCallbackRequested"
    BY <1>1 DEF IInv, WaitsTrue
  <2>. QED BY <2>1, <2>2, <2>3, <2>4 DEF ChecksHold
<1>. QED BY <1>1, Invariance, PTL
===============================================================================
