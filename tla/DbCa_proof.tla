----------------------------- MODULE DbCa_proof -----------------------------
(***************************************************************************)
(* DbCa: no block that was freed is used, the user callback of a put is    *)
(* called exactly once, and a link that was read and is connected gets its *)
(* subscription, for every number of blocks.                               *)
(*                                                                         *)
(* One lemma shows for each action that it keeps the invariant: it says    *)
(* what the action does to the block it is about, field by field, and then *)
(* goes through the parts of the invariant, those of a block once for the  *)
(* block that changed and once for the others.                             *)
(***************************************************************************)
EXTENDS DbCa, QueueLemmas

-----------------------------------------------------------------------------
(* The parts of the invariant, the list of blocks and the callbacks *)

LEMMA Known ==
    ASSUME IInv
    PROVE  /\ FlagTypes /\ BlockTypes /\ ListTypes /\ TaskTypes /\ CallTypes
           /\ CallsTrue /\ ActiveOwed /\ OrderTrue /\ WorkSeen /\ MonitorComes
           /\ \A l \in CaLinks :
                BlockTrue(l) /\ ChannelTrue(l) /\ EventTrue(l) /\ PutTrue(l) /\ OwedOf(l)
BY DEF IInv, TypeOK, LinkTrue

LEMMA ContainsIsIn ==
    ASSUME NEW S, NEW seq \in Seq(S), NEW x
    PROVE  Contains(seq, x) <=> x \in ToSet(seq)
BY LenProperties DEF Contains, ToSet

\* The fields of a block.
Blocks == [used : BOOLEAN, plink : BOOLEAN, link_action : SUBSET Actions,
           isConnected : BOOLEAN, pgetNative : BOOLEAN,
           gotInNative : BOOLEAN, putCallback : BOOLEAN,
           chan : {"none", "disconnected", "connected"},
           inflight : 0..1, subscription : {"none", "good", "wrong"}]

LEMMA BlocksAre ==
    ASSUME BlockTypes, NEW l \in CaLinks
    PROVE  pca[l] \in Blocks
BY DEF BlockTypes, Blocks

\* A block becomes another one with the same actions.
LEMMA BecomesTrue ==
    ASSUME BlockTypes, ListTypes, WorkSeen, NEW l \in CaLinks, NEW b \in Blocks,
           b.link_action = pca[l].link_action, Becomes(l, b)
    PROVE  /\ BlockTypes' /\ ListTypes' /\ pca'[l] = b
           /\ \A k \in CaLinks \ {l} : pca'[k] = pca[k]
           /\ UNCHANGED <<workList, workListEvent>>
<1>1. /\ pca' \in [CaLinks -> Blocks] /\ pca'[l] = b
      /\ \A k \in CaLinks \ {l} : pca'[k] = pca[k]
      /\ UNCHANGED <<workList, workListEvent>>
  BY DEF BlockTypes, Blocks, Becomes
<1>2. \A k \in CaLinks : pca'[k].link_action = pca[k].link_action
  BY <1>1
<1>. QED BY <1>1, <1>2 DEF BlockTypes, Blocks, ListTypes

\* Actions are added to a block; one that had none goes to the end of the list.
LEMMA AddsAction ==
    ASSUME BlockTypes, ListTypes, WorkSeen, NEW l \in CaLinks, NEW b \in Blocks,
           b.link_action = pca[l].link_action, NEW actions \in SUBSET Actions,
           addAction(l, b, actions), taskPc' = taskPc
    PROVE  LET added == IF "clear" \in b.link_action THEN {} ELSE actions
           IN  /\ BlockTypes' /\ ListTypes' /\ WorkSeen' /\ workListEvent' \in BOOLEAN
               /\ pca'[l] = [b EXCEPT !.link_action = b.link_action \cup added]
               /\ \A k \in CaLinks \ {l} : pca'[k] = pca[k]
               /\ \A k \in CaLinks \ {l}, m \in CaLinks :
                    Before(workList, k, m) => Before(workList', k, m)
               /\ b.link_action = {} => \A k \in CaLinks \ {l} : Before(workList', k, l)
               /\ TaskLooks => TaskLooks'
<1>. DEFINE added == IF "clear" \in b.link_action THEN {} ELSE actions
            callAdd == b.link_action = {} /\ added # {}
<1>1. /\ pca' = [pca EXCEPT ![l] = [b EXCEPT !.link_action = b.link_action \cup added]]
      /\ workList' = IF callAdd THEN Append(workList, l) ELSE workList
      /\ workListEvent' = (workListEvent \/ callAdd)
  BY DEF addAction
<1>2. added \subseteq Actions
  OBVIOUS
<1>. HIDE DEF added
<1>3. /\ pca' \in [CaLinks -> Blocks]
      /\ pca'[l] = [b EXCEPT !.link_action = b.link_action \cup added]
      /\ \A k \in CaLinks \ {l} : pca'[k] = pca[k]
  BY <1>1, <1>2 DEF BlockTypes, Blocks
<1>4. pca'[l].link_action = b.link_action \cup added
  BY <1>3 DEF Blocks
<1>5. TaskLooks => TaskLooks'
  BY <1>1 DEF TaskLooks
<1>6. workListEvent' \in BOOLEAN
  BY <1>1, Zenon
<1>7. CASE callAdd
  <2>1. workList \in Seq(CaLinks) /\ IsInjective(workList) /\ ~Contains(workList, l)
    BY <1>7 DEF ListTypes
  <2>2. l \notin ToSet(workList)
    BY <2>1, ContainsIsIn
  <2>3. /\ workList' \in Seq(CaLinks) /\ IsInjective(workList')
        /\ ToSet(workList') = ToSet(workList) \cup {l}
    BY <1>1, <1>7, <2>1, <2>2, Appended
  <2>4. \A k \in CaLinks : Contains(workList', k) <=> pca'[k].link_action # {}
    BY <1>3, <1>4, <1>7, <2>1, <2>3, ContainsIsIn DEF ListTypes
  <2>5. WorkSeen'
    BY <1>1, <1>7 DEF WorkSeen, TaskLooks
  <2>6. /\ Len(workList) \in Nat /\ DOMAIN workList = 1..Len(workList)
        /\ DOMAIN workList' = 1..Len(workList) + 1
        /\ workList'[Len(workList) + 1] = l
        /\ \A i \in 1..Len(workList) : workList'[i] = workList[i] /\ workList[i] # l
    BY <1>1, <1>7, <2>1, <2>2, AppendProperties, LenProperties DEF ToSet
  <2>. DEFINE n == Len(workList)
  <2>. HIDE DEF n
  <2>7. /\ n \in Nat /\ DOMAIN workList = 1..n /\ DOMAIN workList' = 1..n + 1
        /\ workList'[n + 1] = l
        /\ \A i \in 1..n : workList'[i] = workList[i] /\ workList[i] # l
    BY <2>6 DEF n
  <2>8. \A k \in CaLinks \ {l}, m \in CaLinks :
            Before(workList, k, m) => Before(workList', k, m)
    BY <2>7 DEF Before
  <2>9. \A k \in CaLinks \ {l} : Before(workList', k, l)
    BY <2>7 DEF Before
  <2>. QED BY <1>3, <1>5, <1>6, <2>3, <2>4, <2>5, <2>8, <2>9
     DEF added, BlockTypes, Blocks, ListTypes
<1>8. CASE ~callAdd
  <2>1. /\ workList' = workList /\ (workListEvent => workListEvent')
        /\ b.link_action = {} => added = {}
    BY <1>1, <1>8
  <2>2. \A k \in CaLinks : pca'[k].link_action = {} <=> pca[k].link_action = {}
    BY <1>3, <1>4, <2>1
  <2>3. ListTypes' /\ WorkSeen'
    BY <2>1, <2>2, <1>5 DEF ListTypes, WorkSeen
  <2>4. b.link_action = {} => \A k \in CaLinks \ {l} : Before(workList', k, l)
    <3>. SUFFICES ASSUME b.link_action = {}
                  PROVE  \A i \in DOMAIN workList : workList[i] # l
      BY <2>1 DEF Before
    <3>1. l \notin ToSet(workList)
      BY ContainsIsIn DEF ListTypes
    <3>. QED BY <3>1 DEF ToSet
  <2>. QED BY <1>3, <1>5, <1>6, <2>1, <2>3, <2>4 DEF added, BlockTypes, Blocks
<1>. QED BY <1>7, <1>8

LEMMA EmptyHasNone == \A x : ~Contains(<< >>, x)
BY DEF Contains

\* The blocks that have actions are seen.
LEMMA WorkIsSeen ==
    ASSUME ListTypes', WorkSeen', NEW l \in CaLinks, pca'[l].link_action # {}
    PROVE  TaskLooks'
<1>1. Contains(workList', l)
  BY DEF ListTypes
<1>2. workList' # << >>
  BY <1>1, EmptyHasNone
<1>. QED BY <1>2 DEF WorkSeen

\* What the client library makes of a block.
LEMMA ClientBlocks ==
    ASSUME NEW p \in Blocks
    PROVE  /\ [p EXCEPT !.chan = "disconnected", !.inflight = 0] \in Blocks
           /\ [p EXCEPT !.inflight = 0] \in Blocks
           /\ [p EXCEPT !.chan = "disconnected", !.inflight = 0].link_action = p.link_action
           /\ [p EXCEPT !.inflight = 0].link_action = p.link_action
<1>. DEFINE Counts == 0..1
<1>1. 0 \in Counts
  OBVIOUS
<1>. HIDE DEF Counts
<1>2. /\ [p EXCEPT !.chan = "disconnected", !.inflight = 0] \in Blocks
      /\ [p EXCEPT !.inflight = 0] \in Blocks
  BY <1>1, Zenon DEF Blocks, Counts
<1>3. /\ [p EXCEPT !.chan = "disconnected", !.inflight = 0].link_action = p.link_action
      /\ [p EXCEPT !.inflight = 0].link_action = p.link_action
  BY DEF Blocks
<1>. QED BY <1>2, <1>3

LEMMA LostAnswers ==
    ASSUME NEW x, NEW y
    PROVE  /\ Append([i \in 1..0 |-> x], y) = <<y>>
           /\ Append([i \in 1..1 |-> x], y) = <<x, y>>
<1>1. [i \in 1..0 |-> x] = << >> /\ [i \in 1..1 |-> x] = <<x>>
  OBVIOUS
<1>2. Append(<< >>, y) = <<y>> /\ Append(<<x>>, y) = <<x, y>>
  <2>1. Append(<< >>, y) = <<y>>
    OBVIOUS
  <2>2. <<x>> \in Seq({x, y}) /\ Len(<<x>>) = 1 /\ <<x>>[1] = x
    OBVIOUS
  <2>3. /\ Append(<<x>>, y) \in Seq({x, y}) /\ Len(Append(<<x>>, y)) = 2
        /\ Append(<<x>>, y)[1] = x /\ Append(<<x>>, y)[2] = y
    BY <2>2, AppendProperties
  <2>4. <<x, y>> \in Seq({x, y}) /\ Len(<<x, y>>) = 2 /\ <<x, y>>[1] = x /\ <<x, y>>[2] = y
    OBVIOUS
  <2>5. Append(<<x>>, y) = <<x, y>>
    <3>. DEFINE s == Append(<<x>>, y)
                t == <<x, y>>
    <3>. HIDE DEF s, t
    <3>1. /\ s \in Seq({x, y}) /\ Len(s) = 2 /\ s[1] = x /\ s[2] = y
          /\ t \in Seq({x, y}) /\ Len(t) = 2 /\ t[1] = x /\ t[2] = y
      BY <2>3, <2>4 DEF s, t
    <3>2. \A i \in 1..Len(s) : s[i] = t[i]
      BY <3>1
    <3>3. s = t
      BY <3>1, <3>2, SeqEqual
    <3>. QED BY <3>3 DEF s, t
  <2>. QED BY <2>1, <2>5
<1>. QED BY <1>1, <1>2, Zenon

\* The callbacks that a thread of the client library has to make.
LEMMA OneCall ==
    ASSUME NEW a, NEW b
    PROVE  /\ Len(<<a>>) = 1 /\ Head(<<a>>) = a /\ Tail(<<a>>) = << >>
           /\ \A x : Contains(<<a>>, x) <=> x = a
           /\ Head(<<a, b>>) = a /\ Tail(<<a, b>>) = <<b>>
           /\ \A x : Contains(<<a, b>>, x) <=> x = a \/ x = b
           /\ \A x : ~Contains(<< >>, x)
           /\ <<a>> # << >> /\ <<a, b>> # << >>
<1>1. /\ Len(<<a>>) = 1 /\ Head(<<a>>) = a /\ Tail(<<a>>) = << >>
      /\ Head(<<a, b>>) = a /\ Tail(<<a, b>>) = <<b>>
      /\ <<a>> # << >> /\ <<a, b>> # << >>
  OBVIOUS
<1>2. \A x : Contains(<<a>>, x) <=> x = a
  BY DEF Contains
<1>3. \A x : Contains(<<a, b>>, x) <=> x = a \/ x = b
  <2>1. 1..Len(<<a, b>>) = {1, 2}
    OBVIOUS
  <2>. QED BY <2>1 DEF Contains
<1>4. \A x : ~Contains(<< >>, x)
  BY DEF Contains
<1>. QED BY <1>1, <1>2, <1>3, <1>4

\* No callback is made or taken, and no channel is cleared.
LEMMA CallsStay ==
    ASSUME CallsTrue, CallTypes, UNCHANGED <<calls, caUser>>,
           \A l \in CaLinks : pca[l].chan # "none" => pca'[l].chan # "none"
    PROVE  CallsTrue'
<1>1. caUser' # NoLink => pca'[caUser'].chan # "none"
  BY DEF CallsTrue, CallTypes
<1>2. CASE calls = << >>
  BY <1>1, <1>2 DEF CallsTrue
<1>3. CASE calls # << >>
  <2>1. PICK l \in CaLinks :
            /\ pca[l].chan # "none"
            /\ \/ calls = <<<<"connection", l>>>>
               \/ calls = <<<<"put", l>>>> /\ caUser = NoLink
               \/ calls = <<<<"event", l>>>> /\ caUser = NoLink
               \/ calls = <<<<"put", l>>, <<"connection", l>>>> /\ caUser = NoLink
            /\ caUser \in {NoLink, l}
    BY <1>3 DEF CallsTrue
  <2>. DEFINE Shape(k) ==
            \/ calls = <<<<"connection", k>>>>
            \/ calls = <<<<"put", k>>>> /\ caUser = NoLink
            \/ calls = <<<<"event", k>>>> /\ caUser = NoLink
            \/ calls = <<<<"put", k>>, <<"connection", k>>>> /\ caUser = NoLink
  <2>2. Shape(l) /\ Shape(l)' <=> Shape(l)
    OBVIOUS
  <2>3. Shape(l)' /\ caUser' \in {NoLink, l} /\ pca'[l].chan # "none"
    <3>. HIDE DEF Shape
    <3>. QED BY <2>1, <2>2 DEF Shape
  <2>. QED BY <1>1, <2>3 DEF CallsTrue
<1>. QED BY <1>2, <1>3

-----------------------------------------------------------------------------
(* The record *)

LEMMA AddLinkStep ==
    ASSUME CaLinkAssumption, IInv, NEW l \in CaLinks, dbCaAddLink(l)
    PROVE  IInv'
<1>. DEFINE b == [Blank EXCEPT !.used = TRUE, !.plink = TRUE]
            added == {"connect"}
<1>1. /\ recordPc = "idle" /\ pvt = NoLink /\ ~pca[l].used /\ pvt' = l
      /\ UNCHANGED <<input, pvlOptInpNative, pact, recordPc, removed, taskPc, taskLink,
             taskAction, calls, caUser, dropped, owed>>
  BY DEF dbCaAddLink, recordVars, workVars, taskVars, clientVars, history
<1>2. pca[l] = Blank /\ b \in Blocks /\ b.link_action = {} /\ b.link_action = pca[l].link_action
  <2>1. pca[l] = Blank
    BY <1>1, Known DEF BlockTrue
  <2>2. Blank \in Blocks /\ Blank.link_action = {}
    BY DEF Blank, Blocks
  <2>3. b \in Blocks /\ b.link_action = Blank.link_action
    BY <2>2 DEF Blocks
  <2>. QED BY <2>1, <2>2, <2>3
<1>3. pca[l].chan = "none"
  BY <1>2 DEF Blank
<1>4. /\ BlockTypes' /\ ListTypes' /\ WorkSeen' /\ workListEvent' \in BOOLEAN
      /\ pca'[l] = [b EXCEPT !.link_action = b.link_action \cup added]
      /\ \A k \in CaLinks \ {l} : pca'[k] = pca[k]
      /\ \A k \in CaLinks \ {l}, m \in CaLinks :
            Before(workList, k, m) => Before(workList', k, m)
      /\ b.link_action = {} => \A k \in CaLinks \ {l} : Before(workList', k, l)
      /\ TaskLooks => TaskLooks'
  <2>1. addAction(l, b, {"connect"}) /\ taskPc' = taskPc /\ {"connect"} \in SUBSET Actions
    BY <1>1 DEF dbCaAddLink, Actions
  <2>2. "clear" \notin b.link_action
    BY <1>2
  <2>. HIDE DEF b
  <2>. QED BY <1>2, <2>1, <2>2, AddsAction, Known
<1>5. /\ pca'[l].used /\ pca'[l].plink /\ pca'[l].link_action = {"connect"}
      /\ ~pca'[l].isConnected /\ ~pca'[l].pgetNative /\ ~pca'[l].gotInNative
      /\ ~pca'[l].putCallback /\ pca'[l].chan = "none" /\ pca'[l].inflight = 0
      /\ pca'[l].subscription = "none"
  BY <1>1, <1>2, <1>4, Known DEF Blocks, Blank
<1>. HIDE DEF b
<1>6. FlagTypes' /\ TaskTypes' /\ CallTypes' /\ ActiveOwed'
  BY <1>1, <1>2, <1>4, <1>5, Known DEF FlagTypes, TaskTypes, CallTypes, ActiveOwed, OwedOf
<1>7. CallsTrue'
  BY <1>1, <1>3, <1>4, CallsStay, Known
<1>8. OrderTrue'
  BY <1>1, <1>2, <1>4, <1>5, Known
     DEF OrderTrue, BlockTrue, ChannelTrue, Wants, CaLinkAssumption, FlagTypes, TaskTypes
<1>9. MonitorComes'
  BY <1>1, <1>2, <1>4, <1>5, Known
     DEF MonitorComes, Requested, TaskLooks, BlockTrue, ChannelTrue, EventTrue, Wants,
       CaLinkAssumption, FlagTypes
<1>10. ASSUME NEW k \in CaLinks PROVE BlockTrue(k)'
  <2>1. CASE k = l
    BY <1>1, <1>2, <1>4, <1>5, <2>1, Known
       DEF BlockTrue, Wants, FlagTypes, TaskTypes, CaLinkAssumption, Blank
  <2>2. CASE k # l
    BY <1>1, <1>2, <1>4, <1>5, <2>2, Known
       DEF BlockTrue, Wants, FlagTypes, TaskTypes, CaLinkAssumption
  <2>. QED BY <2>1, <2>2
<1>11. ASSUME NEW k \in CaLinks PROVE ChannelTrue(k)'
  <2>1. CASE k = l
    BY <1>1, <1>2, <1>4, <1>5, <2>1, Known DEF ChannelTrue, Wants, BlockTrue, CaLinkAssumption
  <2>2. CASE k # l
    BY <1>1, <1>2, <1>4, <1>5, <2>2, Known DEF ChannelTrue, Wants, BlockTrue, CaLinkAssumption
  <2>. QED BY <2>1, <2>2
<1>12. ASSUME NEW k \in CaLinks PROVE EventTrue(k)'
  BY <1>1, <1>2, <1>4, <1>5, Known DEF EventTrue, CaLinkAssumption, ChannelTrue
<1>13. ASSUME NEW k \in CaLinks PROVE PutTrue(k)'
  <2>1. CASE k = l
    BY <1>1, <1>2, <1>4, <1>5, <2>1, Known
       DEF PutTrue, WriteQueued, WriteTaken, InFlight, Answered, ChannelTrue, OwedOf,
         CaLinkAssumption, Wants
  <2>2. CASE k # l
    BY <1>1, <1>2, <1>4, <1>5, <2>2, Known
       DEF PutTrue, WriteQueued, WriteTaken, InFlight, Answered, ChannelTrue, OwedOf,
         CaLinkAssumption, Wants
  <2>. QED BY <2>1, <2>2
<1>14. ASSUME NEW k \in CaLinks PROVE OwedOf(k)'
  BY <1>1, <1>2, <1>4, <1>5, Known
     DEF OwedOf, CaLinkAssumption, ChannelTrue, FlagTypes, PutTrue, ActiveOwed
<1>. QED BY <1>1, <1>2, <1>4, <1>5, <1>6, <1>7, <1>8, <1>9, <1>10, <1>11, <1>12, <1>13,
     <1>14 DEF IInv, TypeOK, LinkTrue

LEMMA RemoveDetachesStep ==
    ASSUME CaLinkAssumption, IInv, RemoveDetaches
    PROVE  IInv'
<1>. DEFINE b == [pca[pvt] EXCEPT !.plink = FALSE]
<1>1. /\ recordPc = "idle" /\ pvt # NoLink /\ pvt \in CaLinks /\ removed = NoLink
      /\ recordPc' = "removing" /\ removed' = pvt /\ pvt' = NoLink
      /\ UNCHANGED <<input, pvlOptInpNative, pact, taskPc, taskLink, taskAction, calls,
             caUser, dropped, owed>>
  BY Known DEF RemoveDetaches, FlagTypes, taskVars, clientVars, history
<1>2. b \in Blocks /\ b.link_action = pca[pvt].link_action
  BY <1>1, Known DEF BlockTypes, Blocks
<1>3. /\ BlockTypes' /\ ListTypes' /\ pca'[pvt] = b
      /\ \A k \in CaLinks \ {pvt} : pca'[k] = pca[k]
      /\ UNCHANGED <<workList, workListEvent>>
  BY <1>1, <1>2, BecomesTrue, Known DEF RemoveDetaches, Detached
<1>4. /\ pca'[pvt].used = pca[pvt].used /\ ~pca'[pvt].plink
      /\ pca'[pvt].link_action = pca[pvt].link_action
      /\ pca'[pvt].isConnected = pca[pvt].isConnected
      /\ pca'[pvt].pgetNative = pca[pvt].pgetNative
      /\ pca'[pvt].gotInNative = pca[pvt].gotInNative
      /\ pca'[pvt].putCallback = pca[pvt].putCallback /\ pca'[pvt].chan = pca[pvt].chan
      /\ pca'[pvt].inflight = pca[pvt].inflight
      /\ pca'[pvt].subscription = pca[pvt].subscription
  BY <1>1, <1>2, <1>3, Known DEF BlockTypes, Blocks
<1>. HIDE DEF b
<1>5. FlagTypes' /\ TaskTypes' /\ CallTypes' /\ ActiveOwed' /\ WorkSeen'
  BY <1>1, <1>2, <1>3, <1>4, Known
     DEF FlagTypes, TaskTypes, CallTypes, ActiveOwed, OwedOf, WorkSeen, TaskLooks
<1>6. CallsTrue'
  BY <1>1, <1>2, <1>3, <1>4, CallsStay, Known
<1>7. OrderTrue'
  BY <1>1, <1>2, <1>3, <1>4, Known
     DEF OrderTrue, BlockTrue, ChannelTrue, Wants, CaLinkAssumption, FlagTypes, TaskTypes
<1>8. MonitorComes'
  BY <1>1, <1>2, <1>3, <1>4, Known
     DEF MonitorComes, Requested, TaskLooks, BlockTrue, ChannelTrue, EventTrue, Wants,
       CaLinkAssumption, FlagTypes
<1>9. ASSUME NEW k \in CaLinks PROVE BlockTrue(k)'
  BY <1>1, <1>2, <1>3, <1>4, Known
     DEF BlockTrue, Wants, FlagTypes, TaskTypes, CaLinkAssumption, Blank
<1>10. ASSUME NEW k \in CaLinks PROVE ChannelTrue(k)'
  BY <1>1, <1>2, <1>3, <1>4, Known DEF ChannelTrue, Wants, BlockTrue, CaLinkAssumption
<1>11. ASSUME NEW k \in CaLinks PROVE EventTrue(k)'
  <2>1. CASE k = pvt
    BY <1>1, <1>2, <1>3, <1>4, <2>1, Known DEF EventTrue, CaLinkAssumption
  <2>2. CASE k # pvt
    BY <1>1, <1>2, <1>3, <1>4, <2>2, Known DEF EventTrue
  <2>. QED BY <2>1, <2>2
<1>12. ASSUME NEW k \in CaLinks PROVE PutTrue(k)'
  BY <1>1, <1>2, <1>3, <1>4, Known
     DEF PutTrue, WriteQueued, WriteTaken, InFlight, Answered, ChannelTrue, OwedOf,
       CaLinkAssumption, Wants
<1>13. ASSUME NEW k \in CaLinks PROVE OwedOf(k)'
  BY <1>1, <1>2, <1>3, <1>4, Known
     DEF OwedOf, CaLinkAssumption, ChannelTrue, FlagTypes, PutTrue, ActiveOwed
<1>. QED BY <1>1, <1>2, <1>3, <1>4, <1>5, <1>6, <1>7, <1>8, <1>9, <1>10, <1>11, <1>12, <1>13
   DEF IInv, TypeOK, LinkTrue

LEMMA RemoveClearsStep ==
    ASSUME CaLinkAssumption, IInv, RemoveClears
    PROVE  IInv'
<1>. DEFINE b == pca[removed]
            added == {"clear"}
<1>1. /\ recordPc = "removing" /\ removed \in CaLinks /\ pvt = NoLink
      /\ recordPc' = "idle" /\ removed' = NoLink /\ pvlOptInpNative' = FALSE /\ pact' = NoLink
      /\ UNCHANGED <<input, pvt, taskPc, taskLink, taskAction, calls, caUser, dropped, owed>>
  BY Known DEF RemoveClears, FlagTypes, OrderTrue, taskVars, clientVars, history
<1>2. b \in Blocks /\ b.link_action = pca[removed].link_action /\ "clear" \notin b.link_action
  <2>1. pca[removed] \in Blocks /\ removed \in CaLinks
    BY <1>1, BlocksAre, Known
  <2>2. "clear" \notin pca[removed].link_action
    BY <1>1, Known DEF BlockTrue, Wants
  <2>. QED BY <2>1, <2>2 DEF Blocks
<1>3. /\ BlockTypes' /\ ListTypes' /\ WorkSeen' /\ workListEvent' \in BOOLEAN
      /\ pca'[removed] = [b EXCEPT !.link_action = b.link_action \cup added]
      /\ \A k \in CaLinks \ {removed} : pca'[k] = pca[k]
      /\ \A k \in CaLinks \ {removed}, m \in CaLinks :
            Before(workList, k, m) => Before(workList', k, m)
      /\ b.link_action = {} => \A k \in CaLinks \ {removed} : Before(workList', k, removed)
      /\ TaskLooks => TaskLooks'
  <2>1. addAction(removed, b, {"clear"}) /\ taskPc' = taskPc /\ {"clear"} \in SUBSET Actions
    BY <1>1 DEF RemoveClears, Actions
  <2>. HIDE DEF b
  <2>. QED BY <1>1, <1>2, <2>1, AddsAction, Known
<1>4. /\ pca'[removed].used = pca[removed].used /\ pca'[removed].plink = pca[removed].plink
      /\ pca'[removed].link_action = pca[removed].link_action \cup {"clear"}
      /\ pca'[removed].isConnected = pca[removed].isConnected
      /\ pca'[removed].pgetNative = pca[removed].pgetNative
      /\ pca'[removed].gotInNative = pca[removed].gotInNative
      /\ pca'[removed].putCallback = pca[removed].putCallback
      /\ pca'[removed].chan = pca[removed].chan
      /\ pca'[removed].inflight = pca[removed].inflight
      /\ pca'[removed].subscription = pca[removed].subscription
  BY <1>1, <1>2, <1>3, Known DEF BlockTypes, Blocks
<1>. HIDE DEF b
<1>5. FlagTypes' /\ TaskTypes' /\ CallTypes' /\ ActiveOwed'
  BY <1>1, <1>2, <1>3, <1>4, Known DEF FlagTypes, TaskTypes, CallTypes, ActiveOwed, OwedOf
<1>6. CallsTrue'
  BY <1>1, <1>2, <1>3, <1>4, CallsStay, Known
<1>7. OrderTrue'
  BY <1>1, <1>2, <1>3, <1>4, Known
     DEF OrderTrue, BlockTrue, ChannelTrue, Wants, CaLinkAssumption, FlagTypes, TaskTypes
<1>8. MonitorComes'
  BY <1>1, <1>2, <1>3, <1>4, Known
     DEF MonitorComes, Requested, TaskLooks, BlockTrue, ChannelTrue, EventTrue, Wants,
       CaLinkAssumption, FlagTypes
<1>9. ASSUME NEW k \in CaLinks PROVE BlockTrue(k)'
  BY <1>1, <1>2, <1>3, <1>4, Known
     DEF BlockTrue, Wants, FlagTypes, TaskTypes, CaLinkAssumption, Blank
<1>10. ASSUME NEW k \in CaLinks PROVE ChannelTrue(k)'
  <2>1. CASE k = removed
    <3>1. /\ UNCHANGED <<taskLink, taskPc, taskAction, dropped, calls>> /\ pvt' = NoLink
          /\ ChannelTrue(k) /\ k # NoLink
      BY <1>1, <2>1, Known DEF CaLinkAssumption
    <3>. QED BY <1>4, <2>1, <3>1 DEF ChannelTrue, Wants
  <2>2. CASE k # removed
    BY <1>1, <1>2, <1>3, <1>4, <2>2, Known DEF ChannelTrue, Wants
  <2>. QED BY <2>1, <2>2
<1>11. ASSUME NEW k \in CaLinks PROVE EventTrue(k)'
  <2>1. CASE k = removed
    BY <1>1, <1>2, <1>3, <1>4, <2>1, Known DEF EventTrue, CaLinkAssumption
  <2>2. CASE k # removed
    BY <1>1, <1>2, <1>3, <1>4, <2>2, Known DEF EventTrue
  <2>. QED BY <2>1, <2>2
<1>12. ASSUME NEW k \in CaLinks PROVE PutTrue(k)'
  <2>1. CASE k = removed
    BY <1>1, <1>2, <1>3, <1>4, <2>1, Known
       DEF PutTrue, WriteQueued, WriteTaken, InFlight, Answered, ChannelTrue, OwedOf,
         CaLinkAssumption, Wants
  <2>2. CASE k # removed
    BY <1>1, <1>2, <1>3, <1>4, <2>2, Known
       DEF PutTrue, WriteQueued, WriteTaken, InFlight, Answered, ChannelTrue, OwedOf,
         CaLinkAssumption, Wants
  <2>. QED BY <2>1, <2>2
<1>13. ASSUME NEW k \in CaLinks PROVE OwedOf(k)'
  <2>1. CASE k = removed
    BY <1>1, <1>2, <1>3, <1>4, <2>1, Known
       DEF OwedOf, CaLinkAssumption, ChannelTrue, FlagTypes, PutTrue, ActiveOwed
  <2>2. CASE k # removed
    BY <1>1, <1>3, <2>2, Known DEF OwedOf, CaLinkAssumption
  <2>. QED BY <2>1, <2>2
<1>. QED BY <1>1, <1>2, <1>3, <1>4, <1>5, <1>6, <1>7, <1>8, <1>9, <1>10, <1>11, <1>12, <1>13
   DEF IInv, TypeOK, LinkTrue

LEMMA GetLinkStep ==
    ASSUME CaLinkAssumption, IInv, dbCaGetLink
    PROVE  IInv'
<1>. DEFINE b == pca[pvt]
            added == {"monitor"}
<1>1. /\ pvt # NoLink /\ pvt \in CaLinks /\ pca[pvt].isConnected /\ ~pca[pvt].pgetNative
      /\ pvlOptInpNative' = TRUE
      /\ UNCHANGED <<input, pvt, pact, recordPc, removed, taskPc, taskLink, taskAction,
             calls, caUser, dropped, owed>>
  BY Known DEF dbCaGetLink, FlagTypes, OrderTrue, taskVars, clientVars, history
<1>2. b \in Blocks /\ b.link_action = pca[pvt].link_action /\ "clear" \notin b.link_action
  <2>1. pca[pvt] \in Blocks /\ pvt \in CaLinks
    BY <1>1, BlocksAre, Known
  <2>2. "clear" \notin pca[pvt].link_action
    BY <1>1, Known DEF BlockTrue, Wants
  <2>. QED BY <2>1, <2>2 DEF Blocks
<1>3. /\ BlockTypes' /\ ListTypes' /\ WorkSeen' /\ workListEvent' \in BOOLEAN
      /\ pca'[pvt] = [b EXCEPT !.link_action = b.link_action \cup added]
      /\ \A k \in CaLinks \ {pvt} : pca'[k] = pca[k]
      /\ \A k \in CaLinks \ {pvt}, m \in CaLinks :
            Before(workList, k, m) => Before(workList', k, m)
      /\ b.link_action = {} => \A k \in CaLinks \ {pvt} : Before(workList', k, pvt)
      /\ TaskLooks => TaskLooks'
  <2>1. addAction(pvt, b, {"monitor"}) /\ taskPc' = taskPc /\ {"monitor"} \in SUBSET Actions
    BY <1>1 DEF dbCaGetLink, Actions
  <2>. HIDE DEF b
  <2>. QED BY <1>1, <1>2, <2>1, AddsAction, Known
<1>4. /\ pca'[pvt].used = pca[pvt].used /\ pca'[pvt].plink = pca[pvt].plink
      /\ pca'[pvt].link_action = pca[pvt].link_action \cup {"monitor"}
      /\ pca'[pvt].isConnected = pca[pvt].isConnected
      /\ pca'[pvt].pgetNative = pca[pvt].pgetNative
      /\ pca'[pvt].gotInNative = pca[pvt].gotInNative
      /\ pca'[pvt].putCallback = pca[pvt].putCallback /\ pca'[pvt].chan = pca[pvt].chan
      /\ pca'[pvt].inflight = pca[pvt].inflight
      /\ pca'[pvt].subscription = pca[pvt].subscription
  BY <1>1, <1>2, <1>3, Known DEF BlockTypes, Blocks
<1>. HIDE DEF b
<1>5. FlagTypes' /\ TaskTypes' /\ CallTypes' /\ ActiveOwed'
  BY <1>1, <1>2, <1>3, <1>4, Known DEF FlagTypes, TaskTypes, CallTypes, ActiveOwed, OwedOf
<1>6. CallsTrue'
  BY <1>1, <1>2, <1>3, <1>4, CallsStay, Known
<1>7. OrderTrue'
  BY <1>1, <1>2, <1>3, <1>4, Known
     DEF OrderTrue, BlockTrue, ChannelTrue, Wants, CaLinkAssumption, FlagTypes, TaskTypes
<1>8. MonitorComes'
  <2>1. pca'[pvt].link_action # {}
    BY <1>4
  <2>2. TaskLooks'
    BY <1>1, <1>3, <2>1, WorkIsSeen
  <2>. QED BY <1>1, <1>4, <2>2 DEF MonitorComes, Requested
<1>9. ASSUME NEW k \in CaLinks PROVE BlockTrue(k)'
  <2>1. CASE k = pvt
    BY <1>1, <1>2, <1>3, <1>4, <2>1, Known
       DEF BlockTrue, Wants, FlagTypes, TaskTypes, CaLinkAssumption, Blank
  <2>2. CASE k # pvt
    BY <1>1, <1>2, <1>3, <1>4, <2>2, Known DEF BlockTrue, Wants
  <2>. QED BY <2>1, <2>2
<1>10. ASSUME NEW k \in CaLinks PROVE ChannelTrue(k)'
  <2>1. CASE k = pvt
    BY <1>1, <1>2, <1>3, <1>4, <2>1, Known DEF ChannelTrue, Wants, BlockTrue, CaLinkAssumption
  <2>2. CASE k # pvt
    BY <1>1, <1>2, <1>3, <1>4, <2>2, Known DEF ChannelTrue, Wants, BlockTrue, CaLinkAssumption
  <2>. QED BY <2>1, <2>2
<1>11. ASSUME NEW k \in CaLinks PROVE EventTrue(k)'
  <2>1. CASE k = pvt
    BY <1>1, <1>2, <1>3, <1>4, <2>1, Known DEF EventTrue, CaLinkAssumption
  <2>2. CASE k # pvt
    BY <1>1, <1>2, <1>3, <1>4, <2>2, Known DEF EventTrue
  <2>. QED BY <2>1, <2>2
<1>12. ASSUME NEW k \in CaLinks PROVE PutTrue(k)'
  <2>1. CASE k = pvt
    BY <1>1, <1>2, <1>3, <1>4, <2>1, Known
       DEF PutTrue, WriteQueued, WriteTaken, InFlight, Answered, ChannelTrue, OwedOf,
         CaLinkAssumption, Wants
  <2>2. CASE k # pvt
    BY <1>1, <1>2, <1>3, <1>4, <2>2, Known
       DEF PutTrue, WriteQueued, WriteTaken, InFlight, Answered, ChannelTrue, OwedOf,
         CaLinkAssumption, Wants
  <2>. QED BY <2>1, <2>2
<1>13. ASSUME NEW k \in CaLinks PROVE OwedOf(k)'
  BY <1>1, <1>2, <1>3, <1>4, Known
     DEF OwedOf, CaLinkAssumption, ChannelTrue, FlagTypes, PutTrue, ActiveOwed
<1>. QED BY <1>1, <1>2, <1>3, <1>4, <1>5, <1>6, <1>7, <1>8, <1>9, <1>10, <1>11, <1>12, <1>13
   DEF IInv, TypeOK, LinkTrue

LEMMA ProcessPutsStep ==
    ASSUME CaLinkAssumption, IInv, ProcessPuts
    PROVE  IInv'
<1>. DEFINE b == [pca[pvt] EXCEPT !.putCallback = TRUE]
            added == {"write"}
<1>1. /\ pact = NoLink /\ pvt # NoLink /\ pvt \in CaLinks /\ pca[pvt].isConnected
      /\ pact' = pvt /\ owed' = owed \cup {pvt}
      /\ UNCHANGED <<input, pvt, pvlOptInpNative, recordPc, removed, taskPc, taskLink,
             taskAction, calls, caUser, dropped>>
  BY Known DEF ProcessPuts, MayPut, PutLink, FlagTypes, OrderTrue, taskVars, clientVars, history
<1>2. b \in Blocks /\ b.link_action = pca[pvt].link_action /\ "clear" \notin b.link_action
  <2>1. pca[pvt] \in Blocks /\ pvt \in CaLinks
    BY <1>1, BlocksAre, Known
  <2>2. "clear" \notin pca[pvt].link_action
    BY <1>1, Known DEF BlockTrue, Wants
  <2>. QED BY <2>1, <2>2 DEF Blocks
<1>3. /\ BlockTypes' /\ ListTypes' /\ WorkSeen' /\ workListEvent' \in BOOLEAN
      /\ pca'[pvt] = [b EXCEPT !.link_action = b.link_action \cup added]
      /\ \A k \in CaLinks \ {pvt} : pca'[k] = pca[k]
      /\ \A k \in CaLinks \ {pvt}, m \in CaLinks :
            Before(workList, k, m) => Before(workList', k, m)
      /\ b.link_action = {} => \A k \in CaLinks \ {pvt} : Before(workList', k, pvt)
      /\ TaskLooks => TaskLooks'
  <2>1. addAction(pvt, b, {"write"}) /\ taskPc' = taskPc /\ {"write"} \in SUBSET Actions
    BY <1>1 DEF ProcessPuts, MayPut, PutLink, Actions
  <2>. HIDE DEF b
  <2>. QED BY <1>1, <1>2, <2>1, AddsAction, Known
<1>4. owed = {}
  BY <1>1, Known DEF OwedOf, FlagTypes, CaLinkAssumption
<1>5. /\ pca'[pvt].used = pca[pvt].used /\ pca'[pvt].plink = pca[pvt].plink
      /\ pca'[pvt].link_action = pca[pvt].link_action \cup {"write"}
      /\ pca'[pvt].isConnected = pca[pvt].isConnected
      /\ pca'[pvt].pgetNative = pca[pvt].pgetNative
      /\ pca'[pvt].gotInNative = pca[pvt].gotInNative /\ pca'[pvt].putCallback
      /\ pca'[pvt].chan = pca[pvt].chan /\ pca'[pvt].inflight = pca[pvt].inflight
      /\ pca'[pvt].subscription = pca[pvt].subscription
  BY <1>1, <1>2, <1>3, <1>4, Known DEF BlockTypes, Blocks
<1>. HIDE DEF b
<1>6. FlagTypes' /\ TaskTypes' /\ CallTypes' /\ ActiveOwed'
  BY <1>1, <1>2, <1>3, <1>4, <1>5, Known DEF FlagTypes, TaskTypes, CallTypes, ActiveOwed, OwedOf
<1>7. CallsTrue'
  BY <1>1, <1>2, <1>3, <1>4, <1>5, CallsStay, Known
<1>8. OrderTrue'
  BY <1>1, <1>2, <1>3, <1>4, <1>5, Known
     DEF OrderTrue, BlockTrue, ChannelTrue, Wants, CaLinkAssumption, FlagTypes, TaskTypes
<1>9. MonitorComes'
  BY <1>1, <1>2, <1>3, <1>4, <1>5, Known
     DEF MonitorComes, Requested, TaskLooks, BlockTrue, ChannelTrue, EventTrue, Wants,
       CaLinkAssumption, FlagTypes
<1>10. ASSUME NEW k \in CaLinks PROVE BlockTrue(k)'
  BY <1>1, <1>2, <1>3, <1>4, <1>5, Known
     DEF BlockTrue, Wants, FlagTypes, TaskTypes, CaLinkAssumption, Blank
<1>11. ASSUME NEW k \in CaLinks PROVE ChannelTrue(k)'
  <2>1. CASE k = pvt
    BY <1>1, <1>2, <1>3, <1>4, <1>5, <2>1, Known
       DEF ChannelTrue, Wants, BlockTrue, CaLinkAssumption
  <2>2. CASE k # pvt
    BY <1>1, <1>2, <1>3, <1>4, <1>5, <2>2, Known
       DEF ChannelTrue, Wants, BlockTrue, CaLinkAssumption
  <2>. QED BY <2>1, <2>2
<1>12. ASSUME NEW k \in CaLinks PROVE EventTrue(k)'
  <2>1. CASE k = pvt
    BY <1>1, <1>2, <1>3, <1>4, <1>5, <2>1, Known DEF EventTrue, CaLinkAssumption
  <2>2. CASE k # pvt
    BY <1>1, <1>2, <1>3, <1>4, <1>5, <2>2, Known DEF EventTrue
  <2>. QED BY <2>1, <2>2
<1>13. ASSUME NEW k \in CaLinks PROVE PutTrue(k)'
  BY <1>1, <1>2, <1>3, <1>4, <1>5, Known
     DEF PutTrue, WriteQueued, WriteTaken, InFlight, Answered, ChannelTrue, OwedOf,
       CaLinkAssumption, Wants
<1>14. ASSUME NEW k \in CaLinks PROVE OwedOf(k)'
  BY <1>1, <1>2, <1>3, <1>4, <1>5, Known
     DEF OwedOf, CaLinkAssumption, ChannelTrue, FlagTypes, PutTrue, ActiveOwed
<1>. QED BY <1>1, <1>2, <1>3, <1>4, <1>5, <1>6, <1>7, <1>8, <1>9, <1>10, <1>11, <1>12,
     <1>13, <1>14 DEF IInv, TypeOK, LinkTrue

\* The user callback finds the record active with its put, or with none: another
\* put cannot be made before this one is over.
LEMMA UserCallbackTrue ==
    ASSUME CaLinkAssumption, IInv, NEW l \in owed, dbCaCallbackProcess(l)
    PROVE  /\ pact' = NoLink /\ owed' = owed \ {l} /\ l \in CaLinks
           /\ pact # NoLink => owed' = {}
           /\ UNCHANGED <<input, pvt, pvlOptInpNative, recordPc, removed, pca, workList,
                workListEvent, dropped>>
<1>1. ~(pact = NoLink /\ MayPut)
  BY Known DEF OwedOf, MayPut, FlagTypes, CaLinkAssumption
<1>. QED BY <1>1, Known DEF dbCaCallbackProcess, ActiveOwed, FlagTypes, workVars

LEMMA UserCallbackStep ==
    ASSUME CaLinkAssumption, IInv, UserCallback
    PROVE  IInv'
<1>1. /\ caUser \in CaLinks /\ caUser \in owed /\ caUser' = NoLink
      /\ UNCHANGED <<taskPc, taskLink, taskAction, calls>>
  BY Known DEF UserCallback, CallTypes, OwedOf, taskVars
<1>2. /\ pact' = NoLink /\ owed' = owed \ {caUser}
      /\ pact # NoLink => owed' = {}
      /\ UNCHANGED <<input, pvt, pvlOptInpNative, recordPc, removed, pca, workList,
            workListEvent, dropped>>
  BY <1>1, UserCallbackTrue DEF UserCallback
<1>3. BlockTypes' /\ ListTypes'
  BY <1>2, Known DEF BlockTypes, ListTypes
<1>4. FlagTypes' /\ TaskTypes' /\ CallTypes' /\ ActiveOwed' /\ WorkSeen'
  BY <1>1, <1>2, <1>3, Known
     DEF FlagTypes, TaskTypes, CallTypes, ActiveOwed, OwedOf, WorkSeen, TaskLooks
<1>5. CallsTrue'
  BY <1>1, <1>2, <1>3, Known DEF CallsTrue, ChannelTrue, CallTypes
<1>6. OrderTrue'
  BY <1>1, <1>2, <1>3, Known
     DEF OrderTrue, BlockTrue, ChannelTrue, Wants, CaLinkAssumption, FlagTypes, TaskTypes
<1>7. MonitorComes'
  BY <1>1, <1>2, <1>3, Known
     DEF MonitorComes, Requested, TaskLooks, BlockTrue, ChannelTrue, EventTrue, Wants,
       CaLinkAssumption, FlagTypes
<1>8. ASSUME NEW k \in CaLinks PROVE BlockTrue(k)'
  BY <1>1, <1>2, <1>3, Known DEF BlockTrue, Wants, FlagTypes, TaskTypes, CaLinkAssumption
<1>9. ASSUME NEW k \in CaLinks PROVE ChannelTrue(k)'
  BY <1>1, <1>2, <1>3, Known DEF ChannelTrue, Wants, BlockTrue, CaLinkAssumption
<1>10. ASSUME NEW k \in CaLinks PROVE EventTrue(k)'
  BY <1>1, <1>2, <1>3, Known DEF EventTrue, CaLinkAssumption
<1>11. ASSUME NEW k \in CaLinks PROVE PutTrue(k)'
  BY <1>1, <1>2, <1>3, Known
     DEF PutTrue, WriteQueued, WriteTaken, InFlight, Answered, ChannelTrue, OwedOf,
       CaLinkAssumption, Wants
<1>12. ASSUME NEW k \in CaLinks PROVE OwedOf(k)'
  BY <1>1, <1>2, <1>3, Known
     DEF OwedOf, CaLinkAssumption, ChannelTrue, FlagTypes, PutTrue, ActiveOwed
<1>. QED BY <1>1, <1>2, <1>3, <1>4, <1>5, <1>6, <1>7, <1>8, <1>9, <1>10, <1>11, <1>12
   DEF IInv, TypeOK, LinkTrue

LEMMA TaskCallsBackStep ==
    ASSUME CaLinkAssumption, IInv, TaskCallsBack
    PROVE  IInv'
<1>1. /\ taskPc = "callback" /\ taskLink \in CaLinks /\ taskLink \in owed
      /\ taskPc' = "take" /\ taskLink' = NoLink /\ taskAction' = {}
      /\ UNCHANGED <<calls, caUser>>
  BY Known DEF TaskCallsBack, TaskTypes, OwedOf, clientVars
<1>2. /\ pact' = NoLink /\ owed' = owed \ {taskLink}
      /\ pact # NoLink => owed' = {}
      /\ UNCHANGED <<input, pvt, pvlOptInpNative, recordPc, removed, pca, workList,
            workListEvent, dropped>>
  BY <1>1, UserCallbackTrue DEF TaskCallsBack
<1>3. BlockTypes' /\ ListTypes'
  BY <1>2, Known DEF BlockTypes, ListTypes
<1>4. FlagTypes' /\ TaskTypes' /\ CallTypes' /\ ActiveOwed' /\ WorkSeen'
  BY <1>1, <1>2, <1>3, Known
     DEF FlagTypes, TaskTypes, CallTypes, ActiveOwed, OwedOf, WorkSeen, TaskLooks
<1>5. CallsTrue'
  BY <1>1, <1>2, <1>3, CallsStay, Known
<1>6. OrderTrue'
  BY <1>1, <1>2, <1>3, Known
     DEF OrderTrue, BlockTrue, ChannelTrue, Wants, CaLinkAssumption, FlagTypes, TaskTypes
<1>7. MonitorComes'
  BY <1>1, <1>2, <1>3, Known
     DEF MonitorComes, Requested, TaskLooks, BlockTrue, ChannelTrue, EventTrue, Wants,
       CaLinkAssumption, FlagTypes
<1>8. ASSUME NEW k \in CaLinks PROVE BlockTrue(k)'
  BY <1>1, <1>2, <1>3, Known DEF BlockTrue, Wants, FlagTypes, TaskTypes, CaLinkAssumption
<1>9. ASSUME NEW k \in CaLinks PROVE ChannelTrue(k)'
  BY <1>1, <1>2, <1>3, Known DEF ChannelTrue, Wants, BlockTrue, CaLinkAssumption
<1>10. ASSUME NEW k \in CaLinks PROVE EventTrue(k)'
  BY <1>1, <1>2, <1>3, Known DEF EventTrue, CaLinkAssumption
<1>11. ASSUME NEW k \in CaLinks PROVE PutTrue(k)'
  BY <1>1, <1>2, <1>3, Known
     DEF PutTrue, WriteQueued, WriteTaken, InFlight, Answered, ChannelTrue, OwedOf,
       CaLinkAssumption, Wants
<1>12. ASSUME NEW k \in CaLinks PROVE OwedOf(k)'
  BY <1>1, <1>2, <1>3, Known
     DEF OwedOf, CaLinkAssumption, ChannelTrue, FlagTypes, PutTrue, ActiveOwed
<1>. QED BY <1>1, <1>2, <1>3, <1>4, <1>5, <1>6, <1>7, <1>8, <1>9, <1>10, <1>11, <1>12
   DEF IInv, TypeOK, LinkTrue

-----------------------------------------------------------------------------
(* The client library *)

LEMMA NoCalls ==
    ASSUME calls = << >>
    PROVE  \A x : ~Contains(calls, x)
BY OneCall

LEMMA ConnectsStep ==
    ASSUME CaLinkAssumption, IInv, NEW l \in CaLinks, ChannelConnects(l)
    PROVE  IInv'
<1>. DEFINE b == [pca[l] EXCEPT !.chan = "connected"]
<1>1. /\ calls = << >> /\ caUser = NoLink /\ pca[l].chan = "disconnected"
      /\ UNCHANGED <<input, pvt, pvlOptInpNative, pact, recordPc, removed, taskPc, taskLink,
             taskAction, caUser, dropped, owed>>
  BY Known
     DEF ChannelConnects, CallsBack, CallbackMutexFree, recordVars, workVars, taskVars,
       clientVars, history, BlockTypes, Blocks
<1>2. b \in Blocks /\ b.link_action = pca[l].link_action
  <2>1. pca[l] \in Blocks /\ l \in CaLinks
    BY <1>1, BlocksAre, Known
  <2>. QED BY <2>1 DEF Blocks
<1>3. /\ BlockTypes' /\ ListTypes' /\ pca'[l] = b
      /\ \A k \in CaLinks \ {l} : pca'[k] = pca[k]
      /\ UNCHANGED <<workList, workListEvent>>
  BY <1>1, <1>2, BecomesTrue, Known DEF ChannelConnects, CallsBack
<1>4. calls' = <<<<"connection", l>>>>
  BY <1>1, OneCall DEF ChannelConnects, CallsBack
<1>5. /\ \A x : ~Contains(calls, x)
      /\ \A x : Contains(calls', x) <=> x = <<"connection", l>>
  BY <1>1, <1>4, OneCall
<1>6. /\ pca'[l].used = pca[l].used /\ pca'[l].plink = pca[l].plink
      /\ pca'[l].link_action = pca[l].link_action /\ pca'[l].isConnected = pca[l].isConnected
      /\ pca'[l].pgetNative = pca[l].pgetNative /\ pca'[l].gotInNative = pca[l].gotInNative
      /\ pca'[l].putCallback = pca[l].putCallback /\ pca'[l].chan = "connected"
      /\ pca'[l].inflight = pca[l].inflight /\ pca'[l].subscription = pca[l].subscription
  BY <1>1, <1>2, <1>3, <1>4, <1>5, Known DEF BlockTypes, Blocks
<1>. HIDE DEF b
<1>7. FlagTypes' /\ TaskTypes' /\ CallTypes' /\ ActiveOwed' /\ WorkSeen'
  BY <1>1, <1>2, <1>3, <1>4, <1>5, <1>6, Known
     DEF FlagTypes, TaskTypes, CallTypes, ActiveOwed, OwedOf, WorkSeen, TaskLooks
<1>8. CallsTrue'
  BY <1>1, <1>2, <1>3, <1>4, <1>5, <1>6, Known DEF CallsTrue, ChannelTrue, CallTypes
<1>9. OrderTrue'
  BY <1>1, <1>2, <1>3, <1>4, <1>5, <1>6, Known
     DEF OrderTrue, BlockTrue, ChannelTrue, Wants, CaLinkAssumption, FlagTypes, TaskTypes
<1>10. MonitorComes'
  BY <1>1, <1>2, <1>3, <1>4, <1>5, <1>6, Known
     DEF MonitorComes, Requested, TaskLooks, BlockTrue, ChannelTrue, EventTrue, Wants,
       CaLinkAssumption, FlagTypes
<1>11. ASSUME NEW k \in CaLinks PROVE BlockTrue(k)'
  BY <1>1, <1>2, <1>3, <1>4, <1>5, <1>6, Known
     DEF BlockTrue, Wants, FlagTypes, TaskTypes, CaLinkAssumption, Blank
<1>12. ASSUME NEW k \in CaLinks PROVE ChannelTrue(k)'
  BY <1>1, <1>2, <1>3, <1>4, <1>5, <1>6, Known
     DEF ChannelTrue, Wants, BlockTrue, CaLinkAssumption
<1>13. ASSUME NEW k \in CaLinks PROVE EventTrue(k)'
  <2>1. CASE k = l
    BY <1>1, <1>2, <1>3, <1>4, <1>5, <1>6, <2>1, Known
       DEF EventTrue, CaLinkAssumption
  <2>2. CASE k # l
    BY <1>1, <1>2, <1>3, <1>4, <1>5, <1>6, <2>2, Known
       DEF EventTrue, CaLinkAssumption
  <2>. QED BY <2>1, <2>2
<1>14. ASSUME NEW k \in CaLinks PROVE PutTrue(k)'
  <2>1. CASE k = l
    BY <1>1, <1>2, <1>3, <1>4, <1>5, <1>6, <2>1, Known
       DEF PutTrue, WriteQueued, WriteTaken, InFlight, Answered, ChannelTrue, OwedOf,
         CaLinkAssumption, Wants
  <2>2. CASE k # l
    BY <1>1, <1>2, <1>3, <1>4, <1>5, <1>6, <2>2, Known
       DEF PutTrue, WriteQueued, WriteTaken, InFlight, Answered
  <2>. QED BY <2>1, <2>2
<1>15. ASSUME NEW k \in CaLinks PROVE OwedOf(k)'
  <2>1. CASE k = l
    BY <1>1, <1>2, <1>3, <1>4, <1>5, <1>6, <2>1, Known
       DEF OwedOf, CaLinkAssumption, ChannelTrue, FlagTypes, PutTrue, ActiveOwed
  <2>2. CASE k # l
    BY <1>1, <1>2, <1>3, <1>4, <1>5, <1>6, <2>2, Known DEF OwedOf
  <2>. QED BY <2>1, <2>2
<1>. QED BY <1>1, <1>2, <1>3, <1>4, <1>5, <1>6, <1>7, <1>8, <1>9, <1>10, <1>11, <1>12,
     <1>13, <1>14, <1>15 DEF IInv, TypeOK, LinkTrue

LEMMA DisconnectsStep ==
    ASSUME CaLinkAssumption, IInv, NEW l \in CaLinks, ChannelDisconnects(l)
    PROVE  IInv'
<1>. DEFINE b == [pca[l] EXCEPT !.chan = "disconnected", !.inflight = 0]
<1>1. /\ pca[l].inflight \in {0, 1} /\ calls = << >> /\ caUser = NoLink /\ pca[l].chan = "connected"
      /\ UNCHANGED <<input, pvt, pvlOptInpNative, pact, recordPc, removed, taskPc, taskLink,
             taskAction, caUser, dropped, owed>>
  BY Known
     DEF ChannelDisconnects, CallsBack, CallbackMutexFree, recordVars, workVars, taskVars,
       clientVars, history, BlockTypes, Blocks
<1>2. b \in Blocks /\ b.link_action = pca[l].link_action
  <2>1. pca[l] \in Blocks /\ l \in CaLinks
    BY <1>1, BlocksAre, Known
  <2>. QED BY <2>1, ClientBlocks
<1>3. /\ BlockTypes' /\ ListTypes' /\ pca'[l] = b
      /\ \A k \in CaLinks \ {l} : pca'[k] = pca[k]
      /\ UNCHANGED <<workList, workListEvent>>
  BY <1>1, <1>2, BecomesTrue, Known DEF ChannelDisconnects, CallsBack
<1>4. calls' = IF pca[l].inflight = 0 THEN <<<<"connection", l>>>>
             ELSE <<<<"put", l>>, <<"connection", l>>>>
  <2>1. calls' = Append([i \in 1..pca[l].inflight |-> <<"put", l>>], <<"connection", l>>)
    BY DEF ChannelDisconnects, CallsBack
  <2>2. CASE pca[l].inflight = 0
    BY <2>1, <2>2, LostAnswers
  <2>3. CASE pca[l].inflight = 1
    BY <2>1, <2>3, LostAnswers
  <2>. QED BY <1>1, <2>2, <2>3
<1>5. calls' \in Seq({"connection", "put", "event"} \X CaLinks)
  <2>. DEFINE C == {"connection", "put", "event"} \X CaLinks
  <2>1. <<"connection", l>> \in C /\ <<"put", l>> \in C
    OBVIOUS
  <2>. HIDE DEF C
  <2>2. <<<<"connection", l>>>> \in Seq(C) /\ <<<<"put", l>>, <<"connection", l>>>> \in Seq(C)
    BY <2>1
  <2>. QED BY <1>4, <2>2 DEF C
<1>6. /\ \A x : ~Contains(calls, x)
      /\ \A x : Contains(calls', x) <=>
            x = <<"connection", l>> \/ (x = <<"put", l>> /\ pca[l].inflight # 0)
  <2>1. /\ \A x : Contains(<<<<"connection", l>>>>, x) <=> x = <<"connection", l>>
        /\ \A x : Contains(<<<<"put", l>>, <<"connection", l>>>>, x) <=>
                    x = <<"put", l>> \/ x = <<"connection", l>>
    BY OneCall
  <2>2. \A x : ~Contains(calls, x)
    BY <1>1, EmptyHasNone
  <2>. QED BY <1>1, <1>4, <2>1, <2>2
<1>7. /\ pca'[l].used = pca[l].used /\ pca'[l].plink = pca[l].plink
      /\ pca'[l].link_action = pca[l].link_action /\ pca'[l].isConnected = pca[l].isConnected
      /\ pca'[l].pgetNative = pca[l].pgetNative /\ pca'[l].gotInNative = pca[l].gotInNative
      /\ pca'[l].putCallback = pca[l].putCallback /\ pca'[l].chan = "disconnected"
      /\ pca'[l].inflight = 0 /\ pca'[l].subscription = pca[l].subscription
  BY <1>1, <1>2, <1>3, <1>4, <1>6, Known DEF BlockTypes, Blocks
<1>. HIDE DEF b
<1>8. FlagTypes' /\ TaskTypes' /\ CallTypes' /\ ActiveOwed' /\ WorkSeen'
  BY <1>1, <1>2, <1>3, <1>4, <1>6, <1>7, <1>5, Known
     DEF FlagTypes, TaskTypes, CallTypes, ActiveOwed, OwedOf, WorkSeen, TaskLooks
<1>9. CallsTrue'
  BY <1>1, <1>2, <1>3, <1>4, <1>6, <1>7, Known DEF CallsTrue, ChannelTrue, CallTypes
<1>10. OrderTrue'
  BY <1>1, <1>2, <1>3, <1>4, <1>6, <1>7, Known
     DEF OrderTrue, BlockTrue, ChannelTrue, Wants, CaLinkAssumption, FlagTypes, TaskTypes
<1>11. MonitorComes'
  BY <1>1, <1>2, <1>3, <1>4, <1>6, <1>7, Known
     DEF MonitorComes, Requested, TaskLooks, BlockTrue, ChannelTrue, EventTrue, Wants,
       CaLinkAssumption, FlagTypes
<1>12. ASSUME NEW k \in CaLinks PROVE BlockTrue(k)'
  BY <1>1, <1>2, <1>3, <1>4, <1>6, <1>7, Known
     DEF BlockTrue, Wants, FlagTypes, TaskTypes, CaLinkAssumption, Blank
<1>13. ASSUME NEW k \in CaLinks PROVE ChannelTrue(k)'
  BY <1>1, <1>2, <1>3, <1>4, <1>6, <1>7, Known
     DEF ChannelTrue, Wants, BlockTrue, CaLinkAssumption
<1>14. ASSUME NEW k \in CaLinks PROVE EventTrue(k)'
  <2>1. CASE k = l
    BY <1>1, <1>2, <1>3, <1>4, <1>6, <1>7, <2>1, Known
       DEF EventTrue, CaLinkAssumption
  <2>2. CASE k # l
    BY <1>1, <1>2, <1>3, <1>4, <1>6, <1>7, <2>2, Known DEF EventTrue
  <2>. QED BY <2>1, <2>2
<1>15. ASSUME NEW k \in CaLinks PROVE PutTrue(k)'
  <2>1. CASE k = l
    BY <1>1, <1>6, <1>7, <2>1, Known DEF PutTrue, WriteQueued, WriteTaken, InFlight, Answered
  <2>2. CASE k # l
    BY <1>1, <1>2, <1>3, <1>4, <1>6, <1>7, <2>2, Known
       DEF PutTrue, WriteQueued, WriteTaken, InFlight, Answered, ChannelTrue, OwedOf,
         CaLinkAssumption, Wants
  <2>. QED BY <2>1, <2>2
<1>16. ASSUME NEW k \in CaLinks PROVE OwedOf(k)'
  <2>1. CASE k = l
    BY <1>1, <1>2, <1>3, <1>4, <1>6, <1>7, <2>1, Known
       DEF OwedOf, CaLinkAssumption, ChannelTrue, FlagTypes, PutTrue, ActiveOwed
  <2>2. CASE k # l
    BY <1>1, <1>2, <1>3, <1>4, <1>6, <1>7, <2>2, Known DEF OwedOf
  <2>. QED BY <2>1, <2>2
<1>. QED BY <1>1, <1>2, <1>3, <1>4, <1>6, <1>7, <1>8, <1>9, <1>10, <1>11, <1>12, <1>13,
     <1>14, <1>15, <1>16 DEF IInv, TypeOK, LinkTrue

LEMMA AnswersStep ==
    ASSUME CaLinkAssumption, IInv, NEW l \in CaLinks, ChannelAnswers(l)
    PROVE  IInv'
<1>. DEFINE b == [pca[l] EXCEPT !.inflight = @ - 1]
<1>1. /\ calls = << >> /\ caUser = NoLink /\ pca[l].chan = "connected" /\ pca[l].inflight = 1
      /\ UNCHANGED <<input, pvt, pvlOptInpNative, pact, recordPc, removed, taskPc, taskLink,
             taskAction, caUser, dropped, owed>>
  BY Known
     DEF ChannelAnswers, CallsBack, CallbackMutexFree, recordVars, workVars, taskVars,
       clientVars, history, BlockTypes, Blocks
<1>2. b \in Blocks /\ b.link_action = pca[l].link_action
  <2>1. pca[l] \in Blocks /\ l \in CaLinks
    BY <1>1, BlocksAre, Known
  <2>2. b = [pca[l] EXCEPT !.inflight = 0]
    BY <1>1
  <2>. QED BY <2>1, <2>2, ClientBlocks
<1>3. /\ BlockTypes' /\ ListTypes' /\ pca'[l] = b
      /\ \A k \in CaLinks \ {l} : pca'[k] = pca[k]
      /\ UNCHANGED <<workList, workListEvent>>
  BY <1>1, <1>2, BecomesTrue, Known DEF ChannelAnswers, CallsBack
<1>4. calls' = <<<<"put", l>>>>
  BY <1>1, OneCall DEF ChannelAnswers, CallsBack
<1>5. /\ \A x : ~Contains(calls, x)
      /\ \A x : Contains(calls', x) <=> x = <<"put", l>>
  BY <1>1, <1>4, OneCall
<1>6. /\ pca'[l].used = pca[l].used /\ pca'[l].plink = pca[l].plink
      /\ pca'[l].link_action = pca[l].link_action /\ pca'[l].isConnected = pca[l].isConnected
      /\ pca'[l].pgetNative = pca[l].pgetNative /\ pca'[l].gotInNative = pca[l].gotInNative
      /\ pca'[l].putCallback = pca[l].putCallback /\ pca'[l].chan = pca[l].chan
      /\ pca'[l].inflight = 0 /\ pca'[l].subscription = pca[l].subscription
  BY <1>1, <1>2, <1>3, <1>4, <1>5, Known DEF BlockTypes, Blocks
<1>. HIDE DEF b
<1>7. FlagTypes' /\ TaskTypes' /\ CallTypes' /\ ActiveOwed' /\ WorkSeen'
  BY <1>1, <1>2, <1>3, <1>4, <1>5, <1>6, Known
     DEF FlagTypes, TaskTypes, CallTypes, ActiveOwed, OwedOf, WorkSeen, TaskLooks
<1>8. CallsTrue'
  BY <1>1, <1>2, <1>3, <1>4, <1>5, <1>6, Known DEF CallsTrue, ChannelTrue, CallTypes
<1>9. OrderTrue'
  BY <1>1, <1>2, <1>3, <1>4, <1>5, <1>6, Known
     DEF OrderTrue, BlockTrue, ChannelTrue, Wants, CaLinkAssumption, FlagTypes, TaskTypes
<1>10. MonitorComes'
  BY <1>1, <1>2, <1>3, <1>4, <1>5, <1>6, Known
     DEF MonitorComes, Requested, TaskLooks, BlockTrue, ChannelTrue, EventTrue, Wants,
       CaLinkAssumption, FlagTypes
<1>11. ASSUME NEW k \in CaLinks PROVE BlockTrue(k)'
  BY <1>1, <1>2, <1>3, <1>4, <1>5, <1>6, Known
     DEF BlockTrue, Wants, FlagTypes, TaskTypes, CaLinkAssumption, Blank
<1>12. ASSUME NEW k \in CaLinks PROVE ChannelTrue(k)'
  BY <1>1, <1>2, <1>3, <1>4, <1>5, <1>6, Known
     DEF ChannelTrue, Wants, BlockTrue, CaLinkAssumption
<1>13. ASSUME NEW k \in CaLinks PROVE EventTrue(k)'
  <2>1. CASE k = l
    BY <1>1, <1>2, <1>3, <1>4, <1>5, <1>6, <2>1, Known
       DEF EventTrue, CaLinkAssumption
  <2>2. CASE k # l
    BY <1>1, <1>2, <1>3, <1>4, <1>5, <1>6, <2>2, Known DEF EventTrue
  <2>. QED BY <2>1, <2>2
<1>14. ASSUME NEW k \in CaLinks PROVE PutTrue(k)'
  <2>1. CASE k = l
    BY <1>1, <1>5, <1>6, <2>1, Known DEF PutTrue, WriteQueued, WriteTaken, InFlight, Answered
  <2>2. CASE k # l
    BY <1>1, <1>2, <1>3, <1>4, <1>5, <1>6, <2>2, Known
       DEF PutTrue, WriteQueued, WriteTaken, InFlight, Answered, ChannelTrue, OwedOf,
         CaLinkAssumption, Wants
  <2>. QED BY <2>1, <2>2
<1>15. ASSUME NEW k \in CaLinks PROVE OwedOf(k)'
  <2>1. CASE k = l
    BY <1>1, <1>2, <1>3, <1>4, <1>5, <1>6, <2>1, Known
       DEF OwedOf, CaLinkAssumption, ChannelTrue, FlagTypes, PutTrue, ActiveOwed
  <2>2. CASE k # l
    BY <1>1, <1>2, <1>3, <1>4, <1>5, <1>6, <2>2, Known DEF OwedOf
  <2>. QED BY <2>1, <2>2
<1>. QED BY <1>1, <1>2, <1>3, <1>4, <1>5, <1>6, <1>7, <1>8, <1>9, <1>10, <1>11, <1>12,
     <1>13, <1>14, <1>15 DEF IInv, TypeOK, LinkTrue

LEMMA UpdatesStep ==
    ASSUME CaLinkAssumption, IInv, NEW l \in CaLinks, ChannelUpdates(l)
    PROVE  IInv'
<1>. DEFINE b == pca[l]
<1>1. /\ calls = << >> /\ caUser = NoLink /\ pca[l].chan = "connected"
      /\ pca[l].subscription = "good"
      /\ UNCHANGED <<input, pvt, pvlOptInpNative, pact, recordPc, removed, taskPc, taskLink,
             taskAction, caUser, dropped, owed>>
  BY Known
     DEF ChannelUpdates, CallsBack, CallbackMutexFree, recordVars, workVars, taskVars,
       clientVars, history, BlockTypes, Blocks
<1>2. b \in Blocks /\ b.link_action = pca[l].link_action
  <2>1. pca[l] \in Blocks /\ l \in CaLinks
    BY <1>1, BlocksAre, Known
  <2>. QED BY <2>1 DEF Blocks
<1>3. /\ BlockTypes' /\ ListTypes' /\ pca'[l] = b
      /\ \A k \in CaLinks \ {l} : pca'[k] = pca[k]
      /\ UNCHANGED <<workList, workListEvent>>
  BY <1>1, <1>2, BecomesTrue, Known DEF ChannelUpdates, CallsBack
<1>4. calls' = <<<<"event", l>>>>
  BY <1>1, OneCall DEF ChannelUpdates, CallsBack
<1>5. /\ \A x : ~Contains(calls, x)
      /\ \A x : Contains(calls', x) <=> x = <<"event", l>>
  BY <1>1, <1>4, OneCall
<1>6. /\ pca'[l].used = pca[l].used /\ pca'[l].plink = pca[l].plink
      /\ pca'[l].link_action = pca[l].link_action /\ pca'[l].isConnected = pca[l].isConnected
      /\ pca'[l].pgetNative = pca[l].pgetNative /\ pca'[l].gotInNative = pca[l].gotInNative
      /\ pca'[l].putCallback = pca[l].putCallback /\ pca'[l].chan = pca[l].chan
      /\ pca'[l].inflight = pca[l].inflight /\ pca'[l].subscription = pca[l].subscription
  BY <1>1, <1>2, <1>3, <1>4, <1>5, Known DEF BlockTypes, Blocks
<1>. HIDE DEF b
<1>7. FlagTypes' /\ TaskTypes' /\ CallTypes' /\ ActiveOwed' /\ WorkSeen'
  BY <1>1, <1>2, <1>3, <1>4, <1>5, <1>6, Known
     DEF FlagTypes, TaskTypes, CallTypes, ActiveOwed, OwedOf, WorkSeen, TaskLooks
<1>8. CallsTrue'
  BY <1>1, <1>2, <1>3, <1>4, <1>5, <1>6, Known DEF CallsTrue, ChannelTrue, CallTypes
<1>9. OrderTrue'
  BY <1>1, <1>2, <1>3, <1>4, <1>5, <1>6, Known
     DEF OrderTrue, BlockTrue, ChannelTrue, Wants, CaLinkAssumption, FlagTypes, TaskTypes
<1>10. MonitorComes'
  BY <1>1, <1>2, <1>3, <1>4, <1>5, <1>6, Known
     DEF MonitorComes, Requested, TaskLooks, BlockTrue, ChannelTrue, EventTrue, Wants,
       CaLinkAssumption, FlagTypes
<1>11. ASSUME NEW k \in CaLinks PROVE BlockTrue(k)'
  BY <1>1, <1>2, <1>3, <1>4, <1>5, <1>6, Known
     DEF BlockTrue, Wants, FlagTypes, TaskTypes, CaLinkAssumption, Blank
<1>12. ASSUME NEW k \in CaLinks PROVE ChannelTrue(k)'
  BY <1>1, <1>2, <1>3, <1>4, <1>5, <1>6, Known
     DEF ChannelTrue, Wants, BlockTrue, CaLinkAssumption
<1>13. ASSUME NEW k \in CaLinks PROVE EventTrue(k)'
  <2>1. CASE k = l
    BY <1>1, <1>2, <1>3, <1>4, <1>5, <1>6, <2>1, Known
       DEF EventTrue, CaLinkAssumption
  <2>2. CASE k # l
    BY <1>1, <1>2, <1>3, <1>4, <1>5, <1>6, <2>2, Known DEF EventTrue
  <2>. QED BY <2>1, <2>2
<1>14. ASSUME NEW k \in CaLinks PROVE PutTrue(k)'
  <2>1. CASE k = l
    BY <1>1, <1>2, <1>3, <1>4, <1>5, <1>6, <2>1, Known
       DEF PutTrue, WriteQueued, WriteTaken, InFlight, Answered, ChannelTrue, OwedOf,
         CaLinkAssumption, Wants
  <2>2. CASE k # l
    BY <1>1, <1>2, <1>3, <1>4, <1>5, <1>6, <2>2, Known
       DEF PutTrue, WriteQueued, WriteTaken, InFlight, Answered
  <2>. QED BY <2>1, <2>2
<1>15. ASSUME NEW k \in CaLinks PROVE OwedOf(k)'
  <2>1. CASE k = l
    BY <1>1, <1>2, <1>3, <1>4, <1>5, <1>6, <2>1, Known
       DEF OwedOf, CaLinkAssumption, ChannelTrue, FlagTypes, PutTrue, ActiveOwed
  <2>2. CASE k # l
    BY <1>1, <1>2, <1>3, <1>4, <1>5, <1>6, <2>2, Known DEF OwedOf
  <2>. QED BY <2>1, <2>2
<1>. QED BY <1>1, <1>2, <1>3, <1>4, <1>5, <1>6, <1>7, <1>8, <1>9, <1>10, <1>11, <1>12,
     <1>13, <1>14, <1>15 DEF IInv, TypeOK, LinkTrue

\* The callback that a thread makes, and what it has to make then.
LEMMA CallTaken ==
    ASSUME IInv, NEW kind \in {"connection", "put", "event"}, NEW l \in CaLinks, CallOf(kind, l)
    PROVE  /\ caUser = NoLink /\ pca[l].chan # "none" /\ Contains(calls, <<kind, l>>)
           /\ calls' = << >> \/ (kind = "put" /\ calls' = <<<<"connection", l>>>>)
           /\ \A x : Contains(calls', x) => kind = "put" /\ x = <<"connection", l>>
           /\ calls' \in Seq({"connection", "put", "event"} \X CaLinks)
           /\ \A x : Contains(calls, x) <=> x = <<kind, l>> \/ Contains(calls', x)
           /\ UNCHANGED <<input, pvt, pvlOptInpNative, pact, recordPc, removed, taskPc,
                taskLink, taskAction, dropped, owed>>
<1>1. /\ caUser = NoLink /\ calls # << >> /\ Head(calls) = <<kind, l>> /\ calls' = Tail(calls)
      /\ UNCHANGED <<input, pvt, pvlOptInpNative, pact, recordPc, removed, taskPc,
            taskLink, taskAction, dropped, owed>>
  BY DEF CallOf, recordVars, taskVars, history
<1>2. PICK k \in CaLinks :
        /\ pca[k].chan # "none"
        /\ \/ calls = <<<<"connection", k>>>>
           \/ calls = <<<<"put", k>>>>
           \/ calls = <<<<"event", k>>>>
           \/ calls = <<<<"put", k>>, <<"connection", k>>>>
  BY <1>1, Known DEF CallsTrue
<1>3. k = l
  BY <1>1, <1>2, OneCall
<1>4. CASE calls = <<<<kind, l>>>>
  <2>1. Contains(calls, <<kind, l>>) /\ \A x : Contains(calls, x) <=> x = <<kind, l>>
    BY <1>4, OneCall
  <2>2. calls' = << >>
    BY <1>1, <1>4, OneCall
  <2>3. \A x : ~Contains(calls', x)
    BY <2>2, OneCall
  <2>4. calls' \in Seq({"connection", "put", "event"} \X CaLinks)
    BY <2>2
  <2>. QED BY <1>1, <1>2, <1>3, <2>1, <2>2, <2>3, <2>4
<1>5. CASE kind = "put" /\ calls = <<<<"put", l>>, <<"connection", l>>>>
  <2>1. \A x : Contains(calls, x) <=> x = <<"put", l>> \/ x = <<"connection", l>>
    <3>1. \A x : Contains(<<<<"put", l>>, <<"connection", l>>>>, x) <=>
                    x = <<"put", l>> \/ x = <<"connection", l>>
      BY OneCall
    <3>. QED BY <1>5, <3>1
  <2>2. calls' = <<<<"connection", l>>>>
    BY <1>1, <1>5, OneCall
  <2>3. \A x : Contains(calls', x) <=> x = <<"connection", l>>
    BY <2>2, OneCall
  <2>. QED BY <1>1, <1>2, <1>3, <1>5, <2>1, <2>2, <2>3
<1>6. calls = <<<<kind, l>>>> \/ (kind = "put" /\ calls = <<<<"put", l>>, <<"connection", l>>>>)
  BY <1>1, <1>2, <1>3, OneCall
<1>. QED BY <1>4, <1>5, <1>6

LEMMA connectionIgnored ==
    ASSUME CaLinkAssumption, IInv, NEW l \in CaLinks, connectionCallback(l), ~pca[l].plink
    PROVE  IInv'
<1>1. /\ caUser = NoLink /\ pca[l].chan # "none" /\ Contains(calls, <<"connection", l>>)
      /\ calls' = << >>
      /\ \A x : Contains(calls, x) <=> x = <<"connection", l>> \/ Contains(calls', x)
      /\ \A x : ~Contains(calls', x)
      /\ calls' \in Seq({"connection", "put", "event"} \X CaLinks)
      /\ UNCHANGED <<input, pvt, pvlOptInpNative, pact, recordPc, removed, taskPc,
            taskLink, taskAction, dropped, owed>>
  <2>1. CallOf("connection", l)
    BY DEF connectionCallback
  <2>. QED BY <2>1, CallTaken
<1>2. /\ UNCHANGED <<pca, workList, workListEvent, caUser>> /\ l # pvt
  BY Known DEF connectionCallback, workVars, BlockTrue
<1>3. BlockTypes' /\ ListTypes'
  BY <1>2, Known DEF BlockTypes, ListTypes
<1>4. FlagTypes' /\ TaskTypes' /\ CallTypes' /\ ActiveOwed' /\ WorkSeen'
  BY <1>1, <1>2, <1>3, Known
     DEF FlagTypes, TaskTypes, CallTypes, ActiveOwed, OwedOf, WorkSeen, TaskLooks
<1>5. CallsTrue'
  BY <1>1, <1>2, <1>3, Known DEF CallsTrue, ChannelTrue, CallTypes
<1>6. OrderTrue'
  BY <1>1, <1>2, <1>3, Known
     DEF OrderTrue, BlockTrue, ChannelTrue, Wants, CaLinkAssumption, FlagTypes, TaskTypes
<1>7. MonitorComes'
  BY <1>1, <1>2, <1>3, Known
     DEF MonitorComes, Requested, TaskLooks, BlockTrue, ChannelTrue, EventTrue, Wants,
       CaLinkAssumption, FlagTypes
<1>8. ASSUME NEW k \in CaLinks PROVE BlockTrue(k)'
  BY <1>1, <1>2, <1>3, Known DEF BlockTrue, Wants, FlagTypes, TaskTypes, CaLinkAssumption
<1>9. ASSUME NEW k \in CaLinks PROVE ChannelTrue(k)'
  BY <1>1, <1>2, <1>3, Known DEF ChannelTrue, Wants, BlockTrue, CaLinkAssumption
<1>10. ASSUME NEW k \in CaLinks PROVE EventTrue(k)'
  BY <1>1, <1>2, <1>3, Known DEF EventTrue, CaLinkAssumption
<1>11. ASSUME NEW k \in CaLinks PROVE PutTrue(k)'
  BY <1>1, <1>2, <1>3, Known
     DEF PutTrue, WriteQueued, WriteTaken, InFlight, Answered, ChannelTrue, OwedOf,
       CaLinkAssumption, Wants
<1>12. ASSUME NEW k \in CaLinks PROVE OwedOf(k)'
  BY <1>1, <1>2, <1>3, Known
     DEF OwedOf, CaLinkAssumption, ChannelTrue, FlagTypes, PutTrue, ActiveOwed
<1>. QED BY <1>1, <1>2, <1>3, <1>4, <1>5, <1>6, <1>7, <1>8, <1>9, <1>10, <1>11, <1>12
   DEF IInv, TypeOK, LinkTrue

LEMMA putIgnored ==
    ASSUME CaLinkAssumption, IInv, NEW l \in CaLinks, putCallback(l), ~pca[l].plink
    PROVE  IInv'
<1>1. /\ caUser = NoLink /\ pca[l].chan # "none" /\ Contains(calls, <<"put", l>>)
      /\ (calls' = << >> \/ calls' = <<<<"connection", l>>>>)
      /\ \A x : Contains(calls, x) <=> x = <<"put", l>> \/ Contains(calls', x)
      /\ \A x : Contains(calls', x) => x = <<"connection", l>>
      /\ calls' \in Seq({"connection", "put", "event"} \X CaLinks)
      /\ UNCHANGED <<input, pvt, pvlOptInpNative, pact, recordPc, removed, taskPc,
            taskLink, taskAction, dropped, owed>>
  <2>1. CallOf("put", l)
    BY DEF putCallback
  <2>. QED BY <2>1, CallTaken
<1>2. /\ UNCHANGED <<pca, workList, workListEvent, caUser>> /\ l # pvt
  BY Known DEF putCallback, workVars, BlockTrue
<1>3. BlockTypes' /\ ListTypes'
  BY <1>2, Known DEF BlockTypes, ListTypes
<1>4. FlagTypes' /\ TaskTypes' /\ CallTypes' /\ ActiveOwed' /\ WorkSeen'
  BY <1>1, <1>2, <1>3, Known
     DEF FlagTypes, TaskTypes, CallTypes, ActiveOwed, OwedOf, WorkSeen, TaskLooks
<1>5. CallsTrue'
  BY <1>1, <1>2, <1>3, Known DEF CallsTrue, ChannelTrue, CallTypes
<1>6. OrderTrue'
  BY <1>1, <1>2, <1>3, Known
     DEF OrderTrue, BlockTrue, ChannelTrue, Wants, CaLinkAssumption, FlagTypes, TaskTypes
<1>7. MonitorComes'
  BY <1>1, <1>2, <1>3, Known
     DEF MonitorComes, Requested, TaskLooks, BlockTrue, ChannelTrue, EventTrue, Wants,
       CaLinkAssumption, FlagTypes
<1>8. ASSUME NEW k \in CaLinks PROVE BlockTrue(k)'
  BY <1>1, <1>2, <1>3, Known DEF BlockTrue, Wants, FlagTypes, TaskTypes, CaLinkAssumption
<1>9. ASSUME NEW k \in CaLinks PROVE ChannelTrue(k)'
  BY <1>1, <1>2, <1>3, Known DEF ChannelTrue, Wants, BlockTrue, CaLinkAssumption
<1>10. ASSUME NEW k \in CaLinks PROVE EventTrue(k)'
  BY <1>1, <1>2, <1>3, Known DEF EventTrue, CaLinkAssumption
<1>11. ASSUME NEW k \in CaLinks PROVE PutTrue(k)'
  BY <1>1, <1>2, <1>3, Known
     DEF PutTrue, WriteQueued, WriteTaken, InFlight, Answered, ChannelTrue, OwedOf,
       CaLinkAssumption, Wants
<1>12. ASSUME NEW k \in CaLinks PROVE OwedOf(k)'
  BY <1>1, <1>2, <1>3, Known
     DEF OwedOf, CaLinkAssumption, ChannelTrue, FlagTypes, PutTrue, ActiveOwed
<1>. QED BY <1>1, <1>2, <1>3, <1>4, <1>5, <1>6, <1>7, <1>8, <1>9, <1>10, <1>11, <1>12
   DEF IInv, TypeOK, LinkTrue

LEMMA eventIgnored ==
    ASSUME CaLinkAssumption, IInv, NEW l \in CaLinks, eventCallback(l), ~pca[l].plink
    PROVE  IInv'
<1>1. /\ caUser = NoLink /\ pca[l].chan # "none" /\ Contains(calls, <<"event", l>>)
      /\ calls' = << >>
      /\ \A x : Contains(calls, x) <=> x = <<"event", l>> \/ Contains(calls', x)
      /\ \A x : ~Contains(calls', x)
      /\ calls' \in Seq({"connection", "put", "event"} \X CaLinks)
      /\ UNCHANGED <<input, pvt, pvlOptInpNative, pact, recordPc, removed, taskPc,
            taskLink, taskAction, dropped, owed>>
  <2>1. CallOf("event", l)
    BY DEF eventCallback
  <2>. QED BY <2>1, CallTaken
<1>2. /\ UNCHANGED <<pca, workList, workListEvent, caUser>> /\ l # pvt
  BY Known DEF eventCallback, workVars, BlockTrue
<1>3. BlockTypes' /\ ListTypes'
  BY <1>2, Known DEF BlockTypes, ListTypes
<1>4. FlagTypes' /\ TaskTypes' /\ CallTypes' /\ ActiveOwed' /\ WorkSeen'
  BY <1>1, <1>2, <1>3, Known
     DEF FlagTypes, TaskTypes, CallTypes, ActiveOwed, OwedOf, WorkSeen, TaskLooks
<1>5. CallsTrue'
  BY <1>1, <1>2, <1>3, Known DEF CallsTrue, ChannelTrue, CallTypes
<1>6. OrderTrue'
  BY <1>1, <1>2, <1>3, Known
     DEF OrderTrue, BlockTrue, ChannelTrue, Wants, CaLinkAssumption, FlagTypes, TaskTypes
<1>7. MonitorComes'
  BY <1>1, <1>2, <1>3, Known
     DEF MonitorComes, Requested, TaskLooks, BlockTrue, ChannelTrue, EventTrue, Wants,
       CaLinkAssumption, FlagTypes
<1>8. ASSUME NEW k \in CaLinks PROVE BlockTrue(k)'
  BY <1>1, <1>2, <1>3, Known DEF BlockTrue, Wants, FlagTypes, TaskTypes, CaLinkAssumption
<1>9. ASSUME NEW k \in CaLinks PROVE ChannelTrue(k)'
  BY <1>1, <1>2, <1>3, Known DEF ChannelTrue, Wants, BlockTrue, CaLinkAssumption
<1>10. ASSUME NEW k \in CaLinks PROVE EventTrue(k)'
  BY <1>1, <1>2, <1>3, Known DEF EventTrue, CaLinkAssumption
<1>11. ASSUME NEW k \in CaLinks PROVE PutTrue(k)'
  BY <1>1, <1>2, <1>3, Known
     DEF PutTrue, WriteQueued, WriteTaken, InFlight, Answered, ChannelTrue, OwedOf,
       CaLinkAssumption, Wants
<1>12. ASSUME NEW k \in CaLinks PROVE OwedOf(k)'
  BY <1>1, <1>2, <1>3, Known
     DEF OwedOf, CaLinkAssumption, ChannelTrue, FlagTypes, PutTrue, ActiveOwed
<1>. QED BY <1>1, <1>2, <1>3, <1>4, <1>5, <1>6, <1>7, <1>8, <1>9, <1>10, <1>11, <1>12
   DEF IInv, TypeOK, LinkTrue

LEMMA connectionStep ==
    ASSUME CaLinkAssumption, IInv, NEW l \in CaLinks, connectionCallback(l), pca[l].plink
    PROVE  IInv'
<1>1. /\ caUser = NoLink /\ pca[l].chan # "none" /\ Contains(calls, <<"connection", l>>)
      /\ calls' = << >>
      /\ \A x : Contains(calls, x) <=> x = <<"connection", l>> \/ Contains(calls', x)
      /\ \A x : ~Contains(calls', x)
      /\ calls' \in Seq({"connection", "put", "event"} \X CaLinks)
      /\ UNCHANGED <<input, pvt, pvlOptInpNative, pact, recordPc, removed, taskPc,
            taskLink, taskAction, dropped, owed>>
  <2>1. CallOf("connection", l)
    BY DEF connectionCallback
  <2>. QED BY <2>1, CallTaken
<1>. DEFINE conn == pca[l].chan = "connected"
            b == [pca[l] EXCEPT !.isConnected = conn]
            added == IF conn /\ pvlOptInpNative /\ ~pca[l].pgetNative THEN {"monitor"} ELSE {}
<1>2. /\ caUser' = caUser /\ addAction(l, b, added) /\ l = pvt
  BY Known DEF connectionCallback, BlockTrue, MonitorAfter
<1>3. /\ b \in Blocks /\ b.link_action = pca[l].link_action /\ "clear" \notin b.link_action
      /\ added \in SUBSET Actions
  <2>1. pca[l] \in Blocks /\ conn \in BOOLEAN
    BY BlocksAre, Known
  <2>2. b \in Blocks /\ b.link_action = pca[l].link_action
    BY <2>1 DEF Blocks
  <2>3. "clear" \notin pca[l].link_action
    BY <1>2, Known DEF BlockTrue, Wants
  <2>. QED BY <2>2, <2>3 DEF Actions
<1>4. /\ BlockTypes' /\ ListTypes' /\ WorkSeen' /\ workListEvent' \in BOOLEAN
      /\ pca'[l] = [b EXCEPT !.link_action = b.link_action \cup added]
      /\ \A k \in CaLinks \ {l} : pca'[k] = pca[k]
      /\ \A k \in CaLinks \ {l}, m \in CaLinks :
            Before(workList, k, m) => Before(workList', k, m)
      /\ b.link_action = {} => \A k \in CaLinks \ {l} : Before(workList', k, l)
      /\ TaskLooks => TaskLooks'
  <2>. HIDE DEF added, b
  <2>. QED BY <1>1, <1>2, <1>3, AddsAction, Known
<1>5. /\ pca'[l].used = pca[l].used /\ pca'[l].plink = pca[l].plink
      /\ pca'[l].link_action = pca[l].link_action \cup added
      /\ (pca'[l].isConnected <=> pca[l].chan = "connected")
      /\ pca'[l].pgetNative = pca[l].pgetNative /\ pca'[l].gotInNative = pca[l].gotInNative
      /\ pca'[l].putCallback = pca[l].putCallback /\ pca'[l].chan = pca[l].chan
      /\ pca'[l].inflight = pca[l].inflight /\ pca'[l].subscription = pca[l].subscription
  <2>1. pca[l] \in Blocks
    BY BlocksAre, Known
  <2>2. pca'[l] = [b EXCEPT !.link_action = b.link_action \cup added]
    BY <1>4
  <2>. HIDE DEF added
  <2>. QED BY <2>1, <2>2 DEF Blocks
<1>. HIDE DEF b
<1>6. FlagTypes' /\ TaskTypes' /\ CallTypes' /\ ActiveOwed'
  BY <1>1, <1>2, <1>3, <1>4, <1>5, Known DEF FlagTypes, TaskTypes, CallTypes, ActiveOwed, OwedOf
<1>7. CallsTrue'
  BY <1>1, <1>2, <1>3, <1>4, <1>5, Known DEF CallsTrue, ChannelTrue, CallTypes
<1>8. OrderTrue'
  BY <1>1, <1>2, <1>3, <1>4, <1>5, Known
     DEF OrderTrue, BlockTrue, ChannelTrue, Wants, CaLinkAssumption, FlagTypes, TaskTypes
<1>9. MonitorComes'
  <2>1. CASE conn /\ pvlOptInpNative /\ ~pca[l].pgetNative
    <3>1. "monitor" \in pca'[l].link_action
      BY <1>5, <2>1
    <3>2. TaskLooks'
      BY <1>4, <3>1, WorkIsSeen
    <3>. QED BY <1>1, <1>2, <3>1, <3>2 DEF MonitorComes, Requested
  <2>2. CASE ~(conn /\ pvlOptInpNative /\ ~pca[l].pgetNative)
    <3>1. pca[l].pgetNative =>
            pca[l].subscription # "none" \/ (taskLink = l /\ taskPc = "subscribe")
      BY Known DEF EventTrue
    <3>. QED BY <1>1, <1>2, <1>5, <2>2, <3>1 DEF MonitorComes
  <2>. QED BY <2>1, <2>2
<1>10. ASSUME NEW k \in CaLinks PROVE BlockTrue(k)'
  <2>1. CASE k = l
    BY <1>1, <1>2, <1>3, <1>4, <1>5, <2>1, Known
       DEF BlockTrue, Wants, FlagTypes, TaskTypes, CaLinkAssumption, Blank
  <2>2. CASE k # l
    BY <1>1, <1>2, <1>3, <1>4, <1>5, <2>2, Known DEF BlockTrue, Wants
  <2>. QED BY <2>1, <2>2
<1>11. ASSUME NEW k \in CaLinks PROVE ChannelTrue(k)'
  <2>1. CASE k = l
    BY <1>1, <1>2, <1>3, <1>4, <1>5, <2>1, Known
       DEF ChannelTrue, Wants, BlockTrue, CaLinkAssumption
  <2>2. CASE k # l
    BY <1>1, <1>2, <1>3, <1>4, <1>5, <2>2, Known
       DEF ChannelTrue, Wants, BlockTrue, CaLinkAssumption
  <2>. QED BY <2>1, <2>2
<1>12. ASSUME NEW k \in CaLinks PROVE EventTrue(k)'
  <2>1. CASE k = l
    BY <1>1, <1>2, <1>3, <1>4, <1>5, <2>1, Known DEF EventTrue, CaLinkAssumption
  <2>2. CASE k # l
    BY <1>1, <1>4, <2>2, Known DEF EventTrue
  <2>. QED BY <2>1, <2>2
<1>13. ASSUME NEW k \in CaLinks PROVE PutTrue(k)'
  <2>1. CASE k = l
    BY <1>1, <1>2, <1>3, <1>4, <1>5, <2>1, Known
       DEF PutTrue, WriteQueued, WriteTaken, InFlight, Answered, ChannelTrue, OwedOf,
         CaLinkAssumption, Wants
  <2>2. CASE k # l
    BY <1>1, <1>2, <1>3, <1>4, <1>5, <2>2, Known
       DEF PutTrue, WriteQueued, WriteTaken, InFlight, Answered, ChannelTrue, OwedOf,
         CaLinkAssumption, Wants
  <2>. QED BY <2>1, <2>2
<1>14. ASSUME NEW k \in CaLinks PROVE OwedOf(k)'
  <2>1. CASE k = l
    <3>1. owed \subseteq {pact}
      <4>1. pca[l].chan # "none" /\ pvt # NoLink /\ "connect" \notin pca[l].link_action
        BY <1>1, <1>2, Known DEF ChannelTrue, Wants, CaLinkAssumption
      <4>2. taskPc # "callback" /\ caUser = NoLink
        BY <1>1, <1>2, <4>1, Known DEF OrderTrue
      <4>3. ASSUME NEW m \in owed PROVE m = pact
        <5>1. m \in CaLinks /\ pca[m].putCallback
          BY <4>2, <4>3, Known DEF FlagTypes, OwedOf, CaLinkAssumption
        <5>2. pca[m].used
          BY <5>1, Known DEF BlockTrue, Blank
        <5>3. m = l
          BY <1>2, <4>1, <5>1, <5>2, Known DEF OrderTrue
        <5>. QED BY <1>2, <5>1, <5>3, Known DEF PutTrue
      <4>. QED BY <4>3
    <3>. QED BY <1>1, <1>2, <1>5, <2>1, <3>1, Known DEF OwedOf
  <2>2. CASE k # l
    BY <1>1, <1>2, <1>4, <2>2, Known DEF OwedOf
  <2>. QED BY <2>1, <2>2
<1>. QED BY <1>1, <1>2, <1>3, <1>4, <1>5, <1>6, <1>7, <1>8, <1>9, <1>10, <1>11, <1>12,
     <1>13, <1>14 DEF IInv, TypeOK, LinkTrue

LEMMA putStep ==
    ASSUME CaLinkAssumption, IInv, NEW l \in CaLinks, putCallback(l), pca[l].plink
    PROVE  IInv'
<1>1. /\ caUser = NoLink /\ pca[l].chan # "none" /\ Contains(calls, <<"put", l>>)
      /\ (calls' = << >> \/ calls' = <<<<"connection", l>>>>)
      /\ \A x : Contains(calls, x) <=> x = <<"put", l>> \/ Contains(calls', x)
      /\ \A x : Contains(calls', x) => x = <<"connection", l>>
      /\ calls' \in Seq({"connection", "put", "event"} \X CaLinks)
      /\ UNCHANGED <<input, pvt, pvlOptInpNative, pact, recordPc, removed, taskPc,
            taskLink, taskAction, dropped, owed>>
  <2>1. CallOf("put", l)
    BY DEF putCallback
  <2>. QED BY <2>1, CallTaken
<1>. DEFINE b == [pca[l] EXCEPT !.putCallback = FALSE]
<1>2. /\ caUser' = l /\ Becomes(l, b) /\ l = pvt /\ pca[l].putCallback
  BY <1>1, Known DEF putCallback, BlockTrue, PutTrue, Answered
<1>3. b \in Blocks /\ b.link_action = pca[l].link_action
  BY Known DEF BlockTypes, Blocks
<1>4. /\ BlockTypes' /\ ListTypes' /\ pca'[l] = b
      /\ \A k \in CaLinks \ {l} : pca'[k] = pca[k]
      /\ UNCHANGED <<workList, workListEvent>>
  BY <1>2, <1>3, BecomesTrue, Known
<1>5. /\ pca'[l].used = pca[l].used /\ pca'[l].plink = pca[l].plink
      /\ pca'[l].link_action = pca[l].link_action /\ pca'[l].isConnected = pca[l].isConnected
      /\ pca'[l].pgetNative = pca[l].pgetNative /\ pca'[l].gotInNative = pca[l].gotInNative
      /\ ~pca'[l].putCallback /\ pca'[l].chan = pca[l].chan
      /\ pca'[l].inflight = pca[l].inflight /\ pca'[l].subscription = pca[l].subscription
  BY <1>1, <1>2, <1>3, <1>4, Known DEF BlockTypes, Blocks
<1>. HIDE DEF b
<1>6. FlagTypes' /\ TaskTypes' /\ CallTypes' /\ ActiveOwed' /\ WorkSeen'
  BY <1>1, <1>2, <1>3, <1>4, <1>5, Known
     DEF FlagTypes, TaskTypes, CallTypes, ActiveOwed, OwedOf, WorkSeen, TaskLooks
<1>7. CallsTrue'
  BY <1>1, <1>2, <1>3, <1>4, <1>5, Known DEF CallsTrue, ChannelTrue, CallTypes
<1>8. OrderTrue'
  BY <1>1, <1>2, <1>3, <1>4, <1>5, Known
     DEF OrderTrue, BlockTrue, ChannelTrue, Wants, CaLinkAssumption, FlagTypes, TaskTypes
<1>9. MonitorComes'
  BY <1>1, <1>2, <1>3, <1>4, <1>5, Known
     DEF MonitorComes, Requested, TaskLooks, BlockTrue, ChannelTrue, EventTrue, Wants,
       CaLinkAssumption, FlagTypes
<1>10. ASSUME NEW k \in CaLinks PROVE BlockTrue(k)'
  <2>1. CASE k = l
    BY <1>1, <1>2, <1>3, <1>4, <1>5, <2>1, Known
       DEF BlockTrue, Wants, FlagTypes, TaskTypes, CaLinkAssumption, Blank
  <2>2. CASE k # l
    BY <1>1, <1>2, <1>3, <1>4, <1>5, <2>2, Known
       DEF BlockTrue, Wants, FlagTypes, TaskTypes, CaLinkAssumption
  <2>. QED BY <2>1, <2>2
<1>11. ASSUME NEW k \in CaLinks PROVE ChannelTrue(k)'
  BY <1>1, <1>2, <1>3, <1>4, <1>5, Known DEF ChannelTrue, Wants, BlockTrue, CaLinkAssumption
<1>12. ASSUME NEW k \in CaLinks PROVE EventTrue(k)'
  <2>1. CASE k = l
    BY <1>1, <1>2, <1>3, <1>4, <1>5, <2>1, Known DEF EventTrue, CaLinkAssumption
  <2>2. CASE k # l
    BY <1>1, <1>2, <1>3, <1>4, <1>5, <2>2, Known DEF EventTrue
  <2>. QED BY <2>1, <2>2
<1>13. ASSUME NEW k \in CaLinks PROVE PutTrue(k)'
  <2>1. CASE k = l
    BY <1>1, <1>2, <1>3, <1>4, <1>5, <2>1, Known
       DEF PutTrue, WriteQueued, WriteTaken, InFlight, Answered, ChannelTrue, OwedOf,
         CaLinkAssumption, Wants
  <2>2. CASE k # l
    BY <1>1, <1>2, <1>3, <1>4, <1>5, <2>2, Known
       DEF PutTrue, WriteQueued, WriteTaken, InFlight, Answered
  <2>. QED BY <2>1, <2>2
<1>14. ASSUME NEW k \in CaLinks PROVE OwedOf(k)'
  <2>1. CASE k = l
    BY <1>1, <1>2, <1>3, <1>4, <1>5, <2>1, Known
       DEF OwedOf, CaLinkAssumption, ChannelTrue, FlagTypes, PutTrue, ActiveOwed
  <2>2. CASE k # l
    BY <1>1, <1>2, <1>4, <2>2, Known DEF OwedOf, CaLinkAssumption
  <2>. QED BY <2>1, <2>2
<1>. QED BY <1>1, <1>2, <1>3, <1>4, <1>5, <1>6, <1>7, <1>8, <1>9, <1>10, <1>11, <1>12,
     <1>13, <1>14 DEF IInv, TypeOK, LinkTrue

LEMMA eventStep ==
    ASSUME CaLinkAssumption, IInv, NEW l \in CaLinks, eventCallback(l), pca[l].plink
    PROVE  IInv'
<1>1. /\ caUser = NoLink /\ pca[l].chan # "none" /\ Contains(calls, <<"event", l>>)
      /\ calls' = << >>
      /\ \A x : Contains(calls, x) <=> x = <<"event", l>> \/ Contains(calls', x)
      /\ \A x : ~Contains(calls', x)
      /\ calls' \in Seq({"connection", "put", "event"} \X CaLinks)
      /\ UNCHANGED <<input, pvt, pvlOptInpNative, pact, recordPc, removed, taskPc,
            taskLink, taskAction, dropped, owed>>
  <2>1. CallOf("event", l)
    BY DEF eventCallback
  <2>. QED BY <2>1, CallTaken
<1>. DEFINE b == [pca[l] EXCEPT !.gotInNative = TRUE]
<1>2. /\ caUser' = caUser /\ Becomes(l, b) /\ l = pvt
  BY Known DEF eventCallback, BlockTrue
<1>3. b \in Blocks /\ b.link_action = pca[l].link_action
  BY Known DEF BlockTypes, Blocks
<1>4. /\ BlockTypes' /\ ListTypes' /\ pca'[l] = b
      /\ \A k \in CaLinks \ {l} : pca'[k] = pca[k]
      /\ UNCHANGED <<workList, workListEvent>>
  BY <1>2, <1>3, BecomesTrue, Known
<1>5. /\ pca'[l].used = pca[l].used /\ pca'[l].plink = pca[l].plink
      /\ pca'[l].link_action = pca[l].link_action /\ pca'[l].isConnected = pca[l].isConnected
      /\ pca'[l].pgetNative = pca[l].pgetNative /\ pca'[l].gotInNative
      /\ pca'[l].putCallback = pca[l].putCallback /\ pca'[l].chan = pca[l].chan
      /\ pca'[l].inflight = pca[l].inflight /\ pca'[l].subscription = pca[l].subscription
  BY <1>1, <1>2, <1>3, <1>4, Known DEF BlockTypes, Blocks
<1>. HIDE DEF b
<1>6. FlagTypes' /\ TaskTypes' /\ CallTypes' /\ ActiveOwed' /\ WorkSeen'
  BY <1>1, <1>2, <1>3, <1>4, <1>5, Known
     DEF FlagTypes, TaskTypes, CallTypes, ActiveOwed, OwedOf, WorkSeen, TaskLooks
<1>7. CallsTrue'
  BY <1>1, <1>2, <1>3, <1>4, <1>5, Known DEF CallsTrue, ChannelTrue, CallTypes
<1>8. OrderTrue'
  BY <1>1, <1>2, <1>3, <1>4, <1>5, Known
     DEF OrderTrue, BlockTrue, ChannelTrue, Wants, CaLinkAssumption, FlagTypes, TaskTypes
<1>9. MonitorComes'
  BY <1>1, <1>2, <1>3, <1>4, <1>5, Known
     DEF MonitorComes, Requested, TaskLooks, BlockTrue, ChannelTrue, EventTrue, Wants,
       CaLinkAssumption, FlagTypes
<1>10. ASSUME NEW k \in CaLinks PROVE BlockTrue(k)'
  <2>1. CASE k = l
    BY <1>1, <1>2, <1>3, <1>4, <1>5, <2>1, Known
       DEF BlockTrue, Wants, FlagTypes, TaskTypes, CaLinkAssumption, Blank
  <2>2. CASE k # l
    BY <1>1, <1>2, <1>3, <1>4, <1>5, <2>2, Known DEF BlockTrue, Wants
  <2>. QED BY <2>1, <2>2
<1>11. ASSUME NEW k \in CaLinks PROVE ChannelTrue(k)'
  BY <1>1, <1>2, <1>3, <1>4, <1>5, Known DEF ChannelTrue, Wants, BlockTrue, CaLinkAssumption
<1>12. ASSUME NEW k \in CaLinks PROVE EventTrue(k)'
  <2>1. CASE k = l
    BY <1>1, <1>2, <1>3, <1>4, <1>5, <2>1, Known DEF EventTrue, CaLinkAssumption
  <2>2. CASE k # l
    BY <1>1, <1>2, <1>3, <1>4, <1>5, <2>2, Known DEF EventTrue
  <2>. QED BY <2>1, <2>2
<1>13. ASSUME NEW k \in CaLinks PROVE PutTrue(k)'
  <2>1. CASE k = l
    BY <1>1, <1>2, <1>3, <1>4, <1>5, <2>1, Known
       DEF PutTrue, WriteQueued, WriteTaken, InFlight, Answered, ChannelTrue, OwedOf,
         CaLinkAssumption, Wants
  <2>2. CASE k # l
    BY <1>1, <1>2, <1>3, <1>4, <1>5, <2>2, Known
       DEF PutTrue, WriteQueued, WriteTaken, InFlight, Answered
  <2>. QED BY <2>1, <2>2
<1>14. ASSUME NEW k \in CaLinks PROVE OwedOf(k)'
  <2>1. CASE k = l
    BY <1>1, <1>2, <1>3, <1>4, <1>5, <2>1, Known
       DEF OwedOf, CaLinkAssumption, ChannelTrue, FlagTypes, PutTrue, ActiveOwed
  <2>2. CASE k # l
    BY <1>1, <1>2, <1>3, <1>4, <1>5, <2>2, Known DEF OwedOf
  <2>. QED BY <2>1, <2>2
<1>. QED BY <1>1, <1>2, <1>3, <1>4, <1>5, <1>6, <1>7, <1>8, <1>9, <1>10, <1>11, <1>12,
     <1>13, <1>14 DEF IInv, TypeOK, LinkTrue

-----------------------------------------------------------------------------
(* dbCaTask *)

LEMMA WakesStep ==
    ASSUME CaLinkAssumption, IInv, TaskWakes
    PROVE  IInv'
<1>1. /\ taskPc = "sleep" /\ workListEvent /\ workListEvent' = FALSE /\ taskPc' = "take"
      /\ UNCHANGED <<input, pvt, pvlOptInpNative, pact, recordPc, removed, pca, workList,
             taskLink, taskAction, calls, caUser, dropped, owed>>
  BY DEF TaskWakes, recordVars, clientVars, history
<1>2. BlockTypes' /\ ListTypes'
  BY <1>1, Known DEF BlockTypes, ListTypes
<1>3. FlagTypes' /\ TaskTypes' /\ CallTypes' /\ ActiveOwed' /\ WorkSeen'
  BY <1>1, <1>2, Known
     DEF FlagTypes, TaskTypes, CallTypes, ActiveOwed, OwedOf, WorkSeen, TaskLooks
<1>4. CallsTrue'
  BY <1>1, <1>2, CallsStay, Known
<1>5. OrderTrue'
  BY <1>1, <1>2, Known
     DEF OrderTrue, BlockTrue, ChannelTrue, Wants, CaLinkAssumption, FlagTypes, TaskTypes
<1>6. MonitorComes'
  BY <1>1, <1>2, Known
     DEF MonitorComes, Requested, TaskLooks, BlockTrue, ChannelTrue, EventTrue, Wants,
       CaLinkAssumption, FlagTypes
<1>7. ASSUME NEW k \in CaLinks PROVE BlockTrue(k)'
  BY <1>1, <1>2, Known DEF BlockTrue, Wants, FlagTypes, TaskTypes, CaLinkAssumption
<1>8. ASSUME NEW k \in CaLinks PROVE ChannelTrue(k)'
  BY <1>1, <1>2, Known DEF ChannelTrue, Wants, BlockTrue, CaLinkAssumption
<1>9. ASSUME NEW k \in CaLinks PROVE EventTrue(k)'
  BY <1>1, <1>2, Known DEF EventTrue, CaLinkAssumption
<1>10. ASSUME NEW k \in CaLinks PROVE PutTrue(k)'
  BY <1>1, <1>2, Known
     DEF PutTrue, WriteQueued, WriteTaken, InFlight, Answered, ChannelTrue, OwedOf,
       CaLinkAssumption, Wants
<1>11. ASSUME NEW k \in CaLinks PROVE OwedOf(k)'
  BY <1>1, <1>2, Known DEF OwedOf, CaLinkAssumption, ChannelTrue, FlagTypes, PutTrue, ActiveOwed
<1>. QED BY <1>1, <1>2, <1>3, <1>4, <1>5, <1>6, <1>7, <1>8, <1>9, <1>10, <1>11
   DEF IInv, TypeOK, LinkTrue

LEMMA SleepsStep ==
    ASSUME CaLinkAssumption, IInv, TaskTakes, workList = << >>
    PROVE  IInv'
<1>1. /\ taskPc = "take" /\ taskPc' = "sleep" /\ workList = << >>
      /\ UNCHANGED <<input, pvt, pvlOptInpNative, pact, recordPc, removed, pca, workList,
             workListEvent, taskLink, taskAction, calls, caUser, dropped, owed>>
  BY DEF TaskTakes, recordVars, workVars, taskVars, clientVars, history
<1>2. BlockTypes' /\ ListTypes'
  BY <1>1, Known DEF BlockTypes, ListTypes
<1>3. \A k \in CaLinks : pca[k].link_action = {}
  <2>1. \A k : ~Contains(workList, k)
    BY <1>1, EmptyHasNone
  <2>. QED BY <2>1, Known DEF ListTypes
<1>4. FlagTypes' /\ TaskTypes' /\ CallTypes' /\ ActiveOwed' /\ WorkSeen'
  BY <1>1, <1>2, <1>3, Known
     DEF FlagTypes, TaskTypes, CallTypes, ActiveOwed, OwedOf, WorkSeen, TaskLooks
<1>5. CallsTrue'
  BY <1>1, <1>2, <1>3, CallsStay, Known
<1>6. OrderTrue'
  BY <1>1, <1>2, <1>3, Known
     DEF OrderTrue, BlockTrue, ChannelTrue, Wants, CaLinkAssumption, FlagTypes, TaskTypes
<1>7. MonitorComes'
  BY <1>1, <1>2, <1>3, Known
     DEF MonitorComes, Requested, TaskLooks, BlockTrue, ChannelTrue, EventTrue, Wants,
       CaLinkAssumption, FlagTypes
<1>8. ASSUME NEW k \in CaLinks PROVE BlockTrue(k)'
  BY <1>1, <1>2, <1>3, Known DEF BlockTrue, Wants, FlagTypes, TaskTypes, CaLinkAssumption
<1>9. ASSUME NEW k \in CaLinks PROVE ChannelTrue(k)'
  BY <1>1, <1>2, <1>3, Known DEF ChannelTrue, Wants, BlockTrue, CaLinkAssumption
<1>10. ASSUME NEW k \in CaLinks PROVE EventTrue(k)'
  BY <1>1, <1>2, <1>3, Known DEF EventTrue, CaLinkAssumption
<1>11. ASSUME NEW k \in CaLinks PROVE PutTrue(k)'
  BY <1>1, <1>2, <1>3, Known
     DEF PutTrue, WriteQueued, WriteTaken, InFlight, Answered, ChannelTrue, OwedOf,
       CaLinkAssumption, Wants
<1>12. ASSUME NEW k \in CaLinks PROVE OwedOf(k)'
  BY <1>1, <1>2, <1>3, Known
     DEF OwedOf, CaLinkAssumption, ChannelTrue, FlagTypes, PutTrue, ActiveOwed
<1>. QED BY <1>1, <1>2, <1>3, <1>4, <1>5, <1>6, <1>7, <1>8, <1>9, <1>10, <1>11, <1>12
   DEF IInv, TypeOK, LinkTrue

LEMMA TakesStep ==
    ASSUME CaLinkAssumption, IInv, TaskTakes, workList # << >>
    PROVE  IInv'
<1>. DEFINE l == Head(workList)
<1>1. /\ taskPc = "take" /\ taskPc' = "act" /\ taskLink' = l /\ taskAction' = pca[l].link_action
      /\ pca' = [pca EXCEPT ![l].link_action = {}] /\ workList' = Tail(workList)
      /\ UNCHANGED <<input, pvt, pvlOptInpNative, pact, recordPc, removed, workListEvent,
             calls, caUser, dropped, owed>>
  BY DEF TaskTakes, recordVars, workVars, taskVars, clientVars, history
<1>2. /\ l \in CaLinks /\ workList' \in Seq(CaLinks) /\ IsInjective(workList')
      /\ \A k \in CaLinks : Contains(workList', k) <=> Contains(workList, k) /\ k # l
      /\ Contains(workList, l)
      /\ \A k, m \in CaLinks : Before(workList, k, m) => Before(workList', k, m)
      /\ \A k \in CaLinks : Contains(workList, k) /\ k # l => ~Before(workList, k, l)
  <2>1. workList \in Seq(CaLinks) /\ IsInjective(workList)
    BY Known DEF ListTypes
  <2>2. /\ workList' \in Seq(CaLinks) /\ IsInjective(workList') /\ l \in ToSet(workList)
        /\ l \in CaLinks /\ ToSet(workList') = ToSet(workList) \ {l}
        /\ DOMAIN workList' = 1..Len(workList) - 1 /\ Len(workList) \in Nat \ {0}
        /\ l = workList[1] /\ \A j \in 1..Len(workList) - 1 : workList'[j] = workList[j + 1]
    BY <1>1, <2>1, HeadTaken
  <2>3. DOMAIN workList = 1..Len(workList)
    BY <2>1, LenProperties
  <2>. HIDE DEF l
  <2>4. /\ \A k \in CaLinks : Contains(workList', k) <=> Contains(workList, k) /\ k # l
        /\ Contains(workList, l)
    BY <2>1, <2>2, ContainsIsIn
  <2>. DEFINE n == Len(workList)
  <2>5. /\ n \in Nat \ {0} /\ DOMAIN workList = 1..n /\ DOMAIN workList' = 1..n - 1
        /\ l = workList[1] /\ \A j \in 1..n - 1 : workList'[j] = workList[j + 1]
    BY <2>2, <2>3
  <2>. HIDE DEF n
  <2>6. ASSUME NEW k \in CaLinks, NEW m \in CaLinks, Before(workList, k, m)
        PROVE  Before(workList', k, m)
    <3>. SUFFICES ASSUME NEW i \in 1..n - 1, NEW j \in 1..n - 1, workList'[i] = k, workList'[j] = m
                  PROVE  i < j
      BY <2>5 DEF Before
    <3>1. i + 1 \in 1..n /\ j + 1 \in 1..n /\ workList[i + 1] = k /\ workList[j + 1] = m
      BY <2>5
    <3>2. i + 1 < j + 1
      BY <2>5, <2>6, <3>1 DEF Before
    <3>. QED BY <3>2, <2>5
  <2>7. ASSUME NEW k \in CaLinks, Contains(workList, k), k # l
        PROVE  ~Before(workList, k, l)
    <3>1. k \in ToSet(workList)
      BY <2>1, <2>7, ContainsIsIn
    <3>2. PICK i \in 1..n : workList[i] = k
      BY <2>5, <3>1 DEF ToSet
    <3>. QED BY <2>5, <3>2 DEF Before
  <2>. QED BY <2>2, <2>4, <2>6, <2>7
<1>. HIDE DEF l
<1>3. /\ BlockTypes' /\ pca'[l] = [pca[l] EXCEPT !.link_action = {}]
      /\ \A k \in CaLinks \ {l} : pca'[k] = pca[k]
      /\ pca[l].link_action # {} /\ taskLink = NoLink /\ l # NoLink
      /\ \A k \in CaLinks : Contains(workList, k) <=> pca[k].link_action # {}
  <2>1. BlockTypes' /\ pca'[l] = [pca[l] EXCEPT !.link_action = {}]
        /\ \A k \in CaLinks \ {l} : pca'[k] = pca[k]
    <3>. DEFINE b == [pca[l] EXCEPT !.link_action = {}]
    <3>1. pca[l] \in Blocks
      BY <1>2, BlocksAre, Known
    <3>2. b \in Blocks
      BY <3>1 DEF Blocks
    <3>3. pca' = [pca EXCEPT ![l] = b]
      BY <1>1
    <3>. HIDE DEF b
    <3>4. pca' \in [CaLinks -> Blocks] /\ pca'[l] = b /\ \A k \in CaLinks \ {l} : pca'[k] = pca[k]
      BY <1>2, <3>2, <3>3, Known DEF BlockTypes, Blocks
    <3>. QED BY <3>4 DEF BlockTypes, Blocks, b
  <2>2. /\ pca[l].link_action # {}
        /\ \A k \in CaLinks : Contains(workList, k) <=> pca[k].link_action # {}
    BY <1>2, Known DEF ListTypes
  <2>3. taskLink = NoLink /\ l # NoLink
    BY <1>1, <1>2, Known DEF TaskTypes, CaLinkAssumption
  <2>. QED BY <2>1, <2>2, <2>3
<1>4. ListTypes'
  BY <1>1, <1>2, <1>3, Known DEF ListTypes, Blocks, BlockTypes
<1>5. /\ pca'[l].used = pca[l].used /\ pca'[l].plink = pca[l].plink
      /\ pca'[l].link_action = {} /\ pca'[l].isConnected = pca[l].isConnected
      /\ pca'[l].pgetNative = pca[l].pgetNative /\ pca'[l].gotInNative = pca[l].gotInNative
      /\ pca'[l].putCallback = pca[l].putCallback /\ pca'[l].chan = pca[l].chan
      /\ pca'[l].inflight = pca[l].inflight /\ pca'[l].subscription = pca[l].subscription
  BY <1>1, <1>2, <1>3, <1>4, Known DEF BlockTypes, Blocks
<1>6. FlagTypes' /\ TaskTypes' /\ CallTypes' /\ ActiveOwed' /\ WorkSeen'
  BY <1>1, <1>2, <1>3, <1>4, <1>5, Known
     DEF FlagTypes, TaskTypes, BlockTypes, CallTypes, ActiveOwed, OwedOf, WorkSeen,
       TaskLooks
<1>7. CallsTrue'
  BY <1>1, <1>2, <1>3, <1>4, <1>5, CallsStay, Known
<1>8. OrderTrue'
  <2>1. CASE pvt = l
    <3>1. ASSUME NEW k \in CaLinks \ {l}, pca[k].used PROVE FALSE
      <4>1. removed = NoLink /\ "clear" \in pca[k].link_action
        BY <1>1, <1>2, <1>3, <2>1, <3>1, Known
           DEF BlockTrue, OrderTrue, FlagTypes, Wants, CaLinkAssumption
      <4>2. Contains(workList, k)
        BY <1>3, <4>1
      <4>. QED BY <1>2, <1>3, <2>1, <3>1, <4>2, Known DEF OrderTrue
    <3>. QED BY <1>1, <1>2, <1>3, <2>1, <3>1, Known DEF OrderTrue
  <2>2. CASE pvt # l
    BY <1>1, <1>2, <1>3, <1>5, <2>2, Known DEF OrderTrue, FlagTypes
  <2>. QED BY <2>1, <2>2
<1>9. MonitorComes'
  BY <1>1, <1>2, <1>3, <1>4, <1>5, Known
     DEF MonitorComes, Requested, TaskLooks, BlockTrue, ChannelTrue, EventTrue, Wants,
       CaLinkAssumption, FlagTypes
<1>10. ASSUME NEW k \in CaLinks PROVE BlockTrue(k)'
  BY <1>1, <1>2, <1>3, <1>4, <1>5, Known
     DEF BlockTrue, Wants, FlagTypes, TaskTypes, CaLinkAssumption, Blank
<1>11. ASSUME NEW k \in CaLinks PROVE ChannelTrue(k)'
  BY <1>1, <1>2, <1>3, <1>4, <1>5, Known DEF ChannelTrue, Wants, BlockTrue, CaLinkAssumption
<1>12. ASSUME NEW k \in CaLinks PROVE EventTrue(k)'
  <2>1. CASE k = l
    BY <1>1, <1>3, <1>5, <2>1, Known DEF EventTrue
  <2>2. CASE k # l
    BY <1>1, <1>2, <1>3, <1>4, <1>5, <2>2, Known DEF EventTrue
  <2>. QED BY <2>1, <2>2
<1>13. ASSUME NEW k \in CaLinks PROVE PutTrue(k)'
  <2>1. CASE k = l
    BY <1>1, <1>3, <1>5, <2>1, Known DEF PutTrue, WriteQueued, WriteTaken, InFlight, Answered
  <2>2. CASE k # l
    BY <1>1, <1>3, <2>2, Known DEF PutTrue, WriteQueued, WriteTaken, InFlight, Answered
  <2>. QED BY <2>1, <2>2
<1>14. ASSUME NEW k \in CaLinks PROVE OwedOf(k)'
  <2>1. CASE k = l
    BY <1>1, <1>2, <1>3, <1>4, <1>5, <2>1, Known
       DEF OwedOf, CaLinkAssumption, ChannelTrue, FlagTypes, PutTrue, ActiveOwed
  <2>2. CASE k # l
    BY <1>1, <1>3, <2>2, Known DEF OwedOf
  <2>. QED BY <2>1, <2>2
<1>. QED BY <1>1, <1>2, <1>3, <1>4, <1>5, <1>6, <1>7, <1>8, <1>9, <1>10, <1>11, <1>12,
     <1>13, <1>14 DEF IInv, TypeOK, LinkTrue

LEMMA ClearsStep ==
    ASSUME CaLinkAssumption, IInv, TaskClears
    PROVE  IInv'
<1>. DEFINE l == taskLink
            b == Blank
<1>1. /\ l \in CaLinks /\ taskPc = "act" /\ "clear" \in taskAction
      /\ \/ calls = << >> /\ caUser = NoLink
         \/ pca[l].chan = "none"
      /\ dropped' = dropped \ {l}
      /\ IF pca[l].putCallback THEN taskPc' = "callback" /\ UNCHANGED <<taskLink, taskAction>>
         ELSE taskPc' = "take" /\ taskLink' = NoLink /\ taskAction' = {}
      /\ UNCHANGED <<input, pvt, pvlOptInpNative, pact, recordPc, removed, calls, caUser, owed>>
  BY Known
     DEF TaskClears, CallbackMutexFree, AfterClear, TaskGoes, recordVars, workVars,
       taskVars, clientVars, history, TaskTypes
<1>2. Becomes(l, b)
  BY Known DEF TaskClears, CallbackMutexFree, AfterClear, Becomes, BlockTypes, workVars
<1>3. b \in Blocks /\ b.link_action = pca[l].link_action
  BY <1>1, Known DEF BlockTypes, Blocks, BlockTrue, Blank, Wants, Actions
<1>4. /\ BlockTypes' /\ ListTypes' /\ pca'[l] = b
      /\ \A k \in CaLinks \ {l} : pca'[k] = pca[k]
      /\ UNCHANGED <<workList, workListEvent>>
  BY <1>1, <1>2, <1>3, BecomesTrue, Known
<1>5. /\ ~pca'[l].used /\ ~pca'[l].plink /\ pca'[l].link_action = {} /\ ~pca'[l].isConnected
      /\ ~pca'[l].pgetNative /\ ~pca'[l].gotInNative /\ ~pca'[l].putCallback
      /\ pca'[l].chan = "none" /\ pca'[l].inflight = 0 /\ pca'[l].subscription = "none"
  BY <1>1, <1>2, <1>3, <1>4, Known DEF BlockTypes, Blocks, Blank
<1>. HIDE DEF b
<1>6. pca'[l] = Blank /\ \A kind \in {"connection", "put", "event"} : ~Contains(calls, <<kind, l>>)
  <2>1. pca'[l] = Blank
    BY <1>4 DEF b
  <2>2. CASE calls = << >>
    BY <2>1, <2>2, EmptyHasNone
  <2>3. CASE calls # << >>
    <3>1. pca[l].chan = "none"
      BY <1>1, <2>3
    <3>2. PICK k \in CaLinks : pca[k].chan # "none"
            /\ \A x : Contains(calls, x) =>
                    \E kind \in {"connection", "put", "event"} : x = <<kind, k>>
      <4>1. PICK k \in CaLinks :
                /\ pca[k].chan # "none"
                /\ \/ calls = <<<<"connection", k>>>>
                   \/ calls = <<<<"put", k>>>>
                   \/ calls = <<<<"event", k>>>>
                   \/ calls = <<<<"put", k>>, <<"connection", k>>>>
        BY <2>3, Known DEF CallsTrue
      <4>2. \A x : Contains(calls, x) =>
                    \E kind \in {"connection", "put", "event"} : x = <<kind, k>>
        <5>1. /\ \A x : Contains(<<<<"connection", k>>>>, x) => x = <<"connection", k>>
              /\ \A x : Contains(<<<<"put", k>>>>, x) => x = <<"put", k>>
              /\ \A x : Contains(<<<<"event", k>>>>, x) => x = <<"event", k>>
              /\ \A x : Contains(<<<<"put", k>>, <<"connection", k>>>>, x) =>
                        x = <<"put", k>> \/ x = <<"connection", k>>
          BY OneCall
        <5>. QED BY <4>1, <5>1
      <4>. QED BY <4>1, <4>2
    <3>. QED BY <2>1, <3>1, <3>2
  <2>. QED BY <2>2, <2>3
<1>7. FlagTypes' /\ TaskTypes' /\ CallTypes' /\ ActiveOwed' /\ WorkSeen'
  BY <1>1, <1>2, <1>3, <1>4, <1>5, Known
     DEF FlagTypes, TaskTypes, CallTypes, ActiveOwed, OwedOf, WorkSeen, TaskLooks
<1>8. CallsTrue'
  BY <1>1, <1>2, <1>3, <1>4, <1>5, Known DEF CallsTrue, ChannelTrue, CallTypes
<1>9. OrderTrue'
  BY <1>1, <1>2, <1>3, <1>4, <1>5, Known
     DEF OrderTrue, BlockTrue, ChannelTrue, Wants, CaLinkAssumption, FlagTypes, TaskTypes
<1>10. MonitorComes'
  BY <1>1, <1>2, <1>3, <1>4, <1>5, Known
     DEF MonitorComes, Requested, TaskLooks, BlockTrue, ChannelTrue, EventTrue, Wants,
       CaLinkAssumption, FlagTypes
<1>11. ASSUME NEW k \in CaLinks PROVE BlockTrue(k)'
  BY <1>1, <1>5, <1>6, Known, <1>2, <1>3, <1>4
     DEF BlockTrue, Wants, FlagTypes, TaskTypes, CaLinkAssumption
<1>12. ASSUME NEW k \in CaLinks PROVE ChannelTrue(k)'
  BY <1>1, <1>2, <1>3, <1>4, <1>5, Known DEF ChannelTrue, Wants, BlockTrue, CaLinkAssumption
<1>13. ASSUME NEW k \in CaLinks PROVE EventTrue(k)'
  BY <1>1, <1>5, <1>6, Known, <1>2, <1>3, <1>4
     DEF EventTrue, TaskTypes, CaLinkAssumption, ChannelTrue
<1>14. ASSUME NEW k \in CaLinks PROVE PutTrue(k)'
  <2>1. CASE k = l
    BY <1>1, <1>5, <1>6, <2>1, Known
       DEF PutTrue, WriteQueued, WriteTaken, InFlight, Answered, BlockTrue, Wants,
         CaLinkAssumption
  <2>2. CASE k # l
    BY <1>1, <1>2, <1>3, <1>4, <1>5, <2>2, Known
       DEF PutTrue, WriteQueued, WriteTaken, InFlight, Answered, ChannelTrue, OwedOf,
         CaLinkAssumption, Wants
  <2>. QED BY <2>1, <2>2
<1>15. ASSUME NEW k \in CaLinks PROVE OwedOf(k)'
  BY <1>1, <1>2, <1>3, <1>4, <1>5, Known
     DEF OwedOf, CaLinkAssumption, ChannelTrue, FlagTypes, PutTrue, ActiveOwed
<1>. QED BY <1>1, <1>2, <1>3, <1>4, <1>5, <1>7, <1>8, <1>9, <1>10, <1>11, <1>12, <1>13,
     <1>14, <1>15 DEF IInv, TypeOK, LinkTrue

LEMMA TaskConnectsStep ==
    ASSUME CaLinkAssumption, IInv, TaskConnects
    PROVE  IInv'
<1>. DEFINE l == taskLink
            b == [pca[l] EXCEPT !.chan = "disconnected"]
<1>1. /\ l \in CaLinks /\ taskPc = "act" /\ "clear" \notin taskAction /\ "connect" \in taskAction
      /\ taskPc' = "take" /\ taskLink' = NoLink /\ taskAction' = {}
      /\ UNCHANGED <<input, pvt, pvlOptInpNative, pact, recordPc, removed, calls, caUser,
             dropped, owed>>
  BY Known
     DEF TaskConnects, TaskGoes, recordVars, workVars, taskVars, clientVars, history,
       TaskTypes
<1>2. Becomes(l, b)
  BY Known DEF TaskConnects, Becomes, BlockTypes, workVars
<1>3. b \in Blocks /\ b.link_action = pca[l].link_action
  BY <1>1, Known DEF BlockTypes, Blocks, BlockTrue, Blank
<1>4. /\ BlockTypes' /\ ListTypes' /\ pca'[l] = b
      /\ \A k \in CaLinks \ {l} : pca'[k] = pca[k]
      /\ UNCHANGED <<workList, workListEvent>>
  BY <1>1, <1>2, <1>3, BecomesTrue, Known
<1>5. /\ pca'[l].used = pca[l].used /\ pca'[l].plink = pca[l].plink
      /\ pca'[l].link_action = pca[l].link_action /\ pca'[l].isConnected = pca[l].isConnected
      /\ pca'[l].pgetNative = pca[l].pgetNative /\ pca'[l].gotInNative = pca[l].gotInNative
      /\ pca'[l].putCallback = pca[l].putCallback /\ pca'[l].chan = "disconnected"
      /\ pca'[l].inflight = pca[l].inflight /\ pca'[l].subscription = pca[l].subscription
  BY <1>1, <1>2, <1>3, <1>4, Known DEF BlockTypes, Blocks, Blank
<1>. HIDE DEF b
<1>6. FlagTypes' /\ TaskTypes' /\ CallTypes' /\ ActiveOwed' /\ WorkSeen'
  BY <1>1, <1>2, <1>3, <1>4, <1>5, Known
     DEF FlagTypes, TaskTypes, CallTypes, ActiveOwed, OwedOf, WorkSeen, TaskLooks
<1>7. CallsTrue'
  BY <1>1, <1>2, <1>3, <1>4, <1>5, CallsStay, Known
<1>8. OrderTrue'
  BY <1>1, <1>2, <1>3, <1>4, <1>5, Known
     DEF OrderTrue, BlockTrue, ChannelTrue, Wants, CaLinkAssumption, FlagTypes, TaskTypes
<1>9. MonitorComes'
  <2>1. CASE pvt = l
    BY <1>1, <1>4, <1>5, <2>1, Known DEF MonitorComes, ChannelTrue, Wants
  <2>2. CASE pvt # l
    BY <1>1, <1>4, <2>2, Known DEF MonitorComes, Requested, TaskLooks, FlagTypes
  <2>. QED BY <2>1, <2>2
<1>10. ASSUME NEW k \in CaLinks PROVE BlockTrue(k)'
  BY <1>1, <1>2, <1>3, <1>4, <1>5, Known
     DEF BlockTrue, Wants, FlagTypes, TaskTypes, CaLinkAssumption, Blank
<1>11. ASSUME NEW k \in CaLinks PROVE ChannelTrue(k)'
  BY <1>1, <1>2, <1>3, <1>4, <1>5, Known DEF ChannelTrue, Wants, BlockTrue, CaLinkAssumption
<1>12. ASSUME NEW k \in CaLinks PROVE EventTrue(k)'
  <2>1. CASE k = l
    BY <1>1, <1>2, <1>3, <1>4, <1>5, <2>1, Known DEF EventTrue, CaLinkAssumption
  <2>2. CASE k # l
    BY <1>1, <1>2, <1>3, <1>4, <1>5, <2>2, Known DEF EventTrue
  <2>. QED BY <2>1, <2>2
<1>13. ASSUME NEW k \in CaLinks PROVE PutTrue(k)'
  BY <1>1, <1>2, <1>3, <1>4, <1>5, Known
     DEF PutTrue, WriteQueued, WriteTaken, InFlight, Answered, ChannelTrue, OwedOf,
       CaLinkAssumption, Wants
<1>14. ASSUME NEW k \in CaLinks PROVE OwedOf(k)'
  <2>1. /\ pca'[k].putCallback = pca[k].putCallback
        /\ pca'[k].isConnected = pca[k].isConnected
    BY <1>1, <1>4, <1>5
  <2>2. taskPc # "callback" /\ taskPc' # "callback" /\ UNCHANGED <<owed, caUser, pvt, pact>>
    BY <1>1
  <2>. QED BY <2>1, <2>2, Known DEF OwedOf
<1>. QED BY <1>1, <1>2, <1>3, <1>4, <1>5, <1>6, <1>7, <1>8, <1>9, <1>10, <1>11, <1>12,
     <1>13, <1>14 DEF IInv, TypeOK, LinkTrue

LEMMA AllocatesStep ==
    ASSUME CaLinkAssumption, IInv, TaskAllocates
    PROVE  IInv'
<1>. DEFINE l == taskLink
            b == [pca[l] EXCEPT !.pgetNative = TRUE]
<1>1. /\ l \in CaLinks /\ taskPc = "monitor" /\ taskPc' = "subscribe"
      /\ UNCHANGED <<input, pvt, pvlOptInpNative, pact, recordPc, removed, taskLink,
             taskAction, calls, caUser, dropped, owed>>
  BY Known
     DEF TaskAllocates, TaskGoes, recordVars, workVars, taskVars, clientVars, history,
       TaskTypes
<1>2. Becomes(l, b)
  BY Known DEF TaskAllocates, Becomes, BlockTypes, workVars
<1>3. b \in Blocks /\ b.link_action = pca[l].link_action
  <2>1. pca[l] \in Blocks
    BY <1>1, BlocksAre, Known
  <2>. QED BY <2>1 DEF Blocks
<1>4. /\ BlockTypes' /\ ListTypes' /\ pca'[l] = b
      /\ \A k \in CaLinks \ {l} : pca'[k] = pca[k]
      /\ UNCHANGED <<workList, workListEvent>>
  BY <1>1, <1>2, <1>3, BecomesTrue, Known
<1>5. /\ pca'[l].used = pca[l].used /\ pca'[l].plink = pca[l].plink
      /\ pca'[l].link_action = pca[l].link_action /\ pca'[l].isConnected = pca[l].isConnected
      /\ pca'[l].pgetNative /\ pca'[l].gotInNative = pca[l].gotInNative
      /\ pca'[l].putCallback = pca[l].putCallback /\ pca'[l].chan = pca[l].chan
      /\ pca'[l].inflight = pca[l].inflight /\ pca'[l].subscription = pca[l].subscription
  BY <1>1, <1>2, <1>3, <1>4, Known DEF BlockTypes, Blocks, Blank
<1>. HIDE DEF b
<1>6. FlagTypes' /\ TaskTypes' /\ CallTypes' /\ ActiveOwed' /\ WorkSeen'
  BY <1>1, <1>2, <1>3, <1>4, <1>5, Known
     DEF FlagTypes, TaskTypes, CallTypes, ActiveOwed, OwedOf, WorkSeen, TaskLooks
<1>7. CallsTrue'
  BY <1>1, <1>2, <1>3, <1>4, <1>5, CallsStay, Known
<1>8. OrderTrue'
  BY <1>1, <1>2, <1>3, <1>4, <1>5, Known
     DEF OrderTrue, BlockTrue, ChannelTrue, Wants, CaLinkAssumption, FlagTypes, TaskTypes
<1>9. MonitorComes'
  BY <1>1, <1>2, <1>3, <1>4, <1>5, Known
     DEF MonitorComes, Requested, TaskLooks, BlockTrue, ChannelTrue, EventTrue, Wants,
       CaLinkAssumption, FlagTypes
<1>10. ASSUME NEW k \in CaLinks PROVE BlockTrue(k)'
  BY <1>1, <1>2, <1>3, <1>4, <1>5, Known
     DEF BlockTrue, Wants, FlagTypes, TaskTypes, CaLinkAssumption, Blank
<1>11. ASSUME NEW k \in CaLinks PROVE ChannelTrue(k)'
  BY <1>1, <1>2, <1>3, <1>4, <1>5, Known DEF ChannelTrue, Wants, BlockTrue, CaLinkAssumption
<1>12. ASSUME NEW k \in CaLinks PROVE EventTrue(k)'
  BY <1>1, <1>2, <1>3, <1>4, <1>5, Known DEF EventTrue, CaLinkAssumption
<1>13. ASSUME NEW k \in CaLinks PROVE PutTrue(k)'
  <2>1. CASE k = l
    BY <1>1, <1>2, <1>3, <1>4, <1>5, <2>1, Known
       DEF PutTrue, WriteQueued, WriteTaken, InFlight, Answered, ChannelTrue, OwedOf,
         CaLinkAssumption, Wants
  <2>2. CASE k # l
    BY <1>1, <1>2, <1>3, <1>4, <1>5, <2>2, Known
       DEF PutTrue, WriteQueued, WriteTaken, InFlight, Answered
  <2>. QED BY <2>1, <2>2
<1>14. ASSUME NEW k \in CaLinks PROVE OwedOf(k)'
  <2>1. /\ pca'[k].putCallback = pca[k].putCallback
        /\ pca'[k].isConnected = pca[k].isConnected
    BY <1>1, <1>4, <1>5
  <2>2. taskPc # "callback" /\ taskPc' # "callback" /\ UNCHANGED <<owed, caUser, pvt, pact>>
    BY <1>1
  <2>. QED BY <2>1, <2>2, Known DEF OwedOf
<1>. QED BY <1>1, <1>2, <1>3, <1>4, <1>5, <1>6, <1>7, <1>8, <1>9, <1>10, <1>11, <1>12,
     <1>13, <1>14 DEF IInv, TypeOK, LinkTrue

LEMMA SubscribesStep ==
    ASSUME CaLinkAssumption, IInv, TaskSubscribes
    PROVE  IInv'
<1>. DEFINE l == taskLink
            b == [pca[l] EXCEPT !.subscription =
                    IF pca[l].chan = "connected" \/ @ = "good" THEN "good" ELSE "wrong"]
<1>1. /\ l \in CaLinks /\ taskPc = "subscribe"
      /\ taskPc' = "take" /\ taskLink' = NoLink /\ taskAction' = {}
      /\ UNCHANGED <<input, pvt, pvlOptInpNative, pact, recordPc, removed, calls, caUser,
             dropped, owed>>
  BY Known
     DEF TaskSubscribes, Connected, TaskGoes, recordVars, workVars, taskVars, clientVars,
       history, TaskTypes
<1>2. Becomes(l, b)
  BY Known DEF TaskSubscribes, Connected, Becomes, BlockTypes, workVars
<1>3. b \in Blocks /\ b.link_action = pca[l].link_action
  BY <1>1, Known DEF BlockTypes, Blocks, BlockTrue, Blank
<1>4. /\ BlockTypes' /\ ListTypes' /\ pca'[l] = b
      /\ \A k \in CaLinks \ {l} : pca'[k] = pca[k]
      /\ UNCHANGED <<workList, workListEvent>>
  BY <1>1, <1>2, <1>3, BecomesTrue, Known
<1>5. /\ pca'[l].used = pca[l].used /\ pca'[l].plink = pca[l].plink
      /\ pca'[l].link_action = pca[l].link_action /\ pca'[l].isConnected = pca[l].isConnected
      /\ pca'[l].pgetNative = pca[l].pgetNative /\ pca'[l].gotInNative = pca[l].gotInNative
      /\ pca'[l].putCallback = pca[l].putCallback /\ pca'[l].chan = pca[l].chan
      /\ pca'[l].inflight = pca[l].inflight /\ pca'[l].subscription # "none"
  BY <1>1, <1>2, <1>3, <1>4, Known DEF BlockTypes, Blocks, Blank
<1>. HIDE DEF b
<1>6. FlagTypes' /\ TaskTypes' /\ CallTypes' /\ ActiveOwed' /\ WorkSeen'
  BY <1>1, <1>2, <1>3, <1>4, <1>5, Known
     DEF FlagTypes, TaskTypes, CallTypes, ActiveOwed, OwedOf, WorkSeen, TaskLooks
<1>7. CallsTrue'
  BY <1>1, <1>2, <1>3, <1>4, <1>5, CallsStay, Known
<1>8. OrderTrue'
  BY <1>1, <1>2, <1>3, <1>4, <1>5, Known
     DEF OrderTrue, BlockTrue, ChannelTrue, Wants, CaLinkAssumption, FlagTypes, TaskTypes
<1>9. MonitorComes'
  BY <1>1, <1>2, <1>3, <1>4, <1>5, Known
     DEF MonitorComes, Requested, TaskLooks, BlockTrue, ChannelTrue, EventTrue, Wants,
       CaLinkAssumption, FlagTypes
<1>10. ASSUME NEW k \in CaLinks PROVE BlockTrue(k)'
  BY <1>1, <1>2, <1>3, <1>4, <1>5, Known
     DEF BlockTrue, Wants, FlagTypes, TaskTypes, CaLinkAssumption, Blank
<1>11. ASSUME NEW k \in CaLinks PROVE ChannelTrue(k)'
  BY <1>1, <1>2, <1>3, <1>4, <1>5, Known DEF ChannelTrue, Wants, BlockTrue, CaLinkAssumption
<1>12. ASSUME NEW k \in CaLinks PROVE EventTrue(k)'
  <2>1. EventTrue(k) /\ taskLink' # k /\ calls' = calls
    BY <1>1, Known DEF CaLinkAssumption
  <2>2. CASE k = l
    <3>1. /\ pca'[k].pgetNative = pca[k].pgetNative /\ pca'[k].gotInNative = pca[k].gotInNative
          /\ pca'[k].subscription # "none" /\ pca[k].pgetNative
      BY <1>1, <1>5, <2>1, <2>2 DEF EventTrue
    <3>. QED BY <2>1, <3>1 DEF EventTrue
  <2>3. CASE k # l
    <3>1. pca'[k] = pca[k] /\ taskLink # k
      BY <1>4, <2>3
    <3>. QED BY <2>1, <3>1 DEF EventTrue
  <2>. QED BY <2>2, <2>3
<1>13. ASSUME NEW k \in CaLinks PROVE PutTrue(k)'
  <2>1. CASE k = l
    BY <1>1, <1>2, <1>3, <1>4, <1>5, <2>1, Known
       DEF PutTrue, WriteQueued, WriteTaken, InFlight, Answered, ChannelTrue, OwedOf,
         CaLinkAssumption, Wants
  <2>2. CASE k # l
    BY <1>1, <1>2, <1>3, <1>4, <1>5, <2>2, Known
       DEF PutTrue, WriteQueued, WriteTaken, InFlight, Answered
  <2>. QED BY <2>1, <2>2
<1>14. ASSUME NEW k \in CaLinks PROVE OwedOf(k)'
  <2>1. /\ pca'[k].putCallback = pca[k].putCallback
        /\ pca'[k].isConnected = pca[k].isConnected
    BY <1>1, <1>4, <1>5
  <2>2. taskPc # "callback" /\ taskPc' # "callback" /\ UNCHANGED <<owed, caUser, pvt, pact>>
    BY <1>1
  <2>. QED BY <2>1, <2>2, Known DEF OwedOf
<1>. QED BY <1>1, <1>2, <1>3, <1>4, <1>5, <1>6, <1>7, <1>8, <1>9, <1>10, <1>11, <1>12,
     <1>13, <1>14 DEF IInv, TypeOK, LinkTrue

LEMMA ChecksStep ==
    ASSUME CaLinkAssumption, IInv, TaskChecks
    PROVE  IInv'
<1>1. /\ taskLink \in CaLinks /\ taskPc = "act"
      /\ "clear" \notin taskAction /\ "connect" \notin taskAction
      /\ UNCHANGED <<input, pvt, pvlOptInpNative, pact, recordPc, removed, pca, workList,
             workListEvent, calls, caUser, owed>>
  BY Known
     DEF TaskChecks, TaskGoes, recordVars, workVars, taskVars, clientVars, history,
       TaskTypes
<1>2. IF pca[taskLink].chan = "connected"
      THEN taskPc' = "write" /\ UNCHANGED <<taskLink, taskAction, dropped>>
      ELSE /\ taskPc' = "take" /\ taskLink' = NoLink /\ taskAction' = {}
           /\ dropped' = IF "write" \in taskAction THEN dropped \cup {taskLink} ELSE dropped
  BY <1>1, Known DEF TaskChecks, TaskGoes, Connected, Drop, Writes, PutTrue, WriteTaken
<1>3. BlockTypes' /\ ListTypes'
  BY <1>1, Known DEF BlockTypes, ListTypes
<1>4. FlagTypes' /\ TaskTypes' /\ CallTypes' /\ ActiveOwed' /\ WorkSeen'
  BY <1>1, <1>2, <1>3, Known
     DEF FlagTypes, TaskTypes, CallTypes, ActiveOwed, OwedOf, WorkSeen, TaskLooks
<1>5. CallsTrue'
  BY <1>1, <1>2, <1>3, CallsStay, Known
<1>6. OrderTrue'
  BY <1>1, <1>2, <1>3, Known
     DEF OrderTrue, BlockTrue, ChannelTrue, Wants, CaLinkAssumption, FlagTypes, TaskTypes
<1>7. MonitorComes'
  BY <1>1, <1>2, <1>3, Known
     DEF MonitorComes, Requested, TaskLooks, BlockTrue, ChannelTrue, EventTrue, Wants,
       CaLinkAssumption, FlagTypes
<1>8. ASSUME NEW k \in CaLinks PROVE BlockTrue(k)'
  BY <1>1, <1>2, <1>3, Known DEF BlockTrue, Wants, FlagTypes, TaskTypes, CaLinkAssumption
<1>9. ASSUME NEW k \in CaLinks PROVE ChannelTrue(k)'
  BY <1>1, <1>2, <1>3, Known DEF ChannelTrue, Wants, BlockTrue, CaLinkAssumption
<1>10. ASSUME NEW k \in CaLinks PROVE EventTrue(k)'
  BY <1>1, <1>2, <1>3, Known DEF EventTrue, CaLinkAssumption
<1>11. ASSUME NEW k \in CaLinks PROVE PutTrue(k)'
  BY <1>1, <1>2, <1>3, Known
     DEF PutTrue, WriteQueued, WriteTaken, InFlight, Answered, ChannelTrue, OwedOf,
       CaLinkAssumption, Wants
<1>12. ASSUME NEW k \in CaLinks PROVE OwedOf(k)'
  BY <1>1, <1>2, <1>3, Known
     DEF OwedOf, CaLinkAssumption, ChannelTrue, FlagTypes, PutTrue, ActiveOwed
<1>. QED BY <1>1, <1>2, <1>3, <1>4, <1>5, <1>6, <1>7, <1>8, <1>9, <1>10, <1>11, <1>12
   DEF IInv, TypeOK, LinkTrue

LEMMA WritesStep ==
    ASSUME CaLinkAssumption, IInv, TaskWrites
    PROVE  IInv'
<1>. DEFINE l == taskLink
            sends == "write" \in taskAction /\ pca[l].chan = "connected"
            b == [pca[l] EXCEPT !.inflight = IF sends THEN 1 ELSE @]
<1>1. /\ l \in CaLinks /\ taskPc = "write"
      /\ IF "monitor" \in taskAction THEN taskPc' = "monitor" /\ UNCHANGED <<taskLink, taskAction>>
         ELSE taskPc' = "take" /\ taskLink' = NoLink /\ taskAction' = {}
      /\ UNCHANGED <<input, pvt, pvlOptInpNative, pact, recordPc, removed, calls, caUser, owed>>
  BY Known
     DEF TaskWrites, TaskGoes, recordVars, workVars, taskVars, clientVars, history,
       TaskTypes
<1>2. "write" \in taskAction => pca[l].putCallback /\ pca[l].inflight = 0
  BY <1>1, Known DEF PutTrue, WriteTaken, InFlight, BlockTypes, Blocks
<1>3. dropped' = IF "write" \in taskAction /\ ~sends THEN dropped \cup {l} ELSE dropped
  BY <1>1, <1>2 DEF TaskWrites, Writes, Connected, Drop
<1>4. Becomes(l, b)
  BY <1>1, <1>2, Known
     DEF TaskWrites, Writes, Connected, Drop, Becomes, BlockTypes, Blocks, workVars
<1>5. b \in Blocks /\ b.link_action = pca[l].link_action
  BY <1>1, Known DEF BlockTypes, Blocks
<1>6. /\ BlockTypes' /\ ListTypes' /\ pca'[l] = b
      /\ \A k \in CaLinks \ {l} : pca'[k] = pca[k]
      /\ UNCHANGED <<workList, workListEvent>>
  BY <1>1, <1>4, <1>5, BecomesTrue, Known
<1>7. /\ pca'[l].used = pca[l].used /\ pca'[l].plink = pca[l].plink
      /\ pca'[l].link_action = pca[l].link_action /\ pca'[l].isConnected = pca[l].isConnected
      /\ pca'[l].pgetNative = pca[l].pgetNative /\ pca'[l].gotInNative = pca[l].gotInNative
      /\ pca'[l].putCallback = pca[l].putCallback /\ pca'[l].chan = pca[l].chan
      /\ (pca'[l].inflight = IF sends THEN 1 ELSE pca[l].inflight)
      /\ pca'[l].subscription = pca[l].subscription
  BY <1>1, <1>2, <1>3, <1>4, <1>5, <1>6, Known DEF BlockTypes, Blocks
<1>. HIDE DEF b
<1>8. FlagTypes' /\ TaskTypes' /\ CallTypes' /\ ActiveOwed' /\ WorkSeen'
  BY <1>1, <1>2, <1>3, <1>4, <1>5, <1>6, <1>7, Known
     DEF FlagTypes, TaskTypes, CallTypes, ActiveOwed, OwedOf, WorkSeen, TaskLooks
<1>9. CallsTrue'
  BY <1>1, <1>2, <1>3, <1>4, <1>5, <1>6, <1>7, CallsStay, Known
<1>10. OrderTrue'
  BY <1>1, <1>2, <1>3, <1>4, <1>5, <1>6, <1>7, Known
     DEF OrderTrue, BlockTrue, ChannelTrue, Wants, CaLinkAssumption, FlagTypes, TaskTypes
<1>11. MonitorComes'
  BY <1>1, <1>2, <1>3, <1>4, <1>5, <1>6, <1>7, Known
     DEF MonitorComes, Requested, TaskLooks, BlockTrue, ChannelTrue, EventTrue, Wants,
       CaLinkAssumption, FlagTypes
<1>12. ASSUME NEW k \in CaLinks PROVE BlockTrue(k)'
  BY <1>1, <1>2, <1>3, <1>4, <1>5, <1>6, <1>7, Known
     DEF BlockTrue, Wants, FlagTypes, TaskTypes, CaLinkAssumption, Blank
<1>13. ASSUME NEW k \in CaLinks PROVE ChannelTrue(k)'
  BY <1>1, <1>2, <1>3, <1>4, <1>5, <1>6, <1>7, Known
     DEF ChannelTrue, Wants, BlockTrue, CaLinkAssumption
<1>14. ASSUME NEW k \in CaLinks PROVE EventTrue(k)'
  <2>1. CASE k = l
    BY <1>1, <1>2, <1>3, <1>4, <1>5, <1>6, <1>7, <2>1, Known
       DEF EventTrue, CaLinkAssumption
  <2>2. CASE k # l
    BY <1>1, <1>2, <1>3, <1>4, <1>5, <1>6, <1>7, <2>2, Known DEF EventTrue
  <2>. QED BY <2>1, <2>2
<1>15. ASSUME NEW k \in CaLinks PROVE PutTrue(k)'
  <2>1. CASE k = l
    <3>1. CASE sends
      BY <1>1, <1>2, <1>3, <1>7, <2>1, <3>1, Known
         DEF PutTrue, WriteQueued, WriteTaken, InFlight, Answered
    <3>2. CASE ~sends
      BY <1>1, <1>2, <1>3, <1>7, <2>1, <3>2, Known
         DEF PutTrue, WriteQueued, WriteTaken, InFlight, Answered
    <3>. QED BY <3>1, <3>2
  <2>2. CASE k # l
    BY <1>1, <1>2, <1>3, <1>4, <1>5, <1>6, <1>7, <2>2, Known
       DEF PutTrue, WriteQueued, WriteTaken, InFlight, Answered, ChannelTrue, OwedOf,
         CaLinkAssumption, Wants
  <2>. QED BY <2>1, <2>2
<1>16. ASSUME NEW k \in CaLinks PROVE OwedOf(k)'
  BY <1>1, <1>2, <1>3, <1>4, <1>5, <1>6, <1>7, Known
     DEF OwedOf, CaLinkAssumption, ChannelTrue, FlagTypes, PutTrue, ActiveOwed
<1>. QED BY <1>1, <1>2, <1>3, <1>4, <1>5, <1>6, <1>7, <1>8, <1>9, <1>10, <1>11, <1>12,
     <1>13, <1>14, <1>15, <1>16 DEF IInv, TypeOK, LinkTrue

-----------------------------------------------------------------------------
(* The invariant holds initially and at every step *)

LEMMA Initially ==
    ASSUME CaLinkAssumption, Init
    PROVE  IInv
<1>1. /\ pvt = NoLink /\ pvlOptInpNative = FALSE /\ pact = NoLink
      /\ recordPc = "idle" /\ removed = NoLink
      /\ pca = [l \in CaLinks |-> Blank] /\ workList = << >>
      /\ taskPc = "sleep" /\ taskLink = NoLink /\ taskAction = {}
      /\ calls = << >> /\ caUser = NoLink /\ dropped = {} /\ owed = {}
  BY DEF Init
<1>2. \A x : ~Contains(workList, x) /\ ~Contains(calls, x)
  BY <1>1, EmptyHasNone
<1>3. Blank \in Blocks
  BY DEF Blank, Blocks
<1>4. /\ ~Blank.used /\ ~Blank.plink /\ Blank.link_action = {} /\ ~Blank.isConnected
      /\ ~Blank.pgetNative /\ ~Blank.gotInNative /\ ~Blank.putCallback
      /\ Blank.chan = "none" /\ Blank.inflight = 0 /\ Blank.subscription = "none"
  BY DEF Blank
<1>5. \A l \in CaLinks : pca[l] = Blank
  BY <1>1
<1>6. FlagTypes
  BY DEF Init, FlagTypes
<1>7. BlockTypes
  <2>1. pca \in [CaLinks -> Blocks]
    BY <1>1, <1>3
  <2>. QED BY <2>1 DEF BlockTypes, Blocks
<1>8. ListTypes
  <2>1. workList \in Seq(CaLinks) /\ IsInjective(workList)
    BY <1>1 DEF IsInjective
  <2>. QED BY <1>2, <1>4, <1>5, <2>1 DEF ListTypes
<1>9. TaskTypes /\ CallTypes
  BY <1>1 DEF TaskTypes, CallTypes
<1>10. CallsTrue /\ ActiveOwed /\ OrderTrue /\ WorkSeen /\ MonitorComes
  BY <1>1 DEF CallsTrue, ActiveOwed, OrderTrue, WorkSeen, MonitorComes
<1>11. ASSUME NEW l \in CaLinks
       PROVE  BlockTrue(l) /\ ChannelTrue(l) /\ EventTrue(l) /\ PutTrue(l) /\ OwedOf(l)
  <2>1. l # NoLink
    BY DEF CaLinkAssumption
  <2>2. BlockTrue(l)
    BY <1>1, <1>2, <1>4, <1>5, <2>1 DEF BlockTrue, Wants
  <2>3. ChannelTrue(l)
    BY <1>1, <1>2, <1>4, <1>5, <2>1 DEF ChannelTrue, Wants
  <2>4. EventTrue(l)
    BY <1>1, <1>2, <1>4, <1>5, <2>1 DEF EventTrue
  <2>5. PutTrue(l)
    BY <1>1, <1>2, <1>4, <1>5, <2>1
       DEF PutTrue, WriteQueued, WriteTaken, InFlight, Answered
  <2>6. OwedOf(l)
    BY <1>1, <1>2, <1>4, <1>5, <2>1 DEF OwedOf
  <2>. QED BY <2>2, <2>3, <2>4, <2>5, <2>6
<1>. QED BY <1>6, <1>7, <1>8, <1>9, <1>10, <1>11 DEF IInv, TypeOK, LinkTrue

LEMMA Stutters ==
    ASSUME IInv, UNCHANGED vars
    PROVE  IInv'
<1>1. UNCHANGED <<input, pvt, pvlOptInpNative, pact, recordPc, removed, pca, workList,
        workListEvent, taskPc, taskLink, taskAction, calls, caUser, dropped, owed>>
  BY DEF vars, recordVars, workVars, taskVars, clientVars, history
<1>2. FlagTypes' /\ BlockTypes' /\ ListTypes' /\ TaskTypes' /\ CallTypes'
  BY <1>1, Known DEF FlagTypes, BlockTypes, ListTypes, TaskTypes, CallTypes
<1>3. CallsTrue'
  BY <1>1, CallsStay, Known
<1>4. ActiveOwed' /\ OrderTrue' /\ WorkSeen' /\ MonitorComes'
  BY <1>1, Known DEF ActiveOwed, OrderTrue, Before, WorkSeen, MonitorComes, Requested, TaskLooks
<1>5. ASSUME NEW l \in CaLinks
      PROVE  BlockTrue(l)' /\ ChannelTrue(l)' /\ EventTrue(l)' /\ PutTrue(l)' /\ OwedOf(l)'
  BY <1>1, Known DEF BlockTrue, ChannelTrue, EventTrue, PutTrue, OwedOf, Wants,
    WriteQueued, WriteTaken, InFlight, Answered
<1>. QED BY <1>2, <1>3, <1>4, <1>5 DEF IInv, TypeOK, LinkTrue

LEMMA RecordKeeps ==
    ASSUME CaLinkAssumption, IInv, Record
    PROVE  IInv'
BY AddLinkStep, RemoveDetachesStep, RemoveClearsStep, GetLinkStep, ProcessPutsStep DEF Record

LEMMA ClientKeeps ==
    ASSUME CaLinkAssumption, IInv, Client
    PROVE  IInv'
<1>1. ASSUME NEW l \in CaLinks,
             \/ ChannelConnects(l) \/ ChannelDisconnects(l) \/ ChannelAnswers(l)
             \/ ChannelUpdates(l)
      PROVE  IInv'
  BY <1>1, ConnectsStep, DisconnectsStep, AnswersStep, UpdatesStep
<1>2. ASSUME NEW l \in CaLinks, connectionCallback(l) \/ putCallback(l) \/ eventCallback(l)
      PROVE  IInv'
  BY <1>2, connectionIgnored, connectionStep, putIgnored, putStep, eventIgnored, eventStep
<1>. QED BY <1>1, <1>2, UserCallbackStep DEF Client

LEMMA TaskKeeps ==
    ASSUME CaLinkAssumption, IInv, dbCaTask
    PROVE  IInv'
BY WakesStep, SleepsStep, TakesStep, ClearsStep, TaskCallsBackStep, TaskConnectsStep,
   ChecksStep, WritesStep, AllocatesStep, SubscribesStep DEF dbCaTask

-----------------------------------------------------------------------------
(* What follows *)

LEMMA NoneFreed ==
    ASSUME CaLinkAssumption, IInv
    PROVE  NothingFreed
<1>. SUFFICES ASSUME NEW l \in CaLinks
     PROVE  /\ \/ l \in {pvt, removed}
               \/ Contains(workList, l)
               \/ taskLink = l /\ taskPc # "callback"
               \/ pca[l].chan # "none"
               \/ \E kind \in {"connection", "put", "event"} : Contains(calls, <<kind, l>>)
               => pca[l].used
            /\ pca[l].gotInNative \/ Contains(calls, <<"event", l>>) => pca[l].pgetNative
  BY DEF NothingFreed
<1>1. l \in {pvt, removed} \/ (taskLink = l /\ taskPc # "callback") => pca[l].used
  BY Known DEF BlockTrue
<1>2. Contains(workList, l) => pca[l].used
  BY Known DEF BlockTrue, ListTypes, Blank
<1>3. pca[l].chan # "none" => pca[l].used
  BY Known DEF ChannelTrue
<1>4. ASSUME NEW kind, Contains(calls, <<kind, l>>) PROVE pca[l].chan # "none"
  <2>1. calls # << >>
    BY <1>4, EmptyHasNone
  <2>2. PICK k \in CaLinks :
            /\ pca[k].chan # "none"
            /\ \/ calls = <<<<"connection", k>>>>
               \/ calls = <<<<"put", k>>>>
               \/ calls = <<<<"event", k>>>>
               \/ calls = <<<<"put", k>>, <<"connection", k>>>>
    BY <2>1, Known DEF CallsTrue
  <2>3. /\ \A x : Contains(<<<<"connection", k>>>>, x) => x = <<"connection", k>>
        /\ \A x : Contains(<<<<"put", k>>>>, x) => x = <<"put", k>>
        /\ \A x : Contains(<<<<"event", k>>>>, x) => x = <<"event", k>>
        /\ \A x : Contains(<<<<"put", k>>, <<"connection", k>>>>, x) =>
                        x = <<"put", k>> \/ x = <<"connection", k>>
    BY OneCall
  <2>. QED BY <1>4, <2>2, <2>3
<1>5. pca[l].gotInNative \/ Contains(calls, <<"event", l>>) => pca[l].pgetNative
  BY Known DEF EventTrue
<1>. QED BY <1>1, <1>2, <1>3, <1>4, <1>5

\* A put that was not answered is under way to somebody who answers it.
LEMMA PutUnderWay ==
    ASSUME CaLinkAssumption, IInv, NEW l \in CaLinks, pca[l].putCallback
    PROVE  "put" \in Callers(l)
<1>1. pca[l].link_action # {} => TaskLooks
  BY EmptyHasNone, Known DEF ListTypes, WorkSeen
<1>2. CASE pca[l].plink
  <2>1. l = pvt
    BY <1>2, Known DEF BlockTrue
  <2>2. WriteQueued(l) \/ WriteTaken(l) \/ InFlight(l) \/ Answered(l) \/ l \in dropped
    BY <2>1, Known DEF PutTrue
  <2>3. Requested(l, "write") \/ pca[l].inflight > 0 \/ Contains(calls, <<"put", l>>)
        \/ l \in dropped
    BY <1>1, <2>2 DEF Requested, WriteQueued, WriteTaken, InFlight, Answered
  <2>. QED BY <1>2, <2>3 DEF Callers
<1>3. CASE ~pca[l].plink
  <2>1. pca[l].used /\ l # pvt
    BY <1>3, Known DEF BlockTrue, Blank
  <2>2. removed = l \/ Wants(l, "clear")
    BY <2>1, Known DEF BlockTrue
  <2>3. removed = l \/ Requested(l, "clear")
    BY <1>1, <2>2 DEF Wants, Requested
  <2>. QED BY <1>3, <2>3 DEF Callers
<1>. QED BY <1>2, <1>3

LEMMA OneCaller ==
    ASSUME CaLinkAssumption, IInv
    PROVE  CalledOnce
<1>1. ASSUME NEW l \in CaLinks
      PROVE  Cardinality(Callers(l)) = (IF l \in owed THEN 1 ELSE 0)
  <2>1. /\ "put" \in Callers(l) <=> pca[l].putCallback
        /\ "client" \in Callers(l) <=> caUser = l
        /\ "task" \in Callers(l) <=> taskPc = "callback" /\ taskLink = l
        /\ Callers(l) \subseteq {"put", "client", "task"}
    <3>1. "put" \in Callers(l) => pca[l].putCallback
      BY DEF Callers
    <3>2. /\ "client" \in Callers(l) <=> caUser = l
          /\ "task" \in Callers(l) <=> taskPc = "callback" /\ taskLink = l
          /\ Callers(l) \subseteq {"put", "client", "task"}
      BY DEF Callers
    <3>. QED BY <3>1, <3>2, PutUnderWay
  <2>2. /\ l \in owed <=> "put" \in Callers(l) \/ "client" \in Callers(l) \/ "task" \in Callers(l)
        /\ "put" \in Callers(l) => "client" \notin Callers(l) /\ "task" \notin Callers(l)
        /\ "client" \in Callers(l) => "task" \notin Callers(l)
    BY <2>1, Known DEF OwedOf
  <2>3. CASE l \in owed
    <3>1. \E c : Callers(l) = {c}
      BY <2>1, <2>2, <2>3
    <3>. QED BY <2>3, <3>1, FS_Singleton
  <2>4. CASE l \notin owed
    <3>1. Callers(l) = {}
      BY <2>1, <2>2, <2>4
    <3>. QED BY <2>4, <3>1, FS_EmptySet
  <2>. QED BY <2>3, <2>4
<1>. QED BY <1>1, Known DEF CalledOnce, ActiveOwed

LEMMA StepsKeep ==
    ASSUME CaLinkAssumption, IInv, [Next]_vars
    PROVE  IInv'
BY Stutters, RecordKeeps, ClientKeeps, TaskKeeps DEF Next

LEMMA Served ==
    ASSUME CaLinkAssumption, IInv
    PROVE  TypeOK /\ NothingFreed /\ CalledOnce /\ MonitorComes
BY NoneFreed, OneCaller DEF IInv

\* The blocks of CA links are used as dbCa.c means it: nothing leads to one that
\* was freed, the user callback of a put is called exactly once, and a link that
\* was read and is connected gets its subscription.
THEOREM CaLinksAreTrue ==
    CaLinkAssumption => (Spec => [](TypeOK /\ NothingFreed /\ CalledOnce /\ MonitorComes))
<1>. SUFFICES ASSUME CaLinkAssumption
              PROVE  Spec => [](TypeOK /\ NothingFreed /\ CalledOnce /\ MonitorComes)
  OBVIOUS
<1>1. Init => IInv
  BY Initially
<1>2. IInv /\ [Next]_vars => IInv'
  BY StepsKeep
<1>3. IInv => TypeOK /\ NothingFreed /\ CalledOnce /\ MonitorComes
  BY Served
<1>. QED BY <1>1, <1>2, <1>3, PTL DEF Spec
=============================================================================
