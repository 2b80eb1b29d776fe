--------------------------- MODULE DbEvent_proof ---------------------------
(***************************************************************************)
(* Proofs about the monitor events of DbEvent.                             *)
(*                                                                         *)
(* A row is the slots of one queue.  What putting an entry into a row,     *)
(* taking one out and cancelling those of an event does to the counters    *)
(* and to the order of the slots is proved of rows first; the steps of the *)
(* module are then steps on one row.                                       *)
(***************************************************************************)
EXTENDS DbEvent, FiniteSetTheorems, TLAPS

-----------------------------------------------------------------------------
(* The sizes *)

\* There is at least one slot and one queue.
LEMMA Sizes ==
    /\ EVENTQUESIZE \in Nat \ {0}
    /\ Slots = 0..(EVENTQUESIZE - 1) /\ IsFiniteSet(Slots)
    /\ 1 \in Queues /\ NoQueue \notin Queues /\ Queues \subseteq Nat
<1>. USE DbEventAssumption
<1>1. EVENTQUESIZE \in Nat \ {0}
  BY DEF EVENTQUESIZE
<1>2. Slots = 0..(EVENTQUESIZE - 1)
  BY DEF Slots
<1>3. IsFiniteSet(Slots)
  BY <1>1, <1>2, FS_Interval
<1>. QED BY <1>1, <1>2, <1>3 DEF Queues, NoQueue

-----------------------------------------------------------------------------
(* The entries of a queue: a row maps slots to events *)

X == Events \cup {NoEvent, CanceledEvent}

RowEntries(row, x) == {i \in Slots : row[i] = x}
RowEvents(row) == {i \in Slots : row[i] \in Events}
RowPresent(row) == {e \in Events : RowEntries(row, e) # {}}
RowDuplicates(row) == Cardinality(RowEvents(row)) - Cardinality(RowPresent(row))

\* These sets are finite.
LEMMA RowFinite ==
    ASSUME NEW row
    PROVE  /\ \A x : IsFiniteSet(RowEntries(row, x)) /\ Cardinality(RowEntries(row, x)) \in Nat
           /\ IsFiniteSet(RowEvents(row)) /\ Cardinality(RowEvents(row)) \in Nat
           /\ IsFiniteSet(RowPresent(row)) /\ Cardinality(RowPresent(row)) \in Nat
           /\ \A x : Cardinality(RowEntries(row, x)) = 0 <=> RowEntries(row, x) = {}
<1>1. ASSUME NEW S, S \subseteq Slots
      PROVE  IsFiniteSet(S) /\ Cardinality(S) \in Nat /\ (Cardinality(S) = 0 <=> S = {})
  BY <1>1, Sizes, FS_Subset, FS_CardinalityType, FS_EmptySet
<1>2. IsFiniteSet(RowPresent(row)) /\ Cardinality(RowPresent(row)) \in Nat
  <2>1. RowPresent(row) \subseteq Events
    BY DEF RowPresent
  <2>. QED BY <2>1, DbEventAssumption, FS_Subset, FS_CardinalityType
<1>3. RowEvents(row) \subseteq Slots /\ \A x : RowEntries(row, x) \subseteq Slots
  BY DEF RowEvents, RowEntries
<1>. QED BY <1>1, <1>2, <1>3

\* There are no fewer entries than events that have one.
LEMMA RowDuplicatesNat ==
    ASSUME NEW row
    PROVE  RowDuplicates(row) \in Nat
<1>. DEFINE f == [i \in RowEvents(row) |-> row[i]]
<1>1. f \in Surjection(RowEvents(row), RowPresent(row))
  <2>1. f \in [RowEvents(row) -> RowPresent(row)]
    BY DEF RowEvents, RowPresent, RowEntries
  <2>2. \A e \in RowPresent(row) : \E i \in RowEvents(row) : f[i] = e
    BY DEF RowEvents, RowPresent, RowEntries
  <2>. QED BY <2>1, <2>2 DEF Surjection
<1>2. Cardinality(RowPresent(row)) <= Cardinality(RowEvents(row))
  BY <1>1, RowFinite, FS_Surjection
<1>. QED BY <1>2, RowFinite DEF RowDuplicates

LEMMA Fewer ==
    ASSUME NEW S, IsFiniteSet(S), NEW x \in S, NEW T, T = S \ {x}
    PROVE  IsFiniteSet(T) /\ Cardinality(T) = Cardinality(S) - 1
BY FS_RemoveElement

\* An entry for e is put into an empty slot.
LEMMA RowPut ==
    ASSUME NEW row \in [Slots -> X], NEW i \in Slots, row[i] = NoEvent, NEW e \in Events,
           NEW new, new = [row EXCEPT ![i] = e]
    PROVE  /\ new \in [Slots -> X]
           /\ RowEntries(new, e) = RowEntries(row, e) \cup {i}
           /\ Cardinality(RowEntries(new, e)) = Cardinality(RowEntries(row, e)) + 1
           /\ \A x : x \notin {e, NoEvent} => RowEntries(new, x) = RowEntries(row, x)
           /\ RowDuplicates(new) = IF Cardinality(RowEntries(row, e)) > 0
                                   THEN RowDuplicates(row) + 1 ELSE RowDuplicates(row)
<1>. USE DbEventAssumption DEF X
<1>1. new \in [Slots -> X] /\ new[i] = e /\ \A j \in Slots : j # i => new[j] = row[j]
  OBVIOUS
<1>2. RowEntries(new, e) = RowEntries(row, e) \cup {i} /\ i \notin RowEntries(row, e)
  BY <1>1 DEF RowEntries
<1>3. Cardinality(RowEntries(new, e)) = Cardinality(RowEntries(row, e)) + 1
  BY <1>2, RowFinite, FS_AddElement
<1>4. ASSUME NEW x, x \notin {e, NoEvent} PROVE RowEntries(new, x) = RowEntries(row, x)
  BY <1>1, <1>4 DEF RowEntries
<1>5. RowEvents(new) = RowEvents(row) \cup {i} /\ i \notin RowEvents(row)
  BY <1>1 DEF RowEvents
<1>6. Cardinality(RowEvents(new)) = Cardinality(RowEvents(row)) + 1
  BY <1>5, RowFinite, FS_AddElement
<1>7. RowPresent(new) = RowPresent(row) \cup {e}
  <2>1. \A d \in Events : d # e => RowEntries(new, d) = RowEntries(row, d)
    BY <1>4
  <2>. QED BY <1>2, <2>1 DEF RowPresent
<1>8. e \in RowPresent(row) <=> Cardinality(RowEntries(row, e)) > 0
  <2>1. Cardinality(RowEntries(row, e)) \in Nat
        /\ (Cardinality(RowEntries(row, e)) = 0 <=> RowEntries(row, e) = {})
    BY RowFinite
  <2>. QED BY <2>1 DEF RowPresent
<1>9. Cardinality(RowPresent(new)) = IF Cardinality(RowEntries(row, e)) > 0
            THEN Cardinality(RowPresent(row)) ELSE Cardinality(RowPresent(row)) + 1
  BY <1>7, <1>8, RowFinite, FS_AddElement
<1>10. RowDuplicates(new) = IF Cardinality(RowEntries(row, e)) > 0
                            THEN RowDuplicates(row) + 1 ELSE RowDuplicates(row)
  BY <1>6, <1>9, RowFinite DEF RowDuplicates
<1>. QED BY <1>1, <1>2, <1>3, <1>4, <1>10

\* An entry, for e or canceled, is taken out.
LEMMA RowTake ==
    ASSUME NEW row \in [Slots -> X], NEW i \in Slots, NEW x, row[i] = x, x # NoEvent,
           NEW new, new = [row EXCEPT ![i] = NoEvent]
    PROVE  /\ new \in [Slots -> X]
           /\ RowEntries(new, x) = RowEntries(row, x) \ {i}
           /\ Cardinality(RowEntries(new, x)) = Cardinality(RowEntries(row, x)) - 1
           /\ \A y : y \notin {x, NoEvent} => RowEntries(new, y) = RowEntries(row, y)
           /\ RowDuplicates(new) = IF x \in Events /\ Cardinality(RowEntries(row, x)) # 1
                                   THEN RowDuplicates(row) - 1 ELSE RowDuplicates(row)
<1>. USE DbEventAssumption DEF X
<1>1. new \in [Slots -> X] /\ new[i] = NoEvent /\ \A j \in Slots : j # i => new[j] = row[j]
  OBVIOUS
<1>2. RowEntries(new, x) = RowEntries(row, x) \ {i} /\ i \in RowEntries(row, x)
  BY <1>1 DEF RowEntries
<1>3. Cardinality(RowEntries(new, x)) = Cardinality(RowEntries(row, x)) - 1
  <2>1. IsFiniteSet(RowEntries(row, x))
    BY RowFinite
  <2>. QED BY <1>2, <2>1, Fewer
<1>4. ASSUME NEW y, y \notin {x, NoEvent} PROVE RowEntries(new, y) = RowEntries(row, y)
  BY <1>1, <1>4 DEF RowEntries
<1>5. CASE x \in Events
  <2>1. RowEvents(new) = RowEvents(row) \ {i} /\ i \in RowEvents(row)
    BY <1>1, <1>5 DEF RowEvents
  <2>2. Cardinality(RowEvents(new)) = Cardinality(RowEvents(row)) - 1
    BY <2>1, RowFinite, Fewer
  <2>3. \A d \in Events : d # x => RowEntries(new, d) = RowEntries(row, d)
    BY <1>4
  <2>4. x \in RowPresent(row)
    BY <1>2, <1>5 DEF RowPresent
  <2>5. RowEntries(new, x) = {} <=> Cardinality(RowEntries(row, x)) = 1
    <3>1. /\ Cardinality(RowEntries(row, x)) \in Nat
          /\ Cardinality(RowEntries(new, x)) = 0 <=> RowEntries(new, x) = {}
      BY RowFinite
    <3>2. Cardinality(RowEntries(new, x)) = 0 <=> Cardinality(RowEntries(row, x)) = 1
      BY <1>3, <3>1
    <3>. QED BY <3>1, <3>2
  <2>6. CASE Cardinality(RowEntries(row, x)) = 1
    <3>1. RowPresent(new) = RowPresent(row) \ {x}
      BY <1>5, <2>3, <2>5, <2>6 DEF RowPresent
    <3>2. Cardinality(RowPresent(new)) = Cardinality(RowPresent(row)) - 1
      <4>1. IsFiniteSet(RowPresent(row))
        BY RowFinite
      <4>2. Cardinality(RowPresent(row) \ {x}) = Cardinality(RowPresent(row)) - 1
        BY <2>4, <4>1, Fewer
      <4>. QED BY <3>1, <4>2
    <3>3. RowDuplicates(new) = RowDuplicates(row)
      BY <2>2, <3>2, RowFinite DEF RowDuplicates
    <3>. QED BY <1>1, <1>2, <1>3, <1>4, <2>6, <3>3
  <2>7. CASE Cardinality(RowEntries(row, x)) # 1
    <3>1. RowPresent(new) = RowPresent(row)
      BY <1>5, <2>3, <2>4, <2>5, <2>7 DEF RowPresent
    <3>2. RowDuplicates(new) = RowDuplicates(row) - 1
      BY <2>2, <3>1, RowFinite DEF RowDuplicates
    <3>. QED BY <1>1, <1>2, <1>3, <1>4, <1>5, <2>7, <3>2
  <2>. QED BY <2>6, <2>7
<1>6. CASE x \notin Events
  <2>1. RowEvents(new) = RowEvents(row)
    BY <1>1, <1>6 DEF RowEvents
  <2>2. \A d \in Events : RowEntries(new, d) = RowEntries(row, d)
    BY <1>4, <1>6
  <2>3. RowPresent(new) = RowPresent(row)
    BY <2>2 DEF RowPresent
  <2>4. RowDuplicates(new) = RowDuplicates(row)
    BY <2>1, <2>3 DEF RowDuplicates
  <2>. QED BY <1>1, <1>2, <1>3, <1>4, <1>6, <2>4
<1>. QED BY <1>5, <1>6

\* All entries for e are canceled.
LEMMA RowPurge ==
    ASSUME NEW row \in [Slots -> X], NEW e \in Events,
           NEW new, new = [i \in Slots |-> IF row[i] = e THEN CanceledEvent ELSE row[i]]
    PROVE  /\ new \in [Slots -> X]
           /\ RowEntries(new, e) = {}
           /\ Cardinality(RowEntries(new, CanceledEvent)) =
                Cardinality(RowEntries(row, CanceledEvent)) + Cardinality(RowEntries(row, e))
           /\ \A x : x \notin {e, CanceledEvent} => RowEntries(new, x) = RowEntries(row, x)
           /\ RowDuplicates(new) = IF Cardinality(RowEntries(row, e)) > 1
                THEN RowDuplicates(row) - (Cardinality(RowEntries(row, e)) - 1) ELSE RowDuplicates(row)
<1>. USE DbEventAssumption DEF X
<1>1. new \in [Slots -> X] /\ \A i \in Slots : new[i] = IF row[i] = e THEN CanceledEvent ELSE row[i]
  OBVIOUS
<1>2. RowEntries(new, e) = {}
  BY <1>1 DEF RowEntries
<1>3. ASSUME NEW x, x \notin {e, CanceledEvent} PROVE RowEntries(new, x) = RowEntries(row, x)
  BY <1>1, <1>3 DEF RowEntries
<1>4. Cardinality(RowEntries(new, CanceledEvent)) =
        Cardinality(RowEntries(row, CanceledEvent)) + Cardinality(RowEntries(row, e))
  <2>1. RowEntries(new, CanceledEvent) = RowEntries(row, CanceledEvent) \cup RowEntries(row, e)
        /\ RowEntries(row, CanceledEvent) \cap RowEntries(row, e) = {}
    BY <1>1 DEF RowEntries
  <2>2. /\ IsFiniteSet(RowEntries(row, CanceledEvent)) /\ IsFiniteSet(RowEntries(row, e))
        /\ Cardinality(RowEntries(row, CanceledEvent)) \in Nat
        /\ Cardinality(RowEntries(row, e)) \in Nat
    BY RowFinite
  <2>. QED BY <2>1, <2>2, FS_Union, FS_EmptySet
<1>5. /\ RowEvents(row) = RowEvents(new) \cup RowEntries(row, e)
      /\ RowEvents(new) \cap RowEntries(row, e) = {}
  BY <1>1 DEF RowEvents, RowEntries
<1>6. Cardinality(RowEvents(row)) = Cardinality(RowEvents(new)) + Cardinality(RowEntries(row, e))
  <2>1. /\ IsFiniteSet(RowEvents(new)) /\ IsFiniteSet(RowEntries(row, e))
        /\ Cardinality(RowEvents(new)) \in Nat /\ Cardinality(RowEntries(row, e)) \in Nat
    BY RowFinite
  <2>. QED BY <1>5, <2>1, FS_Union, FS_EmptySet
<1>7. RowPresent(new) = RowPresent(row) \ {e}
  <2>1. \A d \in Events : d # e => RowEntries(new, d) = RowEntries(row, d)
    BY <1>3
  <2>. QED BY <1>2, <2>1 DEF RowPresent
<1>8. e \in RowPresent(row) <=> Cardinality(RowEntries(row, e)) > 0
  <2>1. Cardinality(RowEntries(row, e)) \in Nat
        /\ (Cardinality(RowEntries(row, e)) = 0 <=> RowEntries(row, e) = {})
    BY RowFinite
  <2>. QED BY <2>1 DEF RowPresent
<1>9. Cardinality(RowPresent(new)) = IF Cardinality(RowEntries(row, e)) > 0
            THEN Cardinality(RowPresent(row)) - 1 ELSE Cardinality(RowPresent(row))
  BY <1>7, <1>8, RowFinite, Fewer
<1>10. RowDuplicates(new) = IF Cardinality(RowEntries(row, e)) > 1
          THEN RowDuplicates(row) - (Cardinality(RowEntries(row, e)) - 1) ELSE RowDuplicates(row)
  BY <1>6, <1>9, RowFinite DEF RowDuplicates
<1>. QED BY <1>1, <1>2, <1>3, <1>4, <1>10

-----------------------------------------------------------------------------
(* The order of a queue *)

RowOffset(get, i) == IF i >= get THEN i - get ELSE i - get + EVENTQUESIZE
RowUsed(row, put, get) ==
    EVENTQUESIZE - (IF row[put] # NoEvent THEN 0
                    ELSE IF get > put THEN get - put ELSE EVENTQUESIZE + get - put)
RowContiguous(row, put, get) ==
    \A i \in Slots : row[i] # NoEvent <=> RowOffset(get, i) < RowUsed(row, put, get)
RowFull(row, put, get) == row[put] # NoEvent => put = get

\* The remainder is not needed to know offsets.
LEMMA OffsetMod ==
    ASSUME NEW get \in Slots, NEW i \in Slots
    PROVE  (i - get) % EVENTQUESIZE = RowOffset(get, i)
  BY Sizes DEF RowOffset

\* An offset is less than the size of the ring, and 0 for the slot read next.
LEMMA OffsetOf ==
    ASSUME NEW get \in Slots, NEW i \in Slots
    PROVE  /\ RowOffset(get, i) \in Nat /\ RowOffset(get, i) < EVENTQUESIZE
           /\ RowOffset(get, get) = 0
  BY Sizes DEF RowOffset

\* Two slots have two offsets.
LEMMA OffsetsDiffer ==
    ASSUME NEW get \in Slots, NEW i \in Slots, NEW j \in Slots, RowOffset(get, i) = RowOffset(get, j)
    PROVE  i = j
  BY Sizes DEF RowOffset

\* The entry that is put is the last one.
LEMMA ContiguousPut ==
    ASSUME NEW row \in [Slots -> X], NEW put \in Slots, NEW get \in Slots,
           RowContiguous(row, put, get), row[put] = NoEvent, NEW e, e # NoEvent
    PROVE  /\ RNGINC(put) \in Slots
           /\ RowFull([row EXCEPT ![put] = e], RNGINC(put), get)
           /\ RowContiguous([row EXCEPT ![put] = e], RNGINC(put), get)
           /\ \A i \in Slots : row[i] # NoEvent => RowOffset(get, i) < RowOffset(get, put)
<1>. DEFINE new == [row EXCEPT ![put] = e]
            n == RNGINC(put)
<1>1. n \in Slots /\ ((n = 0 /\ put = EVENTQUESIZE - 1) \/ n = put + 1)
  BY Sizes DEF RNGINC
<1>2. new[put] = e /\ \A i \in Slots : i # put => new[i] = row[i]
  OBVIOUS
<1>3. RowUsed(row, put, get) = RowOffset(get, put)
  BY Sizes DEF RowUsed, RowContiguous, RowOffset
<1>4. \A i \in Slots : row[i] # NoEvent => RowOffset(get, i) < RowOffset(get, put)
  BY <1>3 DEF RowContiguous
<1>5. RowUsed(new, n, get) = RowOffset(get, put) + 1 /\ RowFull(new, n, get)
  <2>1. CASE n = get
    <3>1. RowOffset(get, put) = EVENTQUESIZE - 1
      BY <1>1, <2>1, Sizes DEF RowOffset
    <3>2. new[n] # NoEvent
      <4>1. CASE put = n
        BY <1>2, <4>1
      <4>2. CASE put # n
        <5>1. RowOffset(get, n) = 0 /\ RowOffset(get, put) > 0
          BY <2>1, <3>1, <4>2, Sizes, OffsetOf DEF RowOffset
        <5>. QED BY <1>1, <1>2, <1>3, <4>2, <5>1 DEF RowContiguous
      <4>. QED BY <4>1, <4>2
    <3>. QED BY <2>1, <3>1, <3>2, Sizes DEF RowUsed, RowFull
  <2>2. CASE n # get
    <3>1. RowOffset(get, n) = RowOffset(get, put) + 1 /\ n # put
      BY <1>1, <2>2, Sizes DEF RowOffset
    <3>2. new[n] = NoEvent
      <4>1. ~(RowOffset(get, n) < RowOffset(get, put))
        <5>1. RowOffset(get, put) \in Nat
          BY OffsetOf
        <5>. QED BY <3>1, <5>1
      <4>. QED BY <1>1, <1>2, <1>3, <3>1, <4>1 DEF RowContiguous
    <3>. QED BY <1>1, <2>2, <3>1, <3>2, Sizes DEF RowUsed, RowOffset, RowFull
  <2>. QED BY <2>1, <2>2
<1>6. ASSUME NEW i \in Slots
      PROVE  new[i] # NoEvent <=> RowOffset(get, i) < RowOffset(get, put) + 1
  <2>1. CASE i = put
    <3>1. RowOffset(get, put) \in Nat
      BY OffsetOf
    <3>. QED BY <1>2, <2>1, <3>1
  <2>2. CASE i # put
    <3>1. RowOffset(get, i) # RowOffset(get, put) /\ RowOffset(get, i) \in Nat /\ RowOffset(get, put) \in Nat
      BY <2>2, OffsetsDiffer, OffsetOf
    <3>2. new[i] # NoEvent <=> RowOffset(get, i) < RowOffset(get, put)
      BY <1>2, <1>3, <2>2 DEF RowContiguous
    <3>. QED BY <3>1, <3>2
  <2>. QED BY <2>1, <2>2
<1>. QED BY <1>1, <1>4, <1>5, <1>6 DEF RowContiguous

\* The first entry is taken: the others move up.
LEMMA ContiguousTake ==
    ASSUME NEW row \in [Slots -> X], NEW put \in Slots, NEW get \in Slots,
           RowContiguous(row, put, get), RowFull(row, put, get), row[get] # NoEvent
    PROVE  /\ RNGINC(get) \in Slots
           /\ RowFull([row EXCEPT ![get] = NoEvent], put, RNGINC(get))
           /\ RowContiguous([row EXCEPT ![get] = NoEvent], put, RNGINC(get))
           /\ \A i \in Slots : i # get => RowOffset(RNGINC(get), i) = RowOffset(get, i) - 1
<1>. DEFINE new == [row EXCEPT ![get] = NoEvent]
            n == RNGINC(get)
            u == RowUsed(row, put, get)
<1>1. n \in Slots /\ ((n = 0 /\ get = EVENTQUESIZE - 1) \/ n = get + 1)
  BY Sizes DEF RNGINC
<1>2. new[get] = NoEvent /\ \A i \in Slots : i # get => new[i] = row[i]
  OBVIOUS
<1>3. \A i \in Slots : i # get => RowOffset(n, i) = RowOffset(get, i) - 1
  BY <1>1, Sizes DEF RowOffset
<1>4. RowOffset(n, get) = EVENTQUESIZE - 1
  BY <1>1, Sizes DEF RowOffset
<1>5. u \in 1..EVENTQUESIZE
  <2>1. RowOffset(get, get) = 0 /\ 0 < u
    BY OffsetOf DEF RowContiguous
  <2>. QED BY <2>1, Sizes DEF RowUsed
<1>6. RowUsed(new, put, n) = u - 1
  <2>1. CASE row[put] # NoEvent
    <3>1. u = EVENTQUESIZE
      BY <2>1, Sizes DEF RowUsed
    <3>2. put = get
      BY <2>1 DEF RowFull
    <3>. QED BY <1>1, <1>2, <3>1, <3>2, Sizes DEF RowUsed
  <2>2. CASE row[put] = NoEvent
    <3>1. put # get /\ new[put] = NoEvent
      BY <1>2, <2>2
    <3>. QED BY <1>1, <2>2, <3>1, Sizes DEF RowUsed
  <2>. QED BY <2>1, <2>2
<1>7. ASSUME NEW i \in Slots
      PROVE  new[i] # NoEvent <=> RowOffset(n, i) < u - 1
  <2>1. CASE i = get
    BY <1>2, <1>4, <1>5, <2>1, Sizes
  <2>2. CASE i # get
    <3>1. new[i] # NoEvent <=> RowOffset(get, i) < u
      BY <1>2, <2>2 DEF RowContiguous
    <3>2. RowOffset(get, i) \in Nat
      BY OffsetOf
    <3>. QED BY <1>3, <1>5, <2>2, <3>1, <3>2
  <2>. QED BY <2>1, <2>2
<1>8. RowFull(new, put, n)
  BY <1>2 DEF RowFull
<1>. QED BY <1>1, <1>3, <1>6, <1>7, <1>8 DEF RowContiguous

-----------------------------------------------------------------------------
(* The invariant, by rows *)

Counters ==
    /\ quota \in [Queues -> Int]
    /\ nDuplicates \in [Queues -> Int] /\ nCanceled \in [Queues -> Int]
    /\ npend \in [Events -> Int]

RowCounted(q) ==
    /\ RowContiguous(evque[q], putix[q], getix[q])
    /\ RowFull(evque[q], putix[q], getix[q])
    /\ nCanceled[q] = Cardinality(RowEntries(evque[q], CanceledEvent))
    /\ nDuplicates[q] = RowDuplicates(evque[q])
    /\ \A e \in Events :
        Cardinality(RowEntries(evque[q], e)) = IF q = ev_que[e] THEN npend[e] ELSE 0
Rows == \A q \in Queues : RowCounted(q)

LastLogOf(e, q) ==
    /\ pLastLog[e] \in Slots /\ evque[q][pLastLog[e]] = e
    /\ \A i \in RowEntries(evque[q], e) :
        RowOffset(getix[q], i) <= RowOffset(getix[q], pLastLog[e])
LastLogs == \A e \in Events : byValue[e] /\ npend[e] > 0 => LastLogOf(e, ev_que[e])

Inv == Types /\ Counters /\ Rows /\ LastLogs /\ CallsOwn /\ InCallback

\* The block a caller is busy with.
LEMMA CallFacts ==
    ASSUME Types, CallsOwn, NEW c \in Callers
    PROVE  /\ cpc[c] \notin {"idle", "signal"} => cev[c] \in Events
           /\ cpc[c] = "walk" => cque[c] \in Queues
           /\ cpc[c] = "chain" => cque[c] \in Queues
           /\ cpc[c] \in Adding \cup Canceling => ev_que[cev[c]] \in Queues
<1>1. cpc[c] \notin {"idle", "signal"} => cev[c] \in Events
  BY DEF Types, CallsOwn, CallerOwns
<1>2. cpc[c] \in Adding \cup Canceling => cpc[c] \notin {"idle", "signal"}
  BY DEF Adding, Canceling
<1>. QED BY <1>1, <1>2 DEF Types, CallsOwn, CallerOwns

\* A post goes to a block that belongs to a queue.
LEMMA PostFacts ==
    ASSUME Types, CallsOwn, NEW e \in Events, e \in todo
    PROVE  ev_que[e] \in Queues
  BY DEF Types, CallsOwn, PostOwned

\* An entry belongs to a subscription of the queue.
LEMMA EntryFacts ==
    ASSUME Types, Rows, NEW q \in Queues, NEW i \in Slots, NEW e \in Events, evque[q][i] = e
    PROVE  ev_que[e] = q /\ npend[e] > 0
<1>1. RowEntries(evque[q], e) # {}
  BY DEF RowEntries
<1>2. Cardinality(RowEntries(evque[q], e)) \in Nat \ {0}
  BY <1>1, RowFinite
<1>3. Cardinality(RowEntries(evque[q], e)) = IF q = ev_que[e] THEN npend[e] ELSE 0
  BY DEF Rows, RowCounted
<1>. QED BY <1>2, <1>3

\* Every step keeps the types.
LEMMA TypesStep ==
    ASSUME Inv, [Next]_vars
    PROVE  Types' /\ Counters'
<1>. USE DEF queues, chain, pending, blocks, sems, task, calls, posting, values, Goto, CallLabels, TaskLabels
<1>t. /\ evque \in [Queues -> [Slots -> Events \cup {NoEvent, CanceledEvent}]]
      /\ valque \in [Queues -> [Slots -> 0..MaxVal]]
      /\ putix \in [Queues -> Slots] /\ getix \in [Queues -> Slots]
  BY DEF Inv, Types
<1>u. /\ quota \in [Queues -> Int] /\ npend \in [Events -> Int]
      /\ nDuplicates \in [Queues -> Int] /\ nCanceled \in [Queues -> Int]
  BY DEF Inv, Counters
<1>v. /\ ev_que \in [Events -> Queues \cup {NoQueue}]
      /\ pLastLog \in [Events -> Slots \cup {NoSlot}]
      /\ user_sub \in [Events -> BOOLEAN] /\ byValue \in [Events -> BOOLEAN]
      /\ callBackInProgress \in [Events -> BOOLEAN] /\ enabled \in [Events -> BOOLEAN]
      /\ pSuicideEvent \in Events \cup {NoEvent} /\ made \subseteq Queues /\ live \in BOOLEAN
      /\ pflush_sem \in BOOLEAN
  BY DEF Inv, Types
<1>w. /\ cpc \in [Callers -> CallLabels] /\ cev \in [Callers -> Events \cup {NoEvent}]
      /\ cque \in [Callers -> Queues \cup {NoQueue}]
      /\ tpc \in TaskLabels /\ tque \in Queues /\ event \in Events \cup {NoEvent}
  BY DEF Inv, Types
<1>x. /\ val \in 1..MaxVal /\ fl \in 0..MaxVal /\ todo \subseteq Events /\ 0 \in 0..MaxVal
      /\ sent \in [Events -> 0..MaxVal] /\ seen \in [Events -> 0..MaxVal] /\ val \in 0..MaxVal
  BY DbEventAssumption DEF Inv, Types
<1>y. 1 \in Queues /\ EVENTENTRIES \in Int /\ MaxVal \in Int
  BY Sizes, DbEventAssumption
<1>z. \A i \in Slots : RNGINC(i) \in Slots
  BY Sizes DEF RNGINC
<1>1. ASSUME NEW c \in Callers, AddEvent(c)
      PROVE  Types' /\ Counters'
  <2>1. PICK e \in Events, v \in BOOLEAN :
            /\ cev' = [cev EXCEPT ![c] = e]
            /\ callBackInProgress' = [callBackInProgress EXCEPT ![e] = FALSE]
            /\ byValue' = [byValue EXCEPT ![e] = v]
    BY <1>v, <1>w, <1>y, <1>1 DEF AddEvent
  <2>2. /\ cev' \in [Callers -> Events \cup {NoEvent}]
        /\ callBackInProgress' \in [Events -> BOOLEAN] /\ byValue' \in [Events -> BOOLEAN]
    BY <1>v, <1>w, <1>y, <2>1
  <2>3. cque' \in [Callers -> Queues \cup {NoQueue}] /\ cpc' \in [Callers -> CallLabels]
    BY <1>w, <1>y, <1>1 DEF AddEvent
  <2>. QED BY <1>y, <1>1, <2>2, <2>3 DEF Inv, Types, Counters, AddEvent
<1>2. ASSUME NEW c \in Callers, CancelEvent(c)
      PROVE  Types' /\ Counters'
  <2>1. PICK e \in Events : cev' = [cev EXCEPT ![c] = e] /\ enabled' = [enabled EXCEPT ![e] = FALSE]
    BY <1>v, <1>w, <1>y, <1>2 DEF CancelEvent
  <2>2. /\ cev' \in [Callers -> Events \cup {NoEvent}] /\ enabled' \in [Events -> BOOLEAN]
    BY <1>v, <1>w, <1>y, <2>1
  <2>3. cpc' \in [Callers -> CallLabels]
    BY <1>w, <1>y, <1>2 DEF CancelEvent
  <2>. QED BY <1>y, <1>2, <2>2, <2>3 DEF Inv, Types, Counters, CancelEvent
<1>3. ASSUME NEW c \in Callers, FlowCtrl(c)
      PROVE  Types' /\ Counters'
  BY <1>y, <1>3 DEF Inv, Types, Counters, FlowCtrl
<1>4. ASSUME NEW c \in Callers, CloseEvents(c)
      PROVE  Types' /\ Counters'
  BY <1>y, <1>4 DEF Inv, Types, Counters, CloseEvents, Closing
<1>5. ASSUME NEW c \in Callers, AddFind(c)
      PROVE  Types' /\ Counters'
  BY <1>y, <1>5, CallFacts DEF Inv, Types, Counters, AddFind, Install
<1>6. ASSUME NEW c \in Callers, AddQueue(c)
      PROVE  Types' /\ Counters'
  <2>0. cev[c] \in Events
    BY <1>w, <1>y, <1>6, CallFacts DEF Inv, AddQueue
  <2>1. PICK q \in Queues \ made :
            /\ made' = made \cup {q}
            /\ ev_que' = [ev_que EXCEPT ![cev[c]] = q]
            /\ user_sub' = [user_sub EXCEPT ![cev[c]] = TRUE]
    BY <1>v, <1>w, <1>y, <1>6 DEF AddQueue, Install
  <2>2. made' \subseteq Queues /\ ev_que' \in [Events -> Queues \cup {NoQueue}]
        /\ user_sub' \in [Events -> BOOLEAN]
    BY <1>v, <1>y, <2>0, <2>1
  <2>3. cpc' \in [Callers -> CallLabels]
    BY <1>w, <1>y, <1>6 DEF AddQueue
  <2>. QED BY <1>y, <1>6, <2>2, <2>3 DEF Inv, Types, Counters, AddQueue
<1>7. ASSUME NEW c \in Callers, AddFails(c)
      PROVE  Types' /\ Counters'
  BY <1>y, <1>7 DEF Inv, Types, Counters, AddFails, Finish
<1>8. ASSUME NEW c \in Callers, AddChain(c)
      PROVE  Types' /\ Counters'
  BY <1>y, <1>8, CallFacts DEF Inv, Types, Counters, AddChain, Linked
<1>9. ASSUME NEW c \in Callers, AddQuota(c)
      PROVE  Types' /\ Counters'
  <2>1. cev[c] \in Events /\ ev_que[cev[c]] \in Queues
    BY <1>v, <1>w, <1>y, <1>9, CallFacts DEF Inv, AddQuota, Adding
  <2>2. quota' \in [Queues -> Int]
    BY <1>u, <1>y, <1>9, <2>1 DEF AddQuota
  <2>. QED BY <1>y, <1>9, <2>2 DEF Inv, Types, Counters, AddQuota
<1>10. ASSUME NEW c \in Callers, PostFirst(c)
       PROVE  Types' /\ Counters'
  BY <1>y, <1>10, CallFacts DEF Inv, Types, Counters, PostFirst
<1>11. ASSUME NEW c \in Callers, EnableEvent(c)
       PROVE  Types' /\ Counters'
  BY <1>y, <1>11 DEF Inv, Types, Counters, EnableEvent, Finish
<1>12. ASSUME NEW c \in Callers, CancelPurge(c)
       PROVE  Types' /\ Counters'
  <2>1. cev[c] \in Events /\ ev_que[cev[c]] \in Queues
    BY <1>v, <1>w, <1>y, <1>12, CallFacts DEF Inv, CancelPurge, Canceling
  <2>2. evque' \in [Queues -> [Slots -> Events \cup {NoEvent, CanceledEvent}]]
    BY <1>t, <1>y, <1>12, <2>1 DEF CancelPurge
  <2>3. valque' \in [Queues -> [Slots -> 0..MaxVal]]
    BY <1>t, <1>x, <1>12, <2>1 DEF CancelPurge
  <2>4. user_sub' \in [Events -> BOOLEAN] /\ pLastLog' \in [Events -> Slots \cup {NoSlot}]
        /\ pSuicideEvent' \in Events \cup {NoEvent}
    BY <1>v, <1>y, <1>12, <2>1 DEF CancelPurge
  <2>5. /\ nDuplicates' \in [Queues -> Int] /\ nCanceled' \in [Queues -> Int]
        /\ npend' \in [Events -> Int]
    BY <1>u, <1>y, <1>12, <2>1 DEF CancelPurge
  <2>6. UNCHANGED <<putix, getix, chain, callBackInProgress, enabled,
                   flowCtrlMode, sems, queovr, pendexit, tpc, tque, event, fl, posting, val>>
    BY <1>t, <1>v, <1>w, <1>x, <1>y, <1>12 DEF CancelPurge
  <2>r. \/ UNCHANGED <<quota, ev_que, byValue, sent, seen, live>>
        \/ /\ quota' = [quota EXCEPT ![ev_que[cev[c]]] = @ - EVENTENTRIES]
           /\ ev_que' = [ev_que EXCEPT ![cev[c]] = NoQueue]
           /\ byValue' = [byValue EXCEPT ![cev[c]] = FALSE]
           /\ sent' = [sent EXCEPT ![cev[c]] = 0]
           /\ seen' = [seen EXCEPT ![cev[c]] = 0]
           /\ live' \in {FALSE, live}
    BY <1>12 DEF CancelPurge, Release
  <2>7. /\ ev_que' \in [Events -> Queues \cup {NoQueue}] /\ byValue' \in [Events -> BOOLEAN]
        /\ live' \in BOOLEAN
    BY <1>v, <2>1, <2>r
  <2>q. quota' \in [Queues -> Int]
    <3>. DEFINE q == ev_que[cev[c]]
    <3>1. q \in Queues /\ quota[q] - EVENTENTRIES \in Int
      BY <1>u, <1>y, <2>1
    <3>2. quota' = quota \/ quota' = [quota EXCEPT ![q] = quota[q] - EVENTENTRIES]
      BY <2>r
    <3>. QED BY <1>u, <3>1, <3>2
  <2>8. /\ sent' \in [Events -> 0..MaxVal] /\ seen' \in [Events -> 0..MaxVal]
    BY <1>x, <2>1, <2>r
  <2>9. /\ cpc' \in [Callers -> CallLabels] /\ cev' \in [Callers -> Events \cup {NoEvent}]
        /\ cque' \in [Callers -> Queues \cup {NoQueue}]
    BY <1>w, <1>y, <1>12 DEF CancelPurge, Release, Finish
  <2>. QED BY <1>y, <2>2, <2>3, <2>4, <2>5, <2>6, <2>7, <2>8, <2>9, <2>q DEF Inv, Types, Counters
<1>13. ASSUME NEW c \in Callers, CancelWait(c)
       PROVE  Types' /\ Counters'
  BY <1>y, <1>13 DEF Inv, Types, Counters, CancelWait
<1>14. ASSUME NEW c \in Callers, CancelCheck(c)
       PROVE  Types' /\ Counters'
  <2>1. cev[c] \in Events /\ ev_que[cev[c]] \in Queues
    BY <1>v, <1>w, <1>y, <1>14, CallFacts DEF Inv, CancelCheck, Canceling
  <2>6. UNCHANGED <<evque, valque, putix, getix, nDuplicates, nCanceled, chain,
                   pending, user_sub, callBackInProgress, enabled,
                   pSuicideEvent, flowCtrlMode, sems, queovr, pendexit, tpc,
                   tque, event, fl, posting, val>>
    BY <1>t, <1>u, <1>v, <1>w, <1>x, <1>y, <1>14 DEF CancelCheck
  <2>r. \/ UNCHANGED <<quota, ev_que, byValue, sent, seen, live>>
        \/ /\ quota' = [quota EXCEPT ![ev_que[cev[c]]] = @ - EVENTENTRIES]
           /\ ev_que' = [ev_que EXCEPT ![cev[c]] = NoQueue]
           /\ byValue' = [byValue EXCEPT ![cev[c]] = FALSE]
           /\ sent' = [sent EXCEPT ![cev[c]] = 0]
           /\ seen' = [seen EXCEPT ![cev[c]] = 0]
           /\ live' \in {FALSE, live}
    BY <1>14 DEF CancelCheck, Release
  <2>7. /\ ev_que' \in [Events -> Queues \cup {NoQueue}] /\ byValue' \in [Events -> BOOLEAN]
        /\ live' \in BOOLEAN
    BY <1>v, <2>1, <2>r
  <2>q. quota' \in [Queues -> Int]
    <3>. DEFINE q == ev_que[cev[c]]
    <3>1. q \in Queues /\ quota[q] - EVENTENTRIES \in Int
      BY <1>u, <1>y, <2>1
    <3>2. quota' = quota \/ quota' = [quota EXCEPT ![q] = quota[q] - EVENTENTRIES]
      BY <2>r
    <3>. QED BY <1>u, <3>1, <3>2
  <2>8. /\ sent' \in [Events -> 0..MaxVal] /\ seen' \in [Events -> 0..MaxVal]
    BY <1>x, <2>1, <2>r
  <2>9. /\ cpc' \in [Callers -> CallLabels] /\ cev' \in [Callers -> Events \cup {NoEvent}]
        /\ cque' \in [Callers -> Queues \cup {NoQueue}]
    BY <1>w, <1>y, <1>14 DEF CancelCheck, Release, Finish
  <2>. QED BY <1>y, <2>6, <2>7, <2>8, <2>9, <2>q DEF Inv, Types, Counters
<1>15. ASSUME NEW c \in Callers, CallerSignal(c)
       PROVE  Types' /\ Counters'
  BY <1>y, <1>15 DEF Inv, Types, Counters, CallerSignal, Finish
<1>16. ASSUME PostEvents
       PROVE  Types' /\ Counters'
  <2>1. val' \in 1..MaxVal
    BY <1>x, <1>y, <1>16 DEF PostEvents
  <2>2. poster' = Scan /\ todo' \subseteq Events
    BY <1>16 DEF PostEvents
  <2>. QED BY <1>16, <2>1, <2>2 DEF Inv, Types, Counters, PostEvents
<1>17. ASSUME NEW e \in Events, PostIgnored(e)
       PROVE  Types' /\ Counters'
  <2>1. sent' \in [Events -> 0..MaxVal] /\ todo' \subseteq Events
    BY <1>x, <1>y, <1>17 DEF PostIgnored, Posting
  <2>. QED BY <1>y, <1>17, <2>1 DEF Inv, Types, Counters, PostIgnored, Posting
<1>18. ASSUME NEW e \in Events, PostReplace(e)
       PROVE  Types' /\ Counters'
  <2>1. sent' \in [Events -> 0..MaxVal] /\ todo' \subseteq Events
    BY <1>x, <1>y, <1>18 DEF PostReplace, Posting
  <2>2. ev_que[e] \in Queues
    BY <1>v, <1>y, <1>18, PostFacts DEF Inv, PostReplace, Posting
  <2>3. valque' \in [Queues -> [Slots -> 0..MaxVal]]
    <3>1. valque[ev_que[e]] \in [Slots -> 0..MaxVal] /\ val \in 0..MaxVal
      BY <1>t, <1>v, <1>x, <1>y, <2>2
    <3>2. [valque[ev_que[e]] EXCEPT ![pLastLog[e]] = val] \in [Slots -> 0..MaxVal]
      BY <1>t, <1>v, <1>x, <1>y, <3>1
    <3>. QED BY <1>y, <1>18, <2>2, <3>2 DEF Inv, Types, Counters, PostReplace
  <2>. QED BY <1>y, <1>18, <2>1, <2>3 DEF Inv, Types, Counters, PostReplace, Posting
<1>19. ASSUME NEW e \in Events, PostPush(e)
       PROVE  Types' /\ Counters'
  <2>1. sent' \in [Events -> 0..MaxVal] /\ todo' \subseteq Events
    BY <1>x, <1>y, <1>19 DEF PostPush, Posting
  <2>2. ev_que[e] \in Queues /\ putix[ev_que[e]] \in Slots
    BY <1>t, <1>v, <1>y, <1>19, PostFacts DEF Inv, PostPush, Posting
  <2>3. evque' \in [Queues -> [Slots -> Events \cup {NoEvent, CanceledEvent}]]
    BY <1>t, <1>y, <1>19, <2>2 DEF PostPush
  <2>4. valque' \in [Queues -> [Slots -> 0..MaxVal]]
    BY <1>t, <1>x, <1>19, <2>2 DEF PostPush
  <2>5. pLastLog' \in [Events -> Slots \cup {NoSlot}]
    BY <1>v, <1>y, <1>19, <2>2 DEF PostPush, LastLog
  <2>6. nDuplicates' \in [Queues -> Int] /\ npend' \in [Events -> Int]
    BY <1>u, <1>y, <1>19, <2>2 DEF PostPush
  <2>7. putix' \in [Queues -> Slots]
    BY <1>t, <1>z, <1>19, <2>2 DEF PostPush
  <2>8. wake' \in BOOLEAN /\ queovr' = queovr
    BY <1>y, <1>19 DEF PostPush, WasEmpty
  <2>9. UNCHANGED <<quota, nCanceled, getix, chain, blocks, pSuicideEvent,
                    flowCtrlMode, sems, pendexit, task, calls, poster, val, seen>>
    BY <1>t, <1>u, <1>v, <1>x, <1>y, <1>19 DEF PostPush, Posting
  <2>. QED BY <1>y, <2>1, <2>3, <2>4, <2>5, <2>6, <2>7, <2>8, <2>9 DEF Inv, Types, Counters
<1>20. ASSUME NEW e \in Events, PostOverflow(e)
       PROVE  Types' /\ Counters'
  BY <1>y, <1>20 DEF Inv, Types, Counters, PostOverflow, Posting
<1>21. ASSUME PostSignal \/ PostDone
       PROVE  Types' /\ Counters'
  BY <1>y, <1>21 DEF Inv, Types, Counters, PostSignal, PostDone
<1>22. ASSUME TaskWake \/ ReadEnter \/ ReadEnd \/ PassDone
       PROVE  Types' /\ Counters'
  BY <1>y, <1>22 DEF Inv, Types, Counters, TaskWake, ReadEnter, ReadEnd, PassDone, NextQueue
<1>23. ASSUME ReadCanceled
       PROVE  Types' /\ Counters'
  <2>1. /\ evque' = [evque EXCEPT ![tque][getix[tque]] = NoEvent]
        /\ valque' = [valque EXCEPT ![tque][getix[tque]] = 0]
        /\ getix' = [getix EXCEPT ![tque] = RNGINC(@)]
    BY <1>t, <1>w, <1>y, <1>23 DEF ReadCanceled, TakeSlot
  <2>2. evque' \in [Queues -> [Slots -> Events \cup {NoEvent, CanceledEvent}]]
    BY <1>t, <1>y, <2>1
  <2>3. valque' \in [Queues -> [Slots -> 0..MaxVal]]
    <3>1. 0 \in 0..MaxVal
      BY <1>x
    <3>. QED BY <1>y, <2>1, <3>1 DEF Inv, Types, Counters
  <2>4. getix' \in [Queues -> Slots]
    BY <1>t, <1>w, <1>z, <2>1
  <2>5. nCanceled' \in [Queues -> Int]
    BY <1>u, <1>w, <1>23 DEF ReadCanceled
  <2>. QED BY <1>y, <1>23, <2>2, <2>3, <2>4, <2>5 DEF Inv, Types, Counters, ReadCanceled
<1>24. ASSUME ReadTake
       PROVE  Types' /\ Counters'
  <2>1. /\ evque' = [evque EXCEPT ![tque][getix[tque]] = NoEvent]
        /\ valque' = [valque EXCEPT ![tque][getix[tque]] = 0]
        /\ getix' = [getix EXCEPT ![tque] = RNGINC(@)]
    BY <1>t, <1>w, <1>y, <1>24 DEF ReadTake, TakeSlot
  <2>2. evque' \in [Queues -> [Slots -> Events \cup {NoEvent, CanceledEvent}]]
    BY <1>t, <1>y, <2>1
  <2>3. valque' \in [Queues -> [Slots -> 0..MaxVal]]
    <3>1. 0 \in 0..MaxVal
      BY <1>x
    <3>. QED BY <1>y, <2>1, <3>1 DEF Inv, Types, Counters
  <2>4. getix' \in [Queues -> Slots]
    BY <1>t, <1>w, <1>z, <2>1
  <2>5. AtSlot \in Events
    BY <1>y, <1>24 DEF ReadTake
  <2>6. npend' \in [Events -> Int] /\ pLastLog' \in [Events -> Slots \cup {NoSlot}]
        /\ nDuplicates' \in [Queues -> Int]
    BY <1>u, <1>v, <1>w, <1>24, <2>5 DEF ReadTake, Removed
  <2>7. event' \in Events /\ fl' \in 0..MaxVal
    <3>1. valque[tque][getix[tque]] \in 0..MaxVal
      BY <1>t, <1>w
    <3>. QED BY <1>24, <2>5, <3>1 DEF ReadTake
  <2>8. callBackInProgress' \in [Events -> BOOLEAN] /\ tpc' \in TaskLabels /\ live' \in BOOLEAN
    BY <1>v, <1>w, <1>y, <1>24, <2>5 DEF ReadTake
  <2>9. UNCHANGED <<putix, quota, nCanceled, chain, ev_que, user_sub, byValue,
                    enabled, pSuicideEvent, flowCtrlMode, sems, queovr,
                    pendexit, tque, calls, posting, values>>
    BY <1>t, <1>u, <1>v, <1>w, <1>y, <1>24 DEF ReadTake
  <2>. QED BY <1>y, <2>2, <2>3, <2>4, <2>6, <2>7, <2>8, <2>9 DEF Inv, Types, Counters
<1>25. ASSUME Call \/ CallReturns
       PROVE  Types' /\ Counters'
  <2>1. CASE Call
    <3>1. event \in Events
      BY <1>w, <1>y, <2>1 DEF Inv, Call, InCallback
    <3>2. seen' \in [Events -> 0..MaxVal]
      BY <1>x, <1>y, <2>1, <3>1 DEF Call
    <3>. QED BY <1>x, <2>1, <3>2 DEF Inv, Types, Counters, Call
  <2>2. CASE CallReturns
    <3>1. event \in Events
      BY <1>w, <1>y, <2>2 DEF Inv, CallReturns, InCallback
    <3>2. callBackInProgress' \in [Events -> BOOLEAN]
      BY <1>v, <1>y, <2>2, <3>1 DEF CallReturns
    <3>3. pflush_sem' \in BOOLEAN
      BY <1>v, <2>2 DEF CallReturns, CallReturnsFlush
    <3>4. pSuicideEvent' \in Events \cup {NoEvent} /\ tpc' \in TaskLabels
      BY <1>v, <1>w, <1>y, <2>2 DEF CallReturns
    <3>. QED BY <1>y, <2>2, <3>2, <3>3, <3>4 DEF Inv, Types, Counters, CallReturns
  <2>. QED BY <1>y, <1>25, <2>1, <2>2 DEF Inv, Types, Counters
<1>26. ASSUME UNCHANGED vars
       PROVE  Types' /\ Counters'
  BY <1>y, <1>26 DEF Inv, Types, Counters, vars
<1>. QED BY <1>y, <1>1, <1>2, <1>3, <1>4, <1>5, <1>6, <1>7, <1>8, <1>9, <1>10, <1>11, <1>12, <1>13,
            <1>14, <1>15, <1>16, <1>17, <1>18, <1>19, <1>20, <1>21, <1>22, <1>23, <1>24, <1>25, <1>26
         DEF Next, CallerNext, AddNext, CancelNext, PostNext, TaskNext

\* Every step keeps each block with the one caller that adds or cancels it.
LEMMA CallsStep ==
    ASSUME Inv, [Next]_vars
    PROVE  CallsOwn'
<1>. USE DEF chain, pending, blocks, sems, task, calls, posting, values, Goto, CallsOwn, CallerOwns, PostOwned, BlockKept, Adding, Canceling
<1>0. CallsOwn
  BY DEF Inv
<1>t. /\ ev_que \in [Events -> Queues \cup {NoQueue}]
      /\ enabled \in [Events -> BOOLEAN] /\ npend \in [Events -> Int]
      /\ user_sub \in [Events -> BOOLEAN]
      /\ cpc \in [Callers -> CallLabels] /\ cev \in [Callers -> Events \cup {NoEvent}]
      /\ cque \in [Callers -> Queues \cup {NoQueue}]
      /\ sent \in [Events -> 0..MaxVal] /\ seen \in [Events -> 0..MaxVal]
      /\ todo \subseteq Events /\ NoEvent \notin Events /\ NoQueue \notin Queues /\ 1 \in Queues
  BY Sizes, DbEventAssumption DEF Inv, Types, Counters
<1>u. Scan \notin Callers /\ NoThread \notin Callers /\ NoThread # Scan
  BY DbEventAssumption
<1>v. \A c \in Callers : cpc[c] \notin {"idle", "signal"} => cev[c] \in Events
  BY <1>0, <1>t
<1>1. ASSUME NEW c \in Callers, AddEvent(c)
      PROVE  CallsOwn'
  BY <1>0, <1>t, <1>u, <1>v, <1>1 DEF AddEvent, Free
<1>2. ASSUME NEW c \in Callers, CancelEvent(c)
      PROVE  CallsOwn'
  BY <1>0, <1>t, <1>u, <1>v, <1>2 DEF CancelEvent, Free, ListFree
<1>3. ASSUME NEW c \in Callers, FlowCtrl(c)
      PROVE  CallsOwn'
  BY <1>0, <1>t, <1>u, <1>v, <1>3 DEF FlowCtrl, Free
<1>4. ASSUME NEW c \in Callers, CloseEvents(c)
      PROVE  CallsOwn'
  BY <1>0, <1>t, <1>u, <1>v, <1>4 DEF CloseEvents, Closing, Free
<1>5. ASSUME NEW c \in Callers, AddFind(c)
      PROVE  CallsOwn'
  BY <1>0, <1>t, <1>u, <1>v, <1>5 DEF AddFind, Install
<1>6. ASSUME NEW c \in Callers, AddQueue(c)
      PROVE  CallsOwn'
  BY <1>0, <1>t, <1>u, <1>v, <1>6 DEF AddQueue, Install
<1>7. ASSUME NEW c \in Callers, AddFails(c)
      PROVE  CallsOwn'
  BY <1>0, <1>t, <1>u, <1>v, <1>7 DEF AddFails, Finish
<1>8. ASSUME NEW c \in Callers, AddChain(c)
      PROVE  CallsOwn'
  BY <1>0, <1>t, <1>u, <1>v, <1>8 DEF AddChain
<1>9. ASSUME NEW c \in Callers, AddQuota(c)
      PROVE  CallsOwn'
  BY <1>0, <1>t, <1>u, <1>v, <1>9 DEF AddQuota
<1>10. ASSUME NEW c \in Callers, PostFirst(c)
       PROVE  CallsOwn'
  BY <1>0, <1>t, <1>u, <1>v, <1>10 DEF PostFirst, queues
<1>11. ASSUME NEW c \in Callers, EnableEvent(c)
       PROVE  CallsOwn'
  BY <1>0, <1>t, <1>u, <1>v, <1>11 DEF EnableEvent, Finish
<1>12. ASSUME NEW c \in Callers, CancelPurge(c)
       PROVE  CallsOwn'
  <2>. DEFINE e == cev[c]
  <2>1. e \in Events /\ ev_que[e] \in Queues /\ cpc[c] = "cancel" /\ ~enabled[e] /\ cpc[c] \in Canceling
    BY <1>0, <1>t, <1>v, <1>12 DEF CancelPurge
  <2>2. e \notin todo
    BY <1>0, <1>u, <2>1
  <2>3. /\ UNCHANGED <<enabled, poster, todo, wake, tpc>>
        /\ npend' = [npend EXCEPT ![e] = 0] /\ user_sub' = [user_sub EXCEPT ![e] = FALSE]
    BY <1>12 DEF CancelPurge
  <2>4. CASE /\ cpc' = [cpc EXCEPT ![c] = "cancel_wait"] /\ c # Task
             /\ UNCHANGED <<ev_que, sent, seen, cev, cque>>
    <3>1. ASSUME NEW d \in Callers
          PROVE  CallerOwns(d)'
      BY <1>0, <1>t, <1>v, <2>1, <2>3, <2>4
    <3>2. \A x \in Events : BlockKept(x)'
      BY <1>0, <1>t, <2>1, <2>3, <2>4
    <3>. QED BY <1>0, <2>3, <2>4, <3>1, <3>2
  <2>5. CASE /\ ev_que' = [ev_que EXCEPT ![e] = NoQueue]
             /\ sent' = [sent EXCEPT ![e] = 0] /\ seen' = [seen EXCEPT ![e] = 0]
             /\ cpc' = [cpc EXCEPT ![c] = "idle"] /\ cev' = [cev EXCEPT ![c] = NoEvent]
             /\ cque' = [cque EXCEPT ![c] = NoQueue] /\ npend'[e] = 0
    <3>1. ASSUME NEW d \in Callers
          PROVE  CallerOwns(d)'
      <4>1. d # c => cev[d] # e
        BY <1>0, <1>t, <2>1
      <4>. QED BY <1>0, <1>t, <1>v, <2>1, <2>3, <2>5, <4>1
    <3>2. \A x \in Events : BlockKept(x)'
      BY <1>0, <1>t, <2>1, <2>3, <2>5
    <3>3. \A x \in todo : PostOwned(x)'
      BY <1>0, <1>t, <1>u, <2>1, <2>2, <2>3, <2>5
    <3>4. \A b, d \in Callers : cev'[b] = cev'[d] /\ cev'[b] # NoEvent => b = d
      BY <1>0, <1>t, <2>5
    <3>. QED BY <1>0, <2>3, <3>1, <3>2, <3>3, <3>4
  <2>. QED BY <1>12, <1>t, <2>1, <2>3, <2>4, <2>5 DEF CancelPurge, Release, Finish, MustWait
<1>13. ASSUME NEW c \in Callers, CancelWait(c)
       PROVE  CallsOwn'
  BY <1>0, <1>t, <1>u, <1>v, <1>13 DEF CancelWait
<1>14. ASSUME NEW c \in Callers, CancelCheck(c)
       PROVE  CallsOwn'
  <2>. DEFINE e == cev[c]
  <2>1. e \in Events /\ ev_que[e] \in Queues /\ cpc[c] = "cancel_check" /\ ~enabled[e] /\ cpc[c] \in Canceling
    BY <1>0, <1>t, <1>v, <1>14 DEF CancelCheck
  <2>2. e \notin todo
    BY <1>0, <1>u, <2>1
  <2>3. /\ UNCHANGED <<enabled, poster, todo, wake, tpc>>
        /\ npend' = npend /\ user_sub' = user_sub
    BY <1>14 DEF CancelCheck
  <2>4. CASE /\ cpc' = [cpc EXCEPT ![c] = "cancel_wait"] /\ c # Task
             /\ UNCHANGED <<ev_que, sent, seen, cev, cque>>
    <3>1. ASSUME NEW d \in Callers
          PROVE  CallerOwns(d)'
      BY <1>0, <1>t, <1>v, <2>1, <2>3, <2>4
    <3>2. \A x \in Events : BlockKept(x)'
      BY <1>0, <1>t, <2>1, <2>3, <2>4
    <3>. QED BY <1>0, <2>3, <2>4, <3>1, <3>2
  <2>5. CASE /\ ev_que' = [ev_que EXCEPT ![e] = NoQueue]
             /\ sent' = [sent EXCEPT ![e] = 0] /\ seen' = [seen EXCEPT ![e] = 0]
             /\ cpc' = [cpc EXCEPT ![c] = "idle"] /\ cev' = [cev EXCEPT ![c] = NoEvent]
             /\ cque' = [cque EXCEPT ![c] = NoQueue] /\ npend'[e] = 0
    <3>1. ASSUME NEW d \in Callers
          PROVE  CallerOwns(d)'
      <4>1. d # c => cev[d] # e
        BY <1>0, <1>t, <2>1
      <4>. QED BY <1>0, <1>t, <1>v, <2>1, <2>3, <2>5, <4>1
    <3>2. \A x \in Events : BlockKept(x)'
      BY <1>0, <1>t, <2>1, <2>3, <2>5
    <3>3. \A x \in todo : PostOwned(x)'
      BY <1>0, <1>t, <1>u, <2>1, <2>2, <2>3, <2>5
    <3>4. \A b, d \in Callers : cev'[b] = cev'[d] /\ cev'[b] # NoEvent => b = d
      BY <1>0, <1>t, <2>5
    <3>. QED BY <1>0, <2>3, <3>1, <3>2, <3>3, <3>4
  <2>6. npend[e] = 0 /\ c # Task
    BY <1>0, <2>1
  <2>. QED BY <1>14, <1>t, <2>1, <2>3, <2>4, <2>5, <2>6 DEF CancelCheck, Release, Finish
<1>15. ASSUME NEW c \in Callers, CallerSignal(c)
       PROVE  CallsOwn'
  BY <1>0, <1>t, <1>u, <1>v, <1>15 DEF CallerSignal, Finish
<1>16. ASSUME PostEvents
       PROVE  CallsOwn'
  BY <1>0, <1>t, <1>u, <1>v, <1>16 DEF PostEvents
<1>17. ASSUME NEW e \in Events, PostIgnored(e)
       PROVE  CallsOwn'
  BY <1>0, <1>t, <1>u, <1>v, <1>17 DEF PostIgnored, Posting
<1>18. ASSUME NEW e \in Events, PostReplace(e)
       PROVE  CallsOwn'
  BY <1>0, <1>t, <1>u, <1>v, <1>18 DEF PostReplace, Posting
<1>19. ASSUME NEW e \in Events, PostPush(e)
       PROVE  CallsOwn'
  BY <1>0, <1>t, <1>u, <1>v, <1>19 DEF PostPush, Posting
<1>20. ASSUME NEW e \in Events, PostOverflow(e)
       PROVE  CallsOwn'
  BY <1>0, <1>t, <1>u, <1>v, <1>20 DEF PostOverflow, Posting
<1>21. ASSUME PostSignal
       PROVE  CallsOwn'
  BY <1>0, <1>t, <1>u, <1>v, <1>21 DEF PostSignal
<1>22. ASSUME PostDone
       PROVE  CallsOwn'
  BY <1>0, <1>t, <1>u, <1>v, <1>22 DEF PostDone
<1>23. ASSUME TaskWake \/ ReadEnter \/ ReadEnd \/ PassDone
       PROVE  CallsOwn'
  BY <1>0, <1>t, <1>u, <1>v, <1>23 DEF TaskWake, ReadEnter, ReadEnd, PassDone, NextQueue
<1>24. ASSUME ReadCanceled
       PROVE  CallsOwn'
  BY <1>0, <1>t, <1>u, <1>v, <1>24 DEF ReadCanceled
<1>25. ASSUME ReadTake
       PROVE  CallsOwn'
  <2>1. AtSlot \in Events /\ ev_que[AtSlot] = tque /\ npend[AtSlot] > 0 /\ tque \in Queues
    <3>1. tque \in Queues /\ getix[tque] \in Slots
      BY DEF Inv, Types
    <3>. QED BY <1>25, <3>1, EntryFacts DEF ReadTake, AtSlot, Inv
  <2>. QED BY <1>0, <1>t, <1>u, <1>v, <1>25, <2>1 DEF ReadTake, Removed
<1>26. ASSUME Call
       PROVE  CallsOwn'
  BY <1>0, <1>t, <1>u, <1>v, <1>26 DEF Call, Inv, InCallback
<1>27. ASSUME CallReturns
       PROVE  CallsOwn'
  BY <1>0, <1>t, <1>u, <1>v, <1>27 DEF CallReturns
<1>28. ASSUME UNCHANGED vars
       PROVE  CallsOwn'
  BY <1>0, <1>t, <1>u, <1>v, <1>28 DEF vars
<1>. QED BY <1>1, <1>2, <1>3, <1>4, <1>5, <1>6, <1>7, <1>8, <1>9, <1>10, <1>11, <1>12, <1>13,
            <1>14, <1>15, <1>16, <1>17, <1>18, <1>19, <1>20, <1>21, <1>22, <1>23, <1>24, <1>25, <1>26, <1>27, <1>28
         DEF Next, CallerNext, AddNext, CancelNext, PostNext, TaskNext

\* Every step leaves the subscription called back marked, and not free.
LEMMA InCallbackStep ==
    ASSUME Inv, [Next]_vars
    PROVE  InCallback'
<1>. USE DEF chain, pending, blocks, sems, task, calls, posting, values, Goto, InCallback
<1>0. InCallback
  BY DEF Inv
<1>t. /\ ev_que \in [Events -> Queues \cup {NoQueue}]
      /\ callBackInProgress \in [Events -> BOOLEAN]
      /\ cev \in [Callers -> Events \cup {NoEvent}]
      /\ event \in Events \cup {NoEvent}
      /\ NoEvent \notin Events /\ NoQueue \notin Queues /\ 1 \in Queues
  BY Sizes, DbEventAssumption DEF Inv, Types, Counters
<1>1. ASSUME NEW c \in Callers, AddEvent(c)
      PROVE  InCallback'
  BY <1>0, <1>t, <1>1 DEF AddEvent
<1>2. ASSUME NEW c \in Callers, CancelEvent(c) \/ FlowCtrl(c) \/ CloseEvents(c)
      PROVE  InCallback'
  BY <1>0, <1>2 DEF CancelEvent, FlowCtrl, CloseEvents
<1>3. ASSUME NEW c \in Callers, AddFind(c) \/ AddQueue(c)
      PROVE  InCallback'
  <2>1. ev_que' = ev_que \/ \E q \in Queues : ev_que' = [ev_que EXCEPT ![cev[c]] = q]
    <3>1. cpc[c] = "walk" => cque[c] \in Queues
      BY CallFacts DEF Inv
    <3>. QED BY <1>3, <3>1 DEF AddFind, AddQueue, Install
  <2>2. UNCHANGED <<tpc, event, live, callBackInProgress>>
    BY <1>3 DEF AddFind, AddQueue
  <2>. QED BY <1>0, <1>t, <2>1, <2>2
<1>4. ASSUME NEW c \in Callers, AddFails(c) \/ AddChain(c) \/ AddQuota(c) \/ PostFirst(c) \/ EnableEvent(c)
                                \/ CancelWait(c) \/ CallerSignal(c)
      PROVE  InCallback'
  BY <1>0, <1>4 DEF AddFails, AddChain, AddQuota, PostFirst, EnableEvent, CancelWait, CallerSignal
<1>5. ASSUME NEW c \in Callers, CancelPurge(c) \/ CancelCheck(c)
      PROVE  InCallback'
  <2>1. cev[c] \in Events /\ cpc[c] \in {"cancel", "cancel_check"}
    <3>1. cpc[c] \in {"cancel", "cancel_check"}
      BY <1>5 DEF CancelPurge, CancelCheck
    <3>. QED BY <3>1, CallFacts DEF Inv
  <2>2. UNCHANGED <<tpc, event, callBackInProgress>>
    BY <1>5 DEF CancelPurge, CancelCheck
  <2>3. CASE UNCHANGED <<ev_que, live>>
    BY <1>0, <2>2, <2>3
  <2>4. CASE /\ ~callBackInProgress[cev[c]] \/ tpc # "call"
             /\ ev_que' = [ev_que EXCEPT ![cev[c]] = NoQueue]
             /\ live' = IF cev[c] = event THEN FALSE ELSE live
    BY <1>0, <1>t, <2>1, <2>2, <2>4
  <2>5. c = Task => tpc = "callback"
    BY <2>1 DEF Inv, CallsOwn, CallerOwns
  <2>. QED BY <1>5, <2>3, <2>4, <2>5 DEF CancelPurge, CancelCheck, Release, MustWait
<1>6. ASSUME PostEvents \/ PostSignal \/ PostDone
      PROVE  InCallback'
  BY <1>0, <1>6 DEF PostEvents, PostSignal, PostDone
<1>7. ASSUME NEW e \in Events, PostIgnored(e) \/ PostReplace(e) \/ PostPush(e) \/ PostOverflow(e)
      PROVE  InCallback'
  BY <1>0, <1>7 DEF PostIgnored, PostReplace, PostPush, PostOverflow, Posting
<1>8. ASSUME TaskWake \/ ReadEnter \/ ReadEnd \/ PassDone \/ ReadCanceled \/ CallReturns
      PROVE  InCallback'
  BY <1>0, <1>8 DEF TaskWake, ReadEnter, ReadEnd, PassDone, NextQueue, ReadCanceled, CallReturns
<1>9. ASSUME ReadTake
      PROVE  InCallback'
  <2>1. AtSlot \in Events /\ ev_que[AtSlot] = tque /\ tque \in Queues
    <3>1. tque \in Queues /\ getix[tque] \in Slots
      BY DEF Inv, Types
    <3>. QED BY <1>9, <3>1, EntryFacts DEF ReadTake, AtSlot, Inv
  <2>. QED BY <1>0, <1>t, <1>9, <2>1 DEF ReadTake
<1>10. ASSUME Call
       PROVE  InCallback'
  BY <1>0, <1>10 DEF Call
<1>11. ASSUME UNCHANGED vars
       PROVE  InCallback'
  BY <1>0, <1>11 DEF vars
<1>. QED BY <1>1, <1>2, <1>3, <1>4, <1>5, <1>6, <1>7, <1>8, <1>9, <1>10, <1>11
         DEF Next, CallerNext, AddNext, CancelNext, PostNext, TaskNext

-----------------------------------------------------------------------------
(* Steps that change rings *)

\* A step that leaves rings, and the blocks that have entries, alone.
LEMMA RowsFrame ==
    ASSUME Inv, UNCHANGED <<evque, putix, getix, nDuplicates, nCanceled, npend>>,
           \A e \in Events : ev_que'[e] # ev_que[e] => npend[e] = 0
    PROVE  Rows'
<1>. SUFFICES ASSUME NEW q \in Queues
              PROVE  RowCounted(q)'
  BY DEF Rows
<1>1. RowCounted(q)
  BY DEF Inv, Rows
<1>. QED BY <1>1 DEF RowCounted

\* Other rings than that of queue q stay; so do the numbers of entries of
\* other events than e.
LEMMA RowsOther ==
    ASSUME Inv, Types', NEW q \in Queues, NEW e \in Events, ev_que[e] = q,
           \A r \in Queues \ {q} :
                /\ evque'[r] = evque[r] /\ putix'[r] = putix[r] /\ getix'[r] = getix[r]
                /\ nDuplicates'[r] = nDuplicates[r] /\ nCanceled'[r] = nCanceled[r],
           \A d \in Events \ {e} : npend'[d] = npend[d] /\ ev_que'[d] = ev_que[d],
           ev_que'[e] = q \/ npend'[e] = 0,
           RowCounted(q)'
    PROVE  Rows'
<1>. SUFFICES ASSUME NEW r \in Queues, r # q
              PROVE  RowCounted(r)'
  BY DEF Rows
<1>1. RowCounted(r)
  BY DEF Inv, Rows
<1>2. Cardinality(RowEntries(evque[r], e)) = 0
  BY <1>1 DEF RowCounted
<1>. QED BY <1>1, <1>2 DEF RowCounted

\* A step that leaves rings, and the blocks that have entries, alone.
LEMMA RingFrame ==
    ASSUME Inv, UNCHANGED <<evque, putix, getix, nDuplicates, nCanceled, npend, pLastLog>>,
           \A e \in Events : npend[e] # 0 => ev_que'[e] = ev_que[e] /\ byValue'[e] = byValue[e]
    PROVE  Rows' /\ LastLogs'
<1>1. Rows'
  <2>1. \A e \in Events : ev_que'[e] # ev_que[e] => npend[e] = 0
    OBVIOUS
  <2>. QED BY <2>1, RowsFrame
<1>2. ASSUME NEW e \in Events, byValue'[e], npend'[e] > 0
      PROVE  LastLogOf(e, ev_que[e])'
  <2>1. npend[e] > 0 /\ npend[e] # 0
    BY <1>2
  <2>2. byValue[e] /\ ev_que'[e] = ev_que[e]
    BY <1>2, <2>1
  <2>3. LastLogOf(e, ev_que[e])
    BY <2>1, <2>2 DEF Inv, LastLogs
  <2>. QED BY <2>2, <2>3 DEF LastLogOf
<1>. QED BY <1>1, <1>2 DEF LastLogs

\* An entry is added.
LEMMA RowsPush ==
    ASSUME Inv, Types', Counters', NEW e \in Events, PostPush(e)
    PROVE  Rows' /\ LastLogs'
<1>q. PICK q \in Queues : q = ev_que[e]
  <2>1. ev_que[e] \in Queues
    BY PostFacts DEF Inv, PostPush, Posting
  <2>. QED BY <2>1
<1>i. PICK i \in Slots : i = putix[q]
  BY <1>q DEF Inv, Types
<1>row. PICK row : row = evque[q]
  OBVIOUS
<1>new. PICK new : new = [row EXCEPT ![i] = e]
  OBVIOUS
<1>. USE <1>q, <1>i, <1>row, <1>new
<1>. USE DEF chain, pending, blocks, sems, task, calls, posting, values
<1>1. /\ q \in Queues /\ i \in Slots /\ getix[q] \in Slots
      /\ row \in [Slots -> X] /\ row[i] = NoEvent
  BY DEF Inv, Types, PostPush, SlotFree, X
<1>2. /\ evque \in [Queues -> [Slots -> X]] /\ npend \in [Events -> Int]
      /\ nDuplicates \in [Queues -> Int] /\ putix \in [Queues -> Slots]
      /\ pLastLog \in [Events -> Slots \cup {NoSlot}]
  BY DEF Inv, Types, Counters, X
<1>3. /\ evque' = [evque EXCEPT ![q][i] = e]
      /\ npend' = [npend EXCEPT ![e] = @ + 1]
      /\ putix' = [putix EXCEPT ![q] = RNGINC(i)]
      /\ nDuplicates' = [nDuplicates EXCEPT ![q] = IF npend[e] > 0 THEN @ + 1 ELSE @]
      /\ pLastLog' = [pLastLog EXCEPT ![e] = LastLog(e, i)]
      /\ UNCHANGED <<getix, nCanceled, ev_que, byValue>>
  BY DEF PostPush, Posting
<1>4. evque'[q] = new /\ \A r \in Queues \ {q} : evque'[r] = evque[r]
  BY <1>1, <1>2, <1>3
<1>5. RowCounted(q)
  BY <1>1 DEF Inv, Rows
<1>6. e # NoEvent /\ e # CanceledEvent /\ CanceledEvent # NoEvent
      /\ \A d \in Events : d # NoEvent
  BY DbEventAssumption
<1>7. /\ RowEntries(new, e) = RowEntries(row, e) \cup {i}
      /\ Cardinality(RowEntries(new, e)) = Cardinality(RowEntries(row, e)) + 1
      /\ \A x : x \notin {e, NoEvent} => RowEntries(new, x) = RowEntries(row, x)
      /\ RowDuplicates(new) = IF Cardinality(RowEntries(row, e)) > 0
                              THEN RowDuplicates(row) + 1 ELSE RowDuplicates(row)
  BY <1>1, RowPut
<1>8. /\ RowFull(new, RNGINC(i), getix[q])
      /\ RowContiguous(new, RNGINC(i), getix[q])
      /\ \A j \in Slots : row[j] # NoEvent => RowOffset(getix[q], j) < RowOffset(getix[q], i)
  <2>1. RowContiguous(row, i, getix[q])
    BY <1>5 DEF RowCounted
  <2>. QED BY <1>1, <1>6, <2>1, ContiguousPut
<1>9. npend[e] = Cardinality(RowEntries(row, e)) /\ npend'[e] = npend[e] + 1
  BY <1>2, <1>3, <1>5 DEF RowCounted
<1>10. putix'[q] = RNGINC(i) /\ getix'[q] = getix[q]
  BY <1>1, <1>2, <1>3
<1>11. nDuplicates'[q] = RowDuplicates(new)
  <2>1. nDuplicates[q] = RowDuplicates(row)
    BY <1>5 DEF RowCounted
  <2>2. nDuplicates'[q] = IF npend[e] > 0 THEN nDuplicates[q] + 1 ELSE nDuplicates[q]
    BY <1>1, <1>2, <1>3
  <2>. QED BY <1>7, <1>9, <2>1, <2>2
<1>12. RowCounted(q)'
  <2>1. nCanceled'[q] = Cardinality(RowEntries(new, CanceledEvent))
    BY <1>3, <1>5, <1>6, <1>7 DEF RowCounted
  <2>2. ASSUME NEW d \in Events
        PROVE  Cardinality(RowEntries(new, d)) = IF q = ev_que'[d] THEN npend'[d] ELSE 0
    <3>1. CASE d = e
      BY <1>3, <1>7, <1>9, <3>1
    <3>2. CASE d # e
      <4>1. npend'[d] = npend[d] /\ ev_que'[d] = ev_que[d]
        BY <1>2, <1>3, <3>2
      <4>2. RowEntries(new, d) = RowEntries(row, d)
        BY <1>6, <1>7, <3>2
      <4>. QED BY <1>5, <4>1, <4>2 DEF RowCounted
    <3>. QED BY <3>1, <3>2
  <2>. QED BY <1>4, <1>8, <1>10, <1>11, <2>1, <2>2 DEF RowCounted
<1>13. Rows'
  <2>1. \A r \in Queues \ {q} :
                /\ evque'[r] = evque[r] /\ putix'[r] = putix[r] /\ getix'[r] = getix[r]
                /\ nDuplicates'[r] = nDuplicates[r] /\ nCanceled'[r] = nCanceled[r]
    BY <1>1, <1>2, <1>3, <1>4
  <2>2. \A d \in Events \ {e} : npend'[d] = npend[d] /\ ev_que'[d] = ev_que[d]
    BY <1>2, <1>3
  <2>3. ev_que'[e] = q
    BY <1>3
  <2>. QED BY <1>1, <1>12, <2>1, <2>2, <2>3, RowsOther
<1>14. ASSUME NEW d \in Events, byValue'[d], npend'[d] > 0
       PROVE  LastLogOf(d, ev_que[d])'
  <2>1. CASE d = e
    <3>1. pLastLog'[e] = i
      BY <1>2, <1>3, <1>14, <2>1 DEF LastLog
    <3>2. new[i] = e
      BY <1>1
    <3>3. ASSUME NEW j \in RowEntries(new, e)
          PROVE  RowOffset(getix[q], j) <= RowOffset(getix[q], i)
      <4>1. j \in Slots
        BY DEF RowEntries
      <4>2. CASE j = i
        BY <1>1, <4>2, OffsetOf
      <4>3. CASE j # i
        <5>1. row[j] # NoEvent
          BY <1>6, <1>7, <4>3 DEF RowEntries
        <5>2. RowOffset(getix[q], j) \in Nat /\ RowOffset(getix[q], i) \in Nat
          BY <1>1, <4>1, OffsetOf
        <5>. QED BY <1>8, <4>1, <5>1, <5>2
      <4>. QED BY <4>2, <4>3
    <3>. QED BY <1>1, <1>3, <1>4, <1>10, <2>1, <3>1, <3>2, <3>3 DEF LastLogOf
  <2>2. CASE d # e
    <3>1. npend[d] > 0 /\ byValue[d] /\ pLastLog'[d] = pLastLog[d] /\ ev_que'[d] = ev_que[d]
      BY <1>2, <1>3, <1>14, <2>2
    <3>2. LastLogOf(d, ev_que[d])
      BY <3>1 DEF Inv, LastLogs
    <3>3. CASE ev_que[d] = q
      <4>1. pLastLog[d] # i
        BY <1>1, <1>6, <3>2, <3>3 DEF LastLogOf
      <4>2. RowEntries(new, d) = RowEntries(row, d)
        BY <1>6, <1>7, <2>2
      <4>3. new[pLastLog[d]] = d
        BY <1>1, <3>2, <3>3, <4>1 DEF LastLogOf
      <4>. QED BY <1>3, <1>4, <3>1, <3>2, <3>3, <4>2, <4>3 DEF LastLogOf
    <3>4. CASE ev_que[d] # q
      <4>1. evque'[ev_que[d]] = evque[ev_que[d]]
        BY <1>2, <1>3, <3>4
      <4>. QED BY <1>3, <3>1, <3>2, <4>1 DEF LastLogOf
    <3>. QED BY <3>3, <3>4
  <2>. QED BY <2>1, <2>2
<1>. QED BY <1>13, <1>14 DEF LastLogs

\* The entry at getix is taken: the last entries of the others stay, and so
\* does that of the event itself if it has another.
LEMMA LastLogsTake ==
    ASSUME Inv, Types', Rows', NEW q \in Queues, NEW g \in Slots, g = getix[q], NEW row, row = evque[q],
           row[g] # NoEvent, NEW new, new = [row EXCEPT ![g] = NoEvent],
           evque'[q] = new, getix'[q] = RNGINC(g),
           \A r \in Queues \ {q} : evque'[r] = evque[r] /\ getix'[r] = getix[r],
           UNCHANGED <<byValue, ev_que>>,
           \A d \in Events : npend'[d] > 0 => npend[d] > 0 /\ pLastLog'[d] = pLastLog[d]
    PROVE  LastLogs'
<1>1. row \in [Slots -> X] /\ putix[q] \in Slots /\ RowContiguous(row, putix[q], g) /\ RowFull(row, putix[q], g)
  BY DEF Inv, Types, Rows, RowCounted, X
<1>2. \A i \in Slots : i # g => RowOffset(RNGINC(g), i) = RowOffset(g, i) - 1
  BY <1>1, ContiguousTake
<1>3. \A j \in Slots : j # g => new[j] = row[j]
  BY <1>1
<1>n. NoEvent \notin Events /\ new[g] = NoEvent
  BY <1>1, DbEventAssumption
<1>. SUFFICES ASSUME NEW d \in Events, byValue'[d], npend'[d] > 0
              PROVE  LastLogOf(d, ev_que[d])'
  BY DEF LastLogs
<1>4. npend[d] > 0 /\ pLastLog'[d] = pLastLog[d] /\ byValue[d] /\ ev_que'[d] = ev_que[d]
  OBVIOUS
<1>5. LastLogOf(d, ev_que[d])
  BY <1>4 DEF Inv, LastLogs
<1>6. CASE ev_que[d] = q
  <2>. DEFINE L == pLastLog[d]
  <2>1. L \in Slots /\ row[L] = d /\ \A i \in RowEntries(row, d) : RowOffset(g, i) <= RowOffset(g, L)
    BY <1>5, <1>6 DEF LastLogOf
  <2>2. L # g
    <3>. SUFFICES ASSUME L = g PROVE FALSE
      OBVIOUS
    <3>1. ASSUME NEW i \in RowEntries(row, d) PROVE i = g
      <4>1. i \in Slots /\ RowOffset(g, i) <= 0
        BY <2>1, OffsetOf DEF RowEntries
      <4>2. RowOffset(g, i) \in Nat /\ RowOffset(g, g) = 0
        BY <4>1, OffsetOf
      <4>3. RowOffset(g, i) = RowOffset(g, g)
        BY <4>1, <4>2
      <4>. QED BY <4>1, <4>3, OffsetsDiffer
    <3>2. RowEntries(new, d) = {}
      BY <1>3, <1>n, <3>1 DEF RowEntries
    <3>3. Cardinality(RowEntries(new, d)) = npend'[d]
      BY <1>4, <1>6 DEF Rows, RowCounted
    <3>. QED BY <3>2, <3>3, RowFinite
  <2>3. new[L] = d
    BY <1>3, <2>1, <2>2
  <2>4. ASSUME NEW i \in RowEntries(new, d)
        PROVE  RowOffset(RNGINC(g), i) <= RowOffset(RNGINC(g), L)
    <3>1. i \in Slots /\ i # g /\ i \in RowEntries(row, d)
      BY <1>3, <1>n DEF RowEntries
    <3>2. RowOffset(RNGINC(g), i) = RowOffset(g, i) - 1 /\ RowOffset(RNGINC(g), L) = RowOffset(g, L) - 1
      BY <1>2, <2>1, <2>2, <3>1
    <3>3. RowOffset(g, i) <= RowOffset(g, L) /\ RowOffset(g, i) \in Nat /\ RowOffset(g, L) \in Nat
      BY <2>1, <3>1, OffsetOf
    <3>. QED BY <3>2, <3>3
  <2>. HIDE DEF L
  <2>. QED BY <1>4, <1>6, <2>1, <2>3, <2>4 DEF LastLogOf, L
<1>7. CASE ev_que[d] # q
  <2>1. d \in Events /\ ev_que[d] \in Queues
    <3>1. ev_que[d] # NoQueue
      BY <1>4 DEF Inv, CallsOwn, BlockKept
    <3>. QED BY <3>1 DEF Inv, Types
  <2>2. evque'[ev_que[d]] = evque[ev_que[d]] /\ getix'[ev_que[d]] = getix[ev_que[d]]
    BY <1>7, <2>1
  <2>. QED BY <1>4, <1>5, <2>2 DEF LastLogOf
<1>. QED BY <1>6, <1>7

\* A placeholder is taken out.
LEMMA RowsCanceled ==
    ASSUME Inv, Types', Counters', ReadCanceled
    PROVE  Rows' /\ LastLogs'
<1>q. PICK q \in Queues : q = tque
  BY DEF Inv, Types
<1>g. PICK g \in Slots : g = getix[q]
  BY DEF Inv, Types
<1>row. PICK row : row = evque[q]
  OBVIOUS
<1>new. PICK new : new = [row EXCEPT ![g] = NoEvent]
  OBVIOUS
<1>. USE <1>q, <1>g, <1>row, <1>new DEF chain, pending, blocks, task, calls
<1>1. row \in [Slots -> X] /\ row[g] = CanceledEvent /\ putix[q] \in Slots
  BY DEF Inv, Types, ReadCanceled, AtSlot, X
<1>2. /\ evque \in [Queues -> [Slots -> X]] /\ getix \in [Queues -> Slots]
      /\ nCanceled \in [Queues -> Int]
  BY DEF Inv, Types, Counters, X
<1>3. /\ evque' = [evque EXCEPT ![q][g] = NoEvent]
      /\ getix' = [getix EXCEPT ![q] = RNGINC(@)]
      /\ nCanceled' = [nCanceled EXCEPT ![q] = @ - 1]
      /\ UNCHANGED <<putix, nDuplicates, npend, pLastLog, ev_que, byValue>>
  BY DEF ReadCanceled, TakeSlot
<1>4. /\ evque'[q] = new /\ \A r \in Queues \ {q} : evque'[r] = evque[r]
      /\ getix'[q] = RNGINC(g) /\ \A r \in Queues \ {q} : getix'[r] = getix[r]
      /\ nCanceled'[q] = nCanceled[q] - 1 /\ \A r \in Queues \ {q} : nCanceled'[r] = nCanceled[r]
  BY <1>1, <1>2, <1>3
<1>5. RowCounted(q)
  BY DEF Inv, Rows
<1>6. CanceledEvent # NoEvent /\ NoEvent \notin Events /\ CanceledEvent \notin Events
  BY DbEventAssumption
<1>7. /\ Cardinality(RowEntries(new, CanceledEvent)) = Cardinality(RowEntries(row, CanceledEvent)) - 1
      /\ \A y : y \notin {CanceledEvent, NoEvent} => RowEntries(new, y) = RowEntries(row, y)
      /\ RowDuplicates(new) = RowDuplicates(row)
  BY <1>1, <1>6, RowTake
<1>8. /\ RowFull(new, putix[q], RNGINC(g))
      /\ RowContiguous(new, putix[q], RNGINC(g))
  <2>1. RowContiguous(row, putix[q], g) /\ RowFull(row, putix[q], g)
    BY <1>5 DEF RowCounted
  <2>. QED BY <1>1, <1>6, <2>1, ContiguousTake
<1>9. RowCounted(q)'
  <2>1. nCanceled'[q] = Cardinality(RowEntries(new, CanceledEvent))
    BY <1>4, <1>5, <1>7 DEF RowCounted
  <2>2. \A d \in Events : Cardinality(RowEntries(new, d)) = IF q = ev_que'[d] THEN npend'[d] ELSE 0
    BY <1>3, <1>5, <1>6, <1>7 DEF RowCounted
  <2>3. nDuplicates'[q] = RowDuplicates(new)
    BY <1>3, <1>5, <1>7 DEF RowCounted
  <2>. QED BY <1>3, <1>4, <1>8, <2>1, <2>2, <2>3 DEF RowCounted
<1>10. ASSUME NEW r \in Queues, r # q PROVE RowCounted(r)'
  <2>1. RowCounted(r)
    BY DEF Inv, Rows
  <2>2. evque'[r] = evque[r] /\ getix'[r] = getix[r] /\ nCanceled'[r] = nCanceled[r]
    BY <1>4, <1>10
  <2>. QED BY <1>3, <2>1, <2>2 DEF RowCounted
<1>11. Rows'
  BY <1>9, <1>10 DEF Rows
<1>12. LastLogs'
  <2>1. row[g] # NoEvent
    BY <1>1, <1>6
  <2>2. UNCHANGED <<byValue, ev_que>>
         /\ \A d \in Events : npend'[d] > 0 => npend[d] > 0 /\ pLastLog'[d] = pLastLog[d]
    BY <1>3
  <2>3. \A r \in Queues \ {q} : evque'[r] = evque[r] /\ getix'[r] = getix[r]
    BY <1>4
  <2>4. evque'[q] = new /\ getix'[q] = RNGINC(g)
    BY <1>4
  <2>. QED BY <1>11, <2>1, <2>2, <2>3, <2>4, LastLogsTake
<1>. QED BY <1>11, <1>12

\* An entry is taken out.
LEMMA RowsTake ==
    ASSUME Inv, Types', Counters', ReadTake
    PROVE  Rows' /\ LastLogs'
<1>q. PICK q \in Queues : q = tque
  BY DEF Inv, Types
<1>g. PICK g \in Slots : g = getix[q]
  BY DEF Inv, Types
<1>row. PICK row : row = evque[q]
  OBVIOUS
<1>new. PICK new : new = [row EXCEPT ![g] = NoEvent]
  OBVIOUS
<1>. USE <1>q, <1>g, <1>row, <1>new DEF chain, pending, blocks, task, calls
<1>e. PICK e \in Events : e = row[g]
  BY DEF ReadTake, AtSlot
<1>. USE <1>e
<1>1. row \in [Slots -> X] /\ putix[q] \in Slots /\ AtSlot = e
  BY DEF Inv, Types, AtSlot, X
<1>2. /\ evque \in [Queues -> [Slots -> X]] /\ getix \in [Queues -> Slots]
      /\ npend \in [Events -> Int] /\ nDuplicates \in [Queues -> Int]
      /\ pLastLog \in [Events -> Slots \cup {NoSlot}]
  BY DEF Inv, Types, Counters, X
<1>3. /\ evque' = [evque EXCEPT ![q][g] = NoEvent]
      /\ getix' = [getix EXCEPT ![q] = RNGINC(@)]
      /\ npend' = [npend EXCEPT ![e] = @ - 1]
      /\ pLastLog' = [pLastLog EXCEPT ![e] = IF npend[e] = 1 THEN NoSlot ELSE @]
      /\ nDuplicates' = [nDuplicates EXCEPT ![q] = IF npend[e] = 1 THEN @ ELSE @ - 1]
      /\ UNCHANGED <<putix, nCanceled, ev_que, byValue>>
  BY <1>1 DEF ReadTake, TakeSlot, Removed
<1>4. /\ evque'[q] = new /\ \A r \in Queues \ {q} : evque'[r] = evque[r]
      /\ getix'[q] = RNGINC(g) /\ \A r \in Queues \ {q} : getix'[r] = getix[r]
      /\ nDuplicates'[q] = IF npend[e] = 1 THEN nDuplicates[q] ELSE nDuplicates[q] - 1
      /\ \A r \in Queues \ {q} : nDuplicates'[r] = nDuplicates[r]
      /\ npend'[e] = npend[e] - 1 /\ \A d \in Events \ {e} : npend'[d] = npend[d]
  BY <1>1, <1>2, <1>3
<1>5. RowCounted(q) /\ ev_que[e] = q /\ npend[e] > 0
  BY EntryFacts DEF Inv, Rows
<1>6. CanceledEvent # NoEvent /\ NoEvent \notin Events /\ CanceledEvent \notin Events
  BY DbEventAssumption
<1>7. /\ Cardinality(RowEntries(new, e)) = Cardinality(RowEntries(row, e)) - 1
      /\ \A y : y \notin {e, NoEvent} => RowEntries(new, y) = RowEntries(row, y)
      /\ RowDuplicates(new) = IF Cardinality(RowEntries(row, e)) # 1
                              THEN RowDuplicates(row) - 1 ELSE RowDuplicates(row)
  <2>1. e # NoEvent
    BY <1>6
  <2>. QED BY <1>1, <2>1, RowTake
<1>8. /\ RowFull(new, putix[q], RNGINC(g))
      /\ RowContiguous(new, putix[q], RNGINC(g))
  <2>1. RowContiguous(row, putix[q], g) /\ RowFull(row, putix[q], g) /\ row[g] # NoEvent
    BY <1>5, <1>6 DEF RowCounted
  <2>. QED BY <1>1, <2>1, ContiguousTake
<1>c. npend[e] = Cardinality(RowEntries(row, e))
  BY <1>5 DEF RowCounted
<1>9. RowCounted(q)'
  <2>1. nCanceled'[q] = Cardinality(RowEntries(new, CanceledEvent))
    BY <1>3, <1>5, <1>6, <1>7 DEF RowCounted
  <2>2. ASSUME NEW d \in Events
        PROVE  Cardinality(RowEntries(new, d)) = IF q = ev_que'[d] THEN npend'[d] ELSE 0
    <3>1. CASE d = e
      BY <1>3, <1>4, <1>5, <1>7, <1>c, <3>1
    <3>2. CASE d # e
      <4>1. npend'[d] = npend[d] /\ ev_que'[d] = ev_que[d]
        BY <1>3, <1>4, <3>2
      <4>2. RowEntries(new, d) = RowEntries(row, d)
        BY <1>6, <1>7, <3>2
      <4>. QED BY <1>5, <4>1, <4>2 DEF RowCounted
    <3>. QED BY <3>1, <3>2
  <2>3. nDuplicates'[q] = RowDuplicates(new)
    <3>1. nDuplicates[q] = RowDuplicates(row)
      BY <1>5 DEF RowCounted
    <3>. QED BY <1>4, <1>7, <1>c, <3>1
  <2>. QED BY <1>3, <1>4, <1>8, <2>1, <2>2, <2>3 DEF RowCounted
<1>10. Rows'
  <2>1. \A r \in Queues \ {q} :
                /\ evque'[r] = evque[r] /\ putix'[r] = putix[r] /\ getix'[r] = getix[r]
                /\ nDuplicates'[r] = nDuplicates[r] /\ nCanceled'[r] = nCanceled[r]
    BY <1>3, <1>4
  <2>2. \A d \in Events \ {e} : npend'[d] = npend[d] /\ ev_que'[d] = ev_que[d]
    BY <1>3, <1>4
  <2>3. ev_que'[e] = q
    BY <1>3, <1>5
  <2>. QED BY <1>5, <1>9, <2>1, <2>2, <2>3, RowsOther
<1>11. LastLogs'
  <2>1. row[g] # NoEvent
    BY <1>6
  <2>2. ASSUME NEW d \in Events, npend'[d] > 0
        PROVE  npend[d] > 0 /\ pLastLog'[d] = pLastLog[d]
    <3>1. CASE d = e
      <4>1. npend[e] \in Int /\ npend[e] # 1
        BY <1>2, <1>4, <2>2, <3>1
      <4>. QED BY <1>2, <1>3, <1>5, <3>1, <4>1
    <3>2. CASE d # e
      BY <1>2, <1>3, <1>4, <2>2, <3>2
    <3>. QED BY <3>1, <3>2
  <2>3. \A r \in Queues \ {q} : evque'[r] = evque[r] /\ getix'[r] = getix[r]
    BY <1>4
  <2>4. evque'[q] = new /\ getix'[q] = RNGINC(g)
    BY <1>4
  <2>5. UNCHANGED <<byValue, ev_que>>
    BY <1>3
  <2>. QED BY <1>10, <2>1, <2>2, <2>3, <2>4, <2>5, LastLogsTake
<1>. QED BY <1>10, <1>11

\* The entries of a canceled event become placeholders.
LEMMA RowsPurge ==
    ASSUME Inv, Types', Counters', NEW c \in Callers, CancelPurge(c)
    PROVE  Rows' /\ LastLogs'
<1>e. PICK e \in Events : e = cev[c]
  BY CallFacts DEF Inv, CancelPurge
<1>q. PICK q \in Queues : q = ev_que[e]
  BY <1>e, CallFacts DEF Inv, CancelPurge, Canceling
<1>row. PICK row : row = evque[q]
  OBVIOUS
<1>new. PICK new : new = [i \in Slots |-> IF row[i] = e THEN CanceledEvent ELSE row[i]]
  OBVIOUS
<1>. USE <1>e, <1>q, <1>row, <1>new DEF chain, pending, blocks, task, calls
<1>1. row \in [Slots -> X] /\ putix[q] \in Slots /\ getix[q] \in Slots
  BY DEF Inv, Types, X
<1>2. /\ evque \in [Queues -> [Slots -> X]] /\ npend \in [Events -> Int]
      /\ nDuplicates \in [Queues -> Int] /\ nCanceled \in [Queues -> Int]
      /\ pLastLog \in [Events -> Slots \cup {NoSlot}]
      /\ ev_que \in [Events -> Queues \cup {NoQueue}] /\ byValue \in [Events -> BOOLEAN]
  BY DEF Inv, Types, Counters, X
<1>3. /\ evque' = [evque EXCEPT ![q] = [i \in Slots |-> IF @[i] = e THEN CanceledEvent ELSE @[i]]]
      /\ nCanceled' = [nCanceled EXCEPT ![q] = @ + npend[e]]
      /\ nDuplicates' = [nDuplicates EXCEPT ![q] =
                            IF npend[e] > 1 THEN @ - (npend[e] - 1) ELSE @]
      /\ npend' = [npend EXCEPT ![e] = 0]
      /\ pLastLog' = [pLastLog EXCEPT ![e] = NoSlot]
      /\ UNCHANGED <<putix, getix>>
  BY DEF CancelPurge
<1>4. /\ \A d \in Events \ {e} : ev_que'[d] = ev_que[d] /\ byValue'[d] = byValue[d]
  <2>1. \/ UNCHANGED <<ev_que, byValue>>
        \/ /\ ev_que' = [ev_que EXCEPT ![e] = NoQueue]
           /\ byValue' = [byValue EXCEPT ![e] = FALSE]
    BY DEF CancelPurge, Release
  <2>. QED BY <1>2, <2>1
<1>5. /\ evque'[q] = new /\ \A r \in Queues \ {q} : evque'[r] = evque[r]
      /\ nCanceled'[q] = nCanceled[q] + npend[e]
      /\ \A r \in Queues \ {q} : nCanceled'[r] = nCanceled[r]
      /\ nDuplicates'[q] = IF npend[e] > 1 THEN nDuplicates[q] - (npend[e] - 1) ELSE nDuplicates[q]
      /\ \A r \in Queues \ {q} : nDuplicates'[r] = nDuplicates[r]
      /\ npend'[e] = 0 /\ \A d \in Events \ {e} : npend'[d] = npend[d] /\ pLastLog'[d] = pLastLog[d]
  BY <1>2, <1>3
<1>6. CanceledEvent # NoEvent /\ NoEvent \notin Events /\ CanceledEvent \notin Events
  BY DbEventAssumption
<1>7. /\ RowEntries(new, e) = {}
      /\ Cardinality(RowEntries(new, CanceledEvent)) =
                Cardinality(RowEntries(row, CanceledEvent)) + Cardinality(RowEntries(row, e))
      /\ \A x : x \notin {e, CanceledEvent} => RowEntries(new, x) = RowEntries(row, x)
      /\ RowDuplicates(new) = IF Cardinality(RowEntries(row, e)) > 1
                THEN RowDuplicates(row) - (Cardinality(RowEntries(row, e)) - 1) ELSE RowDuplicates(row)
  BY <1>1, RowPurge
<1>8. RowCounted(q) /\ npend[e] = Cardinality(RowEntries(row, e))
  BY DEF Inv, Rows, RowCounted
<1>9. /\ RowFull(new, putix[q], getix[q])
      /\ RowContiguous(new, putix[q], getix[q])
  <2>1. \A i \in Slots : new[i] # NoEvent <=> row[i] # NoEvent
    BY <1>6
  <2>2. RowUsed(new, putix[q], getix[q]) = RowUsed(row, putix[q], getix[q])
    BY <1>1, <2>1 DEF RowUsed
  <2>3. RowContiguous(row, putix[q], getix[q]) /\ RowFull(row, putix[q], getix[q])
    BY <1>8 DEF RowCounted
  <2>4. RowFull(new, putix[q], getix[q])
    BY <1>1, <2>1, <2>3 DEF RowFull
  <2>. QED BY <2>1, <2>2, <2>3, <2>4 DEF RowContiguous
<1>10. RowCounted(q)'
  <2>1. nCanceled'[q] = Cardinality(RowEntries(new, CanceledEvent))
    BY <1>5, <1>7, <1>8 DEF RowCounted
  <2>2. ASSUME NEW d \in Events
        PROVE  Cardinality(RowEntries(new, d)) = IF q = ev_que'[d] THEN npend'[d] ELSE 0
    <3>1. CASE d = e
      <4>1. Cardinality(RowEntries(new, e)) = 0
        BY <1>7, FS_EmptySet
      <4>. QED BY <1>5, <3>1, <4>1
    <3>2. CASE d # e
      <4>1. npend'[d] = npend[d] /\ ev_que'[d] = ev_que[d]
        BY <1>4, <1>5, <3>2
      <4>2. RowEntries(new, d) = RowEntries(row, d)
        BY <1>6, <1>7, <3>2
      <4>. QED BY <1>8, <4>1, <4>2 DEF RowCounted
    <3>. QED BY <3>1, <3>2
  <2>3. nDuplicates'[q] = RowDuplicates(new)
    <3>1. nDuplicates[q] = RowDuplicates(row)
      BY <1>8 DEF RowCounted
    <3>. QED BY <1>5, <1>7, <1>8, <3>1
  <2>4. evque'[q] = new /\ putix'[q] = putix[q] /\ getix'[q] = getix[q]
    BY <1>3, <1>5
  <2>5. /\ RowContiguous(evque'[q], putix'[q], getix'[q])
        /\ RowFull(evque'[q], putix'[q], getix'[q])
    BY <1>9, <2>4
  <2>. QED BY <2>1, <2>2, <2>3, <2>4, <2>5 DEF RowCounted
<1>11. Rows'
  <2>1. \A r \in Queues \ {q} :
                /\ evque'[r] = evque[r] /\ putix'[r] = putix[r] /\ getix'[r] = getix[r]
                /\ nDuplicates'[r] = nDuplicates[r] /\ nCanceled'[r] = nCanceled[r]
    BY <1>3, <1>5
  <2>2. \A d \in Events \ {e} : npend'[d] = npend[d] /\ ev_que'[d] = ev_que[d]
    BY <1>4, <1>5
  <2>3. npend'[e] = 0
    BY <1>5
  <2>. QED BY <1>10, <2>1, <2>2, <2>3, RowsOther
<1>12. ASSUME NEW d \in Events, byValue'[d], npend'[d] > 0
       PROVE  LastLogOf(d, ev_que[d])'
  <2>1. d # e
    BY <1>5, <1>12
  <2>2. byValue[d] /\ npend[d] > 0 /\ ev_que'[d] = ev_que[d] /\ pLastLog'[d] = pLastLog[d]
    BY <1>4, <1>5, <1>12, <2>1
  <2>3. LastLogOf(d, ev_que[d])
    BY <2>2 DEF Inv, LastLogs
  <2>4. CASE ev_que[d] = q
    <3>1. RowEntries(new, d) = RowEntries(row, d)
      BY <1>6, <1>7, <2>1
    <3>2. pLastLog[d] \in Slots /\ row[pLastLog[d]] = d
      BY <2>3, <2>4 DEF LastLogOf
    <3>3. new[pLastLog[d]] = d
      BY <2>1, <3>2
    <3>. QED BY <1>3, <1>5, <2>2, <2>3, <2>4, <3>1, <3>2, <3>3 DEF LastLogOf
  <2>5. CASE ev_que[d] # q
    <3>1. evque'[ev_que[d]] = evque[ev_que[d]]
      BY <1>2, <1>3, <2>5
    <3>. QED BY <1>3, <2>2, <2>3, <3>1 DEF LastLogOf
  <2>. QED BY <2>4, <2>5
<1>. QED BY <1>11, <1>12 DEF LastLogs

\* Every step keeps the rings in order.
LEMMA RowsStep ==
    ASSUME Inv, [Next]_vars
    PROVE  Rows' /\ LastLogs'
<1>. USE DEF queues, chain, pending, blocks, sems, task, calls, posting, values
<1>0. Types' /\ Counters'
  BY TypesStep
<1>1. /\ ev_que \in [Events -> Queues \cup {NoQueue}] /\ byValue \in [Events -> BOOLEAN]
      /\ cev \in [Callers -> Events \cup {NoEvent}] /\ npend \in [Events -> Int]
  BY DEF Inv, Types, Counters
<1>2. \A e \in Events : ev_que[e] = NoQueue => npend[e] = 0
  BY DEF Inv, CallsOwn, BlockKept
<1>3. CASE /\ UNCHANGED <<evque, putix, getix, nDuplicates, nCanceled, npend, pLastLog>>
           /\ UNCHANGED <<ev_que, byValue>>
  BY <1>3, RingFrame
<1>4. ASSUME NEW c \in Callers, AddEvent(c)
      PROVE  Rows' /\ LastLogs'
  <2>1. UNCHANGED <<evque, putix, getix, nDuplicates, nCanceled, npend, pLastLog, ev_que>>
    BY <1>4 DEF AddEvent
  <2>2. \A e \in Events : npend[e] # 0 => byValue'[e] = byValue[e]
    BY <1>1, <1>2, <1>4 DEF AddEvent
  <2>. QED BY <2>1, <2>2, RingFrame
<1>5. ASSUME NEW c \in Callers, AddFind(c) \/ AddQueue(c)
      PROVE  Rows' /\ LastLogs'
  <2>1. UNCHANGED <<evque, putix, getix, nDuplicates, nCanceled, npend, pLastLog, byValue>>
    BY <1>5 DEF AddFind, AddQueue
  <2>2. cev[c] \in Events /\ ev_que[cev[c]] = NoQueue
    <3>1. cpc[c] = "walk"
      BY <1>5 DEF AddFind, AddQueue
    <3>. QED BY <3>1, CallFacts DEF Inv, CallsOwn, CallerOwns
  <2>3. \A e \in Events : e # cev[c] => ev_que'[e] = ev_que[e]
    BY <1>1, <1>5 DEF AddFind, AddQueue, Install
  <2>4. \A e \in Events : npend[e] # 0 => ev_que'[e] = ev_que[e] /\ byValue'[e] = byValue[e]
    BY <1>2, <2>1, <2>2, <2>3
  <2>. QED BY <2>1, <2>4, RingFrame
<1>6. ASSUME NEW c \in Callers, CancelCheck(c)
      PROVE  Rows' /\ LastLogs'
  <2>1. UNCHANGED <<evque, putix, getix, nDuplicates, nCanceled, npend, pLastLog>>
    BY <1>6 DEF CancelCheck
  <2>2. cev[c] \in Events /\ npend[cev[c]] = 0
    <3>1. cpc[c] = "cancel_check"
      BY <1>6 DEF CancelCheck
    <3>. QED BY <3>1, CallFacts DEF Inv, CallsOwn, CallerOwns
  <2>3. \A e \in Events : e # cev[c] => ev_que'[e] = ev_que[e] /\ byValue'[e] = byValue[e]
    BY <1>1, <1>6 DEF CancelCheck, Release
  <2>. QED BY <2>1, <2>2, <2>3, RingFrame
<1>7. ASSUME NEW c \in Callers,
             \/ CancelEvent(c) \/ FlowCtrl(c) \/ CloseEvents(c) \/ AddFails(c) \/ AddChain(c)
             \/ AddQuota(c) \/ PostFirst(c) \/ EnableEvent(c) \/ CancelWait(c) \/ CallerSignal(c)
      PROVE  Rows' /\ LastLogs'
  BY <1>3, <1>7 DEF CancelEvent, FlowCtrl, CloseEvents, AddFails, AddChain, AddQuota, PostFirst,
                    EnableEvent, CancelWait, CallerSignal
<1>8. ASSUME NEW e \in Events, PostIgnored(e) \/ PostReplace(e) \/ PostOverflow(e)
      PROVE  Rows' /\ LastLogs'
  BY <1>3, <1>8 DEF PostIgnored, PostReplace, PostOverflow, Posting
<1>9. CASE PostEvents \/ PostSignal \/ PostDone
  BY <1>3, <1>9 DEF PostEvents, PostSignal, PostDone
<1>10. CASE TaskWake \/ ReadEnter \/ ReadEnd \/ PassDone \/ Call \/ CallReturns
  BY <1>3, <1>10 DEF TaskWake, ReadEnter, ReadEnd, PassDone, Call, CallReturns
<1>11. CASE UNCHANGED vars
  BY <1>3, <1>11 DEF vars
<1>. QED BY <1>0, <1>4, <1>5, <1>6, <1>7, <1>8, <1>9, <1>10, <1>11, RowsPush, RowsCanceled, RowsTake, RowsPurge
         DEF Next, CallerNext, AddNext, CancelNext, PostNext, TaskNext

\* A caller has still to charge the block to its queue.
Uncharged(e) == \E c \in Callers : cev[c] = e /\ cpc[c] \in {"chain", "quota"}

\* The charged blocks of a queue are those no caller has still to charge.
LEMMA ChargedBlocks ==
    \A q \in Queues : /\ Charged(q) = {e \in Events : ev_que[e] = q /\ ~Uncharged(e)}
                      /\ IsFiniteSet(Charged(q)) /\ Cardinality(Charged(q)) \in Nat
<1>. SUFFICES ASSUME NEW q \in Queues
              PROVE  /\ Charged(q) = {e \in Events : ev_que[e] = q /\ ~Uncharged(e)}
                     /\ IsFiniteSet(Charged(q)) /\ Cardinality(Charged(q)) \in Nat
  OBVIOUS
<1>1. Charged(q) = {e \in Events : ev_que[e] = q /\ ~Uncharged(e)}
  BY DEF Charged, Uncharged
<1>2. Charged(q) \subseteq Events
  BY DEF Charged
<1>. QED BY <1>1, <1>2, DbEventAssumption, FS_Subset, FS_CardinalityType

\* A step that charges nothing.
LEMMA QuotaFrame ==
    ASSUME QuotaCounted, UNCHANGED quota,
           \A e \in Events, q \in Queues : (ev_que'[e] = q /\ ~Uncharged(e)') <=> (ev_que[e] = q /\ ~Uncharged(e))
    PROVE  QuotaCounted'
<1>. SUFFICES ASSUME NEW q \in Queues
              PROVE  quota'[q] = EVENTENTRIES * Cardinality(Charged(q)')
  BY DEF QuotaCounted
<1>1. Charged(q) = {e \in Events : ev_que[e] = q /\ ~Uncharged(e)}
  BY ChargedBlocks
<1>2. Charged(q)' = {e \in Events : ev_que'[e] = q /\ ~Uncharged(e)'}
  BY DEF Charged, Uncharged
<1>3. Charged(q)' = Charged(q)
  BY <1>1, <1>2
<1>. QED BY <1>3 DEF QuotaCounted

\* A block that is given back takes its quota with it.
LEMMA QuotaRelease ==
    ASSUME Inv, QuotaCounted, NEW c \in Callers, cpc[c] \in {"cancel", "cancel_check"}, Release(c)
    PROVE  QuotaCounted'
<1>e. PICK e \in Events : e = cev[c]
  BY CallFacts DEF Inv
<1>q. PICK q \in Queues : q = ev_que[e]
  BY <1>e, CallFacts DEF Inv, Canceling
<1>. USE <1>e, <1>q
<1>1. /\ ev_que \in [Events -> Queues \cup {NoQueue}] /\ quota \in [Queues -> Int]
      /\ cev \in [Callers -> Events \cup {NoEvent}] /\ cpc \in [Callers -> CallLabels]
      /\ NoQueue \notin Queues /\ NoEvent \notin Events
  BY Sizes, DbEventAssumption DEF Inv, Types, Counters
<1>2. /\ quota' = [quota EXCEPT ![q] = @ - EVENTENTRIES]
      /\ ev_que' = [ev_que EXCEPT ![e] = NoQueue]
      /\ cpc' = [cpc EXCEPT ![c] = "idle"] /\ cev' = [cev EXCEPT ![c] = NoEvent]
  BY DEF Release, Finish, Goto
<1>3. \A d \in Callers : cev[d] = e => d = c
  BY <1>1 DEF Inv, CallsOwn
<1>4. ~Uncharged(e)
  BY <1>3 DEF Uncharged
<1>5. \A d \in Events \ {e} : Uncharged(d)' <=> Uncharged(d)
  BY <1>1, <1>2 DEF Uncharged
<1>6. \A r \in Queues : /\ Charged(r) = {d \in Events : ev_que[d] = r /\ ~Uncharged(d)}
                        /\ Charged(r)' = {d \in Events : ev_que'[d] = r /\ ~Uncharged(d)'}
                        /\ IsFiniteSet(Charged(r)) /\ Cardinality(Charged(r)) \in Nat
  <2>1. ASSUME NEW r \in Queues
        PROVE  Charged(r)' = {d \in Events : ev_que'[d] = r /\ ~Uncharged(d)'}
    BY DEF Charged, Uncharged
  <2>. QED BY <2>1, ChargedBlocks
<1>v. ev_que'[e] = NoQueue /\ \A d \in Events \ {e} : ev_que'[d] = ev_que[d]
  BY <1>1, <1>2
<1>7. Charged(q)' = Charged(q) \ {e} /\ e \in Charged(q)
  BY <1>1, <1>v, <1>4, <1>5, <1>6
<1>8. ASSUME NEW r \in Queues, r # q
      PROVE  Charged(r)' = Charged(r)
  <2>1. /\ Charged(r) = {d \in Events : ev_que[d] = r /\ ~Uncharged(d)}
        /\ Charged(r)' = {d \in Events : ev_que'[d] = r /\ ~Uncharged(d)'}
    BY <1>6
  <2>2. \A d \in Events : (ev_que'[d] = r /\ ~Uncharged(d)') <=> (ev_que[d] = r /\ ~Uncharged(d))
    BY <1>1, <1>v, <1>5, <1>8
  <2>. QED BY <2>1, <2>2
<1>9. Cardinality(Charged(q)') = Cardinality(Charged(q)) - 1
  <2>1. IsFiniteSet(Charged(q))
    BY <1>6
  <2>. QED BY <1>7, <2>1, Fewer
<1>10. quota'[q] = EVENTENTRIES * Cardinality(Charged(q)')
  <2>1. EVENTENTRIES \in Nat /\ Cardinality(Charged(q)) \in Nat
    BY <1>6, DbEventAssumption
  <2>2. quota[q] = EVENTENTRIES * Cardinality(Charged(q)) /\ quota'[q] = quota[q] - EVENTENTRIES
    BY <1>1, <1>2 DEF QuotaCounted
  <2>. QED BY <1>9, <2>1, <2>2
<1>11. \A r \in Queues \ {q} : quota'[r] = EVENTENTRIES * Cardinality(Charged(r)')
  BY <1>1, <1>2, <1>8 DEF QuotaCounted
<1>. QED BY <1>10, <1>11 DEF QuotaCounted

\* A block that is added is charged.
LEMMA QuotaAdd ==
    ASSUME Inv, QuotaCounted, NEW c \in Callers, AddQuota(c)
    PROVE  QuotaCounted'
<1>e. PICK e \in Events : e = cev[c]
  BY CallFacts DEF Inv, AddQuota
<1>q. PICK q \in Queues : q = ev_que[e]
  BY <1>e, CallFacts DEF Inv, Adding, AddQuota
<1>. USE <1>e, <1>q
<1>1. /\ ev_que \in [Events -> Queues \cup {NoQueue}] /\ quota \in [Queues -> Int]
      /\ cev \in [Callers -> Events \cup {NoEvent}] /\ cpc \in [Callers -> CallLabels]
      /\ NoQueue \notin Queues /\ NoEvent \notin Events
  BY Sizes, DbEventAssumption DEF Inv, Types, Counters
<1>2. /\ quota' = [quota EXCEPT ![q] = @ + EVENTENTRIES]
      /\ cpc[c] = "quota" /\ cpc' = [cpc EXCEPT ![c] = "first"] /\ UNCHANGED <<cev, ev_que>>
  BY DEF AddQuota, Goto, blocks
<1>3. \A d \in Callers : cev[d] = e => d = c
  BY <1>1 DEF Inv, CallsOwn
<1>4. Uncharged(e) /\ ~Uncharged(e)'
  BY <1>1, <1>2, <1>3 DEF Uncharged
<1>5. \A d \in Events \ {e} : Uncharged(d)' <=> Uncharged(d)
  BY <1>1, <1>2 DEF Uncharged
<1>6. \A r \in Queues : /\ Charged(r) = {d \in Events : ev_que[d] = r /\ ~Uncharged(d)}
                        /\ Charged(r)' = {d \in Events : ev_que'[d] = r /\ ~Uncharged(d)'}
                        /\ IsFiniteSet(Charged(r)) /\ Cardinality(Charged(r)) \in Nat
  <2>1. ASSUME NEW r \in Queues
        PROVE  Charged(r)' = {d \in Events : ev_que'[d] = r /\ ~Uncharged(d)'}
    BY DEF Charged, Uncharged
  <2>. QED BY <2>1, ChargedBlocks
<1>7. Charged(q)' = Charged(q) \cup {e} /\ e \notin Charged(q)
  BY <1>1, <1>2, <1>4, <1>5, <1>6
<1>8. ASSUME NEW r \in Queues, r # q
      PROVE  Charged(r)' = Charged(r)
  <2>1. /\ Charged(r) = {d \in Events : ev_que[d] = r /\ ~Uncharged(d)}
        /\ Charged(r)' = {d \in Events : ev_que'[d] = r /\ ~Uncharged(d)'}
    BY <1>6
  <2>2. \A d \in Events : (ev_que'[d] = r /\ ~Uncharged(d)') <=> (ev_que[d] = r /\ ~Uncharged(d))
    BY <1>2, <1>5, <1>8
  <2>. QED BY <2>1, <2>2
<1>9. Cardinality(Charged(q)') = Cardinality(Charged(q)) + 1
  <2>1. IsFiniteSet(Charged(q))
    BY <1>6
  <2>2. Cardinality(Charged(q) \cup {e}) = Cardinality(Charged(q)) + 1
    BY <1>7, <2>1, FS_AddElement
  <2>. QED BY <1>7, <2>2
<1>10. quota'[q] = EVENTENTRIES * Cardinality(Charged(q)')
  <2>1. EVENTENTRIES \in Nat /\ Cardinality(Charged(q)) \in Nat
    BY <1>6, DbEventAssumption
  <2>2. quota[q] = EVENTENTRIES * Cardinality(Charged(q)) /\ quota'[q] = quota[q] + EVENTENTRIES
    BY <1>1, <1>2 DEF QuotaCounted
  <2>. QED BY <1>9, <2>1, <2>2
<1>11. \A r \in Queues \ {q} : quota'[r] = EVENTENTRIES * Cardinality(Charged(r)')
  BY <1>1, <1>2, <1>8 DEF QuotaCounted
<1>. QED BY <1>10, <1>11 DEF QuotaCounted

\* Every step keeps the quotas right.
LEMMA QuotaStep ==
    ASSUME Inv, QuotaCounted, [Next]_vars
    PROVE  QuotaCounted'
<1>. USE DEF queues, chain, pending, blocks, sems, task, calls, posting, values, Goto
<1>1. /\ ev_que \in [Events -> Queues \cup {NoQueue}]
      /\ cev \in [Callers -> Events \cup {NoEvent}] /\ cpc \in [Callers -> CallLabels]
      /\ NoQueue \notin Queues /\ NoEvent \notin Events
  BY Sizes, DbEventAssumption DEF Inv, Types, Counters
<1>2. CASE UNCHANGED <<quota, ev_que, cev, cpc>>
  <2>1. \A e \in Events : Uncharged(e)' <=> Uncharged(e)
    BY <1>2 DEF Uncharged
  <2>. QED BY <1>2, <2>1, QuotaFrame
<1>o. ASSUME NEW c \in Callers, cpc[c] \notin {"idle", "signal"}
      PROVE  cev[c] \in Events /\ \A d \in Callers : cev[d] = cev[c] => d = c
  <2>1. cev[c] # NoEvent
    BY <1>o DEF Inv, CallsOwn, CallerOwns
  <2>. QED BY <1>1, <2>1 DEF Inv, CallsOwn
<1>3. ASSUME NEW c \in Callers, AddEvent(c) \/ AddFails(c)
      PROVE  QuotaCounted'
  <2>1. PICK e \in Events : /\ ev_que[e] = NoQueue
                            /\ \A d \in Events \ {e} : Uncharged(d)' <=> Uncharged(d)
    <3>1. CASE AddEvent(c)
      <4>1. PICK e \in Events : ev_que[e] = NoQueue /\ cev' = [cev EXCEPT ![c] = e]
        BY <3>1 DEF AddEvent
      <4>2. cpc[c] = "idle" /\ cpc' = [cpc EXCEPT ![c] = "walk"] /\ cev[c] = NoEvent
        BY <3>1 DEF AddEvent, Free, Inv, CallsOwn, CallerOwns
      <4>3. \A d \in Events \ {e} : Uncharged(d)' <=> Uncharged(d)
        BY <1>1, <4>1, <4>2 DEF Uncharged
      <4>. QED BY <4>1, <4>3
    <3>2. CASE AddFails(c)
      <4>1. cpc[c] = "walk" /\ cev[c] \in Events /\ ev_que[cev[c]] = NoQueue
        BY <3>2, <1>o DEF AddFails, Inv, CallsOwn, CallerOwns
      <4>2. cpc' = [cpc EXCEPT ![c] = "idle"] /\ cev' = [cev EXCEPT ![c] = NoEvent]
        BY <3>2 DEF AddFails, Finish
      <4>3. \A d \in Events \ {cev[c]} : Uncharged(d)' <=> Uncharged(d)
        BY <1>1, <4>1, <4>2 DEF Uncharged
      <4>. QED BY <4>1, <4>3
    <3>. QED BY <1>3, <3>1, <3>2
  <2>2. UNCHANGED <<quota, ev_que>>
    BY <1>3 DEF AddEvent, AddFails
  <2>. QED BY <1>1, <2>1, <2>2, QuotaFrame
<1>4. ASSUME NEW c \in Callers, AddFind(c) \/ AddQueue(c)
      PROVE  QuotaCounted'
  <2>1. cpc[c] = "walk" /\ UNCHANGED <<quota, cev>>
    BY <1>4 DEF AddFind, AddQueue
  <2>2. cev[c] \in Events /\ ev_que[cev[c]] = NoQueue
    BY <1>o, <2>1 DEF Inv, CallsOwn, CallerOwns
  <2>3. \/ UNCHANGED <<cpc, ev_que>>
        \/ \E q \in Queues, l \in {"chain", "quota"} :
                ev_que' = [ev_que EXCEPT ![cev[c]] = q] /\ cpc' = [cpc EXCEPT ![c] = l]
    <3>1. cque[c] \in Queues
      BY <2>1, CallFacts DEF Inv
    <3>. QED BY <1>4, <3>1 DEF AddFind, AddQueue, Install
  <2>4. CASE UNCHANGED <<cpc, ev_que>>
    BY <1>2, <2>1, <2>4
  <2>5. ASSUME NEW q \in Queues, NEW l \in {"chain", "quota"},
               ev_que' = [ev_que EXCEPT ![cev[c]] = q], cpc' = [cpc EXCEPT ![c] = l]
        PROVE  QuotaCounted'
    <3>1. Uncharged(cev[c]) \/ ev_que[cev[c]] = NoQueue
      BY <2>2
    <3>2. \E d \in Callers : cev'[d] = cev[c] /\ cpc'[d] \in {"chain", "quota"}
      BY <1>1, <2>1, <2>5
    <3>3. \A e \in Events \ {cev[c]} : Uncharged(e)' <=> Uncharged(e)
      BY <1>1, <2>1, <2>2, <2>5 DEF Uncharged
    <3>4. \A e \in Events : e = cev[c] => Uncharged(e)'
      BY <3>2 DEF Uncharged
    <3>5. \A e \in Events, r \in Queues :
                (ev_que'[e] = r /\ ~Uncharged(e)') <=> (ev_que[e] = r /\ ~Uncharged(e))
      BY <1>1, <2>2, <2>5, <3>3, <3>4
    <3>. QED BY <2>1, <3>5, QuotaFrame
  <2>. QED BY <2>3, <2>4, <2>5
<1>5. ASSUME NEW c \in Callers,
             \/ AddChain(c) \/ PostFirst(c) \/ EnableEvent(c) \/ FlowCtrl(c) \/ CloseEvents(c)
             \/ CancelWait(c) \/ CallerSignal(c)
      PROVE  QuotaCounted'
  <2>1. UNCHANGED <<quota, ev_que>>
    BY <1>5 DEF AddChain, PostFirst, EnableEvent, FlowCtrl, CloseEvents, Closing, CancelWait, CallerSignal
  <2>2. \/ cpc[c] = "chain" /\ cpc' = [cpc EXCEPT ![c] = "quota"] /\ cev' = cev
        \/ /\ cpc[c] \notin {"chain", "quota"}
           /\ \E l \in CallLabels \ {"chain", "quota"} : cpc' = [cpc EXCEPT ![c] = l]
           /\ cev' = cev \/ cev' = [cev EXCEPT ![c] = NoEvent]
    BY <1>5 DEF AddChain, PostFirst, EnableEvent, FlowCtrl, CloseEvents, Closing, CancelWait, CallerSignal,
                Finish, Free, CallLabels
  <2>3. \A e \in Events : Uncharged(e)' <=> Uncharged(e)
    BY <1>1, <2>2 DEF Uncharged
  <2>. QED BY <2>1, <2>3, QuotaFrame
<1>6. ASSUME NEW c \in Callers, CancelEvent(c)
      PROVE  QuotaCounted'
  <2>1. PICK e \in Events : (\A d \in Callers : cev[d] # e) /\ cev' = [cev EXCEPT ![c] = e]
    BY <1>6 DEF CancelEvent
  <2>2. cpc[c] = "idle" /\ cpc' = [cpc EXCEPT ![c] = "cancel"] /\ UNCHANGED <<quota, ev_que>>
    BY <1>6 DEF CancelEvent, Free
  <2>3. \A d \in Events : Uncharged(d)' <=> Uncharged(d)
    BY <1>1, <2>1, <2>2 DEF Uncharged
  <2>. QED BY <2>2, <2>3, QuotaFrame
<1>7. ASSUME NEW c \in Callers, CancelPurge(c) \/ CancelCheck(c)
      PROVE  QuotaCounted'
  <2>1. cpc[c] \in {"cancel", "cancel_check"}
    BY <1>7 DEF CancelPurge, CancelCheck
  <2>2. CASE UNCHANGED <<quota, ev_que, cev>> /\ cpc' = [cpc EXCEPT ![c] = "cancel_wait"]
    <3>1. \A e \in Events : Uncharged(e)' <=> Uncharged(e)
      BY <1>1, <2>1, <2>2 DEF Uncharged
    <3>. QED BY <2>2, <3>1, QuotaFrame
  <2>3. CASE Release(c)
    BY <2>1, <2>3, QuotaRelease
  <2>. QED BY <1>7, <2>2, <2>3 DEF CancelPurge, CancelCheck
<1>8. ASSUME PostDone
      PROVE  QuotaCounted'
  <2>1. /\ UNCHANGED <<quota, ev_que, cev>>
        /\ cpc' = [c \in Callers |-> IF c = poster THEN "enable" ELSE cpc[c]]
    BY <1>8 DEF PostDone
  <2>2. \A c \in Callers : c = poster => cpc[c] = "post"
    BY DEF Inv, CallsOwn, CallerOwns
  <2>3. \A e \in Events : Uncharged(e)' <=> Uncharged(e)
    BY <1>1, <2>1, <2>2 DEF Uncharged
  <2>. QED BY <2>1, <2>3, QuotaFrame
<1>9. ASSUME NEW e \in Events, PostIgnored(e) \/ PostReplace(e) \/ PostPush(e) \/ PostOverflow(e)
      PROVE  QuotaCounted'
  BY <1>2, <1>9 DEF PostIgnored, PostReplace, PostPush, PostOverflow, Posting
<1>10. CASE PostEvents \/ PostSignal
  BY <1>2, <1>10 DEF PostEvents, PostSignal
<1>11. CASE TaskWake \/ ReadEnter \/ ReadEnd \/ PassDone \/ Call \/ CallReturns \/ ReadTake \/ ReadCanceled
  BY <1>2, <1>11 DEF TaskWake, ReadEnter, ReadEnd, PassDone, Call, CallReturns, ReadTake, ReadCanceled
<1>12. CASE UNCHANGED vars
  BY <1>2, <1>12 DEF vars
<1>. QED BY <1>3, <1>4, <1>5, <1>6, <1>7, <1>8, <1>9, <1>10, <1>11, <1>12, QuotaAdd
         DEF Next, CallerNext, AddNext, CancelNext, PostNext, TaskNext

\* In an empty ring there is nothing to count.
LEMMA RowEmpty ==
    ASSUME NEW row, row = [i \in Slots |-> NoEvent]
    PROVE  /\ \A x : x # NoEvent => RowEntries(row, x) = {} /\ Cardinality(RowEntries(row, x)) = 0
           /\ RowDuplicates(row) = 0
           /\ RowContiguous(row, 0, 0) /\ RowFull(row, 0, 0)
<1>1. \A x : x # NoEvent => RowEntries(row, x) = {}
  BY DEF RowEntries
<1>2. \A x : x # NoEvent => Cardinality(RowEntries(row, x)) = 0
  BY <1>1, FS_EmptySet
<1>3. RowEvents(row) = {} /\ RowPresent(row) = {}
  BY <1>1, DbEventAssumption DEF RowEvents, RowPresent
<1>4. RowDuplicates(row) = 0
  BY <1>3, FS_EmptySet DEF RowDuplicates
<1>5. 0 \in Slots
  BY Sizes
<1>6. RowUsed(row, 0, 0) = 0
  BY <1>5, Sizes DEF RowUsed
<1>7. ASSUME NEW i \in Slots PROVE ~(RowOffset(0, i) < 0)
  BY <1>5, OffsetOf
<1>. QED BY <1>1, <1>2, <1>4, <1>5, <1>6, <1>7 DEF RowContiguous, RowFull

\* db_init_events starts in order.
LEMMA InitInv == Init => Inv /\ QuotaCounted
<1>. SUFFICES ASSUME Init PROVE Inv /\ QuotaCounted
  OBVIOUS
<1>. USE DEF Init
<1>0. 0 \in Slots /\ 1 \in Queues /\ NoQueue \notin Queues /\ 0 \in 0..MaxVal /\ 1 \in 1..MaxVal
      /\ NoEvent \notin Events /\ CanceledEvent # NoEvent /\ Scan \notin Callers /\ NoThread \notin Callers
  BY Sizes, DbEventAssumption
<1>1. Types
  BY <1>0 DEF Types, CallLabels, TaskLabels
<1>2. Counters
  BY DEF Counters
<1>3. Rows
  <2>. SUFFICES ASSUME NEW q \in Queues PROVE RowCounted(q)
    BY DEF Rows
  <2>1. evque[q] = [i \in Slots |-> NoEvent]
    OBVIOUS
  <2>2. \A e \in Events : e # NoEvent
    BY <1>0
  <2>. QED BY <1>0, <2>1, <2>2, RowEmpty DEF RowCounted
<1>4. LastLogs
  BY DEF LastLogs
<1>5. CallsOwn
  BY <1>0 DEF CallsOwn, CallerOwns, BlockKept, PostOwned, Adding, Canceling
<1>6. InCallback
  BY DEF InCallback
<1>7. QuotaCounted
  <2>. SUFFICES ASSUME NEW q \in Queues PROVE quota[q] = EVENTENTRIES * Cardinality(Charged(q))
    BY DEF QuotaCounted
  <2>1. Charged(q) = {}
    BY <1>0 DEF Charged
  <2>2. EVENTENTRIES \in Nat /\ quota[q] = 0
    BY DbEventAssumption
  <2>. QED BY <2>1, <2>2, FS_EmptySet
<1>. QED BY <1>1, <1>2, <1>3, <1>4, <1>5, <1>6, <1>7 DEF Inv

\* The invariant, by rows, holds throughout.
THEOREM Invariance == Spec => [](Inv /\ QuotaCounted)
<1>1. Inv /\ QuotaCounted /\ [Next]_vars => (Inv /\ QuotaCounted)'
  BY TypesStep, RowsStep, CallsStep, InCallbackStep, QuotaStep DEF Inv
<1>. QED BY InitInv, <1>1, PTL DEF Spec

\* The counters count something: none is negative, as the unsigned integers of
\* the code need.
LEMMA CountersNat == Inv /\ QuotaCounted => TypeOK
<1>. SUFFICES ASSUME Inv, QuotaCounted PROVE TypeOK
  OBVIOUS
<1>1. /\ quota \in [Queues -> Int] /\ npend \in [Events -> Int]
      /\ nDuplicates \in [Queues -> Int] /\ nCanceled \in [Queues -> Int]
      /\ ev_que \in [Events -> Queues \cup {NoQueue}]
  BY DEF Inv, Types, Counters
<1>2. ASSUME NEW q \in Queues
      PROVE  quota[q] \in Nat /\ nDuplicates[q] \in Nat /\ nCanceled[q] \in Nat
  <2>1. RowCounted(q)
    BY DEF Inv, Rows
  <2>2. RowDuplicates(evque[q]) \in Nat /\ Cardinality(RowEntries(evque[q], CanceledEvent)) \in Nat
    BY RowDuplicatesNat, RowFinite
  <2>3. quota[q] \in Nat
    <3>1. EVENTENTRIES \in Nat /\ Cardinality(Charged(q)) \in Nat
      BY ChargedBlocks, DbEventAssumption
    <3>2. EVENTENTRIES * Cardinality(Charged(q)) \in Nat
      BY <3>1
    <3>. QED BY <3>2 DEF QuotaCounted
  <2>. QED BY <2>1, <2>2, <2>3 DEF RowCounted
<1>3. ASSUME NEW e \in Events
      PROVE  npend[e] \in Nat
  <2>1. CASE ev_que[e] = NoQueue
    BY <2>1 DEF Inv, CallsOwn, BlockKept
  <2>2. CASE ev_que[e] \in Queues
    <3>1. Cardinality(RowEntries(evque[ev_que[e]], e)) = npend[e]
      BY <2>2 DEF Inv, Rows, RowCounted
    <3>. QED BY <3>1, RowFinite
  <2>. QED BY <1>1, <2>1, <2>2
<1>4. /\ quota \in [Queues -> Nat] /\ npend \in [Events -> Nat]
      /\ nDuplicates \in [Queues -> Nat] /\ nCanceled \in [Queues -> Nat]
  <2>1. ASSUME NEW f, NEW S, f \in [S -> Int], \A x \in S : f[x] \in Nat
        PROVE  f \in [S -> Nat]
    BY <2>1
  <2>. QED BY <1>1, <1>2, <1>3, <2>1
<1>. QED BY <1>4 DEF Inv, TypeOK

\* The module's words for a ring and the rows' agree.
LEMMA RowOf ==
    ASSUME Types, NEW q \in Queues
    PROVE  /\ \A x : Entries(q, x) = RowEntries(evque[q], x)
           /\ \A i \in Slots : Offset(q, i) = RowOffset(getix[q], i)
           /\ Used(q) = RowUsed(evque[q], putix[q], getix[q])
           /\ Contiguous(q) <=> RowContiguous(evque[q], putix[q], getix[q])
<1>1. getix[q] \in Slots
  BY DEF Types
<1>2. \A x : Entries(q, x) = RowEntries(evque[q], x)
  BY DEF Entries, RowEntries
<1>3. \A i \in Slots : Offset(q, i) = RowOffset(getix[q], i)
  BY <1>1, OffsetMod DEF Offset
<1>4. Used(q) = RowUsed(evque[q], putix[q], getix[q])
  BY DEF Used, ringSpace, RowUsed
<1>. QED BY <1>2, <1>3, <1>4 DEF Contiguous, RowContiguous

\* The rows in order make the rings in order.
LEMMA InvRing == Inv /\ QuotaCounted => RingInOrder
<1>. SUFFICES ASSUME Inv, QuotaCounted PROVE RingInOrder
  OBVIOUS
<1>0. Types
  BY DEF Inv
<1>1. TypeOK
  BY CountersNat
<1>2. \A q \in Queues : RowCounted(q)
  BY DEF Inv, Rows
<1>3. \A q \in Queues : Contiguous(q)
  BY <1>0, <1>2, RowOf DEF RowCounted
<1>4. Counted
  <2>1. \A q \in Queues : nCanceled[q] = Cardinality(Entries(q, CanceledEvent))
    BY <1>0, <1>2, RowOf DEF RowCounted
  <2>2. \A e \in Events, q \in Queues :
            Cardinality(Entries(q, e)) = IF q = ev_que[e] THEN npend[e] ELSE 0
    BY <1>0, <1>2, RowOf DEF RowCounted
  <2>3. ASSUME NEW e \in Events, byValue[e], npend[e] > 0
        PROVE  LET q == ev_que[e] IN
               /\ evque[q][pLastLog[e]] = e
               /\ \A i \in Entries(q, e) : Offset(q, i) <= Offset(q, pLastLog[e])
    <3>1. ev_que[e] \in Queues
      <4>1. ev_que[e] # NoQueue
        BY <2>3 DEF Inv, CallsOwn, BlockKept
      <4>. QED BY <1>0, <4>1 DEF Types
    <3>2. LastLogOf(e, ev_que[e])
      BY <2>3 DEF Inv, LastLogs
    <3>3. \A i \in RowEntries(evque[ev_que[e]], e) : i \in Slots
      BY DEF RowEntries
    <3>. QED BY <1>0, <3>1, <3>2, <3>3, RowOf DEF LastLogOf
  <2>. QED BY <2>1, <2>2, <2>3 DEF Counted
<1>5. DuplicatesCounted
  <2>. SUFFICES ASSUME NEW q \in Queues
                PROVE  nDuplicates[q] + Cardinality({e \in Events : Entries(q, e) # {}})
                        = Cardinality({i \in Slots : evque[q][i] \in Events})
    BY DEF DuplicatesCounted
  <2>1. {e \in Events : Entries(q, e) # {}} = RowPresent(evque[q])
    BY <1>0, RowOf DEF RowPresent
  <2>2. {i \in Slots : evque[q][i] \in Events} = RowEvents(evque[q])
    BY DEF RowEvents
  <2>3. nDuplicates[q] = RowDuplicates(evque[q])
    BY <1>2 DEF RowCounted
  <2>4. Cardinality(RowEvents(evque[q])) \in Nat /\ Cardinality(RowPresent(evque[q])) \in Nat
    BY RowFinite
  <2>5. nDuplicates[q] + Cardinality(RowPresent(evque[q])) = Cardinality(RowEvents(evque[q]))
    BY <2>3, <2>4 DEF RowDuplicates
  <2>. QED BY <2>1, <2>2, <2>5, Zenon
<1>. QED BY <1>1, <1>3, <1>4, <1>5 DEF RingInOrder

\* The ring of every queue is in order whenever its lock is free: the entries lie
\* between getix and putix, npend, nCanceled, nDuplicates and pLastLog tell the
\* truth about them, and no counter goes below zero, whatever threads subscribe,
\* cancel, post and read at once.
THEOREM RingIsInOrder == Spec => []RingInOrder
<1>. QED BY Invariance, InvRing, PTL

\* The invariant keeps callbacks off free blocks.
LEMMA InvNoCallback == Inv => NoCallbackAfterCancel
<1>. SUFFICES ASSUME Inv PROVE NoCallbackAfterCancel
  OBVIOUS
<1>0. Types
  BY DEF Inv
<1>1. (tpc = "call" \/ (tpc = "callback" /\ live)) => ev_que[event] # NoQueue
  BY DEF Inv, InCallback
<1>2. ASSUME NEW q \in Queues, NEW e \in Events, ev_que[e] = NoQueue
      PROVE  Entries(q, e) = {}
  <2>1. Cardinality(RowEntries(evque[q], e)) = 0
    BY <1>2, Sizes DEF Inv, Rows, RowCounted
  <2>. QED BY <1>0, <2>1, RowFinite, RowOf
<1>. QED BY <1>1, <1>2 DEF NoCallbackAfterCancel

\* After db_cancel_event has returned to another thread no callback of the
\* subscription runs or is about to run, and its block is in no ring.
THEOREM NoCallbackAfter == Spec => []NoCallbackAfterCancel
<1>. QED BY Invariance, InvNoCallback, PTL

-----------------------------------------------------------------------------
(* The order of the values *)

\* The values of e in queue q, by rows.
ValuesIn(e, q) ==
    /\ \A i, j \in RowEntries(evque[q], e) :
        RowOffset(getix[q], i) <= RowOffset(getix[q], j) => valque[q][i] <= valque[q][j]
    /\ \A i \in RowEntries(evque[q], e) : seen[e] <= valque[q][i] /\ valque[q][i] <= val
    /\ npend[e] > 0 => sent[e] <= valque[q][pLastLog[e]]
    /\ tpc = "call" /\ event = e =>
        /\ seen[e] <= fl /\ fl <= val
        /\ \A i \in RowEntries(evque[q], e) : fl <= valque[q][i]
        /\ npend[e] = 0 /\ user_sub[e] => sent[e] <= fl
Latest(e) == seen[e] <= val /\ sent[e] <= val
RowValues == \A e \in Events : Latest(e) /\ (byValue[e] /\ ev_que[e] # NoQueue => ValuesIn(e, ev_que[e]))

\* What the module says of the values is what the rows say.
LEMMA ValuesByRow == Types => (ValuesInOrder <=> RowValues)
<1>. SUFFICES ASSUME Types PROVE ValuesInOrder <=> RowValues
  OBVIOUS
<1>1. ASSUME NEW e \in Events, ev_que[e] # NoQueue
      PROVE  ValuesIn(e, ev_que[e]) <=>
            LET q == ev_que[e] IN
            /\ \A i, j \in Entries(q, e) :
                Offset(q, i) <= Offset(q, j) => valque[q][i] <= valque[q][j]
            /\ \A i \in Entries(q, e) : seen[e] <= valque[q][i] /\ valque[q][i] <= val
            /\ npend[e] > 0 => valque[q][pLastLog[e]] >= sent[e]
            /\ tpc = "call" /\ event = e =>
                /\ seen[e] <= fl /\ fl <= val
                /\ \A i \in Entries(q, e) : fl <= valque[q][i]
                /\ npend[e] = 0 /\ user_sub[e] => fl >= sent[e]
  <2>q. PICK q \in Queues : q = ev_que[e]
    BY <1>1 DEF Types
  <2>1. Entries(q, e) = RowEntries(evque[q], e) /\ \A i \in Slots : Offset(q, i) = RowOffset(getix[q], i)
    BY RowOf
  <2>2. \A i \in Entries(q, e) : i \in Slots
    BY DEF Entries
  <2>. QED BY <2>q, <2>1, <2>2 DEF ValuesIn
<1>. QED BY <1>1 DEF ValuesInOrder, RowValues, Latest

\* A step that leaves the entries of an event, but for those taken, as they were.
LEMMA ValuesFrame ==
    ASSUME Types, Types', NEW e \in Events, NEW q \in Queues, ValuesIn(e, q),
           RowEntries(evque'[q], e) \subseteq RowEntries(evque[q], e),
           \A i \in RowEntries(evque'[q], e) : valque'[q][i] = valque[q][i],
           \A i, j \in RowEntries(evque'[q], e) :
                RowOffset(getix'[q], i) <= RowOffset(getix'[q], j) => RowOffset(getix[q], i) <= RowOffset(getix[q], j),
           seen'[e] = seen[e], sent'[e] = sent[e], val' >= val,
           npend'[e] > 0 => npend[e] > 0 /\ pLastLog'[e] = pLastLog[e]
                            /\ valque'[q][pLastLog[e]] = valque[q][pLastLog[e]],
           tpc' = "call" /\ event' = e =>
                /\ tpc = "call" /\ event = e /\ fl' = fl
                /\ npend'[e] = 0 /\ user_sub'[e] => npend[e] = 0 /\ user_sub[e]
    PROVE  ValuesIn(e, q)'
<1>1. /\ valque[q] \in [Slots -> Nat] /\ valque'[q] \in [Slots -> Nat] /\ val \in Nat /\ val' \in Nat /\ fl \in Nat
      /\ seen[e] \in Nat /\ sent[e] \in Nat
  BY DbEventAssumption DEF Types
<1>2. \A i \in RowEntries(evque'[q], e) : i \in Slots
  BY DEF RowEntries
<1>3. \A i, j \in RowEntries(evque'[q], e) :
        RowOffset(getix'[q], i) <= RowOffset(getix'[q], j) => valque'[q][i] <= valque'[q][j]
  BY DEF ValuesIn
<1>4. \A i \in RowEntries(evque'[q], e) : seen'[e] <= valque'[q][i] /\ valque'[q][i] <= val'
  <2>. SUFFICES ASSUME NEW i \in RowEntries(evque'[q], e)
                PROVE  seen'[e] <= valque'[q][i] /\ valque'[q][i] <= val'
    OBVIOUS
  <2>1. seen[e] <= valque[q][i] /\ valque[q][i] <= val /\ valque[q][i] \in Nat
    BY <1>1, <1>2 DEF ValuesIn
  <2>. QED BY <1>1, <2>1
<1>5. npend'[e] > 0 => sent'[e] <= valque'[q][pLastLog'[e]]
  BY DEF ValuesIn
<1>6. ASSUME tpc' = "call", event' = e
      PROVE  /\ seen'[e] <= fl' /\ fl' <= val'
             /\ \A i \in RowEntries(evque'[q], e) : fl' <= valque'[q][i]
             /\ npend'[e] = 0 /\ user_sub'[e] => sent'[e] <= fl'
  BY <1>1, <1>6 DEF ValuesIn
<1>. QED BY <1>3, <1>4, <1>5, <1>6 DEF ValuesIn

\* The same of a step that leaves all rings alone.
LEMMA ValuesSame ==
    ASSUME Types, Types', RowValues, NEW e \in Events,
           UNCHANGED <<evque, valque, getix, npend, pLastLog>>, val' >= val,
           ev_que'[e] # NoQueue => ev_que'[e] = ev_que[e] /\ byValue'[e] = byValue[e]
                                    /\ seen'[e] = seen[e] /\ sent'[e] = sent[e],
           seen'[e] \in {0, seen[e]}, sent'[e] \in {0, sent[e]},
           tpc' = "call" /\ event' = e => tpc = "call" /\ event = e /\ fl' = fl /\ (user_sub'[e] => user_sub[e])
    PROVE  Latest(e)' /\ (byValue'[e] /\ ev_que'[e] # NoQueue => ValuesIn(e, ev_que[e])')
<1>1. /\ val \in Nat /\ val' \in Nat /\ seen[e] \in Nat /\ sent[e] \in Nat
      /\ seen[e] <= val /\ sent[e] <= val
  BY DbEventAssumption DEF Types, RowValues, Latest
<1>2. Latest(e)'
  <2>1. seen'[e] <= val' /\ sent'[e] <= val'
    BY <1>1
  <2>. QED BY <2>1 DEF Latest
<1>3. ASSUME byValue'[e], ev_que'[e] # NoQueue
      PROVE  ValuesIn(e, ev_que[e])'
  <2>q. PICK q \in Queues : q = ev_que[e] /\ ev_que'[e] = q
    BY <1>3 DEF Types
  <2>1. ValuesIn(e, q)
    BY <1>3, <2>q, Sizes DEF RowValues
  <2>2. ValuesIn(e, q)'
    BY <1>3, <2>1, ValuesFrame
  <2>. QED BY <2>q, <2>2 DEF ValuesIn
<1>. QED BY <1>2, <1>3

\* A step that changes values at slots of other events only.
LEMMA ValuesOthers ==
    ASSUME Types, Types', Rows, LastLogs, RowValues, NEW e \in Events,
           \A r \in Queues, j \in Slots : evque[r][j] = e => valque'[r][j] = valque[r][j],
           \A r \in Queues : RowEntries(evque'[r], e) = RowEntries(evque[r], e),
           \A r \in Queues : \A j, k \in RowEntries(evque[r], e) :
                RowOffset(getix'[r], j) <= RowOffset(getix'[r], k) => RowOffset(getix[r], j) <= RowOffset(getix[r], k),
           val' = val, seen'[e] = seen[e], sent'[e] = sent[e],
           npend'[e] = npend[e], pLastLog'[e] = pLastLog[e], ev_que'[e] = ev_que[e], byValue'[e] = byValue[e],
           tpc' = "call" /\ event' = e => tpc = "call" /\ event = e /\ fl' = fl /\ (user_sub'[e] => user_sub[e])
    PROVE  Latest(e)' /\ (byValue'[e] /\ ev_que'[e] # NoQueue => ValuesIn(e, ev_que[e])')
<1>1. val \in Nat
  BY DbEventAssumption DEF Types
<1>2. Latest(e)'
  BY DEF RowValues, Latest
<1>3. ASSUME byValue'[e], ev_que'[e] # NoQueue
      PROVE  ValuesIn(e, ev_que[e])'
  <2>q. PICK r \in Queues : r = ev_que[e] /\ ev_que'[e] = r
    BY <1>3 DEF Types
  <2>1. ValuesIn(e, r)
    BY <1>3, <2>q, Sizes DEF RowValues
  <2>2. \A j \in RowEntries(evque[r], e) : valque'[r][j] = valque[r][j]
    BY DEF RowEntries
  <2>3. npend'[e] > 0 => valque'[r][pLastLog[e]] = valque[r][pLastLog[e]]
    <3>1. npend'[e] > 0 => LastLogOf(e, r)
      BY <1>3, <2>q DEF LastLogs
    <3>. QED BY <3>1 DEF LastLogOf
  <2>4. RowEntries(evque'[r], e) = RowEntries(evque[r], e)
    OBVIOUS
  <2>5. val' >= val
    BY <1>1
  <2>6. \A j, k \in RowEntries(evque'[r], e) :
                RowOffset(getix'[r], j) <= RowOffset(getix'[r], k) => RowOffset(getix[r], j) <= RowOffset(getix[r], k)
    BY <2>4
  <2>7. \A j \in RowEntries(evque'[r], e) : valque'[r][j] = valque[r][j]
    BY <2>2, <2>4
  <2>8. ValuesIn(e, r)'
    BY <2>1, <2>3, <2>4, <2>5, <2>6, <2>7, ValuesFrame
  <2>. QED BY <2>q, <2>8 DEF ValuesIn
<1>. QED BY <1>2, <1>3

\* The entries are replaced by the value the last of them gets.
LEMMA ValuesReplace ==
    ASSUME Inv, Types', RowValues, NEW e \in Events, PostReplace(e)
    PROVE  RowValues'
<1>. USE DEF chain, pending, blocks, sems, task, calls, posting, values
<1>q. PICK q \in Queues : q = ev_que[e]
  <2>1. ev_que[e] \in Queues
    BY PostFacts DEF Inv, PostReplace, Posting
  <2>. QED BY <2>1
<1>1. byValue[e] /\ npend[e] > 0
  <2>1. byValue[e] \in BOOLEAN
    BY DEF Inv, Types
  <2>. QED BY <2>1 DEF PostReplace, Ignores, Replaces
<1>2. LastLogOf(e, q)
  BY <1>1, <1>q DEF Inv, LastLogs
<1>L. PICK L \in Slots : L = pLastLog[e]
  BY <1>2 DEF LastLogOf
<1>3. /\ valque' = [valque EXCEPT ![q][L] = val]
      /\ sent' = [sent EXCEPT ![e] = val]
      /\ UNCHANGED <<evque, npend, pLastLog, getix, ev_que, byValue, user_sub, seen, val, tpc, event, fl>>
  BY <1>q, <1>L DEF PostReplace, Posting
<1>4. /\ valque \in [Queues -> [Slots -> 0..MaxVal]] /\ sent \in [Events -> 0..MaxVal] /\ val \in Nat
      /\ seen \in [Events -> 0..MaxVal] /\ getix \in [Queues -> Slots] /\ fl \in Nat
  BY DbEventAssumption DEF Inv, Types
<1>5. /\ valque'[q][L] = val
      /\ \A r \in Queues, j \in Slots : r # q \/ j # L => valque'[r][j] = valque[r][j]
      /\ sent'[e] = val /\ \A d \in Events \ {e} : sent'[d] = sent[d]
  BY <1>3, <1>4
<1>6. evque[q][L] = e
  BY <1>2, <1>L DEF LastLogOf
<1>7. ASSUME NEW d \in Events, d # e
      PROVE  Latest(d)' /\ (byValue'[d] /\ ev_que'[d] # NoQueue => ValuesIn(d, ev_que[d])')
  <2>1. \A r \in Queues, j \in Slots : evque[r][j] = d => valque'[r][j] = valque[r][j]
    BY <1>5, <1>6, <1>7
  <2>. QED BY <1>3, <1>5, <1>7, <2>1, ValuesOthers DEF Inv
<1>8. Latest(e)'
  BY <1>3, <1>4, <1>5 DEF RowValues, Latest
<1>9. ValuesIn(e, q)'
  <2>1. ValuesIn(e, q)
    BY <1>1, <1>q, Sizes DEF RowValues
  <2>2. ASSUME NEW i \in RowEntries(evque[q], e)
        PROVE  /\ i \in Slots /\ valque[q][i] \in Nat /\ valque'[q][i] = IF i = L THEN val ELSE valque[q][i]
               /\ valque[q][i] <= val /\ seen[e] <= valque[q][i] /\ valque[q][i] <= valque'[q][i]
    <3>1. i \in Slots
      BY DEF RowEntries
    <3>2. valque[q][i] \in Nat
      BY <1>4, <3>1
    <3>3. valque[q][i] <= val /\ seen[e] <= valque[q][i]
      BY <2>1 DEF ValuesIn
    <3>4. valque'[q][i] = IF i = L THEN val ELSE valque[q][i]
      BY <1>5, <3>1
    <3>. QED BY <1>4, <3>1, <3>2, <3>3, <3>4
  <2>3. ASSUME NEW i \in RowEntries(evque[q], e), NEW j \in RowEntries(evque[q], e),
               RowOffset(getix[q], i) <= RowOffset(getix[q], j)
        PROVE  valque'[q][i] <= valque'[q][j]
    <3>0. i \in Slots /\ j \in Slots /\ L \in Slots /\ getix[q] \in Slots
      BY <1>4 DEF RowEntries
    <3>1. CASE j = L
      BY <1>4, <2>2, <3>1
    <3>2. CASE i = L /\ j # L
      <4>1. RowOffset(getix[q], j) <= RowOffset(getix[q], L)
        BY <1>2, <1>L DEF LastLogOf
      <4>2. RowOffset(getix[q], j) \in Nat /\ RowOffset(getix[q], L) \in Nat
        BY <3>0, OffsetOf
      <4>3. RowOffset(getix[q], j) = RowOffset(getix[q], L)
        BY <2>3, <3>2, <4>1, <4>2
      <4>. QED BY <3>0, <3>2, <4>3, OffsetsDiffer
    <3>3. CASE i # L /\ j # L
      <4>1. valque[q][i] <= valque[q][j]
        BY <2>1, <2>3 DEF ValuesIn
      <4>. QED BY <2>2, <3>3, <4>1
    <3>. QED BY <3>1, <3>2, <3>3
  <2>4. \A i \in RowEntries(evque[q], e) : seen[e] <= valque'[q][i] /\ valque'[q][i] <= val
    <3>. SUFFICES ASSUME NEW i \in RowEntries(evque[q], e) PROVE seen[e] <= valque'[q][i] /\ valque'[q][i] <= val
      OBVIOUS
    <3>1. seen[e] \in Nat
      BY <1>4, DbEventAssumption
    <3>. QED BY <1>4, <2>2, <3>1
  <2>5. sent'[e] <= valque'[q][L]
    BY <1>4, <1>5
  <2>6. ASSUME tpc = "call", event = e
        PROVE  /\ seen[e] <= fl /\ fl <= val
               /\ \A i \in RowEntries(evque[q], e) : fl <= valque'[q][i]
               /\ npend[e] # 0
    <3>1. seen[e] <= fl /\ fl <= val /\ \A i \in RowEntries(evque[q], e) : fl <= valque[q][i]
      BY <2>1, <2>6 DEF ValuesIn
    <3>2. ASSUME NEW i \in RowEntries(evque[q], e) PROVE fl <= valque'[q][i]
      <4>1. fl <= valque[q][i] /\ valque[q][i] <= valque'[q][i] /\ valque[q][i] \in Nat
        BY <2>2, <3>1
      <4>2. valque'[q][i] \in Nat
        BY <1>4, <2>2
      <4>. QED BY <1>4, <4>1, <4>2
    <3>3. npend[e] # 0
      BY <1>1
    <3>. QED BY <3>1, <3>2, <3>3
  <2>. QED BY <1>3, <1>L, <2>3, <2>4, <2>5, <2>6 DEF ValuesIn
<1>10. ev_que'[e] = q
  BY <1>3, <1>q
<1>. QED BY <1>7, <1>8, <1>9, <1>10 DEF RowValues, ValuesIn

\* An entry is added behind the others, with the newest value.
LEMMA ValuesPush ==
    ASSUME Inv, Types', RowValues, NEW e \in Events, PostPush(e)
    PROVE  RowValues'
<1>. USE DEF chain, pending, blocks, sems, task, calls, posting, values
<1>q. PICK q \in Queues : q = ev_que[e]
  <2>1. ev_que[e] \in Queues
    BY PostFacts DEF Inv, PostPush, Posting
  <2>. QED BY <2>1
<1>i. PICK i \in Slots : i = putix[q]
  BY DEF Inv, Types
<1>row. PICK row : row = evque[q]
  OBVIOUS
<1>new. PICK new : new = [row EXCEPT ![i] = e]
  OBVIOUS
<1>. USE <1>q, <1>i, <1>row, <1>new
<1>1. /\ evque \in [Queues -> [Slots -> X]] /\ valque \in [Queues -> [Slots -> 0..MaxVal]]
      /\ sent \in [Events -> 0..MaxVal] /\ val \in Nat
      /\ seen \in [Events -> 0..MaxVal] /\ getix \in [Queues -> Slots] /\ fl \in Nat
      /\ row \in [Slots -> X] /\ row[i] = NoEvent /\ NoEvent \notin Events
      /\ npend \in [Events -> Int] /\ pLastLog \in [Events -> Slots \cup {NoSlot}] /\ npend[e] \in Int
  BY DbEventAssumption DEF Inv, Types, Counters, X, PostPush, SlotFree
<1>2. /\ evque' = [evque EXCEPT ![q][i] = e]
      /\ valque' = [valque EXCEPT ![q][i] = IF byValue[e] THEN val ELSE @]
      /\ pLastLog' = [pLastLog EXCEPT ![e] = LastLog(e, i)]
      /\ npend' = [npend EXCEPT ![e] = @ + 1]
      /\ sent' = [sent EXCEPT ![e] = val]
      /\ UNCHANGED <<getix, ev_que, byValue, user_sub, seen, val, tpc, event, fl>>
  BY DEF PostPush, Posting
<1>3. /\ evque'[q] = new /\ \A r \in Queues \ {q} : evque'[r] = evque[r]
      /\ \A r \in Queues, j \in Slots : r # q \/ j # i => valque'[r][j] = valque[r][j]
      /\ sent'[e] = val /\ \A d \in Events \ {e} : sent'[d] = sent[d]
      /\ npend'[e] = npend[e] + 1 /\ \A d \in Events \ {e} : npend'[d] = npend[d]
      /\ \A d \in Events \ {e} : pLastLog'[d] = pLastLog[d]
  BY <1>1, <1>2
<1>4. RowEntries(new, e) = RowEntries(row, e) \cup {i}
      /\ \A x : x \notin {e, NoEvent} => RowEntries(new, x) = RowEntries(row, x)
  <2>1. row \in [Slots -> X] /\ row[i] = NoEvent
    BY <1>1
  <2>. QED BY <2>1, RowPut
<1>5. ASSUME NEW d \in Events, d # e
      PROVE  Latest(d)' /\ (byValue'[d] /\ ev_que'[d] # NoQueue => ValuesIn(d, ev_que[d])')
  <2>1. \A r \in Queues : RowEntries(evque'[r], d) = RowEntries(evque[r], d)
    <3>1. RowEntries(evque'[q], d) = RowEntries(evque[q], d)
      BY <1>1, <1>3, <1>4, <1>5
    <3>2. \A r \in Queues \ {q} : RowEntries(evque'[r], d) = RowEntries(evque[r], d)
      BY <1>3
    <3>. QED BY <3>1, <3>2
  <2>2. \A r \in Queues, j \in Slots : evque[r][j] = d => valque'[r][j] = valque[r][j]
    BY <1>1, <1>3
  <2>. QED BY <1>2, <1>3, <1>5, <2>1, <2>2, ValuesOthers DEF Inv
<1>6. Latest(e)'
  BY <1>1, <1>2, <1>3 DEF RowValues, Latest
<1>7. ASSUME byValue[e]
      PROVE  ValuesIn(e, q)'
  <2>1. ValuesIn(e, q)
    BY <1>7, Sizes DEF RowValues
  <2>2. valque'[q][i] = val /\ pLastLog'[e] = i
    BY <1>1, <1>2, <1>7 DEF LastLog
  <2>3. \A j \in RowEntries(row, e) :
            /\ j \in Slots /\ j # i /\ valque[q][j] \in Nat /\ valque'[q][j] = valque[q][j]
            /\ seen[e] <= valque[q][j] /\ valque[q][j] <= val
    <3>. SUFFICES ASSUME NEW j \in RowEntries(row, e)
                  PROVE  /\ j \in Slots /\ j # i /\ valque[q][j] \in Nat /\ valque'[q][j] = valque[q][j]
                         /\ seen[e] <= valque[q][j] /\ valque[q][j] <= val
      OBVIOUS
    <3>1. j \in Slots /\ j # i
      BY <1>1 DEF RowEntries
    <3>2. valque[q][j] \in Nat /\ valque'[q][j] = valque[q][j]
      BY <1>1, <1>3, <3>1
    <3>. QED BY <2>1, <3>1, <3>2 DEF ValuesIn
  <2>4. \A j \in RowEntries(row, e) : RowOffset(getix[q], j) < RowOffset(getix[q], i)
    <3>1. RowContiguous(row, i, getix[q]) /\ getix[q] \in Slots
      BY <1>1 DEF Inv, Rows, RowCounted
    <3>2. e # NoEvent
      BY <1>1
    <3>3. \A j \in Slots : row[j] # NoEvent => RowOffset(getix[q], j) < RowOffset(getix[q], i)
      BY <1>1, <3>1, <3>2, ContiguousPut
    <3>. QED BY <3>2, <3>3 DEF RowEntries
  <2>5. ASSUME NEW j \in RowEntries(new, e), NEW k \in RowEntries(new, e),
               RowOffset(getix[q], j) <= RowOffset(getix[q], k)
        PROVE  valque'[q][j] <= valque'[q][k]
    <3>1. CASE k = i
      <4>1. valque'[q][k] = val
        BY <2>2, <3>1
      <4>2. CASE j = i
        BY <1>1, <2>2, <4>1, <4>2
      <4>3. CASE j # i
        BY <1>4, <2>3, <4>1, <4>3
      <4>. QED BY <4>2, <4>3
    <3>2. CASE k # i
      <4>1. j # i
        <5>. SUFFICES ASSUME j = i PROVE FALSE
          OBVIOUS
        <5>1. RowOffset(getix[q], k) < RowOffset(getix[q], i)
          BY <1>4, <2>4, <3>2
        <5>2. RowOffset(getix[q], k) \in Nat /\ RowOffset(getix[q], i) \in Nat
          BY <1>1, <1>4, <2>3, <3>2, OffsetOf
        <5>. QED BY <2>5, <5>1, <5>2
      <4>2. valque[q][j] <= valque[q][k]
        BY <1>4, <2>1, <2>5, <3>2, <4>1 DEF ValuesIn
      <4>. QED BY <1>4, <2>3, <3>2, <4>1, <4>2
    <3>. QED BY <3>1, <3>2
  <2>6. seen[e] <= val /\ seen[e] \in Nat
    BY <1>1, DbEventAssumption DEF RowValues, Latest
  <2>7. \A j \in RowEntries(new, e) : seen[e] <= valque'[q][j] /\ valque'[q][j] <= val
    BY <1>1, <1>4, <2>2, <2>3, <2>6
  <2>8. sent'[e] <= valque'[q][i]
    BY <1>1, <1>3, <2>2
  <2>9. npend'[e] # 0
    <3>1. npend[e] = Cardinality(RowEntries(row, e))
      BY DEF Inv, Rows, RowCounted
    <3>2. npend[e] \in Nat
      BY <3>1, RowFinite
    <3>. QED BY <1>3, <3>2
  <2>10. ASSUME tpc = "call", event = e
         PROVE  seen[e] <= fl /\ fl <= val /\ \A j \in RowEntries(new, e) : fl <= valque'[q][j]
    <3>1. seen[e] <= fl /\ fl <= val /\ \A j \in RowEntries(row, e) : fl <= valque[q][j]
      BY <2>1, <2>10 DEF ValuesIn
    <3>. QED BY <1>4, <2>2, <2>3, <3>1
  <2>. QED BY <1>2, <1>3, <2>2, <2>5, <2>7, <2>8, <2>9, <2>10 DEF ValuesIn
<1>8. ev_que'[e] = q
  BY <1>2
<1>. QED BY <1>2, <1>5, <1>6, <1>7, <1>8 DEF RowValues, ValuesIn

\* Reading on keeps the order of the slots that are left.
LEMMA OffsetTake ==
    ASSUME NEW g \in Slots, NEW j \in Slots, NEW k \in Slots, j # g, k # g,
           RowOffset(RNGINC(g), j) <= RowOffset(RNGINC(g), k)
    PROVE  RowOffset(g, j) <= RowOffset(g, k)
  BY Sizes DEF RNGINC, RowOffset

\* A placeholder is taken out.
LEMMA ValuesCanceled ==
    ASSUME Inv, Types', RowValues, ReadCanceled
    PROVE  RowValues'
<1>q. PICK q \in Queues : q = tque
  BY DEF Inv, Types
<1>g. PICK g \in Slots : g = getix[q]
  BY DEF Inv, Types
<1>row. PICK row : row = evque[q]
  OBVIOUS
<1>new. PICK new : new = [row EXCEPT ![g] = NoEvent]
  OBVIOUS
<1>. USE <1>q, <1>g, <1>row, <1>new DEF pending, blocks, task, calls, values
<1>1. row \in [Slots -> X] /\ row[g] = CanceledEvent
  BY DEF Inv, Types, ReadCanceled, AtSlot, X
<1>2. /\ evque \in [Queues -> [Slots -> X]] /\ getix \in [Queues -> Slots]
      /\ valque \in [Queues -> [Slots -> 0..MaxVal]]
  BY DEF Inv, Types, X
<1>3. /\ evque' = [evque EXCEPT ![q][g] = NoEvent]
      /\ valque' = [valque EXCEPT ![q][g] = 0]
      /\ getix' = [getix EXCEPT ![q] = RNGINC(@)]
      /\ UNCHANGED <<npend, pLastLog, ev_que, byValue, user_sub, seen, sent, val, tpc, event, fl>>
  BY DEF ReadCanceled, TakeSlot
<1>4. /\ evque'[q] = new /\ \A r \in Queues \ {q} : evque'[r] = evque[r]
      /\ \A r \in Queues, j \in Slots : r # q \/ j # g => valque'[r][j] = valque[r][j]
      /\ getix'[q] = RNGINC(g) /\ \A r \in Queues \ {q} : getix'[r] = getix[r]
  BY <1>1, <1>2, <1>3
<1>5. CanceledEvent # NoEvent /\ NoEvent \notin Events /\ CanceledEvent \notin Events
  BY DbEventAssumption
<1>6. \A y : y \notin {CanceledEvent, NoEvent} => RowEntries(new, y) = RowEntries(row, y)
  BY <1>1, <1>5, RowTake
<1>. SUFFICES ASSUME NEW d \in Events
              PROVE  Latest(d)' /\ (byValue'[d] /\ ev_que'[d] # NoQueue => ValuesIn(d, ev_que[d])')
  BY <1>3 DEF RowValues, ValuesIn
<1>7. \A r \in Queues, j \in Slots : evque[r][j] = d => valque'[r][j] = valque[r][j]
  BY <1>1, <1>4, <1>5
<1>8. \A r \in Queues : RowEntries(evque'[r], d) = RowEntries(evque[r], d)
  <2>1. RowEntries(evque'[q], d) = RowEntries(evque[q], d)
    BY <1>4, <1>5, <1>6
  <2>2. \A r \in Queues \ {q} : RowEntries(evque'[r], d) = RowEntries(evque[r], d)
    BY <1>4
  <2>. QED BY <2>1, <2>2
<1>9. ASSUME NEW r \in Queues, NEW j \in RowEntries(evque[r], d), NEW k \in RowEntries(evque[r], d),
             RowOffset(getix'[r], j) <= RowOffset(getix'[r], k)
      PROVE  RowOffset(getix[r], j) <= RowOffset(getix[r], k)
  <2>1. CASE r = q
    <3>1. j \in Slots /\ k \in Slots /\ j # g /\ k # g
      BY <1>1, <1>5, <2>1 DEF RowEntries
    <3>2. RowOffset(RNGINC(g), j) <= RowOffset(RNGINC(g), k)
      BY <1>4, <1>9, <2>1
    <3>3. RowOffset(g, j) <= RowOffset(g, k)
      BY <3>1, <3>2, OffsetTake
    <3>. QED BY <2>1, <3>3
  <2>2. CASE r # q
    BY <1>4, <1>9, <2>2
  <2>. QED BY <2>1, <2>2
<1>. QED BY <1>3, <1>7, <1>8, <1>9, ValuesOthers DEF Inv

\* An entry is taken out, and is the value to be delivered.
LEMMA ValuesTake ==
    ASSUME Inv, Types', Counters', Rows', LastLogs', RowValues, ReadTake
    PROVE  RowValues'
<1>q. PICK q \in Queues : q = tque
  BY DEF Inv, Types
<1>g. PICK g \in Slots : g = getix[q]
  BY DEF Inv, Types
<1>row. PICK row : row = evque[q]
  OBVIOUS
<1>new. PICK new : new = [row EXCEPT ![g] = NoEvent]
  OBVIOUS
<1>. USE <1>q, <1>g, <1>row, <1>new DEF pending, blocks, task, calls, values
<1>e. PICK e \in Events : e = row[g]
  BY DEF ReadTake, AtSlot
<1>. USE <1>e
<1>1. row \in [Slots -> X] /\ AtSlot = e
  BY DEF Inv, Types, AtSlot, X
<1>2. /\ evque \in [Queues -> [Slots -> X]] /\ getix \in [Queues -> Slots]
      /\ valque \in [Queues -> [Slots -> 0..MaxVal]]
      /\ npend \in [Events -> Int] /\ pLastLog \in [Events -> Slots \cup {NoSlot}]
      /\ NoEvent \notin Events /\ CanceledEvent # NoEvent
      /\ user_sub \in [Events -> BOOLEAN]
  BY DbEventAssumption DEF Inv, Types, Counters, X
<1>3. /\ evque' = [evque EXCEPT ![q][g] = NoEvent]
      /\ valque' = [valque EXCEPT ![q][g] = 0]
      /\ getix' = [getix EXCEPT ![q] = RNGINC(@)]
      /\ npend' = [npend EXCEPT ![e] = @ - 1]
      /\ pLastLog' = [pLastLog EXCEPT ![e] = IF npend[e] = 1 THEN NoSlot ELSE @]
      /\ event' = e /\ fl' = valque[q][g]
      /\ UNCHANGED <<ev_que, byValue, user_sub, seen, sent, val>>
  BY <1>1 DEF ReadTake, TakeSlot, Removed
<1>4. /\ evque'[q] = new /\ \A r \in Queues \ {q} : evque'[r] = evque[r]
      /\ \A r \in Queues, j \in Slots : r # q \/ j # g => valque'[r][j] = valque[r][j]
      /\ getix'[q] = RNGINC(g) /\ \A r \in Queues \ {q} : getix'[r] = getix[r]
      /\ npend'[e] = npend[e] - 1 /\ \A d \in Events \ {e} : npend'[d] = npend[d] /\ pLastLog'[d] = pLastLog[d]
      /\ npend[e] # 1 => pLastLog'[e] = pLastLog[e]
  BY <1>1, <1>2, <1>3
<1>5. ev_que[e] = q /\ npend[e] > 0 /\ npend[e] \in Int
  BY <1>2, EntryFacts DEF Inv
<1>6. /\ RowEntries(new, e) = RowEntries(row, e) \ {g}
      /\ \A y : y \notin {e, NoEvent} => RowEntries(new, y) = RowEntries(row, y)
  BY <1>1, <1>2 DEF RowEntries
<1>7. ASSUME NEW d \in Events, d # e
      PROVE  Latest(d)' /\ (byValue'[d] /\ ev_que'[d] # NoQueue => ValuesIn(d, ev_que[d])')
  <2>1. \A r \in Queues, j \in Slots : evque[r][j] = d => valque'[r][j] = valque[r][j]
    BY <1>1, <1>4, <1>7
  <2>2. \A r \in Queues : RowEntries(evque'[r], d) = RowEntries(evque[r], d)
    <3>1. RowEntries(evque'[q], d) = RowEntries(evque[q], d)
      <4>1. d # NoEvent
        BY <1>2
      <4>. QED BY <1>4, <1>6, <1>7, <4>1
    <3>2. \A r \in Queues \ {q} : RowEntries(evque'[r], d) = RowEntries(evque[r], d)
      BY <1>4
    <3>. QED BY <3>1, <3>2
  <2>3. ASSUME NEW r \in Queues, NEW j \in RowEntries(evque[r], d), NEW k \in RowEntries(evque[r], d),
               RowOffset(getix'[r], j) <= RowOffset(getix'[r], k)
        PROVE  RowOffset(getix[r], j) <= RowOffset(getix[r], k)
    <3>1. CASE r = q
      <4>1. j \in Slots /\ k \in Slots /\ j # g /\ k # g
        BY <1>7, <3>1 DEF RowEntries
      <4>2. RowOffset(RNGINC(g), j) <= RowOffset(RNGINC(g), k)
        BY <1>4, <2>3, <3>1
      <4>3. RowOffset(g, j) <= RowOffset(g, k)
        BY <4>1, <4>2, OffsetTake
      <4>. QED BY <3>1, <4>3
    <3>2. CASE r # q
      BY <1>4, <2>3, <3>2
    <3>. QED BY <3>1, <3>2
  <2>4. event' # d
    BY <1>3, <1>7
  <2>5. /\ val' = val /\ seen'[d] = seen[d] /\ sent'[d] = sent[d] /\ ev_que'[d] = ev_que[d]
        /\ byValue'[d] = byValue[d] /\ npend'[d] = npend[d] /\ pLastLog'[d] = pLastLog[d]
    BY <1>3, <1>4, <1>7
  <2>. QED BY <2>1, <2>2, <2>3, <2>4, <2>5, ValuesOthers DEF Inv
<1>8. Latest(e)'
  BY <1>3 DEF RowValues, Latest
<1>9. ASSUME byValue[e]
      PROVE  ValuesIn(e, q)'
  <2>1. ValuesIn(e, q)
    BY <1>5, <1>9, Sizes DEF RowValues
  <2>2. g \in RowEntries(row, e) /\ RowOffset(g, g) = 0
    BY OffsetOf DEF RowEntries
  <2>3. \A j \in RowEntries(new, e) : j \in Slots /\ j # g /\ j \in RowEntries(row, e) /\ valque'[q][j] = valque[q][j]
    BY <1>4, <1>6 DEF RowEntries
  <2>4. ASSUME NEW j \in RowEntries(new, e), NEW k \in RowEntries(new, e),
               RowOffset(RNGINC(g), j) <= RowOffset(RNGINC(g), k)
        PROVE  valque'[q][j] <= valque'[q][k]
    <3>1. RowOffset(g, j) <= RowOffset(g, k)
      BY <2>3, <2>4, OffsetTake
    <3>. QED BY <2>1, <2>3, <3>1 DEF ValuesIn
  <2>5. \A j \in RowEntries(new, e) : seen[e] <= valque'[q][j] /\ valque'[q][j] <= val
    BY <2>1, <2>3 DEF ValuesIn
  <2>6. LastLogOf(e, q) /\ pLastLog[e] \in Slots /\ sent[e] <= valque[q][pLastLog[e]]
    BY <1>5, <1>9, <2>1 DEF Inv, LastLogs, LastLogOf, ValuesIn
  <2>7. npend'[e] > 0 => sent[e] <= valque'[q][pLastLog'[e]]
    <3>. SUFFICES ASSUME npend'[e] > 0 PROVE sent[e] <= valque'[q][pLastLog'[e]]
      OBVIOUS
    <3>1. pLastLog'[e] = pLastLog[e]
      <4>1. npend[e] # 1
        BY <1>4, <1>5
      <4>. QED BY <1>4, <4>1
    <3>2. new[pLastLog[e]] = e
      <4>1. LastLogOf(e, ev_que[e])'
        BY <1>3, <1>9 DEF LastLogs
      <4>. QED BY <1>3, <1>4, <1>5, <3>1, <4>1 DEF LastLogOf
    <3>3. pLastLog[e] # g
      BY <1>1, <1>2, <3>2
    <3>. QED BY <1>4, <2>6, <3>1, <3>3
  <2>8. seen[e] <= fl' /\ fl' <= val
    BY <1>3, <2>1, <2>2 DEF ValuesIn
  <2>9. ASSUME NEW j \in RowEntries(new, e)
        PROVE  fl' <= valque'[q][j]
    <3>1. RowOffset(g, g) <= RowOffset(g, j)
      <4>1. RowOffset(g, j) \in Nat
        BY <2>3, OffsetOf
      <4>. QED BY <2>2, <4>1
    <3>2. valque[q][g] <= valque[q][j]
      BY <2>1, <2>2, <2>3, <3>1 DEF ValuesIn
    <3>. QED BY <1>3, <2>3, <3>2
  <2>10. npend'[e] = 0 => sent[e] <= fl'
    <3>. SUFFICES ASSUME npend'[e] = 0 PROVE sent[e] <= fl'
      OBVIOUS
    <3>1. RowEntries(new, e) = {}
      <4>1. Cardinality(RowEntries(evque'[q], e)) = 0
        BY <1>3, <1>5 DEF Rows, RowCounted
      <4>2. RowEntries(evque'[q], e) = {}
        BY <4>1, RowFinite
      <4>. QED BY <1>4, <4>2
    <3>2. pLastLog[e] = g
      BY <1>6, <2>6, <3>1 DEF LastLogOf, RowEntries
    <3>. QED BY <1>3, <2>6, <3>2
  <2>11. /\ evque'[q] = new /\ getix'[q] = RNGINC(g)
         /\ seen'[e] = seen[e] /\ sent'[e] = sent[e] /\ val' = val
    BY <1>3, <1>4
  <2>. HIDE <1>q, <1>g, <1>row, <1>new, <1>e
  <2>. QED BY <2>4, <2>5, <2>7, <2>8, <2>9, <2>10, <2>11 DEF ValuesIn
<1>10. ev_que'[e] = q
  BY <1>3, <1>5
<1>11. byValue' = byValue /\ (ValuesIn(e, q)' <=> ValuesIn(e, ev_que[e])')
  BY <1>3, <1>10 DEF ValuesIn
<1>. QED BY <1>7, <1>8, <1>9, <1>11 DEF RowValues

\* The entries of a canceled event go.
LEMMA ValuesPurge ==
    ASSUME Inv, Types', RowValues, NEW c \in Callers, CancelPurge(c)
    PROVE  RowValues'
<1>e. PICK e \in Events : e = cev[c]
  BY CallFacts DEF Inv, CancelPurge
<1>q. PICK q \in Queues : q = ev_que[e]
  BY <1>e, CallFacts DEF Inv, CancelPurge, Canceling
<1>row. PICK row : row = evque[q]
  OBVIOUS
<1>new. PICK new : new = [i \in Slots |-> IF row[i] = e THEN CanceledEvent ELSE row[i]]
  OBVIOUS
<1>. USE <1>e, <1>q, <1>row, <1>new DEF chain, pending, blocks, task, calls
<1>1. /\ evque \in [Queues -> [Slots -> X]] /\ row \in [Slots -> X]
      /\ valque \in [Queues -> [Slots -> 0..MaxVal]] /\ npend \in [Events -> Int]
      /\ pLastLog \in [Events -> Slots \cup {NoSlot}] /\ user_sub \in [Events -> BOOLEAN]
      /\ ev_que \in [Events -> Queues \cup {NoQueue}] /\ byValue \in [Events -> BOOLEAN]
      /\ sent \in [Events -> 0..MaxVal] /\ seen \in [Events -> 0..MaxVal]
      /\ val \in Nat
  <2>1. val \in Nat
    BY DEF Inv, Types
  <2>. QED BY <2>1 DEF Inv, Types, Counters, X
<1>c. NoQueue \notin Queues /\ CanceledEvent # NoEvent /\ NoEvent \notin Events /\ CanceledEvent \notin Events
  BY Sizes, DbEventAssumption
<1>2. /\ evque' = [evque EXCEPT ![q] = [i \in Slots |-> IF @[i] = e THEN CanceledEvent ELSE @[i]]]
      /\ valque' = [valque EXCEPT ![q] = [i \in Slots |-> IF evque[q][i] = e THEN 0 ELSE @[i]]]
      /\ npend' = [npend EXCEPT ![e] = 0]
      /\ pLastLog' = [pLastLog EXCEPT ![e] = NoSlot]
      /\ user_sub' = [user_sub EXCEPT ![e] = FALSE]
      /\ UNCHANGED <<getix, tpc, event, fl, val>>
  BY DEF CancelPurge
<1>3. \/ UNCHANGED <<ev_que, byValue, sent, seen>>
      \/ /\ ev_que' = [ev_que EXCEPT ![e] = NoQueue]
         /\ byValue' = [byValue EXCEPT ![e] = FALSE]
         /\ sent' = [sent EXCEPT ![e] = 0]
         /\ seen' = [seen EXCEPT ![e] = 0]
  BY DEF CancelPurge, Release
<1>4. /\ evque'[q] = new /\ \A r \in Queues \ {q} : evque'[r] = evque[r]
      /\ npend'[e] = 0 /\ ~user_sub'[e]
      /\ \A d \in Events \ {e} : npend'[d] = npend[d] /\ pLastLog'[d] = pLastLog[d] /\ user_sub'[d] = user_sub[d]
  BY <1>1, <1>c, <1>2
<1>5. \A d \in Events \ {e} : ev_que'[d] = ev_que[d] /\ byValue'[d] = byValue[d]
                              /\ sent'[d] = sent[d] /\ seen'[d] = seen[d]
  BY <1>1, <1>c, <1>3
<1>6. RowEntries(new, e) = {} /\ \A x : x \notin {e, CanceledEvent} => RowEntries(new, x) = RowEntries(row, x)
  BY <1>1, <1>c DEF RowEntries
<1>7. ASSUME NEW d \in Events, d # e
      PROVE  Latest(d)' /\ (byValue'[d] /\ ev_que'[d] # NoQueue => ValuesIn(d, ev_que[d])')
  <2>1. ASSUME NEW r \in Queues, NEW j \in Slots, evque[r][j] = d
        PROVE  valque'[r][j] = valque[r][j]
    BY <1>1, <1>c, <1>2, <1>7, <2>1
  <2>2. \A r \in Queues : RowEntries(evque'[r], d) = RowEntries(evque[r], d)
    <3>1. RowEntries(evque'[q], d) = RowEntries(evque[q], d)
      <4>1. d # CanceledEvent
        BY <1>1, <1>c
      <4>. QED BY <1>4, <1>6, <1>7, <4>1
    <3>2. \A r \in Queues \ {q} : RowEntries(evque'[r], d) = RowEntries(evque[r], d)
      BY <1>4
    <3>. QED BY <3>1, <3>2
  <2>3. /\ UNCHANGED <<getix, tpc, event, fl, val>>
        /\ npend'[d] = npend[d] /\ pLastLog'[d] = pLastLog[d] /\ user_sub'[d] = user_sub[d]
        /\ ev_que'[d] = ev_que[d] /\ byValue'[d] = byValue[d] /\ sent'[d] = sent[d] /\ seen'[d] = seen[d]
    BY <1>2, <1>4, <1>5, <1>7
  <2>. QED BY <2>1, <2>2, <2>3, ValuesOthers DEF Inv
<1>8. Latest(e)'
  <2>1. seen'[e] \in {0, seen[e]} /\ sent'[e] \in {0, sent[e]} /\ val' = val
    BY <1>1, <1>c, <1>2, <1>3
  <2>2. seen[e] <= val /\ sent[e] <= val
    BY DEF RowValues, Latest
  <2>. QED BY <1>1, <1>c, <2>1, <2>2 DEF Latest
<1>9. ASSUME byValue'[e], ev_que'[e] # NoQueue
      PROVE  ValuesIn(e, ev_que[e])'
  <2>1. UNCHANGED <<ev_que, byValue, sent, seen>>
    BY <1>1, <1>c, <1>3, <1>9
  <2>2. ValuesIn(e, q)
    BY <1>1, <1>c, <1>9, <2>1 DEF RowValues
  <2>3. ValuesIn(e, q)'
    <3>1. RowEntries(evque'[q], e) = {}
      BY <1>4, <1>6
    <3>2. npend'[e] = 0 /\ ~user_sub'[e]
      BY <1>4
    <3>3. tpc = "call" /\ event = e => seen[e] <= fl /\ fl <= val
      BY <2>2 DEF ValuesIn
    <3>4. UNCHANGED <<getix, tpc, event, fl, val, sent, seen>>
      BY <1>2, <2>1
    <3>. HIDE <1>e, <1>q, <1>row, <1>new
    <3>. QED BY <3>1, <3>2, <3>3, <3>4 DEF ValuesIn
  <2>4. ev_que'[e] = q
    BY <2>1
  <2>. QED BY <2>3, <2>4 DEF ValuesIn
<1>. QED BY <1>7, <1>8, <1>9 DEF RowValues

\* A value is delivered.
LEMMA ValuesCall ==
    ASSUME Inv, Types', RowValues, Call
    PROVE  RowValues'
<1>. USE DEF queues, chain, pending, blocks, task, calls
<1>e. PICK e \in Events : e = event
  BY DEF Inv, Types, InCallback, Call
<1>q. PICK q \in Queues : q = ev_que[e]
  BY <1>e DEF Inv, Types, InCallback, Call
<1>1. /\ seen \in [Events -> 0..MaxVal] /\ val \in Nat /\ NoQueue \notin Queues
  BY Sizes, DbEventAssumption DEF Inv, Types
<1>2. /\ tpc = "call" /\ tpc' = "callback"
      /\ seen' = [seen EXCEPT ![e] = IF byValue[e] THEN fl ELSE val]
      /\ UNCHANGED <<evque, valque, getix, npend, pLastLog, ev_que, byValue, user_sub, event, val, sent>>
  BY <1>e DEF Call
<1>3. seen'[e] = (IF byValue[e] THEN fl ELSE val) /\ \A d \in Events \ {e} : seen'[d] = seen[d]
  BY <1>1, <1>2
<1>4. ASSUME NEW d \in Events, d # e
      PROVE  Latest(d)' /\ (byValue'[d] /\ ev_que'[d] # NoQueue => ValuesIn(d, ev_que[d])')
  <2>1. /\ UNCHANGED <<evque, valque, getix, npend, pLastLog, sent, ev_que, byValue>>
        /\ seen'[d] = seen[d] /\ val' >= val /\ tpc' # "call"
    BY <1>1, <1>2, <1>3, <1>4
  <2>. QED BY <2>1, ValuesSame DEF Inv
<1>5. ASSUME byValue[e]
      PROVE  ValuesIn(e, q) /\ fl <= val /\ \A i \in RowEntries(evque[q], e) : fl <= valque[q][i]
  <2>1. ValuesIn(e, q)
    BY <1>1, <1>5, <1>q DEF RowValues
  <2>. QED BY <1>2, <1>e, <2>1 DEF ValuesIn
<1>6. Latest(e)'
  <2>1. sent[e] <= val /\ val <= val
    BY <1>1 DEF RowValues, Latest
  <2>. QED BY <1>2, <1>3, <1>5, <2>1 DEF Latest
<1>7. ASSUME byValue'[e], ev_que'[e] # NoQueue
      PROVE  ValuesIn(e, ev_que[e])'
  <2>1. byValue[e] /\ seen'[e] = fl /\ ev_que'[e] = q
    BY <1>2, <1>3, <1>7, <1>q
  <2>2. ValuesIn(e, q)'
    BY <1>2, <1>5, <2>1 DEF ValuesIn
  <2>. QED BY <2>1, <2>2 DEF ValuesIn
<1>. QED BY <1>4, <1>6, <1>7 DEF RowValues

\* Every step keeps the order of the values.
LEMMA ValuesStep ==
    ASSUME Inv, RowValues, [Next]_vars
    PROVE  RowValues'
<1>. USE DEF queues, chain, pending, blocks, sems, task, calls, posting, values
<1>0. Types /\ Types' /\ Counters' /\ Rows' /\ LastLogs'
  BY TypesStep, RowsStep DEF Inv
<1>1. /\ ev_que \in [Events -> Queues \cup {NoQueue}] /\ byValue \in [Events -> BOOLEAN]
      /\ cev \in [Callers -> Events \cup {NoEvent}] /\ val \in Nat /\ val >= val
      /\ seen \in [Events -> 0..MaxVal] /\ sent \in [Events -> 0..MaxVal]
      /\ callBackInProgress \in [Events -> BOOLEAN] /\ user_sub \in [Events -> BOOLEAN]
      /\ NoQueue \notin Queues
  <2>1. val \in Nat /\ val >= val
    BY DEF Inv, Types
  <2>. QED BY <2>1, Sizes DEF Inv, Types
<1>2. ASSUME UNCHANGED <<evque, valque, getix, npend, pLastLog, ev_que, byValue, user_sub, seen, sent>>,
             val' >= val, tpc' = "call" => tpc = "call" /\ event' = event /\ fl' = fl
      PROVE  RowValues'
  <2>. SUFFICES ASSUME NEW e \in Events
                PROVE  Latest(e)' /\ (byValue'[e] /\ ev_que'[e] # NoQueue => ValuesIn(e, ev_que[e])')
    BY DEF RowValues
  <2>. QED BY <1>0, <1>2, ValuesSame
<1>3. ASSUME NEW c \in Callers, AddEvent(c)
      PROVE  RowValues'
  <2>1. PICK e \in Events : ev_que[e] = NoQueue /\ \E v \in BOOLEAN : byValue' = [byValue EXCEPT ![e] = v]
    BY <1>3 DEF AddEvent
  <2>2. UNCHANGED <<evque, valque, getix, npend, pLastLog, ev_que, user_sub, seen, sent, val, tpc, event, fl>>
    BY <1>3 DEF AddEvent
  <2>3. \A d \in Events : ev_que'[d] # NoQueue => byValue'[d] = byValue[d]
    BY <1>1, <2>1, <2>2
  <2>. SUFFICES ASSUME NEW d \in Events
                PROVE  Latest(d)' /\ (byValue'[d] /\ ev_que'[d] # NoQueue => ValuesIn(d, ev_que[d])')
    BY DEF RowValues
  <2>. QED BY <1>0, <1>1, <2>2, <2>3, ValuesSame
<1>4. ASSUME NEW c \in Callers, AddFind(c) \/ AddQueue(c)
      PROVE  RowValues'
  <2>1. UNCHANGED <<evque, valque, getix, npend, pLastLog, byValue, seen, sent, val, tpc, event, fl>>
    BY <1>4 DEF AddFind, AddQueue
  <2>e. PICK e \in Events : e = cev[c] /\ ev_que[e] = NoQueue
    <3>1. cpc[c] = "walk"
      BY <1>4 DEF AddFind, AddQueue
    <3>. QED BY <3>1, CallFacts DEF Inv, CallsOwn, CallerOwns
  <2>2. \A d \in Events \ {e} : ev_que'[d] = ev_que[d] /\ user_sub'[d] = user_sub[d]
    BY <1>1, <1>4, <2>e DEF AddFind, AddQueue, Install
  <2>3. ASSUME NEW d \in Events, d # e
        PROVE  Latest(d)' /\ (byValue'[d] /\ ev_que'[d] # NoQueue => ValuesIn(d, ev_que[d])')
    <3>1. ev_que'[d] = ev_que[d] /\ user_sub'[d] = user_sub[d]
      BY <2>2, <2>3
    <3>. QED BY <1>0, <1>1, <2>1, <3>1, ValuesSame
  <2>4. Latest(e)'
    BY <2>1 DEF RowValues, Latest
  <2>5. ASSUME ev_que'[e] # NoQueue
        PROVE  ValuesIn(e, ev_que[e])'
    <3>q. PICK q \in Queues : q = ev_que'[e]
      BY <1>0, <2>5 DEF Types
    <3>1. npend[e] = 0
      BY <2>e DEF Inv, CallsOwn, BlockKept
    <3>2. RowEntries(evque[q], e) = {}
      <4>1. Cardinality(RowEntries(evque[q], e)) = 0
        BY <1>1, <2>e DEF Inv, Rows, RowCounted
      <4>. QED BY <4>1, RowFinite
    <3>3. ~(tpc = "call" /\ event = e)
      BY <2>e DEF Inv, InCallback
    <3>4. ValuesIn(e, q)'
      BY <2>1, <3>1, <3>2, <3>3 DEF ValuesIn
    <3>. QED BY <3>q, <3>4 DEF ValuesIn
  <2>. QED BY <2>3, <2>4, <2>5 DEF RowValues
<1>5. ASSUME NEW c \in Callers, CancelCheck(c)
      PROVE  RowValues'
  <2>1. UNCHANGED <<evque, valque, getix, npend, pLastLog, user_sub, val, tpc, event, fl>>
    BY <1>5 DEF CancelCheck
  <2>e. cev[c] \in Events
    BY <1>5, CallFacts DEF Inv, CancelCheck
  <2>2. \/ UNCHANGED <<ev_que, byValue, sent, seen>>
        \/ /\ ev_que' = [ev_que EXCEPT ![cev[c]] = NoQueue]
           /\ byValue' = [byValue EXCEPT ![cev[c]] = FALSE]
           /\ sent' = [sent EXCEPT ![cev[c]] = 0]
           /\ seen' = [seen EXCEPT ![cev[c]] = 0]
    BY <1>5 DEF CancelCheck, Release
  <2>. SUFFICES ASSUME NEW d \in Events
                PROVE  Latest(d)' /\ (byValue'[d] /\ ev_que'[d] # NoQueue => ValuesIn(d, ev_que[d])')
    BY DEF RowValues
  <2>3. /\ ev_que'[d] # NoQueue => ev_que'[d] = ev_que[d] /\ byValue'[d] = byValue[d]
                                    /\ seen'[d] = seen[d] /\ sent'[d] = sent[d]
        /\ seen'[d] \in {0, seen[d]} /\ sent'[d] \in {0, sent[d]}
    BY <1>1, <2>2, <2>e
  <2>. QED BY <1>0, <1>1, <2>1, <2>3, ValuesSame
<1>6. ASSUME NEW e \in Events, PostIgnored(e)
      PROVE  RowValues'
  <2>1. /\ UNCHANGED <<evque, valque, getix, npend, pLastLog, ev_que, byValue, user_sub, seen, val, tpc, event, fl>>
        /\ ~byValue[e] /\ sent' = [sent EXCEPT ![e] = val]
    BY <1>6 DEF PostIgnored, Posting, Ignores
  <2>2. ASSUME NEW d \in Events, d # e
        PROVE  Latest(d)' /\ (byValue'[d] /\ ev_que'[d] # NoQueue => ValuesIn(d, ev_que[d])')
    <3>1. sent'[d] = sent[d]
      BY <1>1, <2>1, <2>2
    <3>. QED BY <1>0, <1>1, <2>1, <3>1, ValuesSame
  <2>3. Latest(e)'
    BY <1>1, <2>1 DEF RowValues, Latest
  <2>. QED BY <2>1, <2>2, <2>3 DEF RowValues
<1>7. ASSUME NEW c \in Callers,
             \/ CancelEvent(c) \/ FlowCtrl(c) \/ CloseEvents(c) \/ AddFails(c) \/ AddChain(c)
             \/ AddQuota(c) \/ PostFirst(c) \/ EnableEvent(c) \/ CancelWait(c) \/ CallerSignal(c)
      PROVE  RowValues'
  BY <1>1, <1>2, <1>7 DEF CancelEvent, FlowCtrl, CloseEvents, AddFails, AddChain, AddQuota, PostFirst,
                    EnableEvent, CancelWait, CallerSignal
<1>8. ASSUME NEW e \in Events, PostOverflow(e)
      PROVE  RowValues'
  BY <1>1, <1>2, <1>8 DEF PostOverflow, Posting
<1>9. CASE PostEvents
  <2>1. val' >= val
    BY <1>1, <1>9 DEF PostEvents
  <2>. QED BY <1>2, <1>9, <2>1 DEF PostEvents
<1>10. CASE PostSignal \/ PostDone
  BY <1>1, <1>2, <1>10 DEF PostSignal, PostDone
<1>11. CASE TaskWake \/ ReadEnter \/ ReadEnd \/ PassDone \/ CallReturns
  BY <1>1, <1>2, <1>11 DEF TaskWake, ReadEnter, ReadEnd, NextQueue, PassDone, CallReturns
<1>12. CASE UNCHANGED vars
  BY <1>1, <1>2, <1>12 DEF vars
<1>. QED BY <1>0, <1>3, <1>4, <1>5, <1>6, <1>7, <1>8, <1>9, <1>10, <1>11, <1>12,
            ValuesReplace, ValuesPush, ValuesPurge, ValuesCanceled, ValuesTake, ValuesCall
         DEF Next, CallerNext, AddNext, CancelNext, PostNext, TaskNext

\* At first no value has been posted.
LEMMA InitValues == Init => RowValues
<1>. SUFFICES ASSUME Init, NEW e \in Events PROVE Latest(e) /\ ev_que[e] = NoQueue
  BY DEF RowValues
<1>. QED BY DEF Init, Latest

\* The inductive invariant, as the module states it.
THEOREM InductiveInvariance == Spec => []IInv
<1>1. Init => Inv /\ QuotaCounted /\ RowValues
  BY InitInv, InitValues
<1>2. Inv /\ QuotaCounted /\ RowValues /\ [Next]_vars => (Inv /\ QuotaCounted /\ RowValues)'
  BY TypesStep, RowsStep, CallsStep, InCallbackStep, QuotaStep, ValuesStep DEF Inv
<1>3. Inv /\ QuotaCounted /\ RowValues => IInv
  <2>. SUFFICES ASSUME Inv, QuotaCounted, RowValues PROVE IInv
    OBVIOUS
  <2>1. RingInOrder /\ ValuesInOrder
    BY InvRing, ValuesByRow DEF Inv
  <2>2. FullRing
    BY DEF Inv, Rows, RowCounted, RowFull, FullRing
  <2>3. LastLogInRing
    BY DEF Inv, LastLogs, LastLogOf, LastLogInRing
  <2>. QED BY <2>1, <2>2, <2>3 DEF Inv, IInv
<1>. QED BY <1>1, <1>2, <1>3, PTL DEF Spec

\* A subscriber never gets an older value after a newer one, though a post may
\* overwrite the entry the event task reads towards.
THEOREM InOrder == Spec => DeliveredInOrder
<1>. DEFINE Rises == \A e \in Events : (ev_que[e] # NoQueue /\ ev_que'[e] # NoQueue) => seen'[e] >= seen[e]
<1>1. ASSUME Inv, RowValues, [Next]_vars
      PROVE  Rises
  <2>. USE DEF queues, chain, pending, blocks, sems, task, calls, posting, values
  <2>0. /\ seen \in [Events -> 0..MaxVal] /\ \A e \in Events : seen[e] >= seen[e]
        /\ ev_que \in [Events -> Queues \cup {NoQueue}] /\ NoQueue \notin Queues
    <3>1. seen \in [Events -> 0..MaxVal]
      BY <1>1 DEF Inv, Types
    <3>2. \A e \in Events : seen[e] >= seen[e]
      BY <3>1
    <3>. QED BY <1>1, <3>1, <3>2, Sizes DEF Inv, Types
  <2>1. CASE UNCHANGED seen
    BY <2>0, <2>1
  <2>2. CASE Call
    <3>e. PICK e \in Events : e = event /\ ev_que[e] # NoQueue
      BY <1>1, <2>2 DEF Inv, Types, InCallback, Call
    <3>1. /\ seen' = [seen EXCEPT ![e] = IF byValue[e] THEN fl ELSE val] /\ tpc = "call"
      BY <2>2, <3>e DEF Call
    <3>2. seen[e] <= val /\ val \in Nat /\ seen[e] \in Nat /\ fl \in Nat
      <4>1. seen[e] <= val
        BY <1>1 DEF RowValues, Latest
      <4>2. val \in Nat /\ fl \in Nat /\ seen[e] \in Nat
        BY <1>1 DEF Inv, Types
      <4>. QED BY <4>1, <4>2
    <3>3. byValue[e] => seen[e] <= fl
      BY <1>1, <3>1, <3>e DEF RowValues, ValuesIn
    <3>4. seen'[e] >= seen[e]
      BY <2>0, <3>1, <3>2, <3>3
    <3>5. \A d \in Events \ {e} : seen'[d] = seen[d]
      BY <2>0, <3>1
    <3>. QED BY <2>0, <3>4, <3>5
  <2>3. ASSUME NEW c \in Callers, CancelPurge(c) \/ CancelCheck(c)
        PROVE  Rises
    <3>1. \/ UNCHANGED seen
          \/ seen' = [seen EXCEPT ![cev[c]] = 0] /\ ev_que' = [ev_que EXCEPT ![cev[c]] = NoQueue]
      BY <2>3 DEF CancelPurge, CancelCheck, Release
    <3>2. \A e \in Events : ev_que'[e] # NoQueue => seen'[e] = seen[e]
      BY <2>0, <3>1, Sizes
    <3>. QED BY <2>0, <3>2
  <2>4. ASSUME NEW c \in Callers,
             \/ AddEvent(c) \/ AddFind(c) \/ AddQueue(c)
             \/ CancelEvent(c) \/ FlowCtrl(c) \/ CloseEvents(c) \/ AddFails(c) \/ AddChain(c)
             \/ AddQuota(c) \/ PostFirst(c) \/ EnableEvent(c) \/ CancelWait(c) \/ CallerSignal(c)
        PROVE  Rises
    BY <2>1, <2>4 DEF AddEvent, AddFind, AddQueue, CancelEvent, FlowCtrl, CloseEvents, AddFails, AddChain,
                    AddQuota, PostFirst, EnableEvent, CancelWait, CallerSignal
  <2>5. ASSUME NEW e \in Events, PostIgnored(e) \/ PostReplace(e) \/ PostPush(e) \/ PostOverflow(e)
        PROVE  Rises
    BY <2>1, <2>5 DEF PostIgnored, PostReplace, PostPush, PostOverflow, Posting
  <2>6. CASE PostEvents \/ PostSignal \/ PostDone
    BY <2>1, <2>6 DEF PostEvents, PostSignal, PostDone
  <2>7. CASE TaskWake \/ ReadEnter \/ ReadEnd \/ PassDone \/ CallReturns \/ ReadTake \/ ReadCanceled
    BY <2>1, <2>7 DEF TaskWake, ReadEnter, ReadEnd, PassDone, CallReturns, ReadTake, ReadCanceled
  <2>8. CASE UNCHANGED vars
    BY <2>1, <2>8 DEF vars
  <2>. HIDE DEF Rises
  <2>. QED BY <1>1, <2>2, <2>3, <2>4, <2>5, <2>6, <2>7, <2>8
           DEF Next, CallerNext, AddNext, CancelNext, PostNext, TaskNext
<1>2. Init => Inv /\ RowValues
  BY InitInv, InitValues
<1>3. Inv /\ RowValues /\ [Next]_vars => (Inv /\ RowValues)'
  BY TypesStep, RowsStep, CallsStep, InCallbackStep, ValuesStep DEF Inv
<1>4. Inv /\ RowValues /\ [Next]_vars => [Rises]_vars
  BY <1>1
<1>. HIDE DEF Rises
<1>5. Spec => [][Rises]_vars
  BY <1>2, <1>3, <1>4, PTL DEF Spec
<1>. QED BY <1>5 DEF DeliveredInOrder, Rises

\* The end of a callback whose canceller waits never goes by without a signal.
THEOREM FlushesCome == Spec => FlushComes
<1>. DEFINE Comes == \A c \in Callers :
                        (cpc[c] = "cancel_wait" /\ cpc'[c] = "cancel_wait" /\ Told(c)) =>
                            \/ Told(c)'
                            \/ \E d \in Callers \ {c} :
                                    cpc[d] = "cancel_wait" /\ cpc'[d] = "cancel_check"
<1>1. ASSUME Inv, [Next]_vars
      PROVE  Comes
  <2>. DEFINE Taken(c) == \E d \in Callers \ {c} : cpc[d] = "cancel_wait" /\ cpc'[d] = "cancel_check"
  <2>. SUFFICES ASSUME NEW c \in Callers, cpc[c] = "cancel_wait", cpc'[c] = "cancel_wait", Told(c)
                PROVE  Told(c)' \/ Taken(c)
    OBVIOUS
  <2>. USE DEF queues, chain, pending, blocks, sems, task, calls, posting, values
  <2>c. CallsOwn
    BY <1>1 DEF Inv
  <2>t. /\ cpc \in [Callers -> CallLabels] /\ cev \in [Callers -> Events \cup {NoEvent}]
        /\ callBackInProgress \in [Events -> BOOLEAN] /\ NoEvent \notin Events
    BY <1>1, DbEventAssumption DEF Inv, Types
  <2>o. /\ cev[c] \in Events /\ ~user_sub[cev[c]] /\ npend[cev[c]] = 0 /\ ev_que[cev[c]] # NoQueue
        /\ \A d \in Callers : cev[d] = cev[c] => d = c
    BY <2>c, <2>t DEF CallsOwn, CallerOwns, Canceling
  <2>1. CASE UNCHANGED <<cev, callBackInProgress, pflush_sem>>
    BY <2>1 DEF Told
  <2>2. ASSUME NEW d \in Callers, AddEvent(d)
        PROVE  Told(c)'
    <3>1. PICK e \in Events : /\ cev[c] # e /\ cev' = [cev EXCEPT ![d] = e]
                              /\ callBackInProgress' = [callBackInProgress EXCEPT ![e] = FALSE]
      BY <2>2 DEF AddEvent
    <3>2. d # c /\ pflush_sem' = pflush_sem
      BY <2>2 DEF AddEvent, Free
    <3>. QED BY <2>t, <2>o, <3>1, <3>2 DEF Told
  <2>3. ASSUME NEW d \in Callers, CancelEvent(d)
        PROVE  Told(c)'
    <3>1. d # c /\ UNCHANGED <<callBackInProgress, pflush_sem>> /\ \E e \in Events : cev' = [cev EXCEPT ![d] = e]
      BY <2>3 DEF CancelEvent, Free
    <3>. QED BY <2>t, <3>1 DEF Told
  <2>4. ASSUME NEW d \in Callers,
               AddFails(d) \/ EnableEvent(d) \/ CallerSignal(d) \/ CancelPurge(d) \/ CancelCheck(d)
        PROVE  Told(c)'
    <3>1. d # c \/ UNCHANGED cev
      BY <2>4 DEF AddFails, EnableEvent, CallerSignal, CancelPurge, CancelCheck, Goto
    <3>2. UNCHANGED cev \/ cev' = [cev EXCEPT ![d] = NoEvent]
      BY <2>4 DEF AddFails, EnableEvent, CallerSignal, CancelPurge, CancelCheck, Release, Finish
    <3>3. UNCHANGED <<callBackInProgress, pflush_sem>>
      BY <2>4 DEF AddFails, EnableEvent, CallerSignal, CancelPurge, CancelCheck
    <3>4. cev'[c] = cev[c]
      BY <2>t, <3>1, <3>2
    <3>. QED BY <3>3, <3>4 DEF Told
  <2>5. ASSUME NEW d \in Callers, CancelWait(d)
        PROVE  Taken(c)
    <3>1. cpc[d] = "cancel_wait" /\ cpc' = [cpc EXCEPT ![d] = "cancel_check"]
      BY <2>5 DEF CancelWait, Goto
    <3>2. cpc'[d] = "cancel_check" /\ d # c
      BY <2>t, <3>1
    <3>. QED BY <3>1, <3>2
  <2>6. ASSUME NEW d \in Callers,
               \/ FlowCtrl(d) \/ CloseEvents(d) \/ AddFind(d) \/ AddQueue(d) \/ AddChain(d)
               \/ AddQuota(d) \/ PostFirst(d)
        PROVE  Told(c)' \/ Taken(c)
    BY <2>1, <2>6 DEF FlowCtrl, CloseEvents, AddFind, AddQueue, AddChain, AddQuota, PostFirst
  <2>7. ASSUME NEW e \in Events, PostIgnored(e) \/ PostReplace(e) \/ PostPush(e) \/ PostOverflow(e)
        PROVE  Told(c)' \/ Taken(c)
    BY <2>1, <2>7 DEF PostIgnored, PostReplace, PostPush, PostOverflow, Posting
  <2>8. CASE PostEvents \/ PostSignal \/ PostDone
    BY <2>1, <2>8 DEF PostEvents, PostSignal, PostDone
  <2>9. CASE TaskWake \/ ReadEnter \/ ReadEnd \/ PassDone \/ Call \/ ReadCanceled
    BY <2>1, <2>9 DEF TaskWake, ReadEnter, ReadEnd, PassDone, Call, ReadCanceled
  <2>10. CASE ReadTake
    <3>1. UNCHANGED <<cev, pflush_sem>>
      BY <2>10 DEF ReadTake
    <3>2. \/ UNCHANGED callBackInProgress
          \/ callBackInProgress' = [callBackInProgress EXCEPT ![AtSlot] = TRUE]
      BY <2>10 DEF ReadTake
    <3>3. callBackInProgress[cev[c]] => callBackInProgress'[cev[c]]
      BY <2>t, <2>o, <3>2
    <3>. QED BY <3>1, <3>3 DEF Told
  <2>11. CASE CallReturns
    <3>1. UNCHANGED cev
      BY <2>11 DEF CallReturns
    <3>2. CASE UNCHANGED <<callBackInProgress, pflush_sem>>
      BY <2>1, <3>1, <3>2
    <3>3. CASE /\ callBackInProgress' = [callBackInProgress EXCEPT ![event] = FALSE]
               /\ pflush_sem' = (pflush_sem \/ CallReturnsFlush(event))
      <4>1. CASE event = cev[c]
        BY <2>o, <3>3, <4>1 DEF Told, CallReturnsFlush
      <4>2. CASE event # cev[c]
        <5>1. callBackInProgress'[cev[c]] = callBackInProgress[cev[c]]
          BY <2>t, <2>o, <3>3, <4>2
        <5>. QED BY <3>1, <3>3, <5>1 DEF Told
      <4>. QED BY <4>1, <4>2
    <3>. QED BY <2>11, <3>2, <3>3 DEF CallReturns
  <2>12. CASE UNCHANGED vars
    BY <2>1, <2>12 DEF vars
  <2>. HIDE DEF Taken
  <2>. QED BY <1>1, <2>2, <2>3, <2>4, <2>5, <2>6, <2>7, <2>8, <2>9, <2>10, <2>11, <2>12
           DEF Next, CallerNext, AddNext, CancelNext, PostNext, TaskNext
<1>2. Init => Inv
  BY InitInv
<1>3. Inv /\ [Next]_vars => Inv'
  BY TypesStep, RowsStep, CallsStep, InCallbackStep DEF Inv
<1>4. Inv /\ [Next]_vars => [Comes]_vars
  BY <1>1
<1>. HIDE DEF Comes
<1>5. Spec => [][Comes]_vars
  BY <1>2, <1>3, <1>4, PTL DEF Spec
<1>. QED BY <1>5 DEF FlushComes, Comes

-----------------------------------------------------------------------------
(* Nothing is lost, if threads do not subscribe at the same time *)

\* There is one thread that subscribes, or no second queue to add.
OneSubscriber == (\A c, d \in Callers : c = d) \/ MaxQueues = 1

\* While a queue is being put on the list nobody else looks at the list.
LEMMA Alone ==
    ASSUME OneSubscriber, Inv, ChainKept, NEW c \in Callers, cpc[c] = "chain", NEW d \in Callers
    PROVE  d = c
<1>1. ev_que[cev[c]] \in Queues /\ ev_que[cev[c]] # 1
  BY CallFacts DEF Inv, ChainKept, Adding
<1>2. MaxQueues # 1
  BY <1>1, DbEventAssumption DEF Queues
<1>. QED BY <1>2 DEF OneSubscriber

\* A step that leaves the list alone.
LEMMA ChainFrame ==
    ASSUME ChainKept, UNCHANGED <<nextque, made>>,
           \A e \in Events : ev_que'[e] # NoQueue => ev_que'[e] \in made,
           \A c \in Callers : (cpc'[c] = "chain" <=> cpc[c] = "chain")
                              /\ (cpc[c] = "chain" => cque'[c] = cque[c] /\ ev_que'[cev'[c]] = ev_que[cev[c]])
                              /\ (cpc'[c] = "walk" => cque'[c] \in made)
    PROVE  ChainKept'
<1>1. \A q \in made : OnChain(q)'
  BY DEF ChainKept, OnChain
<1>. QED BY <1>1 DEF ChainKept

\* Every step keeps the list of queues.
LEMMA ChainStep ==
    ASSUME OneSubscriber, Inv, ChainKept, [Next]_vars
    PROVE  ChainKept'
<1>. USE DEF queues, chain, pending, blocks, sems, task, calls, posting, values, Goto
<1>1. /\ ev_que \in [Events -> Queues \cup {NoQueue}]
      /\ cev \in [Callers -> Events \cup {NoEvent}] /\ cpc \in [Callers -> CallLabels]
      /\ cque \in [Callers -> Queues \cup {NoQueue}] /\ nextque \in [Queues -> Queues \cup {NoQueue}]
      /\ made \subseteq Queues
  BY DEF Inv, Types
<1>2. NoQueue \notin Queues /\ NoEvent \notin Events /\ 1 \in Queues
  BY Sizes, DbEventAssumption
<1>c. /\ 1 \in made
      /\ \A q \in Queues \ made : nextque[q] = NoQueue
      /\ \A q \in made : nextque[q] \in made \cup {NoQueue} /\ OnChain(q)
      /\ \A e \in Events : ev_que[e] # NoQueue => ev_que[e] \in made
      /\ \A c \in Callers :
        /\ cpc[c] \in {"walk", "chain"} => cque[c] \in made
        /\ cpc[c] = "chain" => nextque[cque[c]] = NoQueue /\ ev_que[cev[c]] # 1
  BY DEF ChainKept
<1>3. CASE UNCHANGED <<nextque, made, ev_que, cpc, cev, cque>>
  BY <1>3, <1>c, ChainFrame
<1>o. ASSUME NEW c \in Callers, cpc[c] # "chain"
      PROVE  \A d \in Callers : cpc[d] # "chain" \/ (d # c /\ Callers = {d})
  BY <1>o, Alone
<1>n. ASSUME NEW c \in Callers, cpc[c] # "chain"
      PROVE  \A d \in Callers : cpc[d] # "chain"
  BY <1>n, <1>o
<1>4. ASSUME NEW c \in Callers, cpc[c] # "chain", UNCHANGED <<nextque, made>>,
             \A e \in Events : ev_que'[e] # NoQueue => ev_que'[e] \in made,
             \E l \in CallLabels \ {"chain"} : cpc' = [cpc EXCEPT ![c] = l],
             \A d \in Callers \ {c} : cque'[d] = cque[d],
             cpc'[c] = "walk" => cque'[c] \in made
      PROVE  ChainKept'
  <2>1. \A d \in Callers : cpc[d] # "chain"
    BY <1>4, <1>n
  <2>2. \A d \in Callers : cpc'[d] # "chain" /\ (d # c => cpc'[d] = cpc[d])
    BY <1>1, <1>4, <2>1
  <2>3. \A d \in Callers : cpc'[d] = "walk" => cque'[d] \in made
    BY <1>4, <1>c, <2>2
  <2>. QED BY <1>4, <2>1, <2>2, <2>3, ChainFrame
<1>5. ASSUME NEW c \in Callers, AddEvent(c)
      PROVE  ChainKept'
  <2>1. /\ cpc[c] = "idle" /\ cpc' = [cpc EXCEPT ![c] = "walk"] /\ cque' = [cque EXCEPT ![c] = 1]
        /\ UNCHANGED <<nextque, made, ev_que>>
    BY <1>5 DEF AddEvent, Free
  <2>2. "walk" \in CallLabels \ {"chain"} /\ cque'[c] \in made /\ \A d \in Callers \ {c} : cque'[d] = cque[d]
    BY <1>1, <1>2, <1>c, <2>1 DEF CallLabels
  <2>. QED BY <1>4, <1>c, <2>1, <2>2
<1>6. ASSUME NEW c \in Callers, AddFind(c)
      PROVE  ChainKept'
  <2>1. cpc[c] = "walk" /\ cque[c] \in made /\ UNCHANGED <<nextque, made, cev>>
    BY <1>6, <1>c DEF AddFind
  <2>2. CASE /\ ev_que' = [ev_que EXCEPT ![cev[c]] = cque[c]]
             /\ cpc' = [cpc EXCEPT ![c] = "quota"] /\ cque' = cque
    <3>1. "quota" \in CallLabels \ {"chain"} /\ cpc'[c] # "walk"
      BY <1>1, <2>2 DEF CallLabels
    <3>2. \A e \in Events : ev_que'[e] # NoQueue => ev_que'[e] \in made
      BY <1>1, <1>c, <2>1, <2>2
    <3>. QED BY <1>4, <2>1, <2>2, <3>1, <3>2
  <2>3. CASE /\ nextque[cque[c]] # NoQueue /\ cque' = [cque EXCEPT ![c] = nextque[cque[c]]]
             /\ UNCHANGED <<cpc, ev_que>>
    <3>1. nextque[cque[c]] \in made
      BY <1>c, <2>1, <2>3
    <3>2. cque'[c] \in made /\ \A d \in Callers \ {c} : cque'[d] = cque[d]
      BY <1>1, <2>3, <3>1
    <3>3. cpc' = [cpc EXCEPT ![c] = "walk"] /\ "walk" \in CallLabels \ {"chain"}
      BY <1>1, <2>1, <2>3 DEF CallLabels
    <3>. QED BY <1>4, <1>c, <2>1, <2>3, <3>2, <3>3
  <2>. QED BY <1>6, <2>2, <2>3 DEF AddFind, Install
<1>7. ASSUME NEW c \in Callers, AddQueue(c)
      PROVE  ChainKept'
  <2>1. /\ cpc[c] = "walk" /\ cque[c] \in made /\ nextque[cque[c]] = NoQueue
        /\ UNCHANGED <<nextque, cev, cque>> /\ cpc' = [cpc EXCEPT ![c] = "chain"]
    BY <1>7, <1>c DEF AddQueue
  <2>q. PICK q \in Queues \ made : made' = made \cup {q} /\ ev_que' = [ev_que EXCEPT ![cev[c]] = q]
    BY <1>7 DEF AddQueue, Install
  <2>2. q # 1 /\ nextque[q] = NoQueue
    BY <1>c
  <2>3. MaxQueues # 1
    BY <2>2, DbEventAssumption DEF Queues
  <2>4. \A d \in Callers : d = c
    BY <2>3 DEF OneSubscriber
  <2>5. cev[c] \in Events
    BY <2>1, CallFacts DEF Inv
  <2>6. ev_que'[cev[c]] = q /\ cpc'[c] = "chain" /\ \A e \in Events \ {cev[c]} : ev_que'[e] = ev_que[e]
    BY <1>1, <2>1, <2>5, <2>q
  <2>7. \A r \in made : OnChain(r)'
    <3>1. \A r \in made : r = 1 \/ \E p \in made : nextque[p] = r
      BY <1>c, <2>1, <2>4 DEF OnChain
    <3>. QED BY <2>1, <2>q, <3>1 DEF OnChain
  <2>8. OnChain(q)'
    BY <2>1, <2>6 DEF OnChain
  <2>9. \A e \in Events : ev_que'[e] # NoQueue => ev_que'[e] \in made'
    BY <1>c, <2>6, <2>q
  <2>10. \A d \in Callers :
            /\ cque'[d] \in made'
            /\ nextque'[cque'[d]] = NoQueue /\ ev_que'[cev'[d]] # 1
    BY <2>1, <2>2, <2>4, <2>6, <2>q
  <2>11. /\ 1 \in made'
         /\ \A r \in Queues \ made' : nextque'[r] = NoQueue
         /\ \A r \in made' : nextque'[r] \in made' \cup {NoQueue}
    BY <1>c, <2>1, <2>2, <2>q
  <2>. QED BY <2>7, <2>8, <2>9, <2>10, <2>11, <2>q DEF ChainKept
<1>8. ASSUME NEW c \in Callers, AddChain(c)
      PROVE  ChainKept'
  <2>1. /\ cpc[c] = "chain" /\ cque[c] \in made /\ nextque[cque[c]] = NoQueue
        /\ UNCHANGED <<made, ev_que, cev, cque>> /\ cpc' = [cpc EXCEPT ![c] = "quota"]
        /\ nextque' = [nextque EXCEPT ![cque[c]] = ev_que[cev[c]]]
    BY <1>8, <1>c DEF AddChain, Linked
  <2>2. \A d \in Callers : d = c
    BY <2>1, Alone
  <2>3. ev_que[cev[c]] \in made
    <3>1. cev[c] \in Events /\ ev_que[cev[c]] \in Queues
      BY <2>1, CallFacts DEF Inv, Adding
    <3>. QED BY <1>2, <1>c, <3>1
  <2>4. nextque'[cque[c]] = ev_que[cev[c]] /\ \A r \in Queues \ {cque[c]} : nextque'[r] = nextque[r]
    BY <1>1, <2>1
  <2>5. ASSUME NEW r \in made PROVE OnChain(r)'
    <3>1. r = 1 \/ (\E p \in made : nextque[p] = r) \/ r = ev_que[cev[c]]
      BY <1>c, <2>2 DEF OnChain
    <3>2. CASE r = 1
      BY <3>2 DEF OnChain
    <3>3. ASSUME NEW p \in made, nextque[p] = r PROVE OnChain(r)'
      <4>1. p # cque[c]
        BY <1>1, <1>2, <2>1, <3>3
      <4>2. nextque'[p] = r
        BY <1>1, <2>4, <3>3, <4>1
      <4>. QED BY <2>1, <4>2 DEF OnChain
    <3>4. CASE r = ev_que[cev[c]]
      BY <2>1, <2>4, <3>4 DEF OnChain
    <3>. QED BY <3>1, <3>2, <3>3, <3>4
  <2>6. \A r \in Queues \ made' : nextque'[r] = NoQueue
    BY <1>c, <2>1, <2>4
  <2>7. \A r \in made' : nextque'[r] \in made' \cup {NoQueue}
    BY <1>1, <1>c, <2>1, <2>3, <2>4
  <2>8. \A d \in Callers : cpc'[d] \notin {"walk", "chain"}
    BY <1>1, <2>1, <2>2
  <2>9. 1 \in made' /\ \A e \in Events : ev_que'[e] # NoQueue => ev_que'[e] \in made'
    BY <1>c, <2>1
  <2>. QED BY <2>1, <2>5, <2>6, <2>7, <2>8, <2>9 DEF ChainKept
<1>9. ASSUME NEW c \in Callers,
             \/ CancelEvent(c) \/ FlowCtrl(c) \/ CloseEvents(c) \/ AddFails(c)
             \/ AddQuota(c) \/ PostFirst(c) \/ EnableEvent(c) \/ CancelPurge(c)
             \/ CancelWait(c) \/ CancelCheck(c) \/ CallerSignal(c)
      PROVE  ChainKept'
  <2>1. cpc[c] # "chain" /\ UNCHANGED <<nextque, made>>
    BY <1>9 DEF CancelEvent, FlowCtrl, CloseEvents, AddFails, AddQuota, PostFirst, EnableEvent, CancelPurge,
                CancelWait, CancelCheck, CallerSignal, Free
  <2>2. \E l \in CallLabels \ {"chain", "walk"} : cpc' = [cpc EXCEPT ![c] = l]
    BY <1>9 DEF CancelEvent, FlowCtrl, CloseEvents, Closing, AddFails, AddQuota, PostFirst, EnableEvent,
                CancelPurge, CancelWait, CancelCheck, CallerSignal, Release, Finish, CallLabels
  <2>3. cpc'[c] # "walk" /\ \E l \in CallLabels \ {"chain"} : cpc' = [cpc EXCEPT ![c] = l]
    BY <1>1, <2>2
  <2>4. UNCHANGED ev_que \/ ev_que' = [ev_que EXCEPT ![cev[c]] = NoQueue]
    BY <1>9 DEF CancelEvent, FlowCtrl, CloseEvents, AddFails, AddQuota, PostFirst, EnableEvent, CancelPurge,
                CancelWait, CancelCheck, CallerSignal, Release
  <2>5. UNCHANGED cque \/ cque' = [cque EXCEPT ![c] = NoQueue]
    BY <1>9 DEF CancelEvent, FlowCtrl, CloseEvents, AddFails, AddQuota, PostFirst, EnableEvent, CancelPurge,
                CancelWait, CancelCheck, CallerSignal, Release, Finish
  <2>6. \A e \in Events : ev_que'[e] # NoQueue => ev_que'[e] \in made
    BY <1>1, <1>c, <2>4
  <2>7. \A d \in Callers \ {c} : cque'[d] = cque[d]
    BY <1>1, <2>5
  <2>. QED BY <1>4, <2>1, <2>3, <2>6, <2>7
<1>10. CASE PostDone
  <2>1. /\ UNCHANGED <<nextque, made, ev_que, cev, cque>>
        /\ cpc' = [d \in Callers |-> IF d = poster THEN "enable" ELSE cpc[d]]
    BY <1>10 DEF PostDone
  <2>2. \A d \in Callers : d = poster => cpc[d] = "post"
    BY DEF Inv, CallsOwn, CallerOwns
  <2>3. \A d \in Callers : (cpc'[d] = "chain" <=> cpc[d] = "chain") /\ (cpc'[d] = "walk" => cpc[d] = "walk")
    BY <2>1, <2>2
  <2>. QED BY <1>c, <2>1, <2>3, ChainFrame
<1>11. ASSUME NEW e \in Events, PostIgnored(e) \/ PostReplace(e) \/ PostPush(e) \/ PostOverflow(e)
       PROVE  ChainKept'
  BY <1>3, <1>11 DEF PostIgnored, PostReplace, PostPush, PostOverflow, Posting
<1>12. CASE PostEvents \/ PostSignal
  BY <1>3, <1>12 DEF PostEvents, PostSignal
<1>13. CASE TaskWake \/ ReadEnter \/ ReadEnd \/ PassDone \/ Call \/ CallReturns \/ ReadTake \/ ReadCanceled
  BY <1>3, <1>13 DEF TaskWake, ReadEnter, ReadEnd, PassDone, Call, CallReturns, ReadTake, ReadCanceled
<1>14. CASE UNCHANGED vars
  BY <1>3, <1>14 DEF vars
<1>. QED BY <1>5, <1>6, <1>7, <1>8, <1>9, <1>10, <1>11, <1>12, <1>13, <1>14
         DEF Next, CallerNext, AddNext, CancelNext, PostNext, TaskNext

\* The last value posted has been seen or is on its way.
OnItsWay(e) == seen[e] >= sent[e] \/ npend[e] > 0 \/ (tpc = "call" /\ event = e)
Kept == \A e \in Events : ev_que[e] # NoQueue /\ user_sub[e] => OnItsWay(e)

\* Every step keeps the last value posted seen or on its way.
LEMMA KeptStep ==
    ASSUME Inv, RowValues, Kept, [Next]_vars
    PROVE  Kept'
<1>. USE DEF queues, chain, pending, blocks, sems, task, calls, posting, values
<1>1. /\ ev_que \in [Events -> Queues \cup {NoQueue}] /\ npend \in [Events -> Int]
      /\ seen \in [Events -> 0..MaxVal] /\ sent \in [Events -> 0..MaxVal] /\ user_sub \in [Events -> BOOLEAN]
      /\ NoQueue \notin Queues
  BY Sizes DEF Inv, Types, Counters
<1>2. /\ \A e \in Events : seen[e] \in Nat /\ sent[e] \in Nat
      /\ val \in Nat /\ fl \in Nat
  BY <1>1 DEF Inv, Types
<1>f. ASSUME NEW e \in Events,
             ev_que'[e] # NoQueue /\ user_sub'[e] =>
                /\ ev_que[e] # NoQueue /\ user_sub[e]
                /\ npend'[e] = npend[e] /\ seen'[e] = seen[e] /\ sent'[e] = sent[e]
                /\ tpc = "call" /\ event = e => tpc' = "call" /\ event' = e
      PROVE  (ev_que[e] # NoQueue /\ user_sub[e] => OnItsWay(e))'
  BY <1>f DEF Kept, OnItsWay
<1>3. CASE /\ UNCHANGED <<ev_que, user_sub, npend, seen, sent>>
           /\ tpc # "call" \/ UNCHANGED <<tpc, event>>
  <2>. SUFFICES ASSUME NEW e \in Events PROVE (ev_que[e] # NoQueue /\ user_sub[e] => OnItsWay(e))'
    BY DEF Kept
  <2>. QED BY <1>3, <1>f
<1>4. ASSUME NEW c \in Callers, AddFind(c) \/ AddQueue(c)
      PROVE  Kept'
  <2>1. UNCHANGED <<npend, seen, sent, tpc, event>>
    BY <1>4 DEF AddFind, AddQueue
  <2>e. PICK e \in Events : e = cev[c] /\ ev_que[e] = NoQueue
    <3>1. cpc[c] = "walk"
      BY <1>4 DEF AddFind, AddQueue
    <3>. QED BY <3>1, CallFacts DEF Inv, CallsOwn, CallerOwns
  <2>2. \A d \in Events \ {e} : ev_que'[d] = ev_que[d] /\ user_sub'[d] = user_sub[d]
    <3>1. \/ UNCHANGED <<ev_que, user_sub>>
          \/ \E q : ev_que' = [ev_que EXCEPT ![e] = q] /\ user_sub' = [user_sub EXCEPT ![e] = TRUE]
      BY <1>4, <2>e DEF AddFind, AddQueue, Install
    <3>. QED BY <1>1, <3>1
  <2>3. ASSUME NEW d \in Events PROVE (ev_que[d] # NoQueue /\ user_sub[d] => OnItsWay(d))'
    <3>1. CASE d = e
      <4>1. seen[e] = 0 /\ sent[e] = 0
        BY <2>e DEF Inv, CallsOwn, BlockKept
      <4>. QED BY <2>1, <3>1, <4>1 DEF OnItsWay
    <3>2. CASE d # e
      BY <1>f, <2>1, <2>2, <3>2
    <3>. QED BY <3>1, <3>2
  <2>. QED BY <2>3 DEF Kept
<1>5. ASSUME NEW c \in Callers, CancelPurge(c) \/ CancelCheck(c)
      PROVE  Kept'
  <2>1. cev[c] \in Events
    <3>1. cpc[c] \in {"cancel", "cancel_check"}
      BY <1>5 DEF CancelPurge, CancelCheck
    <3>. QED BY <3>1, CallFacts DEF Inv
  <2>2. /\ UNCHANGED <<tpc, event>>
        /\ UNCHANGED user_sub \/ user_sub' = [user_sub EXCEPT ![cev[c]] = FALSE]
        /\ \/ UNCHANGED npend
           \/ /\ user_sub' = [user_sub EXCEPT ![cev[c]] = FALSE]
              /\ npend' = [npend EXCEPT ![cev[c]] = 0]
        /\ \/ UNCHANGED <<ev_que, seen, sent>>
           \/ /\ ev_que' = [ev_que EXCEPT ![cev[c]] = NoQueue]
              /\ seen' = [seen EXCEPT ![cev[c]] = 0] /\ sent' = [sent EXCEPT ![cev[c]] = 0]
    <3>1. CASE CancelPurge(c)
      BY <3>1 DEF CancelPurge, Release
    <3>2. CASE CancelCheck(c)
      <4>1. UNCHANGED <<tpc, event, user_sub, npend>>
        BY <3>2 DEF CancelCheck
      <4>2. \/ UNCHANGED <<ev_que, seen, sent>>
            \/ /\ ev_que' = [ev_que EXCEPT ![cev[c]] = NoQueue]
               /\ seen' = [seen EXCEPT ![cev[c]] = 0] /\ sent' = [sent EXCEPT ![cev[c]] = 0]
        BY <3>2 DEF CancelCheck, Release
      <4>. QED BY <4>1, <4>2
    <3>. QED BY <1>5, <3>1, <3>2
  <2>3. ASSUME NEW d \in Events, ev_que'[d] # NoQueue, user_sub'[d]
        PROVE  /\ ev_que[d] # NoQueue /\ user_sub[d]
               /\ npend'[d] = npend[d] /\ seen'[d] = seen[d] /\ sent'[d] = sent[d]
    BY <1>1, <2>1, <2>2, <2>3
  <2>4. ASSUME NEW d \in Events PROVE (ev_que[d] # NoQueue /\ user_sub[d] => OnItsWay(d))'
    BY <1>f, <2>2, <2>3
  <2>. QED BY <2>4 DEF Kept
<1>6. ASSUME NEW c \in Callers,
             \/ AddEvent(c) \/ CancelEvent(c) \/ FlowCtrl(c) \/ CloseEvents(c) \/ AddFails(c) \/ AddChain(c)
             \/ AddQuota(c) \/ PostFirst(c) \/ EnableEvent(c) \/ CancelWait(c) \/ CallerSignal(c)
      PROVE  Kept'
  BY <1>3, <1>6 DEF AddEvent, CancelEvent, FlowCtrl, CloseEvents, AddFails, AddChain, AddQuota, PostFirst,
                    EnableEvent, CancelWait, CallerSignal
<1>7. ASSUME NEW e \in Events, PostIgnored(e) \/ PostReplace(e) \/ PostPush(e)
      PROVE  Kept'
  <2>1. UNCHANGED <<ev_que, user_sub, seen, tpc, event>> /\ sent' = [sent EXCEPT ![e] = val]
    BY <1>7 DEF PostIgnored, PostReplace, PostPush, Posting
  <2>2. npend'[e] > 0 /\ \A d \in Events \ {e} : npend'[d] = npend[d]
    <3>1. CASE PostPush(e)
      <4>1. npend' = [npend EXCEPT ![e] = @ + 1]
        BY <3>1 DEF PostPush
      <4>2. npend[e] \in Nat
        <5>1. ev_que[e] \in Queues
          BY <3>1, PostFacts DEF Inv, PostPush, Posting
        <5>2. npend[e] = Cardinality(RowEntries(evque[ev_que[e]], e))
          BY <5>1 DEF Inv, Rows, RowCounted
        <5>. QED BY <5>2, RowFinite
      <4>. QED BY <1>1, <4>1, <4>2
    <3>2. CASE PostIgnored(e) \/ PostReplace(e)
      BY <3>2 DEF PostIgnored, PostReplace, Ignores, Replaces
    <3>. QED BY <1>7, <3>1, <3>2
  <2>3. ASSUME NEW d \in Events PROVE (ev_que[d] # NoQueue /\ user_sub[d] => OnItsWay(d))'
    <3>1. CASE d = e
      BY <2>2, <3>1 DEF OnItsWay
    <3>2. CASE d # e
      <4>1. sent'[d] = sent[d]
        BY <1>1, <2>1, <3>2
      <4>. QED BY <1>f, <2>1, <2>2, <3>2, <4>1
    <3>. QED BY <3>1, <3>2
  <2>. QED BY <2>3 DEF Kept
<1>8. ASSUME NEW e \in Events, PostOverflow(e)
      PROVE  Kept'
  BY <1>3, <1>8 DEF PostOverflow, Posting
<1>9. CASE PostEvents \/ PostSignal \/ PostDone
  BY <1>3, <1>9 DEF PostEvents, PostSignal, PostDone
<1>10. CASE TaskWake \/ ReadEnter \/ ReadEnd \/ PassDone \/ CallReturns \/ ReadCanceled
  BY <1>3, <1>10 DEF TaskWake, ReadEnter, ReadEnd, PassDone, CallReturns, ReadCanceled
<1>11. CASE ReadTake
  <2>e. PICK e \in Events : e = AtSlot
    BY <1>11 DEF ReadTake
  <2>1. /\ UNCHANGED <<ev_que, user_sub, seen, sent>> /\ npend' = [npend EXCEPT ![e] = @ - 1]
        /\ event' = e /\ tpc = "read" /\ (user_sub[e] => tpc' = "call")
    BY <1>11, <2>e DEF ReadTake, Removed
  <2>2. ASSUME NEW d \in Events PROVE (ev_que[d] # NoQueue /\ user_sub[d] => OnItsWay(d))'
    <3>1. CASE d = e
      BY <2>1, <3>1 DEF OnItsWay
    <3>2. CASE d # e
      <4>1. npend'[d] = npend[d]
        BY <1>1, <2>1, <3>2
      <4>. QED BY <1>f, <2>1, <3>2, <4>1
    <3>. QED BY <3>1, <3>2
  <2>. QED BY <2>2 DEF Kept
<1>12. CASE Call
  <2>e. PICK e \in Events : e = event
    BY <1>12 DEF Inv, Types, InCallback, Call
  <2>1. /\ UNCHANGED <<ev_que, user_sub, sent, npend>> /\ tpc = "call"
        /\ seen' = [seen EXCEPT ![e] = IF byValue[e] THEN fl ELSE val]
    BY <1>12, <2>e DEF Call
  <2>2. seen'[e] = (IF byValue[e] THEN fl ELSE val) /\ \A d \in Events \ {e} : seen'[d] = seen[d]
    BY <1>1, <2>1
  <2>3. ASSUME ev_que[e] # NoQueue, user_sub[e] PROVE seen'[e] >= sent[e] \/ npend[e] > 0
    <3>1. CASE byValue[e]
      <4>1. npend[e] = 0 => sent[e] <= fl
        BY <2>1, <2>3, <2>e, <3>1 DEF RowValues, ValuesIn
      <4>2. npend[e] \in Nat
        <5>1. ev_que[e] \in Queues
          BY <1>1, <2>3
        <5>2. npend[e] = Cardinality(RowEntries(evque[ev_que[e]], e))
          BY <5>1 DEF Inv, Rows, RowCounted
        <5>. QED BY <5>2, RowFinite
      <4>. QED BY <1>2, <2>2, <3>1, <4>1, <4>2
    <3>2. CASE ~byValue[e]
      <4>1. sent[e] <= val
        BY DEF RowValues, Latest
      <4>. QED BY <1>2, <2>2, <3>2, <4>1
    <3>. QED BY <3>1, <3>2
  <2>4. ASSUME NEW d \in Events PROVE (ev_que[d] # NoQueue /\ user_sub[d] => OnItsWay(d))'
    <3>1. CASE d = e
      BY <2>1, <2>3, <3>1 DEF OnItsWay
    <3>2. CASE d # e
      <4>1. event # d
        BY <2>e, <3>2
      <4>. QED BY <1>f, <2>1, <2>2, <3>2, <4>1
    <3>. QED BY <3>1, <3>2
  <2>. QED BY <2>4 DEF Kept
<1>13. CASE UNCHANGED vars
  BY <1>3, <1>13 DEF vars
<1>. QED BY <1>4, <1>5, <1>6, <1>7, <1>8, <1>9, <1>10, <1>11, <1>12, <1>13
         DEF Next, CallerNext, AddNext, CancelNext, PostNext, TaskNext

\* With one subscriber at a time, or one queue, every value posted is seen, is on
\* its way in a queue on the list, or is replaced by a newer one, overflow or not.
THEOREM NothingIsLost == OneSubscriber => (Spec => []NothingLost)
<1>1. Init => ChainKept /\ Kept
  <2>. SUFFICES ASSUME Init PROVE ChainKept /\ Kept
    OBVIOUS
  <2>1. 1 \in Queues
    BY Sizes
  <2>. QED BY <2>1 DEF Init, ChainKept, OnChain, Kept
<1>2. OneSubscriber /\ Inv /\ RowValues /\ ChainKept /\ Kept /\ [Next]_vars
        => (Inv /\ RowValues /\ ChainKept /\ Kept)'
  BY TypesStep, RowsStep, CallsStep, InCallbackStep, ValuesStep, ChainStep, KeptStep DEF Inv
<1>3. ChainKept /\ Kept => NothingLost
  BY DEF ChainKept, Kept, OnItsWay, NothingLost
<1>4. Init => Inv /\ RowValues
  BY InitInv, InitValues
<1>5. ASSUME OneSubscriber PROVE Spec => []NothingLost
  <2>1. Inv /\ RowValues /\ ChainKept /\ Kept /\ [Next]_vars => (Inv /\ RowValues /\ ChainKept /\ Kept)'
    BY <1>2, <1>5
  <2>. QED BY <1>1, <1>3, <1>4, <2>1, PTL DEF Spec
<1>. QED BY <1>5
=============================================================================
