---------------------------- MODULE QueueLemmas ----------------------------
(***************************************************************************)
(* Sequences without repetitions, which model the linked lists of the      *)
(* code: what taking an element out and putting one in does.               *)
(***************************************************************************)
EXTENDS SequencesExt, Integers, FiniteSetTheorems, SequenceTheorems, TLAPS

\* RemoveFirst takes out an element of a sequence without repetitions.
LEMMA Removed ==
    ASSUME NEW S, NEW q \in Seq(S), NEW x, IsInjective(q), x \in ToSet(q)
    PROVE  /\ RemoveFirst(q, x) \in Seq(S) /\ IsInjective(RemoveFirst(q, x))
           /\ ToSet(RemoveFirst(q, x)) = ToSet(q) \ {x}
           /\ \A j, k \in DOMAIN RemoveFirst(q, x) : j < k =>
                \E l, m \in DOMAIN q :
                    l < m /\ RemoveFirst(q, x)[j] = q[l] /\ RemoveFirst(q, x)[k] = q[m]
<1>. DEFINE n == Len(q)
<1>1. n \in Nat /\ DOMAIN q = 1..n
  BY LenProperties
<1>2. PICK i \in 1..n : q[i] = x
  BY <1>1 DEF ToSet
<1>3. {j \in 1..Len(q) : q[j] = x} = {i}
  BY <1>1, <1>2 DEF IsInjective
<1>4. Min({i}) = i
  BY <1>1, <1>2 DEF Min
<1>5. SelectInSeq(q, LAMBDA v : v = x) = i
  BY <1>3, <1>4 DEF SelectInSeq
<1>6. RemoveFirst(q, x) = SubSeq(q, 1, i - 1) \o SubSeq(q, i + 1, n)
  BY <1>2, <1>5 DEF RemoveFirst, RemoveAt
<1>7. /\ SubSeq(q, 1, i - 1) \in Seq(S) /\ Len(SubSeq(q, 1, i - 1)) = i - 1
      /\ \A j \in 1..i - 1 : SubSeq(q, 1, i - 1)[j] = q[j]
  <2>1. \A j \in 1..i - 1 : q[j] \in S
    BY <1>1, <1>2, ElementOfSeq
  <2>. QED BY <1>1, <2>1, SubSeqProperties
<1>8. /\ SubSeq(q, i + 1, n) \in Seq(S) /\ Len(SubSeq(q, i + 1, n)) = n - i
      /\ \A j \in 1..n - i : SubSeq(q, i + 1, n)[j] = q[i + j]
  <2>1. \A j \in i + 1..n : q[j] \in S
    BY <1>1, <1>2, ElementOfSeq
  <2>2. i + 1 \in Int /\ n \in Int
    BY <1>1
  <2>. HIDE DEF n
  <2>3. /\ SubSeq(q, i + 1, n) \in Seq(S)
        /\ Len(SubSeq(q, i + 1, n)) = IF i + 1 <= n THEN n - (i + 1) + 1 ELSE 0
        /\ \A j \in 1..n - (i + 1) + 1 : SubSeq(q, i + 1, n)[j] = q[i + 1 + j - 1]
    BY <2>1, <2>2, SubSeqProperties
  <2>4. /\ n - (i + 1) + 1 = n - i /\ (~(i + 1 <= n) => n - i = 0)
        /\ \A j \in 1..n - i : i + 1 + j - 1 = i + j
    BY <1>1
  <2>. QED BY <2>3, <2>4
<1>. DEFINE t == RemoveFirst(q, x)
<1>. HIDE DEF n
<1>9. /\ t \in Seq(S) /\ Len(t) = n - 1
      /\ \A j \in 1..n - 1 : t[j] = IF j < i THEN q[j] ELSE q[j + 1]
  <2>1. /\ t \in Seq(S) /\ Len(t) = i - 1 + (n - i)
        /\ \A j \in 1..i - 1 + (n - i) :
              t[j] = IF j <= i - 1 THEN SubSeq(q, 1, i - 1)[j]
                     ELSE SubSeq(q, i + 1, n)[j - (i - 1)]
    <3>. DEFINE a == SubSeq(q, 1, i - 1)
                b == SubSeq(q, i + 1, n)
    <3>1. t = a \o b
      BY <1>6
    <3>2. a \in Seq(S) /\ b \in Seq(S) /\ Len(a) = i - 1 /\ Len(b) = n - i
      BY <1>7, <1>8
    <3>3. /\ a \o b \in Seq(S) /\ Len(a \o b) = Len(a) + Len(b)
          /\ \A j \in 1..Len(a) + Len(b) :
                (a \o b)[j] = IF j <= Len(a) THEN a[j] ELSE b[j - Len(a)]
      <4>. HIDE DEF a, b
      <4>. QED BY <3>2, ConcatProperties
    <3>. HIDE DEF a, b, t
    <3>4. /\ t \in Seq(S) /\ Len(t) = i - 1 + (n - i)
          /\ \A j \in 1..i - 1 + (n - i) :
                t[j] = IF j <= i - 1 THEN a[j] ELSE b[j - (i - 1)]
      BY <3>1, <3>2, <3>3
    <3>. QED BY <3>4 DEF a, b
  <2>. HIDE DEF t
  <2>2. i - 1 + (n - i) = n - 1
    BY <1>1
  <2>3. ASSUME NEW j \in 1..n - 1
        PROVE  t[j] = IF j < i THEN q[j] ELSE q[j + 1]
    <3>1. CASE j < i
      <4>1. j \in 1..i - 1 /\ j <= i - 1
        BY <1>1, <3>1
      <4>. QED BY <2>1, <2>2, <1>7, <3>1, <4>1
    <3>2. CASE ~(j < i)
      <4>1. /\ ~(j <= i - 1) /\ j - (i - 1) \in 1..n - i /\ i + (j - (i - 1)) = j + 1
        BY <1>1, <3>2
      <4>. QED BY <2>1, <2>2, <1>8, <3>2, <4>1
    <3>. QED BY <3>1, <3>2
  <2>. QED BY <2>1, <2>2, <2>3
<1>. HIDE DEF t
<1>10. DOMAIN t = 1..n - 1
  BY <1>9, LenProperties
<1>11. \A j, k \in 1..n : q[j] = q[k] => j = k
  BY <1>1 DEF IsInjective
<1>12. IsInjective(t)
  <2>. SUFFICES ASSUME NEW j \in 1..n - 1, NEW k \in 1..n - 1, t[j] = t[k]
                PROVE  j = k
    BY <1>10 DEF IsInjective
  <2>1. j \in 1..n /\ j + 1 \in 1..n /\ k \in 1..n /\ k + 1 \in 1..n
    BY <1>1
  <2>. QED BY <1>9, <1>11, <2>1
<1>13. ToSet(t) = {t[j] : j \in 1..n - 1} /\ ToSet(q) = {q[j] : j \in 1..n}
  BY <1>1, <1>10 DEF ToSet
<1>14. ASSUME NEW j \in 1..n - 1
       PROVE  t[j] \in ToSet(q) \ {x}
  BY <1>1, <1>2, <1>9, <1>11, <1>13
<1>15. ASSUME NEW j \in 1..n, q[j] # x
       PROVE  q[j] \in ToSet(t)
  <2>1. CASE j < i
    BY <1>1, <1>9, <1>13, <2>1
  <2>2. CASE j > i
    <3>1. j - 1 \in 1..n - 1 /\ ~(j - 1 < i) /\ j - 1 + 1 = j
      BY <1>1, <2>2
    <3>. QED BY <1>9, <1>13, <3>1
  <2>. QED BY <1>1, <1>2, <1>15, <2>1, <2>2
<1>16. ToSet(t) = ToSet(q) \ {x}
  BY <1>13, <1>14, <1>15
<1>17. ASSUME NEW j \in 1..n - 1, NEW k \in 1..n - 1, j < k
       PROVE  \E l, m \in 1..n : l < m /\ t[j] = q[l] /\ t[k] = q[m]
  <2>. DEFINE l == IF j < i THEN j ELSE j + 1
              m == IF k < i THEN k ELSE k + 1
  <2>1. t[j] = q[l] /\ t[k] = q[m]
    BY <1>9
  <2>2. l \in 1..n /\ m \in 1..n /\ l < m
    BY <1>1, <1>17
  <2>. QED BY <2>1, <2>2
<1>18. \A j, k \in DOMAIN t : j < k => \E l, m \in DOMAIN q : l < m /\ t[j] = q[l] /\ t[k] = q[m]
  <2>. SUFFICES ASSUME NEW j \in DOMAIN t, NEW k \in DOMAIN t, j < k
                PROVE  \E l, m \in DOMAIN q : l < m /\ t[j] = q[l] /\ t[k] = q[m]
    OBVIOUS
  <2>1. j \in 1..n - 1 /\ k \in 1..n - 1
    BY <1>10
  <2>2. PICK l \in 1..n, m \in 1..n : l < m /\ t[j] = q[l] /\ t[k] = q[m]
    BY <1>17, <2>1
  <2>. QED BY <1>1, <2>2
<1>. QED BY <1>9, <1>12, <1>16, <1>18 DEF t

\* An element that is not in the sequence is appended to it.
LEMMA Appended ==
    ASSUME NEW S, NEW q \in Seq(S), NEW x \in S, IsInjective(q), x \notin ToSet(q)
    PROVE  /\ Append(q, x) \in Seq(S) /\ IsInjective(Append(q, x))
           /\ ToSet(Append(q, x)) = ToSet(q) \cup {x}
<1>. DEFINE n == Len(q)
            t == Append(q, x)
<1>1. n \in Nat /\ DOMAIN q = 1..n
  BY LenProperties
<1>2. t \in Seq(S) /\ Len(t) = n + 1 /\ (\A j \in 1..n : t[j] = q[j]) /\ t[n + 1] = x
  BY AppendProperties
<1>. HIDE DEF n, t
<1>3. DOMAIN t = 1..n + 1 /\ 1..n + 1 = (1..n) \cup {n + 1}
  BY <1>1, <1>2, LenProperties
<1>4. ToSet(t) = ToSet(q) \cup {x}
  BY <1>1, <1>2, <1>3 DEF ToSet
<1>5. \A j \in 1..n : q[j] # x
  BY <1>1 DEF ToSet
<1>6. IsInjective(t)
  BY <1>1, <1>2, <1>3, <1>5 DEF IsInjective
<1>. QED BY <1>2, <1>4, <1>6 DEF t

\* The first of a sequence is taken off it.
LEMMA HeadTaken ==
    ASSUME NEW S, NEW q \in Seq(S), IsInjective(q), q # <<>>
    PROVE  /\ Tail(q) \in Seq(S) /\ IsInjective(Tail(q))
           /\ Head(q) \in ToSet(q) /\ Head(q) \in S
           /\ ToSet(Tail(q)) = ToSet(q) \ {Head(q)}
           /\ DOMAIN Tail(q) = 1..Len(q) - 1 /\ Len(q) \in Nat \ {0}
           /\ Head(q) = q[1] /\ \A j \in 1..Len(q) - 1 : Tail(q)[j] = q[j + 1]
<1>. DEFINE n == Len(q)
            t == Tail(q)
            h == Head(q)
<1>1. n \in Nat /\ DOMAIN q = 1..n /\ n # 0
  BY LenProperties, EmptySeq
<1>2. t \in Seq(S) /\ Len(t) = n - 1 /\ (\A j \in 1..n - 1 : t[j] = q[j + 1])
  BY HeadTailProperties
<1>3. h = q[1] /\ h \in S
  BY HeadTailProperties, ElementOfSeq, <1>1
<1>. HIDE DEF n, t, h
<1>4. DOMAIN t = 1..n - 1
  BY <1>1, <1>2, LenProperties
<1>5. \A j, k \in 1..n : q[j] = q[k] => j = k
  BY <1>1 DEF IsInjective
<1>6. \A j \in 1..n - 1 : j + 1 \in 1..n /\ j + 1 # 1
  BY <1>1
<1>7. IsInjective(t)
  <2>. SUFFICES ASSUME NEW j \in 1..n - 1, NEW k \in 1..n - 1, t[j] = t[k]
                PROVE  j = k
    BY <1>4 DEF IsInjective
  <2>. QED BY <1>1, <1>2, <1>5, <1>6
<1>8. ToSet(t) = {t[j] : j \in 1..n - 1} /\ ToSet(q) = {q[j] : j \in 1..n} /\ h \in ToSet(q)
  BY <1>1, <1>3, <1>4 DEF ToSet
<1>9. ASSUME NEW j \in 1..n - 1
      PROVE  t[j] \in ToSet(q) \ {h}
  BY <1>1, <1>2, <1>3, <1>5, <1>6, <1>8
<1>10. ASSUME NEW j \in 1..n, q[j] # h
       PROVE  q[j] \in ToSet(t)
  <2>1. j - 1 \in 1..n - 1 /\ j - 1 + 1 = j
    BY <1>1, <1>3, <1>10
  <2>. QED BY <1>2, <1>8, <2>1
<1>11. ToSet(t) = ToSet(q) \ {h}
  BY <1>8, <1>9, <1>10
<1>. QED BY <1>1, <1>2, <1>3, <1>4, <1>7, <1>8, <1>11 DEF n, t, h

\* An element is put at the front.
LEMMA Prepended ==
    ASSUME NEW S, NEW q \in Seq(S), NEW x \in S, IsInjective(q), x \notin ToSet(q)
    PROVE  /\ <<x>> \o q \in Seq(S) /\ IsInjective(<<x>> \o q)
           /\ ToSet(<<x>> \o q) = ToSet(q) \cup {x}
<1>. DEFINE n == Len(q)
            t == <<x>> \o q
<1>1. n \in Nat /\ DOMAIN q = 1..n /\ \A j \in 1..n : q[j] \in S
  BY LenProperties, ElementOfSeq
<1>2. <<x>> \in Seq(S) /\ Len(<<x>>) = 1 /\ <<x>>[1] = x
  OBVIOUS
<1>3. t \in Seq(S) /\ Len(t) = 1 + n /\ \A j \in 1..1 + n : t[j] = IF j <= 1 THEN <<x>>[j] ELSE q[j - 1]
  BY <1>2, ConcatProperties
<1>. HIDE DEF n, t
<1>4. DOMAIN t = 1..n + 1 /\ \A j \in 1..n + 1 : t[j] = IF j = 1 THEN x ELSE q[j - 1]
  BY <1>1, <1>2, <1>3, LenProperties
<1>5. (\A j, k \in 1..n : q[j] = q[k] => j = k) /\ (\A j \in 1..n : q[j] # x)
      /\ ToSet(q) = {q[j] : j \in 1..n}
  BY <1>1 DEF IsInjective, ToSet
<1>6. \A j \in 1..n + 1 : j = 1 \/ j - 1 \in 1..n
  BY <1>1
<1>7. IsInjective(t)
  <2>. SUFFICES ASSUME NEW j \in 1..n + 1, NEW k \in 1..n + 1, t[j] = t[k]
                PROVE  j = k
    BY <1>4 DEF IsInjective
  <2>1. j = 1 \/ k = 1 => j = k
    BY <1>4, <1>5, <1>6
  <2>2. j # 1 /\ k # 1 => j - 1 = k - 1
    BY <1>4, <1>5, <1>6
  <2>. QED BY <1>1, <2>1, <2>2
<1>8. ToSet(t) = {t[j] : j \in 1..n + 1}
  BY <1>4 DEF ToSet
<1>9. ToSet(t) \subseteq ToSet(q) \cup {x}
  BY <1>4, <1>5, <1>6, <1>8
<1>10. ASSUME NEW j \in 1..n PROVE q[j] \in ToSet(t)
  <2>1. j + 1 \in 1..n + 1 /\ j + 1 # 1 /\ (j + 1) - 1 = j
    BY <1>1
  <2>. QED BY <1>4, <1>8, <2>1
<1>11. x \in ToSet(t)
  <2>1. 1 \in 1..n + 1
    BY <1>1
  <2>. QED BY <1>4, <1>8, <2>1
<1>12. ToSet(t) = ToSet(q) \cup {x}
  BY <1>5, <1>9, <1>10, <1>11
<1>. QED BY <1>3, <1>7, <1>12 DEF t

\* An element is put behind the first n of a sequence.
LEMMA InsertedAt ==
    ASSUME NEW S, NEW q \in Seq(S), NEW x \in S, IsInjective(q), x \notin ToSet(q),
           NEW n \in 0..Len(q)
    PROVE  /\ InsertAt(q, n + 1, x) \in Seq(S) /\ IsInjective(InsertAt(q, n + 1, x))
           /\ ToSet(InsertAt(q, n + 1, x)) = ToSet(q) \cup {x}
           /\ Len(q) \in Nat /\ DOMAIN InsertAt(q, n + 1, x) = 1..Len(q) + 1
           /\ \A j \in 1..Len(q) + 1 : InsertAt(q, n + 1, x)[j] =
                IF j <= n THEN q[j] ELSE IF j = n + 1 THEN x ELSE q[j - 1]
<1>a. InsertAt(q, n + 1, x) = (SubSeq(q, 1, (n + 1) - 1) \o <<x>>) \o SubSeq(q, n + 1, Len(q))
  BY DEF InsertAt
<1>. DEFINE len == Len(q)
            a == SubSeq(q, 1, n)
            b == SubSeq(q, n + 1, len)
            c == Append(a, x)
            t == InsertAt(q, n + 1, x)
<1>1. len \in Nat /\ DOMAIN q = 1..len /\ n \in 0..len /\ \A j \in 1..len : q[j] \in S
  BY LenProperties, ElementOfSeq
<1>2. t = c \o b
  <2>1. (n + 1) - 1 = n
    BY <1>1
  <2>2. a \in Seq(S)
    BY <1>1, SubSeqProperties
  <2>3. a \o <<x>> = c
    BY <2>2, AppendIsConcat
  <2>4. t = (SubSeq(q, 1, (n + 1) - 1) \o <<x>>) \o b
    BY <1>a
  <2>. HIDE DEF a, b, c, t
  <2>5. SubSeq(q, 1, (n + 1) - 1) = a
    BY <2>1 DEF a
  <2>. QED BY <2>3, <2>4, <2>5
<1>. HIDE DEF len, t
<1>3. a \in Seq(S) /\ Len(a) = n /\ \A j \in 1..n : a[j] = q[j]
  <2>1. \A j \in 1..n : q[j] \in S
    BY <1>1
  <2>2. /\ a \in Seq(S) /\ Len(a) = IF 1 <= n THEN n - 1 + 1 ELSE 0
        /\ \A j \in 1..n - 1 + 1 : a[j] = q[1 + j - 1]
    BY <1>1, <2>1, SubSeqProperties
  <2>3. n - 1 + 1 = n /\ (~(1 <= n) => n = 0) /\ \A j \in 1..n : 1 + j - 1 = j
    BY <1>1
  <2>. QED BY <2>2, <2>3
<1>4. b \in Seq(S) /\ Len(b) = len - n /\ \A j \in 1..len - n : b[j] = q[n + j]
  <2>1. \A j \in n + 1..len : q[j] \in S
    BY <1>1
  <2>2. n + 1 \in Int /\ len \in Int
    BY <1>1
  <2>3. /\ b \in Seq(S) /\ Len(b) = IF n + 1 <= len THEN len - (n + 1) + 1 ELSE 0
        /\ \A j \in 1..len - (n + 1) + 1 : b[j] = q[n + 1 + j - 1]
    BY <2>1, <2>2, SubSeqProperties
  <2>4. /\ len - (n + 1) + 1 = len - n /\ (~(n + 1 <= len) => len - n = 0)
        /\ \A j \in 1..len - n : n + 1 + j - 1 = n + j
    BY <1>1
  <2>. QED BY <2>3, <2>4
<1>. HIDE DEF a, b
<1>5. c \in Seq(S) /\ Len(c) = n + 1 /\ (\A j \in 1..n : c[j] = q[j]) /\ c[n + 1] = x
  BY <1>3, AppendProperties
<1>. HIDE DEF c
<1>6. /\ t \in Seq(S) /\ Len(t) = n + 1 + (len - n)
      /\ \A j \in 1..n + 1 + (len - n) :
            t[j] = IF j <= n + 1 THEN c[j] ELSE b[j - (n + 1)]
  <2>1. /\ c \o b \in Seq(S) /\ Len(c \o b) = Len(c) + Len(b)
        /\ \A j \in 1..Len(c) + Len(b) :
              (c \o b)[j] = IF j <= Len(c) THEN c[j] ELSE b[j - Len(c)]
    BY <1>4, <1>5, ConcatProperties
  <2>. QED BY <1>2, <1>4, <1>5, <2>1
<1>7. n + 1 + (len - n) = len + 1
  BY <1>1
<1>8. DOMAIN t = 1..len + 1
  BY <1>6, <1>7, LenProperties
<1>9. ASSUME NEW j \in 1..len + 1
      PROVE  t[j] = IF j <= n THEN q[j] ELSE IF j = n + 1 THEN x ELSE q[j - 1]
  <2>1. CASE j <= n + 1
    <3>1. j \in 1..n \/ j = n + 1
      BY <1>1, <2>1
    <3>. QED BY <1>1, <1>5, <1>6, <1>7, <2>1, <3>1
  <2>2. CASE ~(j <= n + 1)
    <3>1. j - (n + 1) \in 1..len - n /\ n + (j - (n + 1)) = j - 1 /\ ~(j <= n) /\ j # n + 1
      BY <1>1, <2>2
    <3>. QED BY <1>4, <1>6, <1>7, <2>2, <3>1
  <2>. QED BY <2>1, <2>2
<1>10. (\A j, k \in 1..len : q[j] = q[k] => j = k) /\ (\A j \in 1..len : q[j] # x)
       /\ ToSet(q) = {q[j] : j \in 1..len}
  BY <1>1 DEF IsInjective, ToSet
<1>11. IsInjective(t)
  <2>. SUFFICES ASSUME NEW j \in 1..len + 1, NEW k \in 1..len + 1, t[j] = t[k]
                PROVE  j = k
    BY <1>8 DEF IsInjective
  <2>. DEFINE f(i) == IF i <= n THEN i ELSE i - 1
  <2>1. /\ j = n + 1 \/ (f(j) \in 1..len /\ t[j] = q[f(j)])
        /\ k = n + 1 \/ (f(k) \in 1..len /\ t[k] = q[f(k)])
    BY <1>1, <1>9
  <2>2. j = n + 1 \/ k = n + 1 => j = k
    BY <1>1, <1>9, <1>10, <2>1
  <2>3. j # n + 1 /\ k # n + 1 => f(j) = f(k)
    BY <1>10, <2>1
  <2>. QED BY <1>1, <2>2, <2>3
<1>12. ToSet(t) = {t[j] : j \in 1..len + 1}
  BY <1>8 DEF ToSet
<1>13. ASSUME NEW j \in 1..len + 1
       PROVE  t[j] \in ToSet(q) \cup {x}
  <2>1. j <= n => j \in 1..len
    BY <1>1
  <2>2. ~(j <= n) /\ j # n + 1 => j - 1 \in 1..len
    BY <1>1
  <2>. QED BY <1>9, <1>10, <2>1, <2>2
<1>14. ASSUME NEW j \in 1..len
       PROVE  q[j] \in ToSet(t)
  <2>1. CASE j <= n
    <3>1. j \in 1..len + 1
      BY <1>1
    <3>. QED BY <1>9, <1>12, <2>1, <3>1
  <2>2. CASE ~(j <= n)
    <3>1. j + 1 \in 1..len + 1 /\ ~(j + 1 <= n) /\ j + 1 # n + 1 /\ j + 1 - 1 = j
      BY <1>1, <2>2
    <3>. QED BY <1>9, <1>12, <3>1
  <2>. QED BY <2>1, <2>2
<1>15. n + 1 \in 1..len + 1 /\ ~(n + 1 <= n)
  BY <1>1
<1>16. x \in ToSet(t)
  BY <1>9, <1>12, <1>15
<1>17. ToSet(t) = ToSet(q) \cup {x}
  BY <1>10, <1>12, <1>13, <1>14, <1>16
<1>. QED BY <1>1, <1>6, <1>8, <1>9, <1>11, <1>17 DEF len, t

-----------------------------------------------------------------------------
(* Sorted sequences *)

Ascending(q, key) == \A i, j \in DOMAIN q : i < j => key[q[i]] <= key[q[j]]

\* RemoveFirst takes an element out if it is there, and leaves the others in
\* order.
LEMMA RemovedAny ==
    ASSUME NEW S, NEW q \in Seq(S), NEW x, IsInjective(q)
    PROVE  /\ RemoveFirst(q, x) \in Seq(S) /\ IsInjective(RemoveFirst(q, x))
           /\ ToSet(RemoveFirst(q, x)) = ToSet(q) \ {x}
           /\ \A j, k \in DOMAIN RemoveFirst(q, x) : j < k =>
                \E l, m \in DOMAIN q :
                    l < m /\ RemoveFirst(q, x)[j] = q[l] /\ RemoveFirst(q, x)[k] = q[m]
<1>1. CASE x \in ToSet(q)
  BY <1>1, Removed
<1>2. CASE x \notin ToSet(q)
  <2>1. ~\E i \in 1..Len(q) : q[i] = x
    BY <1>2, LenProperties DEF ToSet
  <2>2. RemoveFirst(q, x) = q /\ ToSet(q) \ {x} = ToSet(q)
    BY <1>2, <2>1 DEF RemoveFirst
  <2>. QED BY <2>2
<1>. QED BY <1>1, <1>2

LEMMA RemovedAscending ==
    ASSUME NEW S, NEW q \in Seq(S), NEW x, NEW key, IsInjective(q), Ascending(q, key)
    PROVE  /\ RemoveFirst(q, x) \in Seq(S) /\ IsInjective(RemoveFirst(q, x))
           /\ ToSet(RemoveFirst(q, x)) = ToSet(q) \ {x}
           /\ Ascending(RemoveFirst(q, x), key)
<1>. DEFINE r == RemoveFirst(q, x)
<1>1. /\ r \in Seq(S) /\ IsInjective(r) /\ ToSet(r) = ToSet(q) \ {x}
      /\ \A j, k \in DOMAIN r : j < k => \E l, m \in DOMAIN q : l < m /\ r[j] = q[l] /\ r[k] = q[m]
  BY RemovedAny
<1>. HIDE DEF r
<1>2. Ascending(r, key)
  <2>. SUFFICES ASSUME NEW j \in DOMAIN r, NEW k \in DOMAIN r, j < k
                PROVE  key[r[j]] <= key[r[k]]
    BY DEF Ascending
  <2>1. PICK l, m \in DOMAIN q : l < m /\ r[j] = q[l] /\ r[k] = q[m]
    BY <1>1
  <2>. QED BY <2>1 DEF Ascending
<1>. QED BY <1>1, <1>2 DEF r

\* The place behind the first n is that of what is due at e.
IsPlace(q, key, e, n) ==
    /\ n \in 0..Len(q)
    /\ n > 0 => key[q[n]] <= e
    /\ \A i \in n + 1..Len(q) : key[q[i]] > e

\* A sorted sequence has a place for what is due at e: as many of the first are
\* not behind e as there are.
LEMMA PlaceIn ==
    ASSUME NEW S, NEW q \in Seq(S), NEW key, Ascending(q, key), NEW e \in Int,
           \A s \in S : key[s] \in Int
    PROVE  Len(q) \in Nat /\ \E n : IsPlace(q, key, e, n)
<1>. DEFINE len == Len(q)
            T == {i \in 1..len : key[q[i]] <= e}
            n == Cardinality(T)
<1>1. len \in Nat /\ DOMAIN q = 1..len /\ \A i \in 1..len : key[q[i]] \in Int
  BY LenProperties, ElementOfSeq
<1>. HIDE DEF len
<1>2. \A i, j \in 1..len : i < j => key[q[i]] <= key[q[j]]
  BY <1>1 DEF Ascending
<1>3. \A k \in Nat : IsFiniteSet(1..k) /\ Cardinality(1..k) = k
  <2>. TAKE k \in Nat
  <2>1. /\ IsFiniteSet(1..k)
        /\ Cardinality(1..k) = IF 1 > k THEN 0 ELSE k - 1 + 1
    BY FS_Interval
  <2>. QED BY <2>1
<1>4. IsFiniteSet(T) /\ n \in Nat /\ n <= len
  <2>1. IsFiniteSet(1..len) /\ Cardinality(1..len) = len
    BY <1>1, <1>3
  <2>2. T \subseteq 1..len
    OBVIOUS
  <2>3. IsFiniteSet(T) /\ Cardinality(T) <= Cardinality(1..len)
    BY <2>1, <2>2, FS_Subset
  <2>. QED BY <2>1, <2>3, FS_CardinalityType
<1>5. ASSUME NEW i \in 1..len, i \in T
      PROVE  i <= n
  <2>1. 1..i \subseteq T
    <3>. SUFFICES ASSUME NEW j \in 1..i PROVE j \in T
      OBVIOUS
    <3>1. j \in 1..len /\ (j = i \/ j < i)
      BY <1>1
    <3>2. key[q[j]] <= key[q[i]] /\ key[q[j]] \in Int /\ key[q[i]] \in Int
      BY <1>1, <1>2, <3>1
    <3>. QED BY <1>5, <3>1, <3>2
  <2>2. Cardinality(1..i) <= n
    BY <1>4, <2>1, FS_Subset
  <2>3. Cardinality(1..i) = i
    BY <1>1, <1>3
  <2>. QED BY <2>2, <2>3
<1>6. ASSUME NEW i \in 1..len, i \notin T
      PROVE  n < i
  <2>1. T \subseteq 1..(i - 1)
    <3>. SUFFICES ASSUME NEW j \in 1..len, key[q[j]] <= e
                  PROVE  j < i
      BY <1>1
    <3>1. i < j => key[q[i]] <= key[q[j]]
      BY <1>2
    <3>2. key[q[i]] \in Int /\ key[q[j]] \in Int /\ ~(key[q[i]] <= e)
      BY <1>1, <1>6
    <3>3. i # j
      BY <3>2
    <3>. QED BY <1>1, <3>1, <3>2, <3>3
  <2>2. i - 1 \in Nat /\ IsFiniteSet(1..(i - 1)) /\ Cardinality(1..(i - 1)) = i - 1
    BY <1>1, <1>3
  <2>3. n <= i - 1
    BY <2>1, <2>2, FS_Subset
  <2>. QED BY <1>1, <1>4, <2>3
<1>. HIDE DEF n
<1>7. n \in 0..len
  BY <1>1, <1>4
<1>8. n > 0 => key[q[n]] <= e
  <2>. SUFFICES ASSUME n > 0, n \notin T PROVE FALSE
    BY <1>7
  <2>1. n \in 1..len
    BY <1>4, <1>1
  <2>. QED BY <1>4, <1>6, <2>1
<1>9. \A i \in n + 1..len : key[q[i]] > e
  <2>. SUFFICES ASSUME NEW i \in n + 1..len, ~(key[q[i]] > e)
                PROVE  FALSE
    OBVIOUS
  <2>1. i \in 1..len /\ ~(i <= n)
    BY <1>1, <1>4
  <2>2. key[q[i]] <= e
    BY <1>1, <2>1
  <2>. QED BY <1>5, <2>1, <2>2
<1>10. IsPlace(q, key, e, n)
  BY <1>7, <1>8, <1>9 DEF IsPlace, len
<1>. QED BY <1>1, <1>10 DEF len

\* An element put in such a place leaves the sequence sorted.
LEMMA InsertedAscending ==
    ASSUME NEW S, NEW q \in Seq(S), NEW x \in S, IsInjective(q), x \notin ToSet(q),
           NEW key, Ascending(q, key), \A s \in S : key[s] \in Int,
           NEW e \in Int, NEW key2, key2[x] = e, \A s \in ToSet(q) : key2[s] = key[s],
           NEW n, IsPlace(q, key, e, n)
    PROVE  Ascending(InsertAt(q, n + 1, x), key2)
<1>0. n \in 0..Len(q)
  BY DEF IsPlace
<1>. DEFINE len == Len(q)
            r == InsertAt(q, n + 1, x)
<1>3. /\ len \in Nat /\ DOMAIN r = 1..len + 1 /\ DOMAIN q = 1..len
      /\ \A j \in 1..len + 1 : r[j] = IF j <= n THEN q[j] ELSE IF j = n + 1 THEN x ELSE q[j - 1]
  BY <1>0, InsertedAt, LenProperties
<1>2. /\ n \in 0..len
      /\ n > 0 => key[q[n]] <= e
      /\ \A i \in n + 1..len : key[q[i]] > e
  BY DEF IsPlace
<1>. HIDE DEF len, r
<1>5. ASSUME NEW i \in 1..len
      PROVE  /\ key2[q[i]] = key[q[i]] /\ key[q[i]] \in Int
             /\ i <= n => key[q[i]] <= e
             /\ ~(i <= n) => key[q[i]] > e
  <2>1. q[i] \in ToSet(q) /\ q[i] \in S
    BY <1>3, ElementOfSeq DEF ToSet, len
  <2>2. i <= n => key[q[i]] <= e
    <3>. SUFFICES ASSUME i <= n PROVE key[q[i]] <= e
      OBVIOUS
    <3>1. n > 0 /\ n \in 1..len /\ (i = n \/ i < n)
      BY <1>2, <1>3
    <3>2. key[q[n]] \in Int
      BY <1>3, <3>1, ElementOfSeq DEF len
    <3>3. key[q[i]] \in Int
      BY <2>1
    <3>4. key[q[i]] <= key[q[n]]
      BY <1>3, <3>1, <3>2 DEF Ascending
    <3>. QED BY <1>2, <1>3, <3>1, <3>2, <3>3, <3>4
  <2>3. ~(i <= n) => i \in n + 1..len
    BY <1>2, <1>3
  <2>4. ~(i <= n) => key[q[i]] > e
    BY <1>2, <2>3
  <2>. QED BY <2>1, <2>2, <2>4
<1>. SUFFICES ASSUME NEW j \in 1..len + 1, NEW k \in 1..len + 1, j < k
              PROVE  key2[r[j]] <= key2[r[k]]
  BY <1>3 DEF Ascending, r
<1>6. CASE k <= n
  <2>1. j <= n /\ j \in 1..len /\ k \in 1..len
    BY <1>2, <1>3, <1>6
  <2>2. key[q[j]] <= key[q[k]]
    BY <1>3, <2>1 DEF Ascending
  <2>. QED BY <1>3, <1>5, <1>6, <2>1, <2>2
<1>7. CASE k = n + 1
  <2>1. j <= n /\ j \in 1..len /\ ~(k <= n)
    BY <1>2, <1>3, <1>7
  <2>. QED BY <1>3, <1>5, <1>7, <2>1
<1>8. CASE k > n + 1
  <2>1. k - 1 \in 1..len /\ ~(k - 1 <= n) /\ ~(k <= n) /\ k # n + 1
    BY <1>2, <1>3, <1>8
  <2>2. key2[r[k]] = key[q[k - 1]] /\ key[q[k - 1]] > e /\ key[q[k - 1]] \in Int
    BY <1>3, <1>5, <2>1
  <2>3. CASE j <= n
    <3>1. j \in 1..len
      BY <1>2, <1>3, <2>3
    <3>2. key2[r[j]] = key[q[j]] /\ key[q[j]] <= e /\ key[q[j]] \in Int
      BY <1>3, <1>5, <2>3, <3>1
    <3>. QED BY <2>2, <3>2
  <2>4. CASE j = n + 1
    <3>1. ~(j <= n)
      BY <1>2, <2>4
    <3>. QED BY <1>3, <2>2, <2>4, <3>1
  <2>5. CASE j > n + 1
    <3>1. j - 1 \in 1..len /\ ~(j <= n) /\ j # n + 1 /\ j - 1 < k - 1
      BY <1>2, <1>3, <2>5
    <3>2. key2[r[j]] = key[q[j - 1]]
      BY <1>3, <1>5, <3>1
    <3>3. key[q[j - 1]] <= key[q[k - 1]]
      BY <1>3, <2>1, <3>1 DEF Ascending
    <3>. QED BY <2>2, <3>2, <3>3
  <2>. QED BY <1>2, <1>3, <2>3, <2>4, <2>5
<1>. QED BY <1>2, <1>3, <1>6, <1>7, <1>8

\* One element comes ahead of another.
Precedes(q, a, b) == \E i, j \in DOMAIN q : i < j /\ q[i] = a /\ q[j] = b

\* Of two elements of a sequence without repetitions one precedes the other.
LEMMA PrecedesOrder ==
    ASSUME NEW S, NEW q \in Seq(S), IsInjective(q)
    PROVE  /\ \A a, b \in ToSet(q) : a # b => Precedes(q, a, b) \/ Precedes(q, b, a)
           /\ \A a, b : Precedes(q, a, b) =>
                ~Precedes(q, b, a) /\ a # b /\ a \in ToSet(q) /\ b \in ToSet(q)
<1>1. DOMAIN q \subseteq Int
  BY LenProperties
<1>2. ASSUME NEW a \in ToSet(q), NEW b \in ToSet(q), a # b
      PROVE  Precedes(q, a, b) \/ Precedes(q, b, a)
  <2>1. PICK i \in DOMAIN q : q[i] = a
    BY DEF ToSet
  <2>2. PICK j \in DOMAIN q : q[j] = b
    BY DEF ToSet
  <2>3. i < j \/ j < i
    BY <1>1, <1>2, <2>1, <2>2
  <2>. QED BY <2>1, <2>2, <2>3 DEF Precedes
<1>3. ASSUME NEW a, NEW b, Precedes(q, a, b)
      PROVE  ~Precedes(q, b, a) /\ a # b /\ a \in ToSet(q) /\ b \in ToSet(q)
  <2>1. PICK i, j \in DOMAIN q : i < j /\ q[i] = a /\ q[j] = b
    BY <1>3 DEF Precedes
  <2>2. a # b /\ a \in ToSet(q) /\ b \in ToSet(q)
    BY <1>1, <2>1 DEF IsInjective, ToSet
  <2>3. ASSUME NEW k \in DOMAIN q, NEW l \in DOMAIN q, k < l, q[k] = b, q[l] = a
        PROVE  FALSE
    <3>1. k = j /\ l = i
      BY <2>1, <2>3 DEF IsInjective
    <3>. QED BY <1>1, <2>1, <2>3, <3>1
  <2>. QED BY <2>2, <2>3 DEF Precedes
<1>. QED BY <1>2, <1>3

\* The order of the others stays when an element is taken out,
LEMMA RemovedPrecedes ==
    ASSUME NEW S, NEW q \in Seq(S), NEW x, IsInjective(q), NEW a, NEW b,
           a # x, b # x, Precedes(q, a, b)
    PROVE  Precedes(RemoveFirst(q, x), a, b)
<1>. DEFINE r == RemoveFirst(q, x)
<1>1. /\ r \in Seq(S) /\ IsInjective(r) /\ ToSet(r) = ToSet(q) \ {x}
      /\ \A j, k \in DOMAIN r : j < k => \E l, m \in DOMAIN q : l < m /\ r[j] = q[l] /\ r[k] = q[m]
  BY RemovedAny
<1>. HIDE DEF r
<1>2. a \in ToSet(r) /\ b \in ToSet(r) /\ a # b /\ ~Precedes(q, b, a)
  BY <1>1, PrecedesOrder
<1>3. ~Precedes(r, b, a)
  BY <1>1, <1>2 DEF Precedes
<1>4. Precedes(r, a, b)
  BY <1>1, <1>2, <1>3, PrecedesOrder
<1>. QED BY <1>4 DEF r

\* and when one is put in.
LEMMA InsertedPrecedes ==
    ASSUME NEW S, NEW q \in Seq(S), NEW x \in S, IsInjective(q), x \notin ToSet(q),
           NEW n \in 0..Len(q), NEW a, NEW b, Precedes(q, a, b)
    PROVE  Precedes(InsertAt(q, n + 1, x), a, b)
<1>. DEFINE len == Len(q)
            r == InsertAt(q, n + 1, x)
            f(i) == IF i <= n THEN i ELSE i + 1
<1>1. /\ len \in Nat /\ DOMAIN r = 1..len + 1 /\ DOMAIN q = 1..len
      /\ \A j \in 1..len + 1 : r[j] = IF j <= n THEN q[j] ELSE IF j = n + 1 THEN x ELSE q[j - 1]
  BY InsertedAt, LenProperties
<1>2. n \in 0..len
  OBVIOUS
<1>. HIDE DEF len, r
<1>3. ASSUME NEW i \in 1..len
      PROVE  f(i) \in 1..len + 1 /\ r[f(i)] = q[i]
  <2>1. CASE i <= n
    <3>1. i \in 1..len + 1
      BY <1>1
    <3>. QED BY <1>1, <2>1, <3>1
  <2>2. CASE ~(i <= n)
    <3>1. i + 1 \in 1..len + 1 /\ ~(i + 1 <= n) /\ i + 1 # n + 1 /\ (i + 1) - 1 = i
      BY <1>1, <1>2, <2>2
    <3>. QED BY <1>1, <2>2, <3>1
  <2>. QED BY <2>1, <2>2
<1>4. PICK i, j \in 1..len : i < j /\ q[i] = a /\ q[j] = b
  BY <1>1 DEF Precedes
<1>5. f(i) < f(j)
  BY <1>1, <1>2, <1>4
<1>. HIDE DEF f
<1>6. Precedes(r, a, b)
  BY <1>1, <1>3, <1>4, <1>5 DEF Precedes
<1>. QED BY <1>6 DEF r
=============================================================================
