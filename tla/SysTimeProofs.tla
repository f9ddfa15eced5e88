--------------------------- MODULE SysTimeProofs ---------------------------
(***************************************************************************)
(* Proofs about SYS_TIME for any number of timers, any width of the        *)
(* hardware counter and any latency that the half turn leaves room for.    *)
(***************************************************************************)
EXTENDS SysTime, SequenceTheorems, FiniteSetTheorems, WellFoundedInduction, TLAPS

-----------------------------------------------------------------------------
(* Induction. The library's theorems about it have an operator as their      *)
(* parameter; these speak of a set of numbers instead, and follow from the   *)
(* theorem that a well-founded relation has minimal elements.                *)

\* Every nonempty set of numbers has a least element.
LEMMA LeastNumber ==
    ASSUME NEW T \in SUBSET Nat, T # {}
    PROVE  \E m \in T : \A n \in T : m <= n
<1> DEFINE R == OpToRel(<, Nat)
<1>1. \A x, y \in Nat : x < y => <<x, y>> \in R
  BY DEF OpToRel
<1>2. IsWellFoundedOn(R, Nat)
  BY NatLessThanWellFounded
<1> HIDE DEF R
<1>3. \E x \in T : \A y \in T : ~ (<<y, x>> \in R)
  BY <1>2, WFMin
<1>4. PICK x \in T : \A y \in T : ~ (<<y, x>> \in R)
  BY <1>3
<1>5. \A y \in T : ~ (y < x)
  BY <1>1, <1>4
<1> QED
  BY <1>5

\* A set with 0 and the successor of each of its numbers up to n has all up to n.
LEMMA Induction ==
    ASSUME NEW n \in Nat, NEW T, 0 \in T,
           \A k \in 0 .. n - 1 : k \in T => k + 1 \in T
    PROVE  \A k \in 0 .. n : k \in T
<1> SUFFICES ASSUME NEW j \in 0 .. n, j \notin T
             PROVE  FALSE
  OBVIOUS
<1> DEFINE U == {k \in 0 .. n : k \notin T}
<1>1. U \in SUBSET Nat /\ U # {}
  OBVIOUS
<1>2. \E m \in U : \A k \in U : m <= k
  <2> HIDE DEF U
  <2> QED BY <1>1, LeastNumber
<1>3. PICK m \in U : \A k \in U : m <= k
  BY <1>2
<1>4. m # 0 /\ m - 1 \in 0 .. n - 1
  OBVIOUS
<1>5. m - 1 \in T
  BY <1>3, <1>4
<1> QED
  BY <1>4, <1>5

-----------------------------------------------------------------------------
(* The sums of the delta list                                                *)

\* The time that the k-th timer of a list adds to those before it.
Step(S, k) == S.tmr[S.list[k]].pending

\* There is a function that sums the times, the one Until chooses.
LEMMA SumExists ==
    ASSUME NEW S, NEW k \in Nat
    PROVE  \E s : s = [j \in 0 .. k |-> IF j = 0 THEN 0 ELSE s[j - 1] + Step(S, j)]
<1> DEFINE T == {i \in Nat :
                   \E s : s = [j \in 0 .. i |-> IF j = 0 THEN 0 ELSE s[j - 1] + Step(S, j)]}
<1>1. 0 \in T
  <2> DEFINE z == [j \in 0 .. 0 |-> 0]
  <2>1. z = [j \in 0 .. 0 |-> IF j = 0 THEN 0 ELSE z[j - 1] + Step(S, j)]
    OBVIOUS
  <2> QED BY <2>1
<1>2. ASSUME NEW i \in 0 .. k - 1, i \in T
      PROVE  i + 1 \in T
  <2>1. PICK s : s = [j \in 0 .. i |-> IF j = 0 THEN 0 ELSE s[j - 1] + Step(S, j)]
    BY <1>2
  <2> DEFINE r == [j \in 0 .. i + 1 |-> IF j <= i THEN s[j] ELSE s[i] + Step(S, i + 1)]
  <2>2. ASSUME NEW j \in 0 .. i + 1
        PROVE  r[j] = IF j = 0 THEN 0 ELSE r[j - 1] + Step(S, j)
    <3>1. CASE j <= i
      <4>1. s[j] = IF j = 0 THEN 0 ELSE s[j - 1] + Step(S, j)
        BY <2>1, <3>1
      <4> QED BY <3>1, <4>1
    <3>2. CASE j = i + 1
      BY <3>2
    <3> QED BY <3>1, <3>2
  <2>3. r = [j \in 0 .. i + 1 |-> r[j]]
    OBVIOUS
  <2> HIDE DEF r
  <2>4. r = [j \in 0 .. i + 1 |-> IF j = 0 THEN 0 ELSE r[j - 1] + Step(S, j)]
    BY <2>2, <2>3
  <2> QED BY <2>4
<1> HIDE DEF T
<1>3. k \in T
  BY <1>1, <1>2, Induction
<1> QED BY <1>3 DEF T

\* g adds the times of S up, to the n-th place.
Sums(S, n, g) == g[0] = 0 /\ \A k \in 1 .. n : g[k] = g[k - 1] + Step(S, k)

\* A function that adds the times up is the time until each place.
LEMMA UntilIs ==
    ASSUME NEW S, NEW n \in Nat, NEW g, Sums(S, n, g)
    PROVE  \A k \in 0 .. n : Until(S, k) = g[k]
<1> SUFFICES ASSUME NEW k \in 0 .. n
             PROVE  Until(S, k) = g[k]
  OBVIOUS
<1> DEFINE sum == CHOOSE s : s = [j \in 0 .. k |-> IF j = 0 THEN 0 ELSE s[j - 1] + Step(S, j)]
<1>1. Until(S, k) = sum[k]
  BY DEF Until, Step
<1>2. sum = [j \in 0 .. k |-> IF j = 0 THEN 0 ELSE sum[j - 1] + Step(S, j)]
  <2>1. k \in Nat
    OBVIOUS
  <2>2. \E s : s = [j \in 0 .. k |-> IF j = 0 THEN 0 ELSE s[j - 1] + Step(S, j)]
    BY <2>1, SumExists, Zenon
  <2> QED BY <2>2, Zenon
<1> HIDE DEF sum
<1> DEFINE T == {j \in 0 .. k : sum[j] = g[j]}
<1>3. 0 \in T
  BY <1>2 DEF Sums
<1>4. ASSUME NEW j \in 0 .. k - 1, j \in T
      PROVE  j + 1 \in T
  <2>1. sum[j + 1] = sum[j] + Step(S, j + 1)
    BY <1>2
  <2>2. g[j + 1] = g[j] + Step(S, j + 1)
    BY DEF Sums
  <2> QED BY <1>4, <2>1, <2>2
<1>5. k \in T
  <2> HIDE DEF T
  <2> QED BY <1>3, <1>4, Induction
<1> QED BY <1>1, <1>5

\* Each place is reached one timer's time after the one before.
LEMMA UntilSteps ==
    ASSUME NEW S
    PROVE  /\ Until(S, 0) = 0
           /\ \A k \in Nat \ {0} : Until(S, k) = Until(S, k - 1) + Step(S, k)
           /\ \A k \in Nat : Until(S, k + 1) = Until(S, k) + Step(S, k + 1)
<1>1. ASSUME NEW k \in Nat
      PROVE  \E s : Sums(S, k, s)
  <2>1. PICK s : s = [j \in 0 .. k |-> IF j = 0 THEN 0 ELSE s[j - 1] + Step(S, j)]
    BY SumExists
  <2> QED BY <2>1 DEF Sums
<1>2. Until(S, 0) = 0
  <2>1. PICK s : Sums(S, 0, s)
    BY <1>1
  <2>2. \A j \in 0 .. 0 : Until(S, j) = s[j]
    BY <2>1, UntilIs
  <2> QED BY <2>1, <2>2 DEF Sums
<1>3. ASSUME NEW k \in Nat \ {0}
      PROVE  Until(S, k) = Until(S, k - 1) + Step(S, k)
  <2>1. PICK s : Sums(S, k, s)
    BY <1>1
  <2>2. \A j \in 0 .. k : Until(S, j) = s[j]
    BY <2>1, UntilIs
  <2> QED BY <2>1, <2>2 DEF Sums
<1>4. ASSUME NEW k \in Nat
      PROVE  Until(S, k + 1) = Until(S, k) + Step(S, k + 1)
  <2>1. k + 1 \in Nat \ {0} /\ k + 1 - 1 = k
    OBVIOUS
  <2> QED BY <1>3, <2>1
<1> QED BY <1>2, <1>3, <1>4

-----------------------------------------------------------------------------
(* The operations on the delta list                                          *)

\* A delta list: no timer twice, and no time beyond the range of the counter.
DeltaList(S) ==
    /\ S \in [list : Seq(Slots), tmr : [Slots -> Object]]
    /\ IsInjective(S.list)
    /\ Until(S, Len(S.list)) <= Period

\* The numbers and the timers of a delta list.
LEMMA Entries ==
    ASSUME NEW S, DeltaList(S)
    PROVE  /\ Len(S.list) \in Nat /\ DOMAIN S.list = 1 .. Len(S.list)
           /\ \A i \in 1 .. Len(S.list) :
                 S.list[i] \in Slots /\ Step(S, i) \in 0 .. Period
           /\ \A i, j \in 1 .. Len(S.list) : S.list[i] = S.list[j] => i = j
           /\ \A t \in Slots : S.tmr[t] \in Object /\ S.tmr[t].pending \in 0 .. Period
           /\ Period \in Nat
<1>1. S.list \in Seq(Slots) /\ S.tmr \in [Slots -> Object]
  BY DEF DeltaList
<1>2. \A i \in 1 .. Len(S.list) : S.list[i] \in Slots
  BY <1>1
<1>3. \A t \in Slots : S.tmr[t] \in Object /\ S.tmr[t].pending \in 0 .. Period
  BY <1>1 DEF Object
<1>4. Period \in Nat
  BY SysTimeAssumption DEF Period
<1> QED BY <1>1, <1>2, <1>3, <1>4 DEF DeltaList, IsInjective, Step

\* The times of a list are numbers that grow from place to place.
LEMMA UntilGrows ==
    ASSUME NEW S, DeltaList(S)
    PROVE  \A j \in 0 .. Len(S.list) :
              /\ Until(S, j) \in 0 .. Period
              /\ \A i \in 0 .. j : Until(S, i) <= Until(S, j)
<1> DEFINE n == Len(S.list)
<1> DEFINE T == {j \in 0 .. n : \A i \in 0 .. j : Until(S, i) \in Nat /\ Until(S, i) <= Until(S, j)}
<1>1. n \in Nat /\ Period \in Nat
  BY Entries
<1>2. 0 \in T
  BY <1>1, UntilSteps
<1>3. ASSUME NEW j \in 0 .. n - 1, j \in T
      PROVE  j + 1 \in T
  <2> HIDE DEF T
  <2>1. Until(S, j + 1) = Until(S, j) + Step(S, j + 1)
    <3>1. j \in Nat
      BY <1>1
    <3> QED BY <3>1, UntilSteps
  <2>2. Step(S, j + 1) \in Nat
    BY <1>1, Entries
  <2>3. \A i \in 0 .. j : Until(S, i) \in Nat /\ Until(S, i) <= Until(S, j)
    BY <1>3 DEF T
  <2>4. Until(S, j) \in Nat
    BY <1>1, <2>3
  <2>5. Until(S, j + 1) \in Nat /\ Until(S, j) <= Until(S, j + 1)
    BY <2>1, <2>2, <2>4
  <2>6. ASSUME NEW i \in 0 .. j + 1
        PROVE  Until(S, i) \in Nat /\ Until(S, i) <= Until(S, j + 1)
    <3>1. CASE i = j + 1
      BY <2>5, <3>1
    <3>2. CASE i \in 0 .. j
      <4>1. Until(S, i) \in Nat /\ Until(S, i) <= Until(S, j)
        BY <2>3, <3>2
      <4> QED BY <2>4, <2>5, <4>1
    <3> QED BY <1>1, <3>1, <3>2
  <2> QED BY <1>1, <2>6 DEF T
<1>4. \A j \in 0 .. n : j \in T
  <2> HIDE DEF T, n
  <2> QED BY <1>1, <1>2, <1>3, Induction
<1>5. \A j \in 0 .. n : Until(S, j) <= Until(S, n) /\ Until(S, j) \in Nat
  BY <1>1, <1>4
<1> QED BY <1>1, <1>4, <1>5 DEF DeltaList

\* r is s, a sequence over T, without its i-th element, and with e in the i-th place.
Removed(T, r, s, i) ==
    /\ r \in Seq(T) /\ Len(r) = Len(s) - 1
    /\ \A j \in 1 .. Len(s) - 1 : r[j] = IF j < i THEN s[j] ELSE s[j + 1]

Inserted(T, r, s, i, e) ==
    /\ r \in Seq(T) /\ Len(r) = Len(s) + 1
    /\ \A j \in 1 .. Len(s) + 1 : r[j] = IF j < i THEN s[j] ELSE IF j = i THEN e ELSE s[j - 1]

\* Taking an element out of a sequence.
LEMMA RemoveAtIs ==
    ASSUME NEW T, NEW s \in Seq(T), NEW i \in 1 .. Len(s)
    PROVE  Removed(T, RemoveAt(s, i), s, i)
<1> DEFINE a == SubSeq(s, 1, i - 1)
           b == SubSeq(s, i + 1, Len(s))
<1>1. a \in Seq(T) /\ Len(a) = i - 1 /\ \A j \in 1 .. i - 1 : a[j] = s[j]
  BY SubSeqProperties
<1>2. b \in Seq(T) /\ Len(b) = Len(s) - i /\ \A j \in 1 .. Len(s) - i : b[j] = s[i + j]
  BY SubSeqProperties
<1> HIDE DEF a, b
<1>3. /\ a \o b \in Seq(T)
      /\ Len(a \o b) = Len(s) - 1
      /\ \A j \in 1 .. Len(s) - 1 : (a \o b)[j] = IF j <= i - 1 THEN a[j] ELSE b[j - (i - 1)]
  <2>1. /\ a \o b \in Seq(T)
        /\ Len(a \o b) = Len(a) + Len(b)
        /\ \A j \in 1 .. Len(a) + Len(b) : (a \o b)[j] = IF j <= Len(a) THEN a[j] ELSE b[j - Len(a)]
    BY <1>1, <1>2, ConcatProperties
  <2>2. Len(a) + Len(b) = Len(s) - 1
    BY <1>1, <1>2
  <2> QED BY <1>1, <2>1, <2>2
<1>4. ASSUME NEW j \in 1 .. Len(s) - 1
      PROVE  (a \o b)[j] = IF j < i THEN s[j] ELSE s[j + 1]
  <2>1. CASE j < i
    BY <1>1, <1>3, <2>1
  <2>2. CASE ~ (j < i)
    <3>1. j - (i - 1) \in 1 .. Len(s) - i /\ i + (j - (i - 1)) = j + 1
      BY <2>2
    <3> QED BY <1>2, <1>3, <2>2, <3>1
  <2> QED BY <2>1, <2>2
<1> QED BY <1>3, <1>4 DEF RemoveAt, Removed, a, b

\* Putting an element into a sequence.
LEMMA InsertAtIs ==
    ASSUME NEW T, NEW s \in Seq(T), NEW i \in 1 .. Len(s) + 1, NEW e \in T
    PROVE  Inserted(T, InsertAt(s, i, e), s, i, e)
<1> DEFINE a == SubSeq(s, 1, i - 1)
           b == SubSeq(s, i, Len(s))
           c == a \o <<e>>
<1>1. a \in Seq(T) /\ Len(a) = i - 1 /\ \A j \in 1 .. i - 1 : a[j] = s[j]
  BY SubSeqProperties
<1>2. b \in Seq(T) /\ Len(b) = Len(s) - i + 1 /\ \A j \in 1 .. Len(s) - i + 1 : b[j] = s[i + j - 1]
  BY SubSeqProperties
<1> HIDE DEF a, b
<1>3. /\ c \in Seq(T)
      /\ Len(c) = i
      /\ \A j \in 1 .. i : c[j] = IF j <= i - 1 THEN a[j] ELSE e
  BY <1>1, ConcatProperties
<1> HIDE DEF c
<1>4. /\ c \o b \in Seq(T)
      /\ Len(c \o b) = Len(s) + 1
      /\ \A j \in 1 .. Len(s) + 1 : (c \o b)[j] = IF j <= i THEN c[j] ELSE b[j - i]
  BY <1>2, <1>3, ConcatProperties
<1>5. ASSUME NEW j \in 1 .. Len(s) + 1
      PROVE  (c \o b)[j] = IF j < i THEN s[j] ELSE IF j = i THEN e ELSE s[j - 1]
  <2>1. CASE j <= i
    BY <1>1, <1>3, <1>4, <2>1
  <2>2. CASE ~ (j <= i)
    <3>1. j - i \in 1 .. Len(s) - i + 1 /\ i + (j - i) - 1 = j - 1
      BY <2>2
    <3> QED BY <1>2, <1>4, <2>2, <3>1
  <2> QED BY <2>1, <2>2
<1> QED BY <1>4, <1>5 DEF InsertAt, Inserted, a, b, c

\* The place of a timer that is added is behind those that expire no later.
LEMMA PlaceIs ==
    ASSUME NEW S, DeltaList(S), NEW t \in Slots
    PROVE  /\ Place(S, t) \in 0 .. Len(S.list)
           /\ Until(S, Place(S, t)) <= S.tmr[t].pending
           /\ \A i \in 0 .. Len(S.list) : Until(S, i) <= S.tmr[t].pending <=> i <= Place(S, t)
<1> DEFINE n == Len(S.list)
           p == S.tmr[t].pending
           before == {k \in DOMAIN S.list : Until(S, k) <= p}
           after == {k \in 1 .. n : p < Until(S, k)}
<1>1. n \in Nat /\ DOMAIN S.list = 1 .. n /\ p \in 0 .. Period
  BY Entries
<1>2. \A j \in 0 .. n : Until(S, j) \in Int /\ \A i \in 0 .. j : Until(S, i) <= Until(S, j)
  BY UntilGrows
<1>3. Until(S, 0) = 0
  BY UntilSteps
<1>4. PICK m \in 0 .. n : \A i \in 0 .. n : Until(S, i) <= p <=> i <= m
  <2>1. CASE after = {}
    <3>1. \A i \in 0 .. n : Until(S, i) <= p
      BY <1>1, <1>2, <1>3, <2>1
    <3> WITNESS n \in 0 .. n
    <3> QED BY <1>1, <3>1
  <2>2. CASE after # {}
    <3>1. after \in SUBSET Nat
      BY <1>1
    <3>2. PICK l \in after : \A k \in after : l <= k
      <4> HIDE DEF after
      <4> QED BY <2>2, <3>1, LeastNumber
    <3>3. l - 1 \in 0 .. n
      BY <1>1
    <3>4. ASSUME NEW i \in 0 .. n
          PROVE  Until(S, i) <= p <=> i <= l - 1
      <4>1. CASE i < l
        <5>1. i \notin after
          BY <1>1, <3>2, <4>1
        <5> QED BY <1>1, <1>2, <1>3, <4>1, <5>1
      <4>2. CASE l <= i
        <5>1. Until(S, l) <= Until(S, i) /\ p < Until(S, l)
          BY <1>1, <1>2, <4>2
        <5> QED BY <1>1, <1>2, <4>2, <5>1
      <4> QED BY <1>1, <4>1, <4>2
    <3> QED BY <3>3, <3>4
  <2> QED BY <2>1, <2>2
<1>5. before = 1 .. m
  BY <1>1, <1>4
<1>6. Place(S, t) = m
  <2>1. Cardinality(1 .. m) = m
    BY FS_Interval
  <2> QED BY <1>5, <2>1 DEF Place
<1> QED BY <1>4, <1>6

\* A changed pending time leaves the rest of a timer's object alone.
SamePart(r, q) == r = [q EXCEPT !.pending = r.pending]

\* An object with another pending time.
LEMMA PendingSet ==
    ASSUME NEW q \in Object, NEW p \in 0 .. Period, NEW r, r = [q EXCEPT !.pending = p]
    PROVE  r \in Object /\ r.pending = p /\ SamePart(r, q)
BY DEF Object, SamePart

\* What AddToList does: the new timer expires at its own time and every other when it
\* did; nothing but the pending times of the list changes.
LEMMA AddToListIs ==
    ASSUME NEW S, DeltaList(S), NEW t \in Slots, ~ Contains(S.list, t),
           NEW A, A = AddToList(S, t), NEW k, k = Place(S, t)
    PROVE  /\ DeltaList(A)
           /\ k \in 0 .. Len(S.list) /\ Len(A.list) = Len(S.list) + 1
           /\ \A j \in 1 .. Len(S.list) + 1 :
                 A.list[j] = IF j < k + 1 THEN S.list[j] ELSE IF j = k + 1 THEN t ELSE S.list[j - 1]
           /\ \A j \in 0 .. Len(S.list) + 1 :
                 Until(A, j) = IF j <= k THEN Until(S, j)
                               ELSE IF j = k + 1 THEN S.tmr[t].pending ELSE Until(S, j - 1)
           /\ \A u \in Slots : SamePart(A.tmr[u], S.tmr[u])
           /\ \A u \in Slots : u # t /\ ~ Contains(S.list, u) => A.tmr[u] = S.tmr[u]
<1> DEFINE n == Len(S.list)
           p == S.tmr[t].pending
           own == p - Until(S, k)
           new(u) == IF u = t THEN own
                     ELSE IF k < n /\ u = S.list[k + 1] THEN S.tmr[u].pending - own
                     ELSE S.tmr[u].pending
           g == [j \in 0 .. n + 1 |-> IF j <= k THEN Until(S, j)
                                      ELSE IF j = k + 1 THEN p ELSE Until(S, j - 1)]
<1>1. /\ n \in Nat /\ DOMAIN S.list = 1 .. n /\ Period \in Nat /\ p \in 0 .. Period
      /\ \A i \in 1 .. n : S.list[i] \in Slots /\ Step(S, i) \in 0 .. Period
      /\ \A i, j \in 1 .. n : S.list[i] = S.list[j] => i = j
      /\ \A u \in Slots : S.tmr[u] \in Object /\ S.tmr[u].pending \in 0 .. Period
      /\ S.list \in Seq(Slots)
  BY Entries DEF DeltaList
<1>2. \A i \in 1 .. n : S.list[i] # t
  BY DEF Contains
<1>3. k \in 0 .. n /\ \A i \in 0 .. n : Until(S, i) <= p <=> i <= k
  BY PlaceIs
<1>4. /\ \A j \in 0 .. n : Until(S, j) \in 0 .. Period
      /\ Until(S, 0) = 0 /\ \A j \in 1 .. n : Until(S, j) = Until(S, j - 1) + Step(S, j)
  <2>1. \A j \in 0 .. n : Until(S, j) \in 0 .. Period
    BY UntilGrows
  <2>2. \A j \in 1 .. n : j \in Nat \ {0}
    BY <1>1
  <2>3. Until(S, 0) = 0 /\ \A j \in 1 .. n : Until(S, j) = Until(S, j - 1) + Step(S, j)
    BY <2>2, UntilSteps
  <2> QED BY <2>1, <2>3
<1>5. own \in 0 .. Period
  <2>1. Until(S, k) \in 0 .. Period /\ Until(S, k) <= p
    BY <1>3, <1>4
  <2>2. p \in 0 .. Period /\ Period \in Nat
    BY <1>1
  <2> HIDE DEF p
  <2> QED BY <2>1, <2>2
<1>6. ASSUME k < n
      PROVE  S.tmr[S.list[k + 1]].pending - own \in 0 .. Period
  <2>1. k + 1 \in 1 .. n /\ k + 1 - 1 = k
    BY <1>1, <1>3, <1>6
  <2>2. Until(S, k + 1) = Until(S, k) + Step(S, k + 1)
    BY <1>3, UntilSteps
  <2>3. p < Until(S, k + 1) /\ Until(S, k + 1) \in 0 .. Period
    BY <1>1, <1>3, <1>4, <2>1
  <2>4. Step(S, k + 1) \in 0 .. Period /\ Until(S, k) \in 0 .. Period
    BY <1>1, <1>3, <1>4, <2>1
  <2>5. S.tmr[S.list[k + 1]].pending = Step(S, k + 1)
    BY DEF Step
  <2>6. Period \in Nat /\ p \in 0 .. Period
    BY <1>1
  <2> HIDE DEF p
  <2> QED BY <2>2, <2>3, <2>4, <2>5, <2>6
<1>7. A.list = InsertAt(S.list, k + 1, t) /\ A = [list |-> A.list, tmr |-> A.tmr]
  BY DEF AddToList
<1>8. k + 1 \in 1 .. n + 1
  BY <1>1, <1>3
<1>9. /\ A.list \in Seq(Slots) /\ Len(A.list) = n + 1
      /\ \A j \in 1 .. n + 1 :
            A.list[j] = IF j < k + 1 THEN S.list[j] ELSE IF j = k + 1 THEN t ELSE S.list[j - 1]
  <2> DEFINE l == InsertAt(S.list, k + 1, t)
  <2>1. /\ l \in Seq(Slots) /\ Len(l) = n + 1
        /\ \A j \in 1 .. n + 1 :
              l[j] = IF j < k + 1 THEN S.list[j] ELSE IF j = k + 1 THEN t ELSE S.list[j - 1]
    <3>1. S.list \in Seq(Slots)
      BY <1>1
    <3>2. Inserted(Slots, l, S.list, k + 1, t)
      BY <1>8, <3>1, InsertAtIs
    <3> HIDE DEF l
    <3> QED BY <3>2 DEF Inserted
  <2> HIDE DEF l
  <2> QED BY <1>7, <2>1 DEF l
<1>10. A.tmr = [u \in Slots |-> [S.tmr[u] EXCEPT !.pending = new(u)]]
  <2>1. ASSUME NEW u \in Slots
        PROVE  S.tmr[u] = [S.tmr[u] EXCEPT !.pending = S.tmr[u].pending]
    BY <1>1 DEF Object
  <2>2. A.tmr = [u \in Slots |->
                     IF u = t THEN [S.tmr[u] EXCEPT !.pending = own]
                     ELSE IF k < n /\ u = S.list[k + 1]
                     THEN [S.tmr[u] EXCEPT !.pending = @ - own]
                     ELSE S.tmr[u]]
    BY DEF AddToList
  <2> QED BY <2>1, <2>2
<1>11. \A u \in Slots : new(u) \in 0 .. Period
  BY <1>1, <1>3, <1>5, <1>6
<1> HIDE DEF own
<1>12. ASSUME NEW u \in Slots
       PROVE  A.tmr[u] \in Object /\ A.tmr[u].pending = new(u) /\ SamePart(A.tmr[u], S.tmr[u])
  <2> HIDE DEF new
  <2>1. A.tmr[u] = [S.tmr[u] EXCEPT !.pending = new(u)]
    BY <1>10
  <2>2. S.tmr[u] \in Object /\ new(u) \in 0 .. Period
    BY <1>1, <1>11
  <2> QED BY <2>1, <2>2, PendingSet
<1>13. /\ Step(A, k + 1) = own
       /\ \A j \in 1 .. k : Step(A, j) = Step(S, j)
       /\ k < n => Step(A, k + 2) = Step(S, k + 1) - own
       /\ \A j \in k + 3 .. n + 1 : Step(A, j) = Step(S, j - 1)
  <2>1. ASSUME NEW j \in 1 .. n + 1
        PROVE  A.list[j] \in Slots /\ Step(A, j) = new(A.list[j])
    <3>1. A.list[j] \in Slots
      BY <1>9
    <3> QED BY <1>12, <3>1 DEF Step
  <2>2. Step(A, k + 1) = own
    <3>1. A.list[k + 1] = t
      BY <1>9, <1>8
    <3> QED BY <1>8, <2>1, <3>1
  <2>3. ASSUME NEW j \in 1 .. k
        PROVE  Step(A, j) = Step(S, j)
    <3>1. j \in 1 .. n /\ j \in 1 .. n + 1 /\ j < k + 1
      BY <1>1, <1>3
    <3>2. A.list[j] = S.list[j]
      BY <1>9, <3>1
    <3>3. S.list[j] # t
      BY <1>2, <3>1
    <3>4. k < n => k + 1 \in 1 .. n /\ S.list[j] # S.list[k + 1]
      BY <1>1, <1>3, <3>1, SMTT(20)
    <3>5. new(S.list[j]) = S.tmr[S.list[j]].pending
      BY <3>3, <3>4
    <3> QED BY <2>1, <3>1, <3>2, <3>5 DEF Step
  <2>4. ASSUME k < n
        PROVE  Step(A, k + 2) = Step(S, k + 1) - own
    <3>1. /\ k + 1 \in 1 .. n /\ k + 2 \in 1 .. n + 1
          /\ ~ (k + 2 < k + 1) /\ k + 2 # k + 1 /\ k + 2 - 1 = k + 1
      BY <1>1, <1>3, <2>4
    <3>2. A.list[k + 2] = S.list[k + 1]
      BY <1>1, <1>3, <1>9, <3>1
    <3>3. S.list[k + 1] # t
      BY <1>2, <3>1
    <3>4. new(S.list[k + 1]) = S.tmr[S.list[k + 1]].pending - own
      BY <2>4, <3>3
    <3> HIDE DEF new
    <3>5. Step(A, k + 2) = new(A.list[k + 2])
      BY <2>1, <3>1
    <3>6. Step(S, k + 1) = S.tmr[S.list[k + 1]].pending
      BY DEF Step
    <3> QED BY <3>2, <3>4, <3>5, <3>6
  <2>5. ASSUME NEW j \in k + 3 .. n + 1
        PROVE  Step(A, j) = Step(S, j - 1)
    <3>1. /\ j - 1 \in 1 .. n /\ j \in 1 .. n + 1 /\ ~ (j < k + 1) /\ j # k + 1
          /\ k + 1 \in 1 .. n /\ k + 1 # j - 1
      BY <1>1, <1>3
    <3>2. A.list[j] = S.list[j - 1]
      BY <1>9, <3>1
    <3>3. S.list[j - 1] # t /\ S.list[j - 1] # S.list[k + 1]
      BY <1>1, <1>2, <3>1
    <3>4. new(S.list[j - 1]) = S.tmr[S.list[j - 1]].pending
      BY <3>3
    <3> HIDE DEF new
    <3>5. Step(A, j) = new(A.list[j])
      BY <2>1, <3>1
    <3>6. Step(S, j - 1) = S.tmr[S.list[j - 1]].pending
      BY DEF Step
    <3> QED BY <3>2, <3>4, <3>5, <3>6
  <2> QED BY <2>2, <2>3, <2>4, <2>5
<1>14. Sums(A, n + 1, g)
  <2>1. g[0] = 0
    BY <1>1, <1>3, <1>4
  <2>2. ASSUME NEW j \in 1 .. n + 1
        PROVE  g[j] = g[j - 1] + Step(A, j)
    <3>1. /\ j - 1 \in 0 .. n + 1 /\ j \in 0 .. n + 1
          /\ g[j] = IF j <= k THEN Until(S, j) ELSE IF j = k + 1 THEN p ELSE Until(S, j - 1)
          /\ g[j - 1] = IF j - 1 <= k THEN Until(S, j - 1)
                        ELSE IF j - 1 = k + 1 THEN p ELSE Until(S, j - 1 - 1)
      BY <1>1
    <3>0. n \in Nat /\ k \in 0 .. n
      BY <1>1, <1>3
    <3> HIDE DEF g, n, p
    <3>2. CASE j <= k
      BY <1>1, <1>3, <1>4, <1>13, <3>1, <3>2
    <3>3. CASE j = k + 1
      <4>1. g[j] = p /\ g[j - 1] = Until(S, k) /\ Step(A, j) = own
        BY <1>1, <1>3, <1>13, <3>1, <3>3
      <4>2. Until(S, k) \in 0 .. Period
        BY <1>3, <1>4
      <4> QED BY <1>1, <4>1, <4>2 DEF own
    <3>4. CASE j = k + 2
      <4>1. k < n /\ k + 1 \in 1 .. n /\ j - 1 = k + 1 /\ k + 1 - 1 = k
        BY <1>1, <1>3, <3>4
      <4>2. g[j] = Until(S, k + 1) /\ g[j - 1] = p /\ Step(A, j) = Step(S, k + 1) - own
        <5>1. ~ (j <= k) /\ j # k + 1 /\ ~ (j - 1 <= k)
          BY <3>0, <3>4
        <5>2. g[j] = Until(S, k + 1) /\ g[j - 1] = p
          BY <3>1, <4>1, <5>1
        <5>3. Step(A, j) = Step(S, k + 1) - own
          BY <1>13, <3>4, <4>1
        <5> QED BY <5>2, <5>3
      <4>3. Until(S, k + 1) = Until(S, k) + Step(S, k + 1)
        <5>1. k \in Nat
          BY <3>0
        <5> QED BY <5>1, UntilSteps
      <4>4. Until(S, k) \in 0 .. Period /\ Step(S, k + 1) \in 0 .. Period
        BY <1>1, <1>3, <1>4, <4>1
      <4> QED BY <1>1, <4>2, <4>3, <4>4 DEF own
    <3>5. CASE j > k + 2
      <4>1. j \in k + 3 .. n + 1 /\ j - 1 \in 1 .. n
        BY <1>1, <1>3, <3>5
      <4>2. g[j] = Until(S, j - 1) /\ g[j - 1] = Until(S, j - 1 - 1) /\ Step(A, j) = Step(S, j - 1)
        <5>1. ~ (j <= k) /\ j # k + 1 /\ ~ (j - 1 <= k) /\ j - 1 # k + 1
          BY <3>0, <3>5
        <5>2. g[j] = Until(S, j - 1) /\ g[j - 1] = Until(S, j - 1 - 1)
          BY <3>1, <5>1
        <5> QED BY <1>13, <4>1, <5>2
      <4> QED BY <1>4, <4>1, <4>2
    <3> QED BY <1>1, <1>3, <3>2, <3>3, <3>4, <3>5
  <2> HIDE DEF g, n
  <2> QED BY <2>1, <2>2 DEF Sums
<1>15. \A j \in 0 .. n + 1 : Until(A, j) = g[j]
  <2>1. n + 1 \in Nat
    BY <1>1
  <2> HIDE DEF g, n
  <2> QED BY <1>14, <2>1, UntilIs
<1>16. DeltaList(A)
  <2>1. Until(A, n + 1) <= Period
    <3>1. n + 1 \in 0 .. n + 1 /\ n \in 0 .. n
      BY <1>1
    <3>2. g[n + 1] = IF n + 1 <= k THEN Until(S, n + 1)
                         ELSE IF n + 1 = k + 1 THEN p ELSE Until(S, n + 1 - 1)
      BY <3>1
    <3>3. ~ (n + 1 <= k) /\ n + 1 - 1 = n
      BY <1>1, <1>3
    <3>4. Until(A, n + 1) = IF n + 1 = k + 1 THEN p ELSE Until(S, n)
      BY <1>15, <3>1, <3>2, <3>3
    <3> QED BY <1>1, <1>4, <3>1, <3>4
  <2>2. IsInjective(A.list)
    <3>1. DOMAIN A.list = 1 .. n + 1
      BY <1>9
    <3>2. ASSUME NEW i \in 1 .. n + 1, NEW j \in 1 .. n + 1, A.list[i] = A.list[j]
          PROVE  i = j
      <4> DEFINE a(x) == IF x < k + 1 THEN x ELSE x - 1
      <4>0. n \in Nat /\ k \in 0 .. n
        BY <1>1, <1>3
      <4>1. ASSUME NEW x \in 1 .. n + 1, x # k + 1
            PROVE  a(x) \in 1 .. n /\ A.list[x] = S.list[a(x)]
        <5>1. A.list[x] = S.list[a(x)]
          BY <1>9, <4>1
        <5>2. a(x) \in 1 .. n
          BY <4>0, <4>1
        <5> QED BY <5>1, <5>2
      <4>2. A.list[k + 1] = t
        BY <1>9, <1>8
      <4>3. CASE i = k + 1 \/ j = k + 1
        <5>1. \A x \in 1 .. n + 1 : x # k + 1 => A.list[x] # t
          <6> HIDE DEF a
          <6> QED BY <1>2, <4>1
        <5> QED BY <3>2, <4>2, <4>3, <5>1
      <4>4. CASE i # k + 1 /\ j # k + 1
        <5>1. a(i) = a(j)
          <6> HIDE DEF a
          <6>1. a(i) \in 1 .. n /\ A.list[i] = S.list[a(i)]
            BY <4>1, <4>4
          <6>2. a(j) \in 1 .. n /\ A.list[j] = S.list[a(j)]
            BY <4>1, <4>4
          <6> QED BY <1>1, <3>2, <6>1, <6>2
        <5> QED BY <4>0, <4>4, <5>1
      <4> QED BY <4>3, <4>4
    <3> QED BY <3>1, <3>2 DEF IsInjective
  <2>3. A.tmr \in [Slots -> Object]
    BY <1>10, <1>12
  <2>4. A \in [list : Seq(Slots), tmr : [Slots -> Object]]
    BY <1>7, <1>9, <2>3
  <2> QED BY <1>9, <2>1, <2>2, <2>4 DEF DeltaList
<1>17. ASSUME NEW u \in Slots, u # t, ~ Contains(S.list, u)
       PROVE  A.tmr[u] = S.tmr[u]
  <2>1. k < n => k + 1 \in 1 .. n
    BY <1>1, <1>3
  <2>2. new(u) = S.tmr[u].pending
    BY <1>17, <2>1 DEF Contains
  <2>3. S.tmr[u] \in Object
    BY <1>1
  <2> QED BY <1>10, <2>2, <2>3 DEF Object
<1>18. \A j \in 0 .. n + 1 :
           Until(A, j) = IF j <= k THEN Until(S, j) ELSE IF j = k + 1 THEN p ELSE Until(S, j - 1)
  BY <1>15
<1> QED BY <1>3, <1>9, <1>12, <1>16, <1>17, <1>18

\* R is S without t, its i-th timer: every other timer expires when it did.
TakenOut(R, S, t, i) ==
    /\ S.list[i] = t
    /\ DeltaList(R) /\ Len(R.list) = Len(S.list) - 1
    /\ \A j \in 1 .. Len(S.list) - 1 :
          R.list[j] = IF j < i THEN S.list[j] ELSE S.list[j + 1]
    /\ \A j \in 0 .. Len(S.list) - 1 :
          Until(R, j) = IF j < i THEN Until(S, j) ELSE Until(S, j + 1)
    /\ \A u \in Slots : SamePart(R.tmr[u], S.tmr[u])
    /\ \A u \in Slots : u = t \/ ~ Contains(S.list, u) => R.tmr[u] = S.tmr[u]

\* What RemoveFromList does.
LEMMA RemoveFromListIs ==
    ASSUME NEW S, DeltaList(S), NEW t \in Slots, Contains(S.list, t),
           NEW R, R = RemoveFromList(S, t)
    PROVE  \E i \in 1 .. Len(S.list) : TakenOut(R, S, t, i)
<1> DEFINE n == Len(S.list)
<1>1. /\ n \in Nat /\ DOMAIN S.list = 1 .. n /\ Period \in Nat
      /\ \A j \in 1 .. n : S.list[j] \in Slots /\ Step(S, j) \in 0 .. Period
      /\ \A j, k \in 1 .. n : S.list[j] = S.list[k] => j = k
      /\ \A u \in Slots : S.tmr[u] \in Object /\ S.tmr[u].pending \in 0 .. Period
      /\ S.list \in Seq(Slots)
  BY Entries DEF DeltaList
<1> DEFINE found == CHOOSE j \in DOMAIN S.list : S.list[j] = t
<1>2. found \in 1 .. n /\ S.list[found] = t
  BY <1>1 DEF Contains
<1>3. PICK i \in 1 .. n : i = found /\ S.list[i] = t
  BY <1>2
<1> DEFINE rest == RemoveAt(S.list, i)
           new(u) == IF i <= Len(rest) /\ u = rest[i] THEN S.tmr[u].pending + S.tmr[t].pending
                     ELSE S.tmr[u].pending
           g == [j \in 0 .. n - 1 |-> IF j < i THEN Until(S, j) ELSE Until(S, j + 1)]
<1>4. R = [list |-> rest,
           tmr |-> [u \in Slots |->
                       IF i <= Len(rest) /\ u = rest[i]
                       THEN [S.tmr[u] EXCEPT !.pending = @ + S.tmr[t].pending]
                       ELSE S.tmr[u]]]
  <2> HIDE DEF rest
  <2>1. R = LET m == found
                r == RemoveAt(S.list, m)
            IN  [list |-> r,
                 tmr |-> [u \in Slots |->
                             IF m <= Len(r) /\ u = r[m]
                             THEN [S.tmr[u] EXCEPT !.pending = @ + S.tmr[t].pending]
                             ELSE S.tmr[u]]]
    BY DEF RemoveFromList
  <2> HIDE DEF found
  <2> QED BY <1>3, <2>1 DEF rest
<1>5. /\ rest \in Seq(Slots) /\ Len(rest) = n - 1
      /\ \A j \in 1 .. n - 1 : rest[j] = IF j < i THEN S.list[j] ELSE S.list[j + 1]
  <2> HIDE DEF rest
  <2>1. Removed(Slots, rest, S.list, i)
    BY <1>1, <1>3, RemoveAtIs DEF rest
  <2> QED BY <2>1 DEF Removed
<1> HIDE DEF rest, found
<1>6. /\ \A j \in 0 .. n : Until(S, j) \in 0 .. Period
      /\ Until(S, 0) = 0 /\ \A j \in 1 .. n : Until(S, j) = Until(S, j - 1) + Step(S, j)
  <2>1. \A j \in 0 .. n : Until(S, j) \in 0 .. Period
    BY UntilGrows
  <2>2. \A j \in 1 .. n : j \in Nat \ {0}
    BY <1>1
  <2>3. Until(S, 0) = 0 /\ \A j \in 1 .. n : Until(S, j) = Until(S, j - 1) + Step(S, j)
    BY <2>2, UntilSteps
  <2> QED BY <2>1, <2>3
<1>7. ASSUME i < n
      PROVE  /\ rest[i] = S.list[i + 1] /\ rest[i] \in Slots
             /\ Step(S, i) + Step(S, i + 1) \in 0 .. Period
             /\ new(rest[i]) = Step(S, i) + Step(S, i + 1)
             /\ Until(S, i + 1) = Until(S, i - 1) + Step(S, i) + Step(S, i + 1)
  <2>1. i \in 1 .. n - 1 /\ i + 1 \in 1 .. n /\ i - 1 \in 0 .. n
    BY <1>1, <1>3, <1>7
  <2>2. rest[i] = S.list[i + 1]
    BY <1>5, <2>1
  <2>3. Until(S, i + 1) = Until(S, i) + Step(S, i + 1)
    <3>1. i \in Nat
      BY <1>1
    <3> QED BY <3>1, UntilSteps
  <2>4. Until(S, i) = Until(S, i - 1) + Step(S, i)
    BY <1>3, <1>6
  <2>5. Until(S, i + 1) \in 0 .. Period /\ Until(S, i - 1) \in 0 .. Period
    BY <1>6, <2>1
  <2>6. Step(S, i) \in 0 .. Period /\ Step(S, i + 1) \in 0 .. Period
    BY <1>1, <1>3, <2>1
  <2>7. new(rest[i]) = S.tmr[S.list[i + 1]].pending + S.tmr[t].pending
    BY <1>5, <2>1, <2>2
  <2>8. new(rest[i]) = Step(S, i + 1) + Step(S, i)
    BY <1>3, <2>7 DEF Step
  <2>9. rest[i] \in Slots
    BY <1>1, <2>1, <2>2
  <2>10. Step(S, i) + Step(S, i + 1) \in 0 .. Period
    <3>1. Period \in Nat
      BY <1>1
    <3> QED BY <2>3, <2>4, <2>5, <2>6, <3>1
  <2>11. new(rest[i]) = Step(S, i) + Step(S, i + 1)
    <3> HIDE DEF new
    <3> QED BY <2>6, <2>8
  <2>12. Until(S, i + 1) = Until(S, i - 1) + Step(S, i) + Step(S, i + 1)
    BY <2>3, <2>4
  <2> HIDE DEF new
  <2> QED BY <2>2, <2>9, <2>10, <2>11, <2>12
<1>8. \A u \in Slots : new(u) \in 0 .. Period
  BY <1>1, <1>3, <1>5, <1>7
<1>9. R.tmr = [u \in Slots |-> [S.tmr[u] EXCEPT !.pending = new(u)]]
  <2>1. ASSUME NEW u \in Slots
        PROVE  S.tmr[u] = [S.tmr[u] EXCEPT !.pending = S.tmr[u].pending]
    BY <1>1 DEF Object
  <2>2. R.tmr = [u \in Slots |->
                     IF i <= Len(rest) /\ u = rest[i]
                     THEN [S.tmr[u] EXCEPT !.pending = @ + S.tmr[t].pending]
                     ELSE S.tmr[u]]
    BY <1>4
  <2> QED BY <2>1, <2>2
<1>10. ASSUME NEW u \in Slots
       PROVE  R.tmr[u] \in Object /\ R.tmr[u].pending = new(u) /\ SamePart(R.tmr[u], S.tmr[u])
  <2> HIDE DEF new
  <2>1. R.tmr[u] = [S.tmr[u] EXCEPT !.pending = new(u)]
    BY <1>9
  <2>2. S.tmr[u] \in Object /\ new(u) \in 0 .. Period
    BY <1>1, <1>8
  <2> QED BY <2>1, <2>2, PendingSet
<1>11. R.list = rest /\ R = [list |-> R.list, tmr |-> R.tmr]
  BY <1>4
<1>12. ASSUME NEW j \in 1 .. n - 1
       PROVE  Step(R, j) = IF j < i THEN Step(S, j)
                           ELSE IF j = i THEN Step(S, i) + Step(S, i + 1) ELSE Step(S, j + 1)
  <2>1. R.list[j] = (IF j < i THEN S.list[j] ELSE S.list[j + 1]) /\ R.list[j] = rest[j]
    BY <1>5, <1>11
  <2>2. R.list[j] \in Slots
    BY <1>1, <2>1
  <2>3. Step(R, j) = new(R.list[j])
    BY <1>10, <2>2 DEF Step
  <2>4. CASE j = i
    BY <1>1, <1>3, <1>7, <2>1, <2>3, <2>4
  <2>5. CASE j # i
    <3>1. i <= Len(rest) => rest[j] # rest[i]
      <4>1. ASSUME i <= Len(rest)
            PROVE  rest[j] # rest[i]
        <5>1. i \in 1 .. n - 1 /\ i + 1 \in 1 .. n /\ j \in 1 .. n /\ j + 1 \in 1 .. n
          BY <1>1, <1>3, <1>5, <4>1
        <5>2. rest[i] = S.list[i + 1]
          BY <1>5, <5>1
        <5>3. CASE j < i
          BY <1>1, <1>3, <2>1, <5>1, <5>2, <5>3
        <5>4. CASE ~ (j < i)
          BY <1>1, <1>3, <2>1, <2>5, <5>1, <5>2, <5>4
        <5> QED BY <5>3, <5>4
      <4> QED BY <4>1
    <3>2. new(R.list[j]) = S.tmr[R.list[j]].pending
      BY <2>1, <3>1
    <3> QED BY <2>1, <2>3, <2>5, <3>2 DEF Step
  <2> QED BY <2>4, <2>5
<1>13. Sums(R, n - 1, g)
  <2>1. g[0] = 0
    BY <1>1, <1>3, <1>6
  <2>2. ASSUME NEW j \in 1 .. n - 1
        PROVE  g[j] = g[j - 1] + Step(R, j)
    <3>1. /\ g[j] = IF j < i THEN Until(S, j) ELSE Until(S, j + 1)
          /\ g[j - 1] = IF j - 1 < i THEN Until(S, j - 1) ELSE Until(S, j)
      BY <1>1
    <3>2. j \in 1 .. n /\ j + 1 \in 1 .. n
      BY <1>1
    <3> HIDE DEF g, n
    <3>3. CASE j < i
      <4>1. Step(R, j) = Step(S, j) /\ j - 1 < i
        BY <1>1, <1>3, <1>12, <3>3
      <4> QED BY <1>6, <3>1, <3>2, <3>3, <4>1
    <3>4. CASE j = i
      <4>1. j - 1 < i /\ ~ (j < i) /\ i < n
        BY <1>1, <1>3, <3>4
      <4>2. Step(R, j) = Step(S, i) + Step(S, i + 1)
        BY <1>12, <3>4, <4>1
      <4>3. Until(S, i + 1) = Until(S, i - 1) + Step(S, i) + Step(S, i + 1)
        BY <1>7, <4>1
      <4>4. Until(S, i - 1) \in Int /\ Step(S, i) \in Int /\ Step(S, i + 1) \in Int
        <5>1. i - 1 \in 0 .. n
          BY <1>1, <1>3
        <5> QED BY <1>1, <1>3, <1>6, <3>2, <3>4, <5>1
      <4> QED BY <3>1, <3>4, <4>1, <4>2, <4>3, <4>4
    <3>5. CASE i < j
      <4>1. ~ (j < i) /\ ~ (j - 1 < i) /\ j # i
        BY <1>1, <1>3, <3>5
      <4>2. Step(R, j) = Step(S, j + 1)
        BY <1>12, <4>1
      <4>3. Until(S, j + 1) = Until(S, j) + Step(S, j + 1)
        <5>1. j \in Nat
          BY <1>1 DEF n
        <5> QED BY <5>1, UntilSteps
      <4> QED BY <3>1, <4>1, <4>2, <4>3
    <3> QED BY <1>1, <1>3, <3>3, <3>4, <3>5
  <2> HIDE DEF g, n
  <2> QED BY <2>1, <2>2 DEF Sums
<1>14. \A j \in 0 .. n - 1 : Until(R, j) = g[j]
  <2>1. n - 1 \in Nat
    BY <1>1, <1>3
  <2> HIDE DEF g, n
  <2> QED BY <1>13, <2>1, UntilIs
<1>15. DeltaList(R)
  <2>1. Until(R, n - 1) <= Period
    <3>1. n - 1 \in 0 .. n - 1 /\ n - 1 + 1 = n /\ n \in 0 .. n /\ n - 1 \in 0 .. n
      BY <1>1, <1>3
    <3>2. g[n - 1] = IF n - 1 < i THEN Until(S, n - 1) ELSE Until(S, n)
      BY <3>1
    <3>3. Until(R, n - 1) = Until(S, n - 1) \/ Until(R, n - 1) = Until(S, n)
      BY <1>14, <3>1, <3>2
    <3>4. Until(S, n - 1) \in 0 .. Period /\ Until(S, n) \in 0 .. Period
      BY <1>6, <3>1
    <3> QED BY <1>1, <3>3, <3>4
  <2>2. IsInjective(R.list)
    <3>1. DOMAIN R.list = 1 .. n - 1
      BY <1>5, <1>11
    <3>2. ASSUME NEW k \in 1 .. n - 1, NEW j \in 1 .. n - 1, R.list[k] = R.list[j]
          PROVE  k = j
      <4> DEFINE a(x) == IF x < i THEN x ELSE x + 1
      <4>0. n \in Nat /\ i \in 1 .. n
        BY <1>1
      <4>1. ASSUME NEW x \in 1 .. n - 1
            PROVE  a(x) \in 1 .. n /\ R.list[x] = S.list[a(x)]
        <5>1. R.list[x] = S.list[a(x)]
          BY <1>5, <1>11
        <5>2. a(x) \in 1 .. n
          BY <4>0
        <5> QED BY <5>1, <5>2
      <4>2. a(k) = a(j)
        <5> HIDE DEF a
        <5>1. a(k) \in 1 .. n /\ R.list[k] = S.list[a(k)]
          BY <4>1
        <5>2. a(j) \in 1 .. n /\ R.list[j] = S.list[a(j)]
          BY <4>1
        <5> QED BY <1>1, <3>2, <5>1, <5>2
      <4> QED BY <4>0, <4>2
    <3> QED BY <3>1, <3>2 DEF IsInjective
  <2>3. R.tmr \in [Slots -> Object]
    BY <1>9, <1>10
  <2>4. R \in [list : Seq(Slots), tmr : [Slots -> Object]]
    BY <1>5, <1>11, <2>3
  <2>5. Len(R.list) = n - 1
    BY <1>5, <1>11
  <2> QED BY <2>1, <2>2, <2>4, <2>5 DEF DeltaList
<1>16. ASSUME NEW u \in Slots, u = t \/ ~ Contains(S.list, u)
       PROVE  R.tmr[u] = S.tmr[u]
  <2>1. ~ (i <= Len(rest) /\ u = rest[i])
    <3>1. i <= Len(rest) => i + 1 \in 1 .. n /\ i < n
      BY <1>1, <1>3, <1>5
    <3>2. ASSUME i <= Len(rest)
          PROVE  rest[i] = S.list[i + 1] /\ S.list[i + 1] # t
      <4>1. i \in 1 .. n /\ i + 1 \in 1 .. n /\ i # i + 1
        BY <1>1, <3>1, <3>2
      <4>2. S.list[i + 1] # S.list[i]
        BY <1>1, <4>1
      <4> QED BY <1>3, <1>7, <3>1, <3>2, <4>2
    <3> QED BY <1>16, <3>1, <3>2 DEF Contains
  <2> QED BY <1>4, <2>1
<1>17. \A j \in 0 .. n - 1 : Until(R, j) = IF j < i THEN Until(S, j) ELSE Until(S, j + 1)
  BY <1>14
<1>18. \A j \in 1 .. n - 1 : R.list[j] = IF j < i THEN S.list[j] ELSE S.list[j + 1]
  BY <1>5, <1>11
<1>19. Len(R.list) = n - 1
  BY <1>5, <1>11
<1>20. TakenOut(R, S, t, i)
  BY <1>3, <1>10, <1>15, <1>16, <1>17, <1>18, <1>19 DEF TakenOut
<1> QED BY <1>20

\* What UpdateTimerList does: every timer is nearer by the elapsed counts, down to 0.
LEMMA UpdateTimerListIs ==
    ASSUME NEW S, DeltaList(S), NEW e \in Nat,
           NEW R, R = UpdateTimerList(S, e)
    PROVE  /\ DeltaList(R) /\ R.list = S.list
           /\ \A j \in 0 .. Len(S.list) : Until(R, j) = Least0(Until(S, j) - e)
           /\ \A u \in Slots : SamePart(R.tmr[u], S.tmr[u])
           /\ \A u \in Slots : ~ Contains(S.list, u) => R.tmr[u] = S.tmr[u]
<1> DEFINE n == Len(S.list)
           place(u) == CHOOSE k \in DOMAIN S.list : S.list[k] = u
           new(u) == IF Contains(S.list, u)
                     THEN Least0(S.tmr[u].pending - Least0(e - Until(S, place(u) - 1)))
                     ELSE S.tmr[u].pending
           g == [j \in 0 .. n |-> Least0(Until(S, j) - e)]
<1>1. /\ n \in Nat /\ DOMAIN S.list = 1 .. n /\ Period \in Nat
      /\ \A j \in 1 .. n : S.list[j] \in Slots /\ Step(S, j) \in 0 .. Period
      /\ \A j, k \in 1 .. n : S.list[j] = S.list[k] => j = k
      /\ \A u \in Slots : S.tmr[u] \in Object /\ S.tmr[u].pending \in 0 .. Period
      /\ S.list \in Seq(Slots)
  BY Entries DEF DeltaList
<1>2. /\ \A j \in 0 .. n : Until(S, j) \in 0 .. Period
      /\ Until(S, 0) = 0 /\ \A j \in 1 .. n : Until(S, j) = Until(S, j - 1) + Step(S, j)
  <2>1. \A j \in 0 .. n : Until(S, j) \in 0 .. Period
    BY UntilGrows
  <2>2. \A j \in 1 .. n : j \in Nat \ {0}
    BY <1>1
  <2>3. Until(S, 0) = 0 /\ \A j \in 1 .. n : Until(S, j) = Until(S, j - 1) + Step(S, j)
    BY <2>2, UntilSteps
  <2> QED BY <2>1, <2>3
<1>3. ASSUME NEW j \in 1 .. n
      PROVE  /\ new(S.list[j]) = Least0(Step(S, j) - Least0(e - Until(S, j - 1)))
             /\ new(S.list[j]) \in 0 .. Period
             /\ Least0(Until(S, j) - e) = Least0(Until(S, j - 1) - e) + new(S.list[j])
  <2>1. place(S.list[j]) = j
    BY <1>1
  <2>2. Contains(S.list, S.list[j])
    BY DEF Contains
  <2>3. new(S.list[j]) = Least0(Step(S, j) - Least0(e - Until(S, j - 1)))
    <3> HIDE DEF place
    <3> QED BY <2>1, <2>2 DEF Step
  <2>4. j - 1 \in 0 .. n
    BY <1>1
  <2>5. /\ Step(S, j) \in 0 .. Period /\ Until(S, j - 1) \in 0 .. Period
        /\ Until(S, j) = Until(S, j - 1) + Step(S, j)
    BY <1>1, <1>2, <2>4
  <2> HIDE DEF new
  <2> QED BY <1>1, <2>3, <2>5 DEF Least0
<1>4. R = [S EXCEPT !.tmr = [u \in Slots |->
              IF Contains(S.list, u)
              THEN [S.tmr[u] EXCEPT !.pending =
                       Least0(@ - Least0(e - Until(S, place(u) - 1)))]
              ELSE S.tmr[u]]]
  BY DEF UpdateTimerList
<1>5. /\ R.list = S.list
      /\ R = [list |-> R.list, tmr |-> R.tmr]
      /\ R.tmr = [u \in Slots |-> IF Contains(S.list, u)
                                  THEN [S.tmr[u] EXCEPT !.pending = new(u)]
                                  ELSE S.tmr[u]]
  <2> HIDE DEF place
  <2>1. S = [list |-> S.list, tmr |-> S.tmr]
    BY DEF DeltaList
  <2> QED BY <1>4, <2>1
<1>6. ASSUME NEW u \in Slots
      PROVE  new(u) \in 0 .. Period
  <2>1. CASE Contains(S.list, u)
    <3>1. PICK j \in 1 .. n : S.list[j] = u
      BY <2>1 DEF Contains
    <3> HIDE DEF new
    <3> QED BY <1>3, <3>1
  <2>2. CASE ~ Contains(S.list, u)
    BY <1>1, <2>2
  <2> QED BY <2>1, <2>2
<1>7. ASSUME NEW u \in Slots
      PROVE  R.tmr[u] = [S.tmr[u] EXCEPT !.pending = new(u)]
  <2>1. S.tmr[u] = [S.tmr[u] EXCEPT !.pending = S.tmr[u].pending]
    BY <1>1 DEF Object
  <2>2. ~ Contains(S.list, u) => new(u) = S.tmr[u].pending
    OBVIOUS
  <2> HIDE DEF new
  <2> QED BY <1>5, <2>1, <2>2
<1> HIDE DEF new
<1>8. ASSUME NEW u \in Slots
      PROVE  R.tmr[u] \in Object /\ R.tmr[u].pending = new(u) /\ SamePart(R.tmr[u], S.tmr[u])
  <2>1. S.tmr[u] \in Object /\ new(u) \in 0 .. Period
    BY <1>1, <1>6
  <2> QED BY <1>7, <2>1, PendingSet
<1>9. \A j \in 1 .. n : Step(R, j) = new(S.list[j])
  BY <1>1, <1>5, <1>8 DEF Step
<1>10. Sums(R, n, g)
  <2>1. g[0] = 0
    BY <1>1, <1>2 DEF Least0
  <2>2. ASSUME NEW j \in 1 .. n
        PROVE  g[j] = g[j - 1] + Step(R, j)
    <3>1. g[j] = Least0(Until(S, j) - e) /\ g[j - 1] = Least0(Until(S, j - 1) - e)
      BY <1>1
    <3> QED BY <1>3, <1>9, <3>1
  <2> HIDE DEF g, n
  <2> QED BY <2>1, <2>2 DEF Sums
<1>11. \A j \in 0 .. n : Until(R, j) = g[j]
  <2> HIDE DEF g, n
  <2> QED BY <1>1, <1>10, UntilIs
<1>12. \A j \in 0 .. n : Until(R, j) = Least0(Until(S, j) - e)
  BY <1>11
<1>13. DeltaList(R)
  <2>1. Until(R, n) <= Period
    <3>1. n \in 0 .. n
      BY <1>1
    <3>2. Until(R, n) = Least0(Until(S, n) - e) /\ Until(S, n) \in 0 .. Period
      BY <1>2, <1>12, <3>1
    <3> QED BY <1>1, <3>2 DEF Least0
  <2>2. R.tmr \in [Slots -> Object]
    BY <1>5, <1>8
  <2>3. R \in [list : Seq(Slots), tmr : [Slots -> Object]]
    BY <1>1, <1>5, <2>2
  <2>4. IsInjective(R.list)
    BY <1>5 DEF DeltaList
  <2> QED BY <1>5, <2>1, <2>3, <2>4 DEF DeltaList
<1>14. \A u \in Slots : ~ Contains(S.list, u) => R.tmr[u] = S.tmr[u]
  BY <1>5
<1> QED BY <1>5, <1>8, <1>12, <1>13, <1>14

-----------------------------------------------------------------------------
(* Lists and deadlines. due says how many counts each timer has left, and e  *)
(* counts have passed since the list was updated.                            *)

\* A timer's deadline is the time until its place. Only a timer at time 0 may be
\* overdue by more than that.
OnTime(S, D, e) ==
    \A i \in 1 .. Len(S.list) :
        /\ D[S.list[i]] <= Until(S, i) - e
        /\ Until(S, i) > 0 => D[S.list[i]] = Until(S, i) - e

InOrder(S, D) ==
    \A i, j \in 1 .. Len(S.list) : i <= j => D[S.list[i]] <= D[S.list[j]]

TimedList(S, D, e) ==
    /\ DeltaList(S) /\ D \in [Slots -> Int] /\ e \in Nat
    /\ OnTime(S, D, e) /\ InOrder(S, D)

\* No timer of the list is at its time.
NoneExpired(S) == \A i \in 1 .. Len(S.list) : Until(S, i) > 0

\* Adding a timer whose deadline is its pending time keeps every deadline and the order.
LEMMA AddTimed ==
    ASSUME NEW S, NEW D, NEW e, TimedList(S, D, e),
           NEW t \in Slots, ~ Contains(S.list, t), D[t] = S.tmr[t].pending - e,
           NEW A, A = AddToList(S, t)
    PROVE  /\ TimedList(A, D, e)
           /\ \A u \in Slots : Contains(A.list, u) <=> u = t \/ Contains(S.list, u)
           /\ \A u \in Slots : SamePart(A.tmr[u], S.tmr[u])
           /\ \A u \in Slots : u # t /\ ~ Contains(S.list, u) => A.tmr[u] = S.tmr[u]
           /\ A.list # <<>>
           /\ Head(A.list) = t => A.tmr[t].pending = S.tmr[t].pending
           /\ NoneExpired(S) /\ S.tmr[t].pending > 0 => NoneExpired(A)
<1> DEFINE n == Len(S.list)
           p == S.tmr[t].pending
<1>1. DeltaList(S) /\ D \in [Slots -> Int] /\ e \in Nat
  BY DEF TimedList
<1>2. PICK k : k = Place(S, t)
  OBVIOUS
<1>3. /\ DeltaList(A)
      /\ k \in 0 .. n /\ Len(A.list) = n + 1
      /\ \A j \in 1 .. n + 1 :
            A.list[j] = IF j < k + 1 THEN S.list[j] ELSE IF j = k + 1 THEN t ELSE S.list[j - 1]
      /\ \A j \in 0 .. n + 1 :
            Until(A, j) = IF j <= k THEN Until(S, j) ELSE IF j = k + 1 THEN p ELSE Until(S, j - 1)
      /\ \A u \in Slots : SamePart(A.tmr[u], S.tmr[u])
      /\ \A u \in Slots : u # t /\ ~ Contains(S.list, u) => A.tmr[u] = S.tmr[u]
  BY <1>1, <1>2, AddToListIs, SMTT(20)
<1>4. \A i \in 0 .. n : Until(S, i) <= p <=> i <= k
  BY <1>1, <1>2, PlaceIs
<1>5. /\ n \in Nat /\ p \in Nat /\ \A i \in 1 .. n : S.list[i] \in Slots
      /\ \A j \in 0 .. n : Until(S, j) \in Nat
      /\ A.list \in Seq(Slots)
  <2>1. n \in Nat /\ Period \in Nat /\ p \in 0 .. Period /\ \A i \in 1 .. n : S.list[i] \in Slots
    BY <1>1, Entries
  <2>2. \A j \in 0 .. n : Until(S, j) \in 0 .. Period
    BY <1>1, UntilGrows
  <2> QED BY <1>3, <2>1, <2>2 DEF DeltaList
<1>6. k + 1 \in 1 .. n + 1 /\ A.list[k + 1] = t /\ Until(A, k + 1) = p
  BY <1>3, <1>5
\* Where each timer of the new list comes from.
<1>7. ASSUME NEW j \in 1 .. n + 1
      PROVE  \/ /\ j < k + 1 /\ j \in 1 .. n /\ A.list[j] = S.list[j]
                /\ Until(A, j) = Until(S, j) /\ Until(S, j) <= p
             \/ j = k + 1 /\ A.list[j] = t /\ Until(A, j) = p
             \/ /\ j > k + 1 /\ j - 1 \in 1 .. n /\ A.list[j] = S.list[j - 1]
                /\ Until(A, j) = Until(S, j - 1) /\ Until(S, j - 1) > p
  <2>1. CASE j < k + 1
    <3>1. j \in 1 .. n /\ j \in 0 .. n /\ j <= k /\ j \in 0 .. n + 1
      BY <1>3, <1>5, <2>1
    <3> QED BY <1>3, <1>4, <2>1, <3>1
  <2>2. CASE j = k + 1
    BY <1>6, <2>2
  <2>3. CASE j > k + 1
    <3>1. /\ j - 1 \in 1 .. n /\ j - 1 \in 0 .. n /\ j \in 0 .. n + 1
          /\ ~ (j - 1 <= k) /\ ~ (j <= k) /\ j # k + 1 /\ ~ (j < k + 1)
      BY <1>3, <1>5, <2>3
    <3>2. Until(S, j - 1) > p
      BY <1>4, <1>5, <3>1
    <3> QED BY <1>3, <2>3, <3>1, <3>2
  <2> QED BY <1>3, <1>5, <2>1, <2>2, <2>3
<1> HIDE DEF n, p
<1>8. /\ \A i \in 1 .. n : /\ D[S.list[i]] <= Until(S, i) - e
                           /\ Until(S, i) > 0 => D[S.list[i]] = Until(S, i) - e
      /\ \A i, j \in 1 .. n : i <= j => D[S.list[i]] <= D[S.list[j]]
      /\ D[t] = p - e /\ \A i \in 1 .. n : D[S.list[i]] \in Int /\ Until(S, i) \in Nat
  <2>1. \A i \in 1 .. n : i \in 0 .. n
    BY <1>5
  <2> QED BY <1>1, <1>5, <2>1 DEF TimedList, OnTime, InOrder, n, p
<1>9. OnTime(A, D, e)
  <2> SUFFICES ASSUME NEW j \in 1 .. n + 1
               PROVE  /\ D[A.list[j]] <= Until(A, j) - e
                      /\ Until(A, j) > 0 => D[A.list[j]] = Until(A, j) - e
    BY <1>3 DEF OnTime
  <2>1. CASE j = k + 1
    BY <1>1, <1>5, <1>6, <1>8, <2>1
  <2>2. CASE j # k + 1
    BY <1>7, <1>8, <2>2
  <2> QED BY <2>1, <2>2
<1>10. InOrder(A, D)
  <2> SUFFICES ASSUME NEW i \in 1 .. n + 1, NEW j \in 1 .. n + 1, i <= j
               PROVE  D[A.list[i]] <= D[A.list[j]]
    BY <1>3 DEF InOrder
  <2>1. CASE i = k + 1 /\ j = k + 1
    BY <1>1, <1>5, <1>6, <1>8, <2>1
  <2>2. CASE i < k + 1 /\ j = k + 1
    <3>1. i \in 1 .. n /\ A.list[i] = S.list[i] /\ Until(S, i) <= p
      BY <1>3, <1>5, <1>7, <2>2
    <3>2. D[S.list[i]] <= Until(S, i) - e /\ D[S.list[i]] \in Int /\ Until(S, i) \in Nat
      BY <1>8, <3>1
    <3>3. D[A.list[j]] = p - e /\ p \in Nat /\ e \in Nat
      BY <1>1, <1>5, <1>6, <1>8, <2>2
    <3> QED BY <3>1, <3>2, <3>3
  <2>3. CASE i = k + 1 /\ j > k + 1
    <3>1. j - 1 \in 1 .. n /\ A.list[j] = S.list[j - 1] /\ Until(S, j - 1) > p
      BY <1>3, <1>5, <1>7, <2>3
    <3>2. /\ Until(S, j - 1) \in Nat /\ D[S.list[j - 1]] \in Int
          /\ Until(S, j - 1) > 0 => D[S.list[j - 1]] = Until(S, j - 1) - e
      BY <1>8, <3>1
    <3>3. D[A.list[i]] = p - e /\ p \in Nat /\ e \in Nat
      BY <1>1, <1>5, <1>6, <1>8, <2>3
    <3>4. D[A.list[j]] = Until(S, j - 1) - e /\ Until(S, j - 1) \in Nat
      BY <1>5, <3>1, <3>2
    <3> QED BY <3>1, <3>3, <3>4
  <2>4. CASE i # k + 1 /\ j # k + 1
    <3> DEFINE a(x) == IF x < k + 1 THEN x ELSE x - 1
    <3>0. n \in Nat /\ k \in 0 .. n
      BY <1>3, <1>5
    <3>1. A.list[i] = S.list[a(i)] /\ a(i) \in 1 .. n
      BY <1>7, <2>4, <3>0
    <3>2. A.list[j] = S.list[a(j)] /\ a(j) \in 1 .. n
      BY <1>7, <2>4, <3>0
    <3>3. a(i) <= a(j)
      BY <2>4, <3>0
    <3> HIDE DEF a
    <3> QED BY <1>8, <3>1, <3>2, <3>3
  <2> QED BY <1>3, <1>5, <2>1, <2>2, <2>3, <2>4
<1>11. TimedList(A, D, e)
  BY <1>1, <1>3, <1>9, <1>10 DEF TimedList
<1>12. ASSUME NEW u \in Slots
       PROVE  Contains(A.list, u) <=> u = t \/ Contains(S.list, u)
  <2>1. ASSUME Contains(A.list, u)
        PROVE  u = t \/ Contains(S.list, u)
    <3>1. PICK j \in 1 .. n + 1 : A.list[j] = u
      BY <1>3, <2>1 DEF Contains
    <3> QED BY <1>7, <3>1 DEF Contains, n
  <2>2. ASSUME Contains(S.list, u)
        PROVE  Contains(A.list, u)
    <3>1. PICK j \in 1 .. n : S.list[j] = u
      BY <2>2 DEF Contains, n
    <3>2. CASE j < k + 1
      <4>1. j \in 1 .. n + 1 /\ A.list[j] = S.list[j]
        BY <1>3, <1>5, <3>2
      <4> QED BY <1>3, <3>1, <4>1 DEF Contains
    <3>3. CASE ~ (j < k + 1)
      <4>1. j + 1 \in 1 .. n + 1 /\ ~ (j + 1 < k + 1) /\ j + 1 # k + 1 /\ j + 1 - 1 = j
        BY <1>3, <1>5, <3>3
      <4>2. A.list[j + 1] = S.list[j]
        BY <1>3, <4>1
      <4> QED BY <1>3, <3>1, <4>1, <4>2 DEF Contains
    <3> QED BY <3>2, <3>3
  <2>3. Contains(A.list, t)
    BY <1>3, <1>6 DEF Contains
  <2> QED BY <2>1, <2>2, <2>3
<1>13. A.list # <<>> /\ Len(A.list) > 0
  BY <1>3, <1>5
<1>14. ASSUME Head(A.list) = t
       PROVE  A.tmr[t].pending = p
  <2>1. A.list[1] = t
    BY <1>5, <1>13, <1>14
  <2>2. 1 \in 1 .. n + 1 /\ \A i, j \in 1 .. n + 1 : A.list[i] = A.list[j] => i = j
    <3>1. \A i, j \in 1 .. Len(A.list) : A.list[i] = A.list[j] => i = j
      BY <1>3, Entries
    <3> QED BY <1>3, <1>5, <3>1
  <2>3. k + 1 = 1
    BY <1>6, <2>1, <2>2
  <2>4. Until(A, 1) = Until(A, 0) + Step(A, 1) /\ Until(A, 0) = 0
    <3>1. 0 \in Nat /\ 0 + 1 = 1
      OBVIOUS
    <3> QED BY <3>1, UntilSteps
  <2>5. Step(A, 1) = A.tmr[t].pending
    BY <2>1 DEF Step
  <2>6. A.tmr[t].pending \in Int
    BY <1>3, Entries
  <2> QED BY <1>6, <2>3, <2>4, <2>5, <2>6
<1>15. ASSUME NoneExpired(S), p > 0
       PROVE  NoneExpired(A)
  BY <1>3, <1>7, <1>15 DEF NoneExpired, n
<1> QED BY <1>3, <1>11, <1>12, <1>13, <1>14, <1>15 DEF p

\* R with the deadlines C has the list of S with D, and what it says of each timer in it.
SameDue(R, C, S, D) ==
    /\ R \in [list : Seq(Slots), tmr : [Slots -> Object]]
    /\ R.list = S.list
    /\ C \in [Slots -> Int]
    /\ \A u \in Slots : Contains(S.list, u) => R.tmr[u].pending = S.tmr[u].pending
    /\ \A u \in Slots : Contains(S.list, u) => C[u] = D[u]

\* What is changed of a timer outside the list, and of its deadline, does not matter.
LEMMA SameTimed ==
    ASSUME NEW S, NEW D, NEW e, TimedList(S, D, e), NEW R, NEW C, SameDue(R, C, S, D)
    PROVE  TimedList(R, C, e) /\ (NoneExpired(S) => NoneExpired(R))
<1> DEFINE n == Len(S.list)
           g == [j \in 0 .. n |-> Until(S, j)]
<1>1. /\ DeltaList(S) /\ n \in Nat
      /\ \A j \in 1 .. n : S.list[j] \in Slots /\ Contains(S.list, S.list[j])
  BY Entries DEF TimedList, Contains
<1> USE DEF SameDue
<1>2. \A j \in 1 .. n : Step(R, j) = Step(S, j)
  BY <1>1 DEF Step
<1>3. Sums(R, n, g)
  <2>1. g[0] = 0
    BY <1>1, UntilSteps
  <2>2. ASSUME NEW j \in 1 .. n
        PROVE  g[j] = g[j - 1] + Step(R, j)
    <3>1. j \in Nat \ {0} /\ j \in 0 .. n /\ j - 1 \in 0 .. n
      BY <1>1
    <3>2. Until(S, j) = Until(S, j - 1) + Step(S, j)
      BY <3>1, UntilSteps
    <3> QED BY <1>2, <3>1, <3>2
  <2> HIDE DEF g, n
  <2> QED BY <2>1, <2>2 DEF Sums
<1>4. \A j \in 0 .. n : Until(R, j) = g[j]
  <2> HIDE DEF g, n
  <2> QED BY <1>1, <1>3, UntilIs
<1>5. \A j \in 0 .. n : Until(R, j) = Until(S, j)
  BY <1>4
<1>6. DeltaList(R)
  <2>1. n \in 0 .. n
    BY <1>1
  <2> QED BY <1>1, <1>5, <2>1 DEF DeltaList
<1>7. \A j \in 1 .. n : Until(R, j) = Until(S, j) /\ C[R.list[j]] = D[S.list[j]]
  <2>1. \A j \in 1 .. n : j \in 0 .. n
    BY <1>1
  <2> QED BY <1>1, <1>5, <2>1
<1>8. OnTime(R, C, e) /\ InOrder(R, C)
  BY <1>7 DEF TimedList, OnTime, InOrder
<1>9. NoneExpired(S) => NoneExpired(R)
  BY <1>7 DEF NoneExpired
<1> QED BY <1>6, <1>8, <1>9 DEF TimedList

\* Taking a timer out of the list, if it is in it, keeps the others' deadlines.
LEMMA RemoveTimed ==
    ASSUME NEW S, NEW D, NEW e, TimedList(S, D, e),
           NEW t \in Slots, NEW R, R = RemoveFromList(S, t)
    PROVE  /\ TimedList(R, D, e)
           /\ \A u \in Slots : Contains(R.list, u) <=> u # t /\ Contains(S.list, u)
           /\ \A u \in Slots : SamePart(R.tmr[u], S.tmr[u])
           /\ \A u \in Slots : u = t \/ ~ Contains(S.list, u) => R.tmr[u] = S.tmr[u]
           /\ NoneExpired(S) => NoneExpired(R)
<1>1. DeltaList(S) /\ D \in [Slots -> Int] /\ e \in Nat
  BY DEF TimedList
<1>2. CASE ~ Contains(S.list, t)
  <2>1. R = S
    BY <1>2 DEF RemoveFromList
  <2>2. \A u \in Slots : SamePart(S.tmr[u], S.tmr[u])
    BY <1>1, Entries DEF SamePart, Object
  <2> QED BY <1>2, <2>1, <2>2
<1>3. CASE Contains(S.list, t)
  <2> DEFINE n == Len(S.list)
  <2>1. PICK i \in 1 .. n : TakenOut(R, S, t, i)
    BY <1>1, <1>3, RemoveFromListIs
  <2>2. /\ S.list[i] = t
        /\ DeltaList(R) /\ Len(R.list) = n - 1
        /\ \A j \in 1 .. n - 1 :
              R.list[j] = IF j < i THEN S.list[j] ELSE S.list[j + 1]
        /\ \A j \in 0 .. n - 1 :
              Until(R, j) = IF j < i THEN Until(S, j) ELSE Until(S, j + 1)
        /\ \A u \in Slots : SamePart(R.tmr[u], S.tmr[u])
        /\ \A u \in Slots : u = t \/ ~ Contains(S.list, u) => R.tmr[u] = S.tmr[u]
    BY <2>1 DEF TakenOut
  <2> DEFINE a(x) == IF x < i THEN x ELSE x + 1
  <2>3. n \in Nat /\ \A j, k \in 1 .. n : S.list[j] = S.list[k] => j = k
    BY <1>1, Entries
  <2>4. ASSUME NEW j \in 1 .. n - 1
        PROVE  a(j) \in 1 .. n /\ a(j) # i /\ R.list[j] = S.list[a(j)] /\ Until(R, j) = Until(S, a(j))
    <3>1. j \in 0 .. n - 1
      BY <2>3
    <3>2. CASE j < i
      BY <2>2, <2>3, <3>1, <3>2
    <3>3. CASE ~ (j < i)
      BY <2>2, <2>3, <3>1, <3>3
    <3> QED BY <3>2, <3>3
  <2>5. \A j, k \in 1 .. n - 1 : j <= k => a(j) <= a(k)
    BY <2>2, <2>3
  <2>6. OnTime(R, D, e) /\ (NoneExpired(S) => NoneExpired(R))
    <3> HIDE DEF a, n
    <3>1. /\ \A j \in 1 .. n : /\ D[S.list[j]] <= Until(S, j) - e
                               /\ Until(S, j) > 0 => D[S.list[j]] = Until(S, j) - e
          /\ NoneExpired(S) => \A j \in 1 .. n : Until(S, j) > 0
      BY DEF TimedList, OnTime, NoneExpired, n
    <3>2. ASSUME NEW j \in 1 .. n - 1
          PROVE  /\ D[R.list[j]] <= Until(R, j) - e
                 /\ Until(R, j) > 0 => D[R.list[j]] = Until(R, j) - e
                 /\ NoneExpired(S) => Until(R, j) > 0
      BY <2>4, <3>1
    <3> QED BY <2>2, <3>2 DEF OnTime, NoneExpired
  <2>7. InOrder(R, D)
    <3> HIDE DEF a
    <3>1. \A j, k \in 1 .. n : j <= k => D[S.list[j]] <= D[S.list[k]]
      BY DEF TimedList, InOrder
    <3> HIDE DEF n
    <3>2. ASSUME NEW j \in 1 .. n - 1, NEW k \in 1 .. n - 1, j <= k
          PROVE  D[R.list[j]] <= D[R.list[k]]
      <4>1. a(j) \in 1 .. n /\ R.list[j] = S.list[a(j)]
        BY <2>4
      <4>2. a(k) \in 1 .. n /\ R.list[k] = S.list[a(k)]
        BY <2>4
      <4>3. a(j) <= a(k)
        BY <2>5, <3>2
      <4> QED BY <3>1, <4>1, <4>2, <4>3
    <3> QED BY <2>2, <3>2 DEF InOrder
  <2>8. ASSUME NEW u \in Slots
        PROVE  Contains(R.list, u) <=> u # t /\ Contains(S.list, u)
    <3>1. ASSUME Contains(R.list, u)
          PROVE  u # t /\ Contains(S.list, u)
      <4>1. PICK j \in 1 .. n - 1 : R.list[j] = u
        BY <2>2, <3>1 DEF Contains
      <4> HIDE DEF a
      <4>2. a(j) \in 1 .. n /\ a(j) # i /\ S.list[a(j)] = u
        BY <2>4, <4>1
      <4> QED BY <2>2, <2>3, <4>2 DEF Contains
    <3>2. ASSUME u # t, Contains(S.list, u)
          PROVE  Contains(R.list, u)
      <4>1. PICK j \in 1 .. n : S.list[j] = u
        BY <3>2 DEF Contains
      <4>2. j # i
        BY <2>2, <3>2, <4>1
      <4>3. CASE j < i
        <5>1. j \in 1 .. n - 1 /\ R.list[j] = u
          BY <2>2, <2>3, <4>1, <4>3
        <5> QED BY <2>2, <5>1 DEF Contains
      <4>4. CASE i < j
        <5>1. j - 1 \in 1 .. n - 1 /\ ~ (j - 1 < i) /\ j - 1 + 1 = j
          BY <2>2, <2>3, <4>4
        <5>2. R.list[j - 1] = u
          BY <2>2, <4>1, <5>1
        <5> QED BY <2>2, <5>1, <5>2 DEF Contains
      <4> QED BY <2>2, <4>2, <4>3, <4>4
    <3> QED BY <3>1, <3>2
  <2> QED BY <1>1, <2>2, <2>6, <2>7, <2>8 DEF TimedList
<1> QED BY <1>2, <1>3

\* Bringing the list up to date keeps its deadlines, now counted from this moment.
LEMMA UpdateTimed ==
    ASSUME NEW S, NEW D, NEW e, TimedList(S, D, e),
           NEW R, R = UpdateTimerList(S, e)
    PROVE  /\ TimedList(R, D, 0) /\ R.list = S.list
           /\ \A u \in Slots : SamePart(R.tmr[u], S.tmr[u])
           /\ \A u \in Slots : ~ Contains(S.list, u) => R.tmr[u] = S.tmr[u]
<1> DEFINE n == Len(S.list)
<1>1. DeltaList(S) /\ D \in [Slots -> Int] /\ e \in Nat
  BY DEF TimedList
<1>2. /\ DeltaList(R) /\ R.list = S.list
      /\ \A j \in 0 .. n : Until(R, j) = Least0(Until(S, j) - e)
      /\ \A u \in Slots : SamePart(R.tmr[u], S.tmr[u])
      /\ \A u \in Slots : ~ Contains(S.list, u) => R.tmr[u] = S.tmr[u]
  BY <1>1, UpdateTimerListIs
<1>3. OnTime(R, D, 0)
  <2> SUFFICES ASSUME NEW j \in 1 .. n
               PROVE  /\ D[S.list[j]] <= Until(R, j) - 0
                      /\ Until(R, j) > 0 => D[S.list[j]] = Until(R, j) - 0
    BY <1>2 DEF OnTime
  <2>1. j \in 0 .. n /\ S.list[j] \in Slots /\ Period \in Nat
    BY <1>1, Entries
  <2>2. Until(S, j) \in 0 .. Period
    BY <1>1, <2>1, UntilGrows
  <2>3. Until(R, j) = Least0(Until(S, j) - e)
    BY <1>2, <2>1
  <2>4. /\ D[S.list[j]] <= Until(S, j) - e
        /\ Until(S, j) > 0 => D[S.list[j]] = Until(S, j) - e
    BY DEF TimedList, OnTime
  <2>5. D[S.list[j]] \in Int
    BY <1>1, <2>1
  <2> QED BY <1>1, <2>1, <2>2, <2>3, <2>4, <2>5 DEF Least0
<1>4. InOrder(R, D)
  BY <1>2 DEF TimedList, InOrder
<1> QED BY <1>1, <1>2, <1>3, <1>4 DEF TimedList

\* A count passes.
LEMMA CountTimed ==
    ASSUME NEW S, NEW D, NEW e, TimedList(S, D, e), NEW C \in [Slots -> Int],
           \A u \in Slots : Contains(S.list, u) => C[u] = D[u] - 1
    PROVE  TimedList(S, C, e + 1)
<1>1. DeltaList(S) /\ D \in [Slots -> Int] /\ e \in Nat /\ Period \in Nat
  BY Entries DEF TimedList
<1>2. ASSUME NEW j \in 1 .. Len(S.list)
      PROVE  /\ D[S.list[j]] \in Int /\ C[S.list[j]] = D[S.list[j]] - 1
             /\ Until(S, j) \in 0 .. Period
  <2>1. S.list[j] \in Slots /\ j \in 0 .. Len(S.list) /\ Contains(S.list, S.list[j])
    BY <1>1, Entries DEF Contains
  <2>2. Until(S, j) \in 0 .. Period
    BY <1>1, <2>1, UntilGrows
  <2> QED BY <1>1, <2>1, <2>2
<1>3. OnTime(S, C, e + 1)
  <2> SUFFICES ASSUME NEW j \in 1 .. Len(S.list)
               PROVE  /\ C[S.list[j]] <= Until(S, j) - (e + 1)
                      /\ Until(S, j) > 0 => C[S.list[j]] = Until(S, j) - (e + 1)
    BY DEF OnTime
  <2>1. /\ D[S.list[j]] <= Until(S, j) - e
        /\ Until(S, j) > 0 => D[S.list[j]] = Until(S, j) - e
    BY DEF TimedList, OnTime
  <2> QED BY <1>1, <1>2, <2>1
<1>4. InOrder(S, C)
  <2> SUFFICES ASSUME NEW i \in 1 .. Len(S.list), NEW j \in 1 .. Len(S.list), i <= j
               PROVE  C[S.list[i]] <= C[S.list[j]]
    BY DEF InOrder
  <2>1. D[S.list[i]] <= D[S.list[j]]
    BY DEF TimedList, InOrder
  <2>2. C[S.list[i]] = D[S.list[i]] - 1 /\ C[S.list[j]] = D[S.list[j]] - 1
    BY <1>2
  <2>3. D[S.list[i]] \in Int /\ D[S.list[j]] \in Int
    BY <1>2
  <2> QED BY <2>1, <2>2, <2>3
<1> QED BY <1>1, <1>3, <1>4 DEF TimedList

-----------------------------------------------------------------------------
(* The counter and the compare register                                      *)

\* What the assumptions say of the derived constants.
LEMMA Constants ==
    /\ TurnCounts \in Nat /\ TurnCounts >= 3 /\ Period \in Nat /\ TurnCounts = Period + 1
    /\ ExecTicks \in Nat /\ Latency \in Nat /\ Margin \in Nat /\ Margin = ExecTicks + 2
    /\ HalfPeriod \in Nat /\ 2 * HalfPeriod <= Period /\ Latency + Margin <= HalfPeriod
  BY SysTimeAssumption, LatencyAssumption DEF Period, HalfPeriod, Margin

\* A remainder without division, for a number less than two divisors and one more
\* than minus the divisor.
LEMMA Remainder ==
    ASSUME NEW d \in Nat \ {0}, NEW n \in -d .. 2 * d - 1
    PROVE  n % d = IF n < 0 THEN n + d ELSE IF n < d THEN n ELSE n - d
<1>1. CASE n < 0
  <2>1. n + d \in 0 .. d - 1 /\ n = d * (-1) + (n + d)
    BY <1>1
  <2> QED BY <1>1, <2>1
<1>2. CASE n \in 0 .. d - 1
  BY <1>2
<1>3. CASE n \in d .. 2 * d - 1
  <2>1. n - d \in 0 .. d - 1 /\ n = d * 1 + (n - d)
    BY <1>3
  <2> QED BY <1>3, <2>1
<1> QED BY <1>1, <1>2, <1>3

\* Counts since the list was updated, and counts until the counter reads c.
Elapsed == GetElapsedCount(Counter)
Away(c) == IF c > Counter THEN c - Counter ELSE c - Counter + TurnCounts

Clocks ==
    /\ clock \in 0 .. 2 * TurnCounts - 1 /\ previous \in 0 .. Period

\* The counter and the elapsed counts without division.
CounterFacts ==
    /\ Counter \in 0 .. Period
    /\ Counter = IF clock < TurnCounts THEN clock ELSE clock - TurnCounts
    /\ Elapsed \in 0 .. Period
    /\ Elapsed = IF Counter >= previous THEN Counter - previous
                 ELSE Counter - previous + TurnCounts

\* The counter is the clock less whole turns, and what has elapsed is its distance from
\* the last update.
LEMMA CounterIs == Clocks => CounterFacts
<1> SUFFICES ASSUME Clocks
             PROVE  CounterFacts
  OBVIOUS
<1>1. clock \in -TurnCounts .. 2 * TurnCounts - 1 /\ TurnCounts \in Nat \ {0}
  BY Constants DEF Clocks
<1>2. Counter = IF clock < 0 THEN clock + TurnCounts
                ELSE IF clock < TurnCounts THEN clock ELSE clock - TurnCounts
  BY <1>1, Remainder DEF Counter
<1>3. /\ Counter \in 0 .. Period
      /\ Counter = IF clock < TurnCounts THEN clock ELSE clock - TurnCounts
  BY <1>1, <1>2, Constants DEF Clocks
<1> DEFINE now == Counter
<1>4. now \in 0 .. Period /\ Elapsed = GetElapsedCount(now)
  BY <1>3 DEF Elapsed
<1> HIDE DEF now
<1>5. now <= previous =>
        /\ Period - previous + now + 1 \in 0 .. TurnCounts
        /\ Period - previous + now + 1 = now - previous + TurnCounts
  BY <1>4, Constants DEF Clocks
<1>6. now <= previous =>
        (Period - previous + now + 1) % TurnCounts
          = IF now = previous THEN 0 ELSE now - previous + TurnCounts
  <2> DEFINE x == Period - previous + now + 1
  <2>1. now <= previous => x \in -TurnCounts .. 2 * TurnCounts - 1 /\ TurnCounts \in Nat \ {0}
    BY <1>5, Constants
  <2>2. now <= previous => x % TurnCounts = IF x < 0 THEN x + TurnCounts
                                    ELSE IF x < TurnCounts THEN x ELSE x - TurnCounts
    <3> HIDE DEF x
    <3> QED BY <2>1, Remainder
  <2> QED BY <1>5, <2>2, <1>4, Constants DEF Clocks
<1>7. /\ Elapsed \in 0 .. Period
      /\ Elapsed = IF now >= previous THEN now - previous ELSE now - previous + TurnCounts
  BY <1>4, <1>5, <1>6, Constants DEF Clocks, GetElapsedCount
<1> QED BY <1>3, <1>7 DEF now, CounterFacts

\* One count takes everything one count on, unless the counter has done a whole turn
\* since the update.
LEMMA CountIs ==
    ASSUME Clocks, previous' = previous, clock' = (clock + 1) % (2 * TurnCounts)
    PROVE  /\ Clocks'
           /\ clock' = IF clock + 1 < 2 * TurnCounts THEN clock + 1 ELSE 0
           /\ Counter' = IF Counter = Period THEN 0 ELSE Counter + 1
           /\ Elapsed < Period => Elapsed' = Elapsed + 1
           /\ \A c \in 0 .. Period : /\ Away(c) \in 1 .. TurnCounts
                                     /\ Away(c) = 1 => Counter' = c
                                     /\ Away(c) # 1 => Counter' # c /\ Away(c)' = Away(c) - 1
<1>1. clock' = IF clock + 1 < 2 * TurnCounts THEN clock + 1 ELSE 0
  <2> DEFINE d == 2 * TurnCounts
             n == clock + 1
  <2>1. n \in -d .. 2 * d - 1 /\ d \in Nat \ {0} /\ n \in 0 .. d
    BY Constants DEF Clocks
  <2>2. n % d = IF n < 0 THEN n + d ELSE IF n < d THEN n ELSE n - d
    <3> HIDE DEF d, n
    <3> QED BY <2>1, Remainder
  <2> QED BY <2>1, <2>2
<1>2. Clocks'
  BY <1>1, Constants DEF Clocks
<1>3. CounterFacts
  BY CounterIs
<1>4. CounterFacts'
  <2>1. (Clocks => CounterFacts)'
    BY CounterIs, PTL
  <2> QED BY <1>2, <2>1
<1>5. Counter' = IF Counter = Period THEN 0 ELSE Counter + 1
  BY <1>1, <1>3, <1>4, Constants DEF Clocks, CounterFacts
<1>6. Elapsed < Period => Elapsed' = Elapsed + 1
  BY <1>3, <1>4, <1>5, Constants DEF Clocks, CounterFacts
<1>7. ASSUME NEW c \in 0 .. Period
      PROVE  /\ Away(c) \in 1 .. TurnCounts
             /\ Away(c) = 1 => Counter' = c
             /\ Away(c) # 1 => Counter' # c /\ Away(c)' = Away(c) - 1
  <2>1. Away(c)' = IF c > Counter' THEN c - Counter' ELSE c - Counter' + TurnCounts
    BY DEF Away
  <2>2. Away(c) = IF c > Counter THEN c - Counter ELSE c - Counter + TurnCounts
    BY DEF Away
  <2>3. /\ Counter \in 0 .. Period /\ Counter' \in 0 .. Period
        /\ TurnCounts = Period + 1 /\ Period \in Nat
    BY <1>3, <1>4, Constants DEF CounterFacts
  <2> QED BY <1>5, <2>1, <2>2, <2>3
<1> QED BY <1>1, <1>2, <1>5, <1>6, <1>7

\* The value that HwTimerCompareUpdate writes within a section or a handler: the
\* counter is short of it, meets it within half a turn of the update, and is at most
\* the margin behind the head's time.
LEMMA CompareIs ==
    ASSUME Clocks, stall \in 0 .. Latency, Elapsed = stall,
           NEW S, DeltaList(S), NEW now \in ReadBefore,
           NEW c, c = HwTimerCompareUpdate(S, previous, now)
    PROVE  /\ c \in 1 .. Period
           /\ Elapsed + Away(c) <= HalfPeriod + 1
           /\ S.list # <<>> => \/ Away(c) <= Margin + 1
                               \/ Away(c) <= S.tmr[Head(S.list)].pending - Elapsed + 1
<1> DEFINE time == IF S.list = <<>> THEN HalfPeriod ELSE S.tmr[Head(S.list)].pending
           next == previous + (IF time > HalfPeriod THEN HalfPeriod ELSE time)
           reads == IF now < previous THEN Period + now ELSE now
           value == IF next < reads + Margin THEN reads + Margin ELSE next
<1>1. /\ CounterFacts /\ clock \in 0 .. 2 * TurnCounts - 1 /\ previous \in 0 .. Period
  BY CounterIs DEF Clocks
<1>2. time \in 0 .. Period
  <2>1. CASE S.list = <<>>
    BY <2>1, Constants
  <2>2. CASE S.list # <<>>
    <3>1. S.list \in Seq(Slots) /\ Head(S.list) = S.list[1] /\ 1 \in 1 .. Len(S.list)
      BY <2>2 DEF DeltaList
    <3>2. Head(S.list) \in Slots
      BY <3>1, Entries
    <3> QED BY <2>2, <3>2, Entries
  <2> QED BY <2>1, <2>2
<1>3. PICK x \in 0 .. (IF stall < ExecTicks THEN stall ELSE ExecTicks) :
          now = (clock - x) % TurnCounts
  BY DEF ReadBefore
<1>4. x \in Nat /\ x <= stall /\ x <= ExecTicks
  BY <1>3, Constants
<1>5. now = IF clock - x < 0 THEN clock - x + TurnCounts
            ELSE IF clock - x < TurnCounts THEN clock - x ELSE clock - x - TurnCounts
  <2> DEFINE n == clock - x
  <2>1. n \in -TurnCounts .. 2 * TurnCounts - 1 /\ TurnCounts \in Nat \ {0}
    BY <1>1, <1>4, Constants
  <2> HIDE DEF n
  <2>2. n % TurnCounts = IF n < 0 THEN n + TurnCounts ELSE IF n < TurnCounts THEN n ELSE n - TurnCounts
    BY <2>1, Remainder
  <2> QED BY <1>3, <2>2 DEF n
<1>6. c = NotZero(value)
  BY DEF HwTimerCompareUpdate, NextExpiry, Turned
<1>7. /\ now \in 0 .. Period
      /\ now = IF previous + (stall - x) < TurnCounts THEN previous + (stall - x)
               ELSE previous + (stall - x) - TurnCounts
  BY <1>1, <1>4, <1>5, Constants DEF CounterFacts
\* The value counts from previous; m of it are the read's.
<1>8. PICK m \in Nat : /\ reads = previous + m
                       /\ m <= stall /\ m >= stall - x - 1
  <2>1. CASE now < previous
    <3>1. reads = previous + (stall - x - 1) /\ stall - x - 1 \in Nat
      BY <1>1, <1>4, <1>7, <2>1, Constants
    <3> QED BY <1>4, <3>1
  <2>2. CASE ~ (now < previous)
    <3>1. reads = previous + (stall - x) /\ stall - x \in Nat
      BY <1>1, <1>4, <1>7, <2>2, Constants
    <3> QED BY <1>4, <3>1
  <2> QED BY <2>1, <2>2
<1> HIDE DEF time, reads
<1>9. PICK q \in Nat : /\ value = previous + q
                       /\ q > stall /\ q <= HalfPeriod
                       /\ q <= stall + Margin \/ q <= time
  <2> DEFINE h == IF time > HalfPeriod THEN HalfPeriod ELSE time
             q == IF h < m + Margin THEN m + Margin ELSE h
  <2>1. h \in Nat /\ h <= HalfPeriod /\ h <= time
    BY <1>2, Constants
  <2>2. next = previous + h
    OBVIOUS
  <2> HIDE DEF h, next
  <2>3. value = previous + q
    BY <1>1, <1>8, <2>1, <2>2, Constants
  <2> HIDE DEF value
  <2>4. q \in Nat /\ q > stall /\ q <= HalfPeriod /\ (q <= stall + Margin \/ q <= time)
    BY <1>2, <1>4, <1>8, <2>1, Constants
  <2> QED BY <2>3, <2>4
<1> HIDE DEF value
<1>10. /\ value \in 0 .. 2 * TurnCounts - 1
       /\ value % TurnCounts = IF value < TurnCounts THEN value ELSE value - TurnCounts
  <2>1. /\ value \in -TurnCounts .. 2 * TurnCounts - 1 /\ value \in 0 .. 2 * TurnCounts - 1
        /\ TurnCounts \in Nat \ {0}
    BY <1>1, <1>9, Constants
  <2>2. value % TurnCounts = IF value < 0 THEN value + TurnCounts
                             ELSE IF value < TurnCounts THEN value ELSE value - TurnCounts
    BY <2>1, Remainder
  <2> QED BY <2>1, <2>2
<1>11. c \in 1 .. Period /\ (Away(c) = q - stall \/ Away(c) = q - stall + 1)
  <2>1. c = IF value < TurnCounts THEN (IF value = 0 THEN 1 ELSE value)
            ELSE IF value = TurnCounts THEN 1 ELSE value - TurnCounts
    BY <1>6, <1>10, Constants DEF NotZero
  <2>2. Away(c) = IF c > Counter THEN c - Counter ELSE c - Counter + TurnCounts
    BY DEF Away
  <2>3. /\ Counter \in 0 .. Period
        /\ stall = IF Counter >= previous THEN Counter - previous
                   ELSE Counter - previous + TurnCounts
    BY <1>1 DEF CounterFacts
  <2>4. c \in 1 .. Period
    BY <1>10, <2>1, Constants
  <2> QED BY <1>1, <1>9, <2>1, <2>2, <2>3, <2>4, Constants
<1>12. Elapsed + Away(c) <= HalfPeriod + 1
  BY <1>9, <1>11, Constants
<1>13. Away(c) <= Margin + 1 \/ Away(c) <= time - Elapsed + 1
  BY <1>2, <1>9, <1>11, Constants
<1> QED BY <1>11, <1>12, <1>13 DEF time

-----------------------------------------------------------------------------
(* The inductive invariant                                                   *)

\* The software count, the elapsed counts and the lag of a TimerAdd make up the true
\* time: nothing is lost and nothing is counted twice.
CountsAddUp ==
    swCounter + lag + Elapsed \in {clock, clock + 2 * TurnCounts}

\* The list is brought up to date well before the counter has done a turn: the compare
\* register is met within half a turn of the update, and the interrupt follows.
UpdatedInTime ==
    /\ at # "TimerAdd" => lag = 0
    /\ at # "Tasks" => Elapsed = stall
    /\ at = "Tasks" /\ irq => Elapsed <= HalfPeriod + 1 + stall
    /\ at \in {"Tasks", "TimerAdd"} /\ ~irq => Elapsed + Away(compare) <= HalfPeriod + 1

\* What the flags and times of a timer's object say of each other. Inside the handler
\* an expired periodic timer waits for its whole period.
ObjectAgrees(r, left, e, inHandler) ==
    /\ ~ r.inUse => r = Unused
    /\ r.inUse => r.requested \in Times
    /\ r.flag => ~ r.active
    /\ ~ r.active => r.pending \in {0, r.requested}
    /\ r.elapsed => inHandler /\ r.inUse /\ (r.active <=> r.type = "PERIODIC")
    /\ r.elapsed /\ r.active => left = r.requested - e

InHandler == at \in {"Notify", "Callback"}

\* What TimerService sees of a running timer.
Seen(t) == [type |-> timers[t].type, period |-> timers[t].requested]

ObjectsAgree == \A t \in Slots : ObjectAgrees(timers[t], due[t], Elapsed, InHandler)

\* The timer that a TimerAdd is about to put into the list.
AddUnderWay ==
    at = "TimerAdd" =>
        /\ timers[who].inUse /\ timers[who].pending \in Times
        /\ due[who] = timers[who].pending - Elapsed

\* The service takes on the deadlines of the timers in the list, less what is left
\* until the next interrupt, what it may be late and what the handlers take.
NoneTooLate ==
    /\ at \in {"Tasks", "TimerAdd"} /\ ~irq =>
          \A u \in Slots : Contains(active, u) => due[u] >= Away(compare) - Margin - Latency
    /\ at = "TimerAdd" /\ irq =>
          \A u \in Slots : Contains(active, u) => due[u] >= -Margin - Latency - stall
    /\ at = "Tasks" /\ irq =>
          \A u \in Slots : Contains(active, u) => due[u] >= -Margin - 2 * Latency - stall
    /\ InHandler =>
          \A u \in Slots : timers[u].active => due[u] >= -Margin - 3 * Latency - stall

TimersInv ==
    /\ TypeOK
    /\ TimedList(Store, due, Elapsed)
    /\ CountsAddUp /\ UpdatedInTime
    /\ ObjectsAgree /\ ListHoldsRunning /\ AddUnderWay
    /\ NoneTooLate

-----------------------------------------------------------------------------
(* UpdateTime's loop over the timer objects                                  *)

\* What the loop does with timer t, when P is what it has made of S so far.
AfterTurn(S, P, t) ==
    LET R == [P EXCEPT !.tmr[t].elapsed = FALSE]
    IN  IF S.tmr[t].elapsed /\ R.tmr[t].type = "PERIODIC"
        THEN AddToList([R EXCEPT !.tmr[t].pending = R.tmr[t].requested], t)
        ELSE R

\* f has what the loop has made of S after each of its first k turns.
Turns(S, k, f) == f = [t \in -1 .. k - 1 |-> IF t = -1 THEN S ELSE AfterTurn(S, f[t - 1], t)]

\* The loop's function exists.
LEMMA TurnsExist ==
    ASSUME NEW S, NEW k \in Nat
    PROVE  \E f : Turns(S, k, f)
<1> USE DEF Turns
<1> DEFINE T == {i \in Nat : \E f : Turns(S, i, f)}
<1>1. 0 \in T
  <2> DEFINE z == [t \in -1 .. 0 - 1 |-> S]
  <2>1. z = [t \in -1 .. 0 - 1 |-> IF t = -1 THEN S ELSE AfterTurn(S, z[t - 1], t)]
    OBVIOUS
  <2> QED BY <2>1
<1>2. ASSUME NEW i \in 0 .. k - 1, i \in T
      PROVE  i + 1 \in T
  <2>1. PICK f : f = [t \in -1 .. i - 1 |-> IF t = -1 THEN S ELSE AfterTurn(S, f[t - 1], t)]
    BY <1>2
  <2> DEFINE r == [t \in -1 .. i |-> IF t <= i - 1 THEN f[t] ELSE AfterTurn(S, f[i - 1], i)]
  <2>2. ASSUME NEW t \in -1 .. i
        PROVE  r[t] = IF t = -1 THEN S ELSE AfterTurn(S, r[t - 1], t)
    <3>1. CASE t <= i - 1
      <4>1. f[t] = IF t = -1 THEN S ELSE AfterTurn(S, f[t - 1], t)
        BY <2>1, <3>1
      <4> QED BY <3>1, <4>1
    <3>2. CASE t = i
      BY <3>2
    <3> QED BY <3>1, <3>2
  <2>3. r = [t \in -1 .. i |-> r[t]]
    OBVIOUS
  <2> HIDE DEF r
  <2>4. r = [t \in -1 .. i |-> IF t = -1 THEN S ELSE AfterTurn(S, r[t - 1], t)]
    BY <2>2, <2>3
  <2>5. i + 1 - 1 = i /\ i + 1 \in Nat
    OBVIOUS
  <2> QED BY <2>4, <2>5
<1> HIDE DEF T
<1>3. k \in T
  BY <1>1, <1>2, Induction
<1> QED BY <1>3 DEF T

\* What the loop has made of the timers, one step after the other.
LEMMA ReaddIs ==
    ASSUME NEW S
    PROVE  \E f : /\ f[-1] = S /\ Readd(S) = f[MaxTimers - 1]
                  /\ \A t \in Slots : f[t] = AfterTurn(S, f[t - 1], t)
<1> DEFINE upto == CHOOSE f : Turns(S, MaxTimers, f)
<1>1. Readd(S) = upto[MaxTimers - 1]
  BY DEF Readd, AfterTurn, Turns
<1>2. upto = [t \in -1 .. MaxTimers - 1 |-> IF t = -1 THEN S ELSE AfterTurn(S, upto[t - 1], t)]
  <2>1. MaxTimers \in Nat
    BY SysTimeAssumption
  <2>2. \E f : Turns(S, MaxTimers, f)
    BY <2>1, TurnsExist
  <2>3. Turns(S, MaxTimers, upto)
    BY <2>2, Zenon
  <2> QED BY <2>3 DEF Turns
<1> HIDE DEF upto
<1>3. upto[-1] = S /\ \A t \in Slots : upto[t] = AfterTurn(S, upto[t - 1], t)
  <2>1. MaxTimers \in Nat /\ \A t \in Slots : t \in -1 .. MaxTimers - 1 /\ t # -1
    BY SysTimeAssumption DEF Slots
  <2>2. -1 \in -1 .. MaxTimers - 1
    BY <2>1
  <2> QED BY <1>2, <2>1, <2>2, Zenon
<1> QED BY <1>1, <1>3

\* A timer that expired and that waits to be put back.
Waits(S, u) == S.tmr[u].elapsed /\ S.tmr[u].type = "PERIODIC"

\* A store with another object.
LEMMA ObjectSet ==
    ASSUME NEW S \in [list : Seq(Slots), tmr : [Slots -> Object]],
           NEW t \in Slots, NEW x \in Object, NEW Q, Q = [S EXCEPT !.tmr[t] = x]
    PROVE  /\ Q \in [list : Seq(Slots), tmr : [Slots -> Object]]
           /\ Q.list = S.list /\ Q.tmr[t] = x
           /\ \A u \in Slots : u # t => Q.tmr[u] = S.tmr[u]
OBVIOUS

\* The fields that neither the list nor the loop changes.
SameFields(r, q) ==
    /\ r.inUse = q.inUse /\ r.active = q.active /\ r.type = q.type
    /\ r.requested = q.requested /\ r.flag = q.flag

\* A changed pending time leaves every other field alone.
LEMMA PartFields ==
    ASSUME NEW q \in Object, NEW r, SamePart(r, q)
    PROVE  SameFields(r, q) /\ r.elapsed = q.elapsed
BY DEF SamePart, SameFields, Object

\* What the loop has made of S after the timers below i.
LoopInv(S, D, e, i, P) ==
    /\ TimedList(P, D, e) /\ NoneExpired(P)
    /\ \A u \in Slots :
          /\ Contains(P.list, u) <=> Contains(S.list, u) \/ (u < i /\ Waits(S, u))
          /\ SameFields(P.tmr[u], S.tmr[u])
          /\ P.tmr[u].elapsed = (u >= i /\ S.tmr[u].elapsed)
          /\ ~ Contains(P.list, u) => P.tmr[u].pending = S.tmr[u].pending

\* One turn of the loop.
LEMMA LoopStep ==
    ASSUME NEW S, NEW D, NEW e, DeltaList(S),
           \A u \in Slots : Waits(S, u) => /\ ~ Contains(S.list, u)
                                           /\ S.tmr[u].requested > 0
                                           /\ D[u] = S.tmr[u].requested - e,
           NEW t \in Slots, NEW P, LoopInv(S, D, e, t, P)
    PROVE  LoopInv(S, D, e, t + 1, AfterTurn(S, P, t))
<1> DEFINE R == [P EXCEPT !.tmr[t].elapsed = FALSE]
           Q == [R EXCEPT !.tmr[t].pending = R.tmr[t].requested]
<1>1. /\ TimedList(P, D, e) /\ NoneExpired(P) /\ D \in [Slots -> Int]
      /\ P \in [list : Seq(Slots), tmr : [Slots -> Object]]
      /\ \A u \in Slots : P.tmr[u] \in Object /\ S.tmr[u] \in Object
  BY Entries DEF LoopInv, TimedList, DeltaList
<1>2. ASSUME NEW u \in Slots
      PROVE  /\ Contains(P.list, u) <=> Contains(S.list, u) \/ (u < t /\ Waits(S, u))
             /\ SameFields(P.tmr[u], S.tmr[u])
             /\ P.tmr[u].elapsed = (u >= t /\ S.tmr[u].elapsed)
             /\ ~ Contains(P.list, u) => P.tmr[u].pending = S.tmr[u].pending
  BY DEF LoopInv
<1>3. /\ R \in [list : Seq(Slots), tmr : [Slots -> Object]] /\ R.list = P.list
      /\ \A u \in Slots : u # t => R.tmr[u] = P.tmr[u]
      /\ R.tmr[t] = [P.tmr[t] EXCEPT !.elapsed = FALSE]
  <2> DEFINE x == [P.tmr[t] EXCEPT !.elapsed = FALSE]
  <2>1. P.tmr[t] \in Object
    BY <1>1
  <2>2. x \in Object
    BY <2>1 DEF Object
  <2>3. R = [P EXCEPT !.tmr[t] = x]
    BY <1>1
  <2> HIDE DEF x, R
  <2> QED BY <1>1, <2>2, <2>3, ObjectSet DEF x
<1> HIDE DEF R
<1>4. ASSUME NEW u \in Slots
      PROVE  /\ R.tmr[u].pending = P.tmr[u].pending
             /\ SameFields(R.tmr[u], S.tmr[u])
             /\ R.tmr[u].elapsed = (u >= t + 1 /\ S.tmr[u].elapsed)
  <2>1. u \in Int /\ t \in Int
    BY SysTimeAssumption DEF Slots
  <2>2. CASE u = t
    <3>1. P.tmr[t] \in Object /\ ~ (t >= t + 1)
      BY <1>1, <2>1
    <3>2. /\ R.tmr[t].pending = P.tmr[t].pending /\ SameFields(R.tmr[t], P.tmr[t])
          /\ R.tmr[t].elapsed = FALSE
      BY <1>3, <3>1 DEF SameFields, Object
    <3>3. SameFields(R.tmr[t], S.tmr[t])
      BY <1>2, <3>2 DEF SameFields
    <3> QED BY <2>2, <3>1, <3>2, <3>3
  <2>3. CASE u # t
    <3>1. u >= t + 1 <=> u >= t
      BY <2>1, <2>3
    <3> QED BY <1>2, <1>3, <2>3, <3>1
  <2> QED BY <2>2, <2>3
<1>5. ASSUME NEW u \in Slots
      PROVE  /\ Contains(S.list, u) \/ (u < t + 1 /\ Waits(S, u))
                  <=> Contains(P.list, u) \/ (u = t /\ Waits(S, t))
             /\ ~ (t < t)
  <2>1. u \in Int /\ t \in Int
    BY SysTimeAssumption DEF Slots
  <2>2. u < t + 1 <=> u < t \/ u = t
    BY <2>1
  <2> QED BY <1>2, <2>1, <2>2
<1>6. TimedList(R, D, e) /\ NoneExpired(R)
  BY <1>1, <1>3, <1>4, SameTimed DEF SameDue
<1>7. Waits(S, t) <=> S.tmr[t].elapsed /\ R.tmr[t].type = "PERIODIC"
  BY <1>4 DEF Waits, SameFields
<1>8. CASE ~ Waits(S, t)
  <2>1. AfterTurn(S, P, t) = R
    BY <1>7, <1>8 DEF AfterTurn, R
  <2>2. ASSUME NEW u \in Slots
        PROVE  /\ Contains(R.list, u) <=> Contains(S.list, u) \/ (u < t + 1 /\ Waits(S, u))
               /\ ~ Contains(R.list, u) => R.tmr[u].pending = S.tmr[u].pending
    BY <1>2, <1>3, <1>4, <1>5, <1>8
  <2> QED BY <1>4, <1>6, <2>1, <2>2 DEF LoopInv
<1>9. CASE Waits(S, t)
  <2>1. AfterTurn(S, P, t) = AddToList(Q, t)
    BY <1>7, <1>9 DEF AfterTurn, R
  <2>2. R.tmr[t].requested = S.tmr[t].requested /\ R.tmr[t].requested \in 0 .. Period
    BY <1>1, <1>3, <1>4 DEF SameFields, Object
  <2>3. /\ Q \in [list : Seq(Slots), tmr : [Slots -> Object]] /\ Q.list = R.list
        /\ \A u \in Slots : u # t => Q.tmr[u] = R.tmr[u]
        /\ Q.tmr[t] = [R.tmr[t] EXCEPT !.pending = R.tmr[t].requested]
    <3>1. [R.tmr[t] EXCEPT !.pending = R.tmr[t].requested] \in Object
      <4>1. R.tmr[t] \in Object
        BY <1>3
      <4> QED BY <2>2, <4>1 DEF Object
    <3> QED BY <1>3, <3>1, ObjectSet
  <2> HIDE DEF Q
  <2>4. /\ Q.tmr[t].pending = S.tmr[t].requested
        /\ \A u \in Slots : SameFields(Q.tmr[u], S.tmr[u])
                            /\ Q.tmr[u].elapsed = (u >= t + 1 /\ S.tmr[u].elapsed)
    <3>1. /\ Q.tmr[t].pending = R.tmr[t].requested /\ SameFields(Q.tmr[t], R.tmr[t])
          /\ Q.tmr[t].elapsed = R.tmr[t].elapsed
      <4>1. R.tmr[t] \in Object
        BY <1>3
      <4> QED BY <2>3, <4>1 DEF Object, SameFields
    <3>2. SameFields(Q.tmr[t], S.tmr[t]) /\ Q.tmr[t].elapsed = (t >= t + 1 /\ S.tmr[t].elapsed)
      BY <1>4, <3>1 DEF SameFields
    <3> QED BY <1>4, <2>2, <2>3, <3>1, <3>2
  <2>5. ~ Contains(Q.list, t) /\ D[t] = Q.tmr[t].pending - e /\ Q.tmr[t].pending > 0
    BY <1>2, <1>3, <1>5, <1>9, <2>3, <2>4
  <2>6. TimedList(Q, D, e) /\ NoneExpired(Q)
    <3>1. \A u \in Slots : Contains(R.list, u) => Q.tmr[u].pending = R.tmr[u].pending
      BY <2>3, <2>5
    <3> QED BY <1>1, <1>6, <2>3, <3>1, SameTimed DEF SameDue
  <2> DEFINE A == AddToList(Q, t)
  <2>7. /\ TimedList(A, D, e)
        /\ \A u \in Slots : Contains(A.list, u) <=> u = t \/ Contains(Q.list, u)
        /\ \A u \in Slots : SamePart(A.tmr[u], Q.tmr[u])
        /\ \A u \in Slots : u # t /\ ~ Contains(Q.list, u) => A.tmr[u] = Q.tmr[u]
        /\ NoneExpired(A)
    BY <2>5, <2>6, AddTimed
  <2> HIDE DEF A
  <2>8. ASSUME NEW u \in Slots
        PROVE  /\ Contains(A.list, u) <=> Contains(S.list, u) \/ (u < t + 1 /\ Waits(S, u))
               /\ SameFields(A.tmr[u], S.tmr[u])
               /\ A.tmr[u].elapsed = (u >= t + 1 /\ S.tmr[u].elapsed)
               /\ ~ Contains(A.list, u) => A.tmr[u].pending = S.tmr[u].pending
    <3>1. SameFields(A.tmr[u], Q.tmr[u]) /\ A.tmr[u].elapsed = Q.tmr[u].elapsed
      <4>1. Q.tmr[u] \in Object /\ SamePart(A.tmr[u], Q.tmr[u])
        BY <2>3, <2>7
      <4> QED BY <4>1, PartFields
    <3>2. SameFields(A.tmr[u], S.tmr[u]) /\ A.tmr[u].elapsed = (u >= t + 1 /\ S.tmr[u].elapsed)
      BY <2>4, <3>1 DEF SameFields
    <3>3. Contains(A.list, u) <=> Contains(S.list, u) \/ (u < t + 1 /\ Waits(S, u))
      BY <1>3, <1>5, <1>9, <2>3, <2>7
    <3>4. ~ Contains(A.list, u) => A.tmr[u].pending = S.tmr[u].pending
      BY <1>2, <1>3, <1>4, <2>3, <2>7
    <3> QED BY <3>2, <3>3, <3>4
  <2> QED BY <2>1, <2>7, <2>8 DEF A, LoopInv
<1> QED BY <1>8, <1>9

\* The loop puts back the periodic timers that expired, with their whole period, and
\* changes nothing else.
LEMMA ReaddTimed ==
    ASSUME NEW S, NEW D, NEW e, TimedList(S, D, e), NoneExpired(S),
           \A u \in Slots : Waits(S, u) => /\ ~ Contains(S.list, u)
                                           /\ S.tmr[u].requested > 0
                                           /\ D[u] = S.tmr[u].requested - e
    PROVE  LoopInv(S, D, e, MaxTimers, Readd(S))
<1>1. PICK f : /\ f[-1] = S /\ Readd(S) = f[MaxTimers - 1]
               /\ \A t \in Slots : f[t] = AfterTurn(S, f[t - 1], t)
  BY ReaddIs
<1> DEFINE T == {i \in 0 .. MaxTimers : LoopInv(S, D, e, i, f[i - 1])}
<1>2. MaxTimers \in Nat
  BY SysTimeAssumption
<1>3. 0 \in T
  <2>1. ASSUME NEW u \in Slots
        PROVE  /\ ~ (u < 0) /\ u >= 0
               /\ SameFields(S.tmr[u], S.tmr[u]) /\ S.tmr[u].elapsed \in BOOLEAN
    <3>1. S.tmr[u] \in Object
      BY Entries DEF TimedList
    <3> QED BY <1>2, <3>1 DEF Slots, Object, SameFields
  <2>2. LoopInv(S, D, e, 0, S)
    BY <2>1 DEF LoopInv
  <2>3. 0 - 1 = -1 /\ 0 \in 0 .. MaxTimers
    BY <1>2
  <2> QED BY <1>1, <2>2, <2>3
<1>4. ASSUME NEW i \in 0 .. MaxTimers - 1, i \in T
      PROVE  i + 1 \in T
  <2>1. i \in Slots /\ i + 1 \in 0 .. MaxTimers /\ i + 1 - 1 = i
    BY <1>2 DEF Slots
  <2>2. LoopInv(S, D, e, i, f[i - 1])
    BY <1>4
  <2>3. LoopInv(S, D, e, i + 1, AfterTurn(S, f[i - 1], i))
    <3>1. DeltaList(S)
      BY DEF TimedList
    <3> QED BY <2>1, <2>2, <3>1, LoopStep
  <2> QED BY <1>1, <2>1, <2>3
<1>5. MaxTimers \in T
  <2> HIDE DEF T
  <2> QED BY <1>2, <1>3, <1>4, Induction
<1> QED BY <1>1, <1>5

-----------------------------------------------------------------------------
(* One timer's object is changed                                             *)

\* Timer u is in Q what it is in S; its place in the list may be another.
Alike(Q, S, u) ==
    /\ Contains(Q.list, u) <=> Contains(S.list, u)
    /\ SameFields(Q.tmr[u], S.tmr[u]) /\ Q.tmr[u].elapsed = S.tmr[u].elapsed
    /\ ~ Contains(S.list, u) => Q.tmr[u].pending = S.tmr[u].pending

\* Timer t is out of the list and its object is x.
Changed(S, t, x) == [RemoveFromList(S, t) EXCEPT !.tmr[t] = x]

\* The others' deadlines, order and objects are what they were.
LEMMA ChangedTimed ==
    ASSUME NEW S, NEW D, NEW e, TimedList(S, D, e),
           NEW t \in Slots, NEW x \in Object, NEW C \in [Slots -> Int],
           \A u \in Slots : u # t => C[u] = D[u],
           NEW Q, Q = Changed(S, t, x)
    PROVE  /\ TimedList(Q, C, e) /\ (NoneExpired(S) => NoneExpired(Q))
           /\ Q \in [list : Seq(Slots), tmr : [Slots -> Object]]
           /\ ~ Contains(Q.list, t) /\ Q.tmr[t] = x
           /\ \A u \in Slots : u # t => Alike(Q, S, u)
<1> DEFINE R == RemoveFromList(S, t)
<1>1. /\ TimedList(R, D, e) /\ (NoneExpired(S) => NoneExpired(R))
      /\ \A u \in Slots : Contains(R.list, u) <=> u # t /\ Contains(S.list, u)
      /\ \A u \in Slots : SamePart(R.tmr[u], S.tmr[u])
      /\ \A u \in Slots : u = t \/ ~ Contains(S.list, u) => R.tmr[u] = S.tmr[u]
  BY RemoveTimed
<1>2. Q = [R EXCEPT !.tmr[t] = x]
  BY DEF Changed
<1> HIDE DEF R
<1>3. R \in [list : Seq(Slots), tmr : [Slots -> Object]]
  BY <1>1 DEF TimedList, DeltaList
<1>4. /\ Q \in [list : Seq(Slots), tmr : [Slots -> Object]]
      /\ Q.list = R.list /\ Q.tmr[t] = x
      /\ \A u \in Slots : u # t => Q.tmr[u] = R.tmr[u]
  <2>1. R.list \in Seq(Slots) /\ R.tmr \in [Slots -> Object]
    BY <1>3
  <2>2. Q = [list |-> R.list, tmr |-> [R.tmr EXCEPT ![t] = x]]
    BY <1>2, <1>3
  <2> QED BY <2>1, <2>2
<1>5. TimedList(Q, C, e) /\ (NoneExpired(S) => NoneExpired(Q))
  <2>1. ASSUME NEW u \in Slots, Contains(R.list, u)
        PROVE  Q.tmr[u].pending = R.tmr[u].pending /\ C[u] = D[u]
    <3>1. u # t
      BY <1>1, <2>1
    <3> QED BY <1>4, <3>1
  <2>2. /\ TimedList(R, D, e) /\ Q.list = R.list
        /\ Q \in [list : Seq(Slots), tmr : [Slots -> Object]]
    BY <1>1, <1>4
  <2>3. \A u \in Slots : Contains(R.list, u) => Q.tmr[u].pending = R.tmr[u].pending
    BY <2>1
  <2>4. \A u \in Slots : Contains(R.list, u) => C[u] = D[u]
    BY <2>1
  <2>5. SameDue(Q, C, R, D)
    BY <2>2, <2>3, <2>4 DEF SameDue
  <2>6. TimedList(Q, C, e) /\ (NoneExpired(R) => NoneExpired(Q))
    BY <2>2, <2>5, SameTimed
  <2> QED BY <1>1, <2>6
<1>6. ASSUME NEW u \in Slots, u # t
      PROVE  Alike(Q, S, u)
  <2>1. SameFields(R.tmr[u], S.tmr[u]) /\ R.tmr[u].elapsed = S.tmr[u].elapsed
    <3>1. S.tmr[u] \in Object /\ SamePart(R.tmr[u], S.tmr[u])
      BY <1>1, Entries DEF TimedList
    <3> QED BY <3>1, PartFields
  <2> QED BY <1>1, <1>4, <1>6, <2>1 DEF Alike
<1> QED BY <1>1, <1>4, <1>5, <1>6

\* A timer that is in no list is taken out of none.
LEMMA ChangedOutside ==
    ASSUME NEW S \in [list : Seq(Slots), tmr : [Slots -> Object]],
           NEW t, ~ Contains(S.list, t), NEW x
    PROVE  Changed(S, t, x) = [S EXCEPT !.tmr[t] = x]
BY DEF Changed, RemoveFromList

\* Bringing the list up to date leaves each timer what it is.
LEMMA UpdateAlike ==
    ASSUME NEW S, NEW D, NEW e, TimedList(S, D, e),
           NEW R, R = UpdateTimerList(S, e)
    PROVE  TimedList(R, D, 0) /\ \A u \in Slots : Alike(R, S, u)
<1>1. /\ TimedList(R, D, 0) /\ R.list = S.list
      /\ \A u \in Slots : SamePart(R.tmr[u], S.tmr[u])
      /\ \A u \in Slots : ~ Contains(S.list, u) => R.tmr[u] = S.tmr[u]
  BY UpdateTimed
<1>2. ASSUME NEW u \in Slots
      PROVE  SameFields(R.tmr[u], S.tmr[u]) /\ R.tmr[u].elapsed = S.tmr[u].elapsed
  <2>1. S.tmr[u] \in Object /\ SamePart(R.tmr[u], S.tmr[u])
    BY <1>1, Entries DEF TimedList
  <2> QED BY <2>1, PartFields
<1> QED BY <1>1, <1>2 DEF Alike

\* The fields make the object.
LEMMA SameObject ==
    ASSUME NEW r \in Object, NEW q \in Object, SameFields(r, q), r.elapsed = q.elapsed,
           r.pending = q.pending
    PROVE  r = q
BY DEF Object, SameFields

\* What is left of an object's agreement when only the time of a timer in the list
\* is another.
LEMMA AgreesStill ==
    ASSUME NEW r \in Object, NEW q \in Object, SameFields(r, q), r.elapsed = q.elapsed,
           r.pending = q.pending \/ (q.inUse /\ q.active),
           NEW left, NEW e, NEW h, ObjectAgrees(q, left, e, h)
    PROVE  ObjectAgrees(r, left, e, h)
<1>1. ~ r.inUse => r = Unused
  <2> SUFFICES ASSUME ~ r.inUse
               PROVE  r = Unused
    OBVIOUS
  <2>1. r = q
    <3>1. r.inUse = q.inUse
      BY DEF SameFields
    <3> QED BY <3>1, SameObject
  <2>2. q = Unused
    BY <2>1 DEF ObjectAgrees
  <2> QED BY <2>1, <2>2
<1> QED BY <1>1 DEF ObjectAgrees, SameFields

\* Q is S with timer t put into the list, which is A's, and running.
NowRuns(Q, A, S, t) ==
    /\ Contains(Q.list, t) /\ \A u \in Slots : u # t => Alike(Q, S, u)
    /\ Q.tmr[t].inUse = S.tmr[t].inUse /\ Q.tmr[t].type = S.tmr[t].type
    /\ Q.tmr[t].requested = S.tmr[t].requested
    /\ Q.tmr[t].active = TRUE /\ Q.tmr[t].flag = FALSE /\ Q.tmr[t].elapsed = FALSE
    /\ Q.list = A.list /\ A.list # <<>>
    /\ Head(A.list) = t => A.tmr[t].pending = S.tmr[t].pending

\* A timer that is added runs, and every other one is what it was.
LEMMA ActivatedTimed ==
    ASSUME NEW S, NEW D, NEW e, TimedList(S, D, e),
           NEW t \in Slots, ~ Contains(S.list, t), D[t] = S.tmr[t].pending - e,
           NEW A, A = AddToList(S, t), NEW Q, Q = Activated(A, t)
    PROVE  TimedList(Q, D, e) /\ TimedList(A, D, e) /\ NowRuns(Q, A, S, t)
<1>1. /\ TimedList(A, D, e)
      /\ \A u \in Slots : Contains(A.list, u) <=> u = t \/ Contains(S.list, u)
      /\ \A u \in Slots : SamePart(A.tmr[u], S.tmr[u])
      /\ \A u \in Slots : u # t /\ ~ Contains(S.list, u) => A.tmr[u] = S.tmr[u]
      /\ A.list # <<>>
      /\ Head(A.list) = t => A.tmr[t].pending = S.tmr[t].pending
  BY AddTimed
<1>2. /\ A \in [list : Seq(Slots), tmr : [Slots -> Object]]
      /\ \A u \in Slots : A.tmr[u] \in Object /\ S.tmr[u] \in Object
      /\ D \in [Slots -> Int]
  BY <1>1, Entries DEF TimedList, DeltaList
<1> DEFINE x == [A.tmr[t] EXCEPT !.active = TRUE, !.flag = FALSE, !.elapsed = FALSE]
<1>3. /\ x \in Object /\ x.pending = A.tmr[t].pending /\ x.inUse = A.tmr[t].inUse
      /\ x.type = A.tmr[t].type /\ x.requested = A.tmr[t].requested
      /\ x.active = TRUE /\ x.flag = FALSE /\ x.elapsed = FALSE
  <2>1. A.tmr[t] \in Object
    BY <1>2
  <2> QED BY <2>1 DEF Object
<1>4. Q = [A EXCEPT !.tmr[t] = x]
  BY DEF Activated
<1> HIDE DEF x
<1>5. /\ Q \in [list : Seq(Slots), tmr : [Slots -> Object]]
      /\ Q.list = A.list /\ Q.tmr[t] = x
      /\ \A u \in Slots : u # t => Q.tmr[u] = A.tmr[u]
  <2>1. A \in [list : Seq(Slots), tmr : [Slots -> Object]] /\ x \in Object
    BY <1>2, <1>3
  <2> HIDE DEF x
  <2> QED BY <1>4, <2>1
<1>6. TimedList(Q, D, e)
  <2>1. \A u \in Slots : Contains(A.list, u) => Q.tmr[u].pending = A.tmr[u].pending
    BY <1>3, <1>5
  <2>2. /\ TimedList(A, D, e) /\ D \in [Slots -> Int] /\ Q.list = A.list
        /\ Q \in [list : Seq(Slots), tmr : [Slots -> Object]]
    BY <1>1, <1>2, <1>5
  <2> QED BY <2>1, <2>2, SameTimed DEF SameDue
<1>7. ASSUME NEW u \in Slots
      PROVE  SameFields(A.tmr[u], S.tmr[u]) /\ A.tmr[u].elapsed = S.tmr[u].elapsed
  <2>1. S.tmr[u] \in Object /\ SamePart(A.tmr[u], S.tmr[u])
    BY <1>1, <1>2
  <2> QED BY <2>1, PartFields
<1>8. ASSUME NEW u \in Slots, u # t
      PROVE  Alike(Q, S, u)
  BY <1>1, <1>5, <1>7, <1>8 DEF Alike
<1>9. /\ Q.tmr[t].inUse = S.tmr[t].inUse /\ Q.tmr[t].type = S.tmr[t].type
      /\ Q.tmr[t].requested = S.tmr[t].requested
      /\ Q.tmr[t].active = TRUE /\ Q.tmr[t].flag = FALSE /\ Q.tmr[t].elapsed = FALSE
  BY <1>3, <1>5, <1>7 DEF SameFields
<1> QED BY <1>1, <1>5, <1>6, <1>8, <1>9 DEF NowRuns

-----------------------------------------------------------------------------
(* The parts of the invariant in the next state                              *)

\* The types of the variables that are not about single timers.
ScalarsOK ==
    /\ clock \in 0 .. 2 * TurnCounts - 1 /\ compare \in 1 .. Period /\ irq \in BOOLEAN
    /\ previous \in 0 .. Period /\ swCounter \in 0 .. 2 * TurnCounts - 1
    /\ at \in {"Tasks", "TimerAdd", "Notify", "Callback"}
    /\ lag \in 0 .. Period /\ who \in Slots /\ stall \in 0 .. Latency

\* What the invariant says of the list, the objects and the counter.
LEMMA InvFacts ==
    ASSUME TimersInv
    PROVE  /\ ScalarsOK /\ Clocks /\ CounterFacts
           /\ TimedList(Store, due, Elapsed) /\ due \in [Slots -> Int]
           /\ Store \in [list : Seq(Slots), tmr : [Slots -> Object]]
           /\ Store.list = active /\ Store.tmr = timers
           /\ \A u \in Slots : /\ timers[u] \in Object /\ due[u] \in Int
                               /\ ObjectAgrees(timers[u], due[u], Elapsed, InHandler)
<1>1. ScalarsOK /\ Clocks
  BY DEF TimersInv, TypeOK, ScalarsOK, Clocks
<1>2. CounterFacts
  BY <1>1, CounterIs
<1>3. /\ Store.list = active /\ Store.tmr = timers
      /\ Store \in [list : Seq(Slots), tmr : [Slots -> Object]]
      /\ due \in [Slots -> Int] /\ \A u \in Slots : timers[u] \in Object /\ due[u] \in Int
  BY DEF TimersInv, TypeOK, Store
<1> QED BY <1>1, <1>2, <1>3 DEF TimersInv, ObjectsAgree

\* The types of the list and of the objects come with the list.
LEMMA TypesNext ==
    ASSUME ScalarsOK', TimedList(Store', due', Elapsed')
    PROVE  TypeOK'
<1>1. Store'.list = active' /\ Store'.tmr = timers'
  BY DEF Store
<1>2. /\ active' \in Seq(Slots) /\ IsInjective(active')
      /\ timers' \in [Slots -> Object] /\ due' \in [Slots -> Int]
  BY <1>1 DEF TimedList, DeltaList
<1> QED BY <1>2 DEF ScalarsOK, TypeOK

\* The store that a step keeps is the store of the next state.
LEMMA KeepIs ==
    ASSUME NEW S \in [list : Seq(Slots), tmr : [Slots -> Object]], Keep(S)
    PROVE  Store' = S /\ Store'.list = active' /\ Store'.tmr = timers'
BY DEF Keep, Store

\* Nothing elapses in a step that leaves the clock alone.
LEMMA SameClock ==
    ASSUME UNCHANGED <<clock, previous>>
    PROVE  /\ Elapsed' = Elapsed /\ Counter' = Counter
           /\ \A c : Away(c)' = Away(c)
BY DEF Elapsed, GetElapsedCount, Counter, Away

\* Nothing has elapsed since an update that was made now.
LEMMA NowUpdated ==
    ASSUME Clocks, UNCHANGED clock, previous' = Counter
    PROVE  /\ Elapsed' = 0 /\ Counter' = Counter /\ previous' \in 0 .. Period
           /\ \A c : Away(c)' = Away(c)
<1>1. Counter' = Counter /\ \A c : Away(c)' = Away(c)
  BY DEF Counter, Away
<1>2. CounterFacts
  BY CounterIs
<1>3. Clocks' /\ previous' \in 0 .. Period
  BY <1>2 DEF Clocks, CounterFacts
<1>4. CounterFacts'
  <2>1. (Clocks => CounterFacts)'
    BY CounterIs, PTL
  <2> QED BY <1>3, <2>1
<1> QED BY <1>1, <1>2, <1>3, <1>4, Constants DEF CounterFacts

\* A timer of the list is an active one.
LEMMA ListedRuns ==
    ASSUME TimersInv, NEW u \in Slots, Contains(active, u)
    PROVE  /\ timers[u].inUse /\ timers[u].active /\ ~ timers[u].elapsed
           /\ ~ (at = "TimerAdd" /\ who = u) /\ Running(u)
BY DEF TimersInv, ListHoldsRunning, Running

\* A timer that is alike agrees with its flags and times as it did.
LEMMA AlikeAgrees ==
    ASSUME TimersInv, TimedList(Store', due', Elapsed'),
           NEW u \in Slots, Alike(Store', Store, u),
           NEW left, NEW e, NEW h, ObjectAgrees(timers[u], left, e, h)
    PROVE  ObjectAgrees(timers'[u], left, e, h)
<1>1. timers[u] \in Object /\ timers'[u] \in Object
  <2>1. Store'.tmr = timers' /\ Store'.tmr[u] \in Object
    BY Entries DEF Store, TimedList
  <2> QED BY <2>1, InvFacts
<1>2. /\ SameFields(timers'[u], timers[u]) /\ timers'[u].elapsed = timers[u].elapsed
      /\ ~ Contains(active, u) => timers'[u].pending = timers[u].pending
  BY DEF Alike, Store
<1>3. timers'[u].pending = timers[u].pending \/ (timers[u].inUse /\ timers[u].active)
  BY <1>2, ListedRuns
<1> QED BY <1>1, <1>2, <1>3, AgreesStill

\* One timer, out of the list from now on, gets another object; the time does not
\* change. Inside the handler it may wait there for its period.
LEMMA ChangeOne ==
    ASSUME TimersInv, NEW t \in Slots, NEW x \in Object, Keep(Changed(Store, t, x)),
           due' \in [Slots -> Int], \A u \in Slots : u # t => due'[u] = due[u],
           UNCHANGED <<hardware, previous, swCounter, lag, stall>>,
           at # "TimerAdd", at' \in {"Tasks", "Notify", "Callback"}, InHandler' = InHandler,
           who' \in Slots,
           ObjectAgrees(x, due'[t], Elapsed, InHandler),
           ~ (x.inUse /\ x.active /\ ~ x.elapsed),
           x.active => due'[t] >= -Margin - 3 * Latency - stall
    PROVE  TimersInv' /\ timers'[t] = x /\ \A u \in Slots : u # t => Alike(Store', Store, u)
<1>1. /\ ScalarsOK /\ TimedList(Store, due, Elapsed)
      /\ \A u \in Slots : ObjectAgrees(timers[u], due[u], Elapsed, InHandler)
  BY InvFacts
<1> DEFINE Q == Changed(Store, t, x)
<1>2. /\ TimedList(Q, due', Elapsed)
      /\ Q \in [list : Seq(Slots), tmr : [Slots -> Object]]
      /\ ~ Contains(Q.list, t) /\ Q.tmr[t] = x
      /\ \A u \in Slots : u # t => Alike(Q, Store, u)
  BY <1>1, ChangedTimed
<1> HIDE DEF Q
<1>3. Store' = Q /\ Store'.list = active' /\ Store'.tmr = timers'
  BY <1>2, KeepIs DEF Q
<1>4. /\ Elapsed' = Elapsed /\ \A c : Away(c)' = Away(c)
      /\ clock' = clock /\ compare' = compare /\ irq' = irq /\ previous' = previous
      /\ at' = "Tasks" <=> at = "Tasks"
      /\ InHandler <=> at # "Tasks"
  BY <1>1, SameClock DEF hardware, InHandler, ScalarsOK
<1>5. TypeOK' /\ TimedList(Store', due', Elapsed')
  <2>1. ScalarsOK'
    BY <1>1, <1>4 DEF ScalarsOK
  <2> QED BY <1>2, <1>3, <1>4, <2>1, TypesNext
<1>6. CountsAddUp' /\ UpdatedInTime' /\ AddUnderWay'
  BY <1>4 DEF TimersInv, CountsAddUp, UpdatedInTime, AddUnderWay
<1>7. /\ timers'[t] = x /\ ~ Contains(active', t)
      /\ \A u \in Slots : u # t => Alike(Store', Store, u)
  BY <1>2, <1>3
<1>8. ObjectsAgree'
  <2> SUFFICES ASSUME NEW u \in Slots
               PROVE  ObjectAgrees(timers'[u], due'[u], Elapsed, InHandler)
    BY <1>4 DEF ObjectsAgree
  <2>1. CASE u = t
    BY <1>7, <2>1
  <2>2. CASE u # t
    BY <1>1, <1>5, <1>7, <2>2, AlikeAgrees
  <2> QED BY <2>1, <2>2
<1>9. ASSUME NEW u \in Slots, u # t
      PROVE  /\ SameFields(timers'[u], timers[u]) /\ timers'[u].elapsed = timers[u].elapsed
             /\ Contains(active', u) <=> Contains(active, u)
  BY <1>7, <1>9 DEF Alike, Store
<1>10. ListHoldsRunning'
  <2> SUFFICES ASSUME NEW u \in Slots
               PROVE  Contains(active', u) <=> timers'[u].inUse /\ timers'[u].active
                                               /\ ~ timers'[u].elapsed
    BY DEF ListHoldsRunning
  <2>1. CASE u = t
    BY <1>7, <2>1
  <2>2. CASE u # t
    BY <1>9, <2>2 DEF TimersInv, ListHoldsRunning, SameFields
  <2> QED BY <2>1, <2>2
<1>11. NoneTooLate'
  <2>1. at = "Tasks" => \A u \in Slots : Contains(active', u) => Contains(active, u) /\ due'[u] = due[u]
    BY <1>7, <1>9
  <2>2. \A u \in Slots : u # t /\ timers'[u].active => timers[u].active /\ due'[u] = due[u]
    BY <1>9 DEF SameFields
  <2>3. at = "Tasks" => NoneTooLate'
    BY <1>4, <2>1 DEF TimersInv, NoneTooLate, InHandler
  <2>4. at # "Tasks" => \A u \in Slots : timers'[u].active => due'[u] >= -Margin - 3 * Latency - stall
    BY <1>4, <1>7, <2>2 DEF TimersInv, NoneTooLate
  <2>5. at # "Tasks" => NoneTooLate'
    BY <1>4, <2>4 DEF NoneTooLate, InHandler
  <2> QED BY <2>3, <2>5
<1> QED BY <1>5, <1>6, <1>7, <1>8, <1>10, <1>11 DEF TimersInv

-----------------------------------------------------------------------------
(* Calls and handlers that change one timer                                  *)

\* An object that is not in use agrees with everything.
LEMMA UnusedObject == Unused \in Object /\ \A d, e, h : ObjectAgrees(Unused, d, e, h)
BY Constants DEF Unused, Object, ObjectAgrees

\* In a task's call no timer waits for its period, and the active ones are in the list.
LEMMA TasksFacts ==
    ASSUME TimersInv, FromTask
    PROVE  /\ ~ InHandler /\ at # "TimerAdd" /\ lag = 0
           /\ \A u \in Slots : /\ ~ timers[u].elapsed
                               /\ Contains(active, u) <=> timers[u].active
<1>1. ~ InHandler /\ at = "Tasks" /\ lag = 0
  BY DEF FromTask, InHandler, TimersInv, UpdatedInTime
<1>2. ASSUME NEW u \in Slots
      PROVE  /\ ~ timers[u].elapsed
             /\ Contains(active, u) <=> timers[u].active
  <2>1. ~ timers[u].elapsed /\ (timers[u].active => timers[u].inUse)
    BY <1>1, InvFacts DEF ObjectAgrees, Unused
  <2> QED BY <1>1, <2>1 DEF TimersInv, ListHoldsRunning
<1> QED BY <1>1, <1>2

\* What a call makes of the timers when it leaves the list and the deadlines alone.
LEMMA ObjectStep ==
    ASSUME TimersInv, FromTask, NEW t \in Slots, ~ timers[t].active, NEW x \in Object,
           timers' = [timers EXCEPT ![t] = x], ObjectAgrees(x, due[t], Elapsed, FALSE),
           ~ x.active,
           UNCHANGED <<hardware, previous, swCounter, active, at, lag, who, stall, due>>
    PROVE  TimersInv' /\ timers'[t] = x /\ \A u \in Slots : u # t => Alike(Store', Store, u)
<1>1. ~ InHandler /\ at = "Tasks" /\ ~ Contains(active, t) /\ who \in Slots
  BY TasksFacts, InvFacts DEF FromTask, ScalarsOK
<1>2. Keep(Changed(Store, t, x))
  <2>1. Changed(Store, t, x) = [Store EXCEPT !.tmr[t] = x]
    <3>1. /\ Store \in [list : Seq(Slots), tmr : [Slots -> Object]]
          /\ ~ Contains(Store.list, t)
      BY <1>1, InvFacts
    <3> QED BY <3>1, ChangedOutside
  <2>2. [Store EXCEPT !.tmr[t] = x] = [list |-> active, tmr |-> [timers EXCEPT ![t] = x]]
    BY DEF Store
  <2> QED BY <2>1, <2>2 DEF Keep
<1>3. InHandler' = InHandler
  BY DEF InHandler
<1>4. due \in [Slots -> Int]
  BY InvFacts
<1>5. ObjectAgrees(x, due'[t], Elapsed, InHandler) /\ InHandler \in BOOLEAN
  BY <1>1 DEF ObjectAgrees, InHandler
<1> QED BY <1>1, <1>2, <1>3, <1>4, <1>5, ChangeOne

\* TimerObjectCreate keeps the invariant and starts nothing.
LEMMA CreateKeeps ==
    ASSUME TimersInv, NEW type \in Types, NEW period \in Times, TimerCreate(type, period)
    PROVE  TimersInv' /\ \E t \in Slots : /\ ~ timers[t].active /\ ~ timers'[t].active
                                          /\ \A u \in Slots : u # t => Alike(Store', Store, u)
<1>1. PICK t \in Slots :
        /\ ~ timers[t].inUse
        /\ timers' = [timers EXCEPT ![t] =
                        [Unused EXCEPT !.inUse = TRUE, !.type = type,
                                       !.requested = period, !.pending = period]]
  BY DEF TimerCreate
<1> DEFINE x == [Unused EXCEPT !.inUse = TRUE, !.type = type,
                               !.requested = period, !.pending = period]
<1>2. period \in 0 .. Period
  BY SysTimeAssumption
<1>3. /\ x \in Object /\ ~ x.active /\ x.inUse /\ ~ x.flag /\ ~ x.elapsed
      /\ x.requested = period /\ x.pending = period
  BY <1>2 DEF Unused, Object
<1>4. ~ timers[t].active
  BY <1>1, InvFacts DEF ObjectAgrees, Unused
<1>5. timers' = [timers EXCEPT ![t] = x] /\ FromTask
      /\ UNCHANGED <<hardware, previous, swCounter, active, at, lag, who, stall, due>>
  BY <1>1 DEF TimerCreate
<1> HIDE DEF x
<1>6. ObjectAgrees(x, due[t], Elapsed, FALSE)
  BY <1>3 DEF ObjectAgrees
<1>7. TimersInv' /\ timers'[t] = x /\ \A u \in Slots : u # t => Alike(Store', Store, u)
  BY <1>3, <1>4, <1>5, <1>6, ObjectStep
<1> QED BY <1>3, <1>4, <1>7

\* TimerPeriodHasExpired keeps the invariant and stops nothing: a flag that is set is
\* that of a timer that does not run.
LEMMA HasExpiredKeeps ==
    ASSUME TimersInv, NEW t \in Slots, TimerPeriodHasExpired(t)
    PROVE  /\ TimersInv' /\ ~ timers[t].active /\ ~ timers'[t].active
           /\ \A u \in Slots : u # t => Alike(Store', Store, u)
<1> DEFINE q == timers[t]
           x == IF q.type = "DELAY" THEN Unused ELSE [q EXCEPT !.flag = FALSE]
<1>1. /\ q \in Object /\ ObjectAgrees(q, due[t], Elapsed, InHandler)
      /\ timers \in [Slots -> Object]
  BY InvFacts
<1>2. q.inUse /\ q.flag /\ FromTask
  BY DEF TimerPeriodHasExpired
<1>3. timers' = [timers EXCEPT ![t] = x]
      /\ UNCHANGED <<hardware, previous, swCounter, active, at, lag, who, stall, due>>
  BY <1>1 DEF TimerPeriodHasExpired
<1>4. ~ q.elapsed /\ ~ q.active /\ q.pending \in {0, q.requested} /\ q.requested \in Times
  BY <1>1, <1>2, TasksFacts DEF ObjectAgrees
<1>5. CASE q.type = "DELAY"
  <2>1. timers' = [timers EXCEPT ![t] = Unused] /\ ~ Unused.active /\ ~ timers[t].active
    BY <1>3, <1>4, <1>5 DEF Unused
  <2>2. Unused \in Object /\ ObjectAgrees(Unused, due[t], Elapsed, FALSE)
    BY UnusedObject
  <2> QED BY <1>2, <1>3, <2>1, <2>2, ObjectStep
<1>6. CASE q.type # "DELAY"
  <2> DEFINE y == [q EXCEPT !.flag = FALSE]
  <2> HIDE DEF q
  <2>1. /\ y \in Object /\ ~ y.active /\ y.inUse /\ ~ y.flag /\ ~ y.elapsed
        /\ y.requested = q.requested /\ y.pending = q.pending
    BY <1>1, <1>2, <1>4 DEF Object
  <2>2. timers' = [timers EXCEPT ![t] = y]
    BY <1>3, <1>6
  <2> HIDE DEF y
  <2>3. ObjectAgrees(y, due[t], Elapsed, FALSE)
    BY <1>4, <2>1 DEF ObjectAgrees
  <2>4. ~ timers[t].active
    BY <1>4 DEF q
  <2> QED BY <1>2, <1>3, <2>1, <2>2, <2>3, <2>4, ObjectStep
<1> QED BY <1>5, <1>6

\* Outside the list an object is replaced in place; taking a timer out of the list
\* leaves its own object alone.
LEMMA ChangedIs ==
    ASSUME TimersInv, NEW t \in Slots
    PROVE  /\ RemoveFromList(Store, t) \in [list : Seq(Slots), tmr : [Slots -> Object]]
           /\ RemoveFromList(Store, t).tmr[t] = timers[t]
           /\ ~ timers[t].active => RemoveFromList(Store, t) = Store
<1> DEFINE R == RemoveFromList(Store, t)
<1>1. TimedList(Store, due, Elapsed) /\ Store.tmr = timers /\ Store.list = active
  BY InvFacts
<1>2. TimedList(R, due, Elapsed) /\ R.tmr[t] = timers[t]
  BY <1>1, RemoveTimed
<1>3. ~ timers[t].active => R = Store
  <2>1. ~ timers[t].active => ~ Contains(active, t)
    BY ListedRuns
  <2> QED BY <1>1, <2>1 DEF RemoveFromList
<1> HIDE DEF R
<1>4. R \in [list : Seq(Slots), tmr : [Slots -> Object]]
  BY <1>2 DEF TimedList, DeltaList
<1> QED BY <1>2, <1>3, <1>4 DEF R

\* Stopping a timer is taking it out of the list and changing its object.
LEMMA StoppedIs ==
    ASSUME TimersInv, NEW t \in Slots, timers[t].inUse, NEW left
    PROVE  \E x \in Object : /\ Stopped(Store, t) = Changed(Store, t, x) /\ ~ x.active
                             /\ ObjectAgrees(x, left, Elapsed, InHandler)
<1> DEFINE R == RemoveFromList(Store, t)
           q == timers[t]
           x == [q EXCEPT !.flag = FALSE, !.elapsed = FALSE, !.active = FALSE,
                          !.pending = q.requested]
<1>1. /\ R \in [list : Seq(Slots), tmr : [Slots -> Object]]
      /\ R.tmr[t] = q /\ (~ q.active => R = Store)
  BY ChangedIs
<1>2. /\ q \in Object /\ ObjectAgrees(q, due[t], Elapsed, InHandler)
      /\ Store \in [list : Seq(Slots), tmr : [Slots -> Object]] /\ Store.tmr = timers
  BY InvFacts
<1>3. Changed(Store, t, x) = [R EXCEPT !.tmr[t] = x] /\ Changed(Store, t, q) = [R EXCEPT !.tmr[t] = q]
  BY DEF Changed
<1>4. Stopped(Store, t) = IF ~ q.active THEN Store
                          ELSE [R EXCEPT !.tmr[t] = [@ EXCEPT !.flag = FALSE, !.elapsed = FALSE,
                                            !.active = FALSE, !.pending = q.requested]]
  BY <1>2 DEF Stopped
<1> HIDE DEF R
<1>5. CASE ~ q.active
  <2>1. [Store EXCEPT !.tmr[t] = q] = Store
    BY <1>2
  <2>2. ObjectAgrees(q, left, Elapsed, InHandler)
    BY <1>2, <1>5 DEF ObjectAgrees
  <2> QED BY <1>1, <1>2, <1>3, <1>4, <1>5, <2>1, <2>2
<1>6. CASE q.active
  <2>1. Stopped(Store, t) = [R EXCEPT !.tmr[t] = x]
    BY <1>1, <1>4, <1>6
  <2> HIDE DEF q
  <2>2. /\ x \in Object /\ x.inUse = q.inUse /\ ~ x.active /\ ~ x.flag /\ ~ x.elapsed
        /\ x.requested = q.requested /\ x.pending = q.requested
    BY <1>2 DEF Object
  <2>3. q.inUse
    BY DEF q
  <2> HIDE DEF x
  <2>4. ObjectAgrees(x, left, Elapsed, InHandler)
    BY <1>2, <2>2, <2>3 DEF ObjectAgrees
  <2> QED BY <1>3, <2>1, <2>2, <2>4
<1> QED BY <1>5, <1>6

\* Destroying a timer is taking it out of the list and clearing its object.
LEMMA DestroyedIs ==
    ASSUME TimersInv, NEW t \in Slots
    PROVE  Destroyed(Store, t) = Changed(Store, t, Unused)
<1>1. Store.tmr = timers /\ (~ timers[t].active => RemoveFromList(Store, t) = Store)
  BY InvFacts, ChangedIs
<1> QED BY <1>1 DEF Destroyed, Changed

\* A timer that is stopped or destroyed.
LEMMA CancelKeeps ==
    ASSUME TimersInv, NEW t \in Slots, timers[t].inUse, at # "TimerAdd",
           Cancel(Stopped(Store, t), t) \/ Cancel(Destroyed(Store, t), t),
           at' \in {"Tasks", "Notify", "Callback"}, InHandler' = InHandler, who' \in Slots
    PROVE  /\ TimersInv' /\ ~ timers'[t].active /\ due' = [due EXCEPT ![t] = 0]
           /\ \A u \in Slots : u # t => Alike(Store', Store, u)
<1>1. \E x \in Object : /\ Keep(Changed(Store, t, x)) /\ ~ x.active
                        /\ ObjectAgrees(x, 0, Elapsed, InHandler)
  <2>1. CASE Cancel(Stopped(Store, t), t)
    BY <2>1, StoppedIs DEF Cancel
  <2>2. CASE Cancel(Destroyed(Store, t), t)
    <3>1. Unused \in Object /\ ObjectAgrees(Unused, 0, Elapsed, InHandler) /\ ~ Unused.active
      BY UnusedObject DEF Unused
    <3>2. Keep(Changed(Store, t, Unused))
      BY <2>2, DestroyedIs DEF Cancel
    <3> QED BY <3>1, <3>2
  <2> QED BY <2>1, <2>2
<1>2. PICK x \in Object : /\ Keep(Changed(Store, t, x)) /\ ~ x.active
                          /\ ObjectAgrees(x, 0, Elapsed, InHandler)
  BY <1>1
<1>3. /\ due' = [due EXCEPT ![t] = 0]
      /\ UNCHANGED <<hardware, previous, swCounter, lag, stall>>
  BY DEF Cancel
<1>4. due' \in [Slots -> Int] /\ due'[t] = 0 /\ \A u \in Slots : u # t => due'[u] = due[u]
  BY <1>3, InvFacts
<1>5. ObjectAgrees(x, due'[t], Elapsed, InHandler)
  BY <1>2, <1>4
<1>6. TimersInv' /\ timers'[t] = x /\ \A u \in Slots : u # t => Alike(Store', Store, u)
  BY <1>2, <1>3, <1>4, <1>5, ChangeOne
<1> QED BY <1>2, <1>3, <1>6

\* A task stops or destroys a timer.
LEMMA StopKeeps ==
    ASSUME TimersInv, NEW t \in Slots, TimerStop(t) \/ TimerDestroy(t)
    PROVE  /\ TimersInv' /\ ~ timers'[t].active /\ due' = [due EXCEPT ![t] = 0]
           /\ \A u \in Slots : u # t => Alike(Store', Store, u)
<1>1. /\ timers[t].inUse /\ FromTask /\ UNCHANGED <<at, who>>
      /\ Cancel(Stopped(Store, t), t) \/ Cancel(Destroyed(Store, t), t)
  BY DEF TimerStop, TimerDestroy
<1>2. at' = "Tasks" /\ at = "Tasks" /\ InHandler' = InHandler /\ who' \in Slots
  BY <1>1, InvFacts DEF FromTask, InHandler, ScalarsOK
<1> QED BY <1>1, <1>2, CancelKeeps

\* A callback stops or destroys a timer, the one that expired included.
LEMMA CallbackCancelsKeeps ==
    ASSUME TimersInv, NEW t \in Slots, CallbackCancels(t)
    PROVE  /\ TimersInv' /\ ~ timers'[t].active /\ due' = [due EXCEPT ![t] = 0]
           /\ \A u \in Slots : u # t => Alike(Store', Store, u)
<1>1. /\ timers[t].inUse /\ at = "Callback" /\ at' = "Notify" /\ who' = 0
      /\ Cancel(Stopped(Store, t), t) \/ Cancel(Destroyed(Store, t), t)
  BY DEF CallbackCancels
<1>2. InHandler' = InHandler /\ who' \in Slots
  BY <1>1, SysTimeAssumption DEF InHandler, Slots
<1> QED BY <1>1, <1>2, CancelKeeps

\* A callback returns without a call.
LEMMA CallbackReturnsKeeps ==
    ASSUME TimersInv, CallbackReturns
    PROVE  TimersInv'
<1>1. /\ at = "Callback" /\ at' = "Notify" /\ who' = 0 /\ Store' = Store
      /\ UNCHANGED <<hardware, previous, swCounter, active, timers, lag, stall, due>>
  BY DEF CallbackReturns, Store
<1>2. /\ Elapsed' = Elapsed /\ InHandler' /\ InHandler
      /\ clock' = clock /\ compare' = compare /\ irq' = irq
  BY <1>1, SameClock DEF InHandler, hardware
<1>3. who' \in Slots
  BY <1>1, SysTimeAssumption DEF Slots
<1>4. TypeOK' /\ TimedList(Store', due', Elapsed')
  BY <1>1, <1>2, <1>3 DEF TimersInv, TypeOK
<1>5. CountsAddUp' /\ UpdatedInTime' /\ AddUnderWay'
  BY <1>1, <1>2 DEF TimersInv, CountsAddUp, UpdatedInTime, AddUnderWay
<1>6. ObjectsAgree'
  <2>1. InHandler' = InHandler
    BY <1>1 DEF InHandler
  <2> QED BY <1>1, <1>2, <2>1 DEF TimersInv, ObjectsAgree
<1>7. ListHoldsRunning' /\ NoneTooLate'
  BY <1>1, <1>2 DEF TimersInv, ListHoldsRunning, NoneTooLate
<1> QED BY <1>4, <1>5, <1>6, <1>7 DEF TimersInv

\* The head of the list is the first to expire.
LEMMA HeadTimed ==
    ASSUME NEW S, NEW D, NEW e, TimedList(S, D, e), S.list # <<>>,
           NEW h, h = Head(S.list)
    PROVE  /\ h \in Slots /\ Contains(S.list, h)
           /\ D[h] <= S.tmr[h].pending - e
           /\ S.tmr[h].pending > 0 => D[h] = S.tmr[h].pending - e
           /\ \A u \in Slots : Contains(S.list, u) => D[h] <= D[u]
           /\ NoneExpired(S) <=> S.tmr[h].pending > 0
<1> DEFINE n == Len(S.list)
<1>1. /\ DeltaList(S) /\ OnTime(S, D, e) /\ InOrder(S, D)
      /\ n \in Nat /\ \A i \in 1 .. n : S.list[i] \in Slots
      /\ \A u \in Slots : S.tmr[u].pending \in 0 .. Period
  BY Entries DEF TimedList
<1>2. 1 \in 1 .. n /\ h = S.list[1] /\ h \in Slots
  <2>1. S.list \in Seq(Slots)
    BY <1>1 DEF DeltaList
  <2> QED BY <1>1, <2>1
<1>3. Contains(S.list, h)
  BY <1>1, <1>2 DEF Contains
<1>4. Until(S, 1) = S.tmr[h].pending
  <2>1. 1 \in Nat \ {0} /\ 1 - 1 = 0
    OBVIOUS
  <2>2. Until(S, 1) = Until(S, 1 - 1) + Step(S, 1) /\ Until(S, 0) = 0
    BY <2>1, UntilSteps
  <2> QED BY <1>1, <1>2, <2>1, <2>2 DEF Step
<1>5. D[h] <= S.tmr[h].pending - e /\ (S.tmr[h].pending > 0 => D[h] = S.tmr[h].pending - e)
  BY <1>1, <1>2, <1>4 DEF OnTime
<1>6. ASSUME NEW u \in Slots, Contains(S.list, u)
      PROVE  D[h] <= D[u]
  <2>1. PICK i \in 1 .. n : u = S.list[i]
    BY <1>6 DEF Contains
  <2> QED BY <1>1, <1>2, <2>1 DEF InOrder
<1>7. NoneExpired(S) <=> S.tmr[h].pending > 0
  <2>1. NoneExpired(S) => S.tmr[h].pending > 0
    BY <1>2, <1>4 DEF NoneExpired
  <2>2. ASSUME S.tmr[h].pending > 0, NEW i \in 1 .. n
        PROVE  Until(S, i) > 0
    <3>1. i \in 0 .. n /\ 1 \in 0 .. i
      BY <1>1
    <3>2. Until(S, 1) <= Until(S, i) /\ Until(S, i) \in 0 .. Period
      BY <1>1, <3>1, UntilGrows
    <3> QED BY <1>1, <1>2, <1>4, <2>2, <3>2, Constants
  <2> QED BY <2>1, <2>2 DEF NoneExpired
<1> QED BY <1>2, <1>3, <1>5, <1>6, <1>7

\* The handler takes the head out, when it has expired; no running timer was due before
\* it, and none is taken out before its time.
LEMMA NotifyKeeps ==
    ASSUME TimersInv, ClientNotify
    PROVE  /\ TimersInv' /\ at = "Notify"
           /\ \E t \in Slots :
                 /\ t = Head(active) /\ Running(t) /\ due[t] <= 0 /\ due[t] <= -Elapsed
                 /\ \A u \in Slots : Running(u) => due[t] <= due[u]
                 /\ due' = [due EXCEPT ![t] = IF timers[t].type = "PERIODIC"
                                              THEN timers[t].requested - Elapsed ELSE 0]
                 /\ timers[t].requested \in Times
                 /\ timers[t].type # "PERIODIC" => ~ timers'[t].active
                 /\ timers[t].type = "PERIODIC" =>
                       /\ timers'[t].active /\ timers'[t].type = timers[t].type
                       /\ timers'[t].requested = timers[t].requested
                 /\ timers[t].type = "DELAY" => at' = "Notify"
                 /\ timers[t].type # "DELAY" => at' = "Callback" /\ who' = t
                 /\ \A u \in Slots : u # t => Alike(Store', Store, u)
<1> DEFINE t == Head(active)
           q == timers[t]
<1>1. /\ at = "Notify" /\ active # <<>> /\ q.pending = 0
      /\ Keep(Expired(Store, t))
      /\ due' = [due EXCEPT ![t] = IF q.type = "PERIODIC" THEN q.requested - Elapsed ELSE 0]
      /\ q.type = "DELAY" => UNCHANGED <<at, who>>
      /\ q.type # "DELAY" => at' = "Callback" /\ who' = t
      /\ UNCHANGED <<hardware, previous, swCounter, lag, stall>>
  BY DEF ClientNotify, HeadExpired, Elapsed
<1>2. /\ TimedList(Store, due, Elapsed) /\ Store.list = active /\ Store.tmr = timers
      /\ ScalarsOK /\ CounterFacts /\ due \in [Slots -> Int]
  BY InvFacts
<1>3. /\ t \in Slots /\ Contains(active, t)
      /\ due[t] <= q.pending - Elapsed
      /\ \A u \in Slots : Contains(active, u) => due[t] <= due[u]
  BY <1>1, <1>2, HeadTimed
<1> HIDE DEF t
<1>4. /\ q \in Object /\ ObjectAgrees(q, due[t], Elapsed, InHandler) /\ due[t] \in Int
      /\ q.inUse /\ q.active /\ ~ q.elapsed /\ Running(t)
  BY <1>3, InvFacts, ListedRuns
<1>5. /\ q.requested \in Times /\ q.requested \in 1 .. Period /\ InHandler
      /\ Elapsed = stall /\ stall \in 0 .. Latency
  BY <1>1, <1>2, <1>4, SysTimeAssumption
     DEF ObjectAgrees, InHandler, TimersInv, UpdatedInTime, ScalarsOK
<1>6. due[t] <= 0 /\ due[t] <= -Elapsed
  BY <1>1, <1>3, <1>4, <1>5, Constants
<1>7. ASSUME NEW u \in Slots, Running(u)
      PROVE  due[t] <= due[u]
  <2>1. timers[u].active
    BY <1>1, <1>7 DEF Running
  <2>2. CASE Contains(active, u)
    BY <1>3, <2>2
  <2>3. CASE ~ Contains(active, u)
    <3>1. /\ timers[u].elapsed /\ timers[u].inUse
          /\ ObjectAgrees(timers[u], due[u], Elapsed, InHandler)
      BY <1>1, <2>1, <2>3, InvFacts DEF TimersInv, ListHoldsRunning, ObjectAgrees, Unused
    <3>2. due[u] = timers[u].requested - Elapsed /\ timers[u].requested \in 1 .. Period
      BY <2>1, <3>1, SysTimeAssumption DEF ObjectAgrees
    <3> QED BY <1>4, <1>5, <1>6, <3>2, Constants
  <2> QED BY <2>2, <2>3
<1> DEFINE x == [q EXCEPT !.flag = (q.type = "DELAY"), !.elapsed = TRUE,
                          !.active = (q.type = "PERIODIC")]
           y == IF q.type = "SINGLE" THEN Unused ELSE x
           R == RemoveFromList(Store, t)
<1>8. Keep(Changed(Store, t, y))
  <2>1. CASE q.type = "SINGLE"
    <3>1. Expired(Store, t) = Changed(Store, t, Unused)
      BY <1>2, <1>3, <2>1, DestroyedIs DEF Expired
    <3> QED BY <1>1, <2>1, <3>1
  <2>2. CASE q.type # "SINGLE"
    <3>1. R \in [list : Seq(Slots), tmr : [Slots -> Object]] /\ R.tmr[t] = q
      BY <1>3, ChangedIs
    <3>2. Expired(Store, t) = [R EXCEPT !.tmr[t] = [@ EXCEPT !.flag = (q.type = "DELAY"),
                                   !.elapsed = TRUE, !.active = (q.type = "PERIODIC")]]
      BY <1>2, <2>2 DEF Expired
    <3>3. Changed(Store, t, x) = [R EXCEPT !.tmr[t] = x]
      BY DEF Changed
    <3> HIDE DEF R, q
    <3>4. Expired(Store, t) = Changed(Store, t, x)
      BY <3>1, <3>2, <3>3
    <3> QED BY <1>1, <2>2, <3>4
  <2> QED BY <2>1, <2>2
<1> HIDE DEF q
<1>9. /\ x \in Object /\ x.inUse = q.inUse /\ x.type = q.type /\ x.requested = q.requested
      /\ x.pending = q.pending /\ x.flag = (q.type = "DELAY") /\ x.elapsed = TRUE
      /\ x.active = (q.type = "PERIODIC")
  BY <1>4 DEF Object
<1> HIDE DEF x, R
<1>10. /\ due' \in [Slots -> Int] /\ \A u \in Slots : u # t => due'[u] = due[u]
       /\ due'[t] = IF q.type = "PERIODIC" THEN q.requested - Elapsed ELSE 0
  BY <1>1, <1>2, <1>3, <1>5
<1>11. ObjectAgrees(x, due'[t], Elapsed, InHandler)
  BY <1>1, <1>4, <1>5, <1>9, <1>10 DEF ObjectAgrees
<1>12. /\ y \in Object /\ ObjectAgrees(y, due'[t], Elapsed, InHandler)
       /\ ~ (y.inUse /\ y.active /\ ~ y.elapsed)
       /\ y.active <=> q.type = "PERIODIC"
  BY <1>9, <1>11, UnusedObject DEF Unused
<1>12a. q.type = "PERIODIC" => y.type = q.type /\ y.requested = q.requested
  BY <1>9
<1>13. y.active => due'[t] >= -Margin - 3 * Latency - stall
  BY <1>5, <1>10, <1>12, Constants
<1>14. /\ at # "TimerAdd" /\ at' \in {"Tasks", "Notify", "Callback"} /\ InHandler' = InHandler
       /\ who' \in Slots
  BY <1>1, <1>2, <1>3 DEF InHandler, ScalarsOK
<1> HIDE DEF y
<1>15. TimersInv' /\ timers'[t] = y /\ \A u \in Slots : u # t => Alike(Store', Store, u)
  BY <1>1, <1>3, <1>8, <1>10, <1>12, <1>13, <1>14, ChangeOne
<1>16. due' = [due EXCEPT ![t] = IF timers[t].type = "PERIODIC"
                                 THEN timers[t].requested - Elapsed ELSE 0]
  BY <1>1 DEF q
<1>17. /\ timers[t].type # "PERIODIC" => ~ timers'[t].active
       /\ timers[t].type = "PERIODIC" =>
             /\ timers'[t].active /\ timers'[t].type = timers[t].type
             /\ timers'[t].requested = timers[t].requested
  BY <1>12, <1>12a, <1>15 DEF q
<1>17a. /\ timers[t].requested \in Times
        /\ timers[t].type = "DELAY" => at' = "Notify"
        /\ timers[t].type # "DELAY" => at' = "Callback" /\ who' = t
  BY <1>1, <1>5 DEF q
<1>18. t = Head(active)
  BY DEF t
<1> QED BY <1>1, <1>3, <1>4, <1>6, <1>7, <1>15, <1>16, <1>17, <1>17a, <1>18

-----------------------------------------------------------------------------
(* A timer is added                                                          *)

\* A timer that is not in the list, given its time again.
LEMMA StartedIs ==
    ASSUME TimersInv, NEW t \in Slots, timers[t].inUse, ~ timers[t].active
    PROVE  \E x \in Object : /\ Started(Store, t) = Changed(Store, t, x)
                             /\ x.inUse /\ ~ x.active /\ x.type = timers[t].type
                             /\ x.requested \in Times /\ x.pending = x.requested
                             /\ x.elapsed = timers[t].elapsed
<1> DEFINE q == timers[t]
           x == [q EXCEPT !.pending = IF q.pending = 0 THEN q.requested ELSE q.pending]
<1>1. /\ q \in Object /\ ObjectAgrees(q, due[t], Elapsed, InHandler)
      /\ Store \in [list : Seq(Slots), tmr : [Slots -> Object]]
      /\ Store.tmr = timers /\ Store.list = active
  BY InvFacts
<1>2. RemoveFromList(Store, t) = Store
  BY ChangedIs
<1>3. Started(Store, t) = [Store EXCEPT !.tmr[t] = x]
  BY <1>1 DEF Started
<1>4. Changed(Store, t, x) = [Store EXCEPT !.tmr[t] = x]
  BY <1>2 DEF Changed
<1>5. q.inUse /\ ~ q.active
  OBVIOUS
<1> HIDE DEF q
<1>6. /\ x \in Object /\ x.inUse = q.inUse /\ x.active = q.active /\ x.type = q.type
      /\ x.requested = q.requested /\ x.elapsed = q.elapsed
      /\ x.pending = IF q.pending = 0 THEN q.requested ELSE q.pending
  BY <1>1 DEF Object
<1> HIDE DEF x
<1>7. x.requested \in Times /\ x.pending = x.requested
  BY <1>1, <1>5, <1>6 DEF ObjectAgrees
<1> QED BY <1>3, <1>4, <1>5, <1>6, <1>7 DEF q

\* A timer that is taken out of the list and given a new time.
LEMMA ReloadedIs ==
    ASSUME TimersInv, NEW t \in Slots, timers[t].inUse,
           NEW type \in Types, NEW period \in Times
    PROVE  \E x \in Object : /\ Reloaded(Store, t, type, period) = Changed(Store, t, x)
                             /\ x.inUse /\ x.type = type /\ ~ x.elapsed /\ ~ x.flag
                             /\ x.requested = period /\ x.pending = period
                             /\ x.active = timers[t].active
<1> DEFINE q == timers[t]
           R == RemoveFromList(Store, t)
           x == [q EXCEPT !.type = type, !.requested = period, !.pending = period,
                          !.flag = FALSE, !.elapsed = FALSE]
<1>1. /\ R \in [list : Seq(Slots), tmr : [Slots -> Object]] /\ R.tmr[t] = q
  BY ChangedIs
<1>2. q \in Object /\ q.inUse
  BY InvFacts
<1>3. Reloaded(Store, t, type, period) =
        [R EXCEPT !.tmr[t] = [@ EXCEPT !.type = type, !.requested = period,
                                 !.pending = period, !.flag = FALSE, !.elapsed = FALSE]]
  BY DEF Reloaded
<1>4. Changed(Store, t, x) = [R EXCEPT !.tmr[t] = x]
  BY DEF Changed
<1> HIDE DEF R, q
<1>5. Reloaded(Store, t, type, period) = Changed(Store, t, x)
  BY <1>1, <1>3, <1>4
<1>6. period \in 0 .. Period
  BY SysTimeAssumption
<1>7. /\ x \in Object /\ x.inUse = q.inUse /\ x.active = q.active /\ x.type = type
      /\ x.requested = period /\ x.pending = period /\ ~ x.elapsed /\ ~ x.flag
  BY <1>2, <1>6 DEF Object
<1> HIDE DEF x
<1> QED BY <1>2, <1>5, <1>7 DEF q

\* The timer that is added is of the kind and for the time that was asked for.
Asked(t) ==
    /\ timers'[t].requested \in Times
    /\ due' = [due EXCEPT ![t] = timers'[t].requested]
    /\ \A u \in Slots : u # t => Alike(Store', Store, u)

\* The first half of a TimerAdd: the list is brought up to date, and the deadline is
\* the new timer's time from now.
LEMMA AddBeginKeeps ==
    ASSUME TimersInv, FromTask, NEW t \in Slots, NEW x \in Object,
           TimerAddBegin(Changed(Store, t, x), t),
           x.inUse, x.requested \in Times, x.pending = x.requested,
           ~ x.elapsed, x.flag => ~ x.active
    PROVE  /\ TimersInv' /\ Asked(t) /\ at' = "TimerAdd" /\ who' = t
           /\ timers'[t] = x
<1> DEFINE S == Changed(Store, t, x)
           U == UpdateTimerList(S, Elapsed)
<1>1. /\ TimedList(Store, due, Elapsed) /\ ScalarsOK /\ Clocks /\ CounterFacts
      /\ due \in [Slots -> Int]
      /\ \A u \in Slots : ObjectAgrees(timers[u], due[u], Elapsed, InHandler)
  BY InvFacts
<1>2. ~ InHandler /\ at = "Tasks" /\ lag = 0 /\ ~ irq
  BY TasksFacts DEF FromTask
<1>3. /\ TimedList(S, due, Elapsed) /\ ~ Contains(S.list, t) /\ S.tmr[t] = x
      /\ S \in [list : Seq(Slots), tmr : [Slots -> Object]]
      /\ \A u \in Slots : u # t => Alike(S, Store, u)
  BY <1>1, ChangedTimed
<1>4. /\ Keep(U) /\ previous' = Counter /\ lag' = Elapsed
      /\ at' = "TimerAdd" /\ who' = t /\ stall' = 0
      /\ due' = [due EXCEPT ![t] = S.tmr[t].pending]
      /\ clock' = clock /\ compare' = compare /\ irq' = irq /\ swCounter' = swCounter
  BY DEF TimerAddBegin, Elapsed, hardware
<1> HIDE DEF S
<1>5. TimedList(U, due, 0) /\ \A u \in Slots : Alike(U, S, u)
  BY <1>3, UpdateAlike
<1> HIDE DEF U
<1>6. U \in [list : Seq(Slots), tmr : [Slots -> Object]]
  BY <1>5 DEF TimedList, DeltaList
<1>7. Store' = U /\ Store'.list = active' /\ Store'.tmr = timers'
  BY <1>4, <1>6, KeepIs
<1>8. ~ Contains(active', t) /\ timers'[t] = x
  <2>1. ~ Contains(active', t) /\ SameFields(U.tmr[t], x) /\ U.tmr[t].elapsed = x.elapsed
        /\ U.tmr[t].pending = x.pending /\ U.tmr[t] \in Object
    BY <1>3, <1>5, <1>6, <1>7 DEF Alike
  <2> QED BY <1>7, <2>1, SameObject
<1>9. ASSUME NEW u \in Slots, u # t
      PROVE  Alike(Store', Store, u)
  <2>1. Alike(U, S, u) /\ Alike(S, Store, u)
    BY <1>3, <1>5, <1>9
  <2> QED BY <1>7, <2>1 DEF Alike, SameFields
<1>10. due' = [due EXCEPT ![t] = x.pending] /\ x.pending \in Times /\ x.pending \in 1 .. Period
  BY <1>3, <1>4, SysTimeAssumption
<1>11. /\ due' \in [Slots -> Int] /\ due'[t] = x.pending
       /\ \A u \in Slots : u # t => due'[u] = due[u]
  BY <1>1, <1>10
<1>12. TimedList(U, due', 0)
  <2>1. \A u \in Slots : Contains(U.list, u) => due'[u] = due[u]
    BY <1>7, <1>8, <1>11
  <2> QED BY <1>5, <1>6, <1>11, <2>1, SameTimed DEF SameDue
<1>13. Elapsed' = 0 /\ previous' \in 0 .. Period /\ \A c : Away(c)' = Away(c)
  BY <1>1, <1>4, NowUpdated
<1>14. TypeOK' /\ TimedList(Store', due', Elapsed')
  <2>1. ScalarsOK'
    BY <1>1, <1>4, <1>13, Constants DEF ScalarsOK, CounterFacts
  <2> QED BY <1>7, <1>12, <1>13, <2>1, TypesNext
<1>15. CountsAddUp'
  <2>1. swCounter + lag + Elapsed \in {clock, clock + 2 * TurnCounts}
    BY DEF TimersInv, CountsAddUp
  <2>2. swCounter' + lag' + Elapsed' = swCounter + lag + Elapsed
    BY <1>1, <1>2, <1>4, <1>13 DEF ScalarsOK, CounterFacts
  <2> QED BY <1>4, <2>1, <2>2 DEF CountsAddUp
<1>16. UpdatedInTime'
  <2>1. Elapsed + Away(compare) <= HalfPeriod + 1 /\ Elapsed \in Nat /\ Away(compare) \in Int
    BY <1>1, <1>2, Constants DEF TimersInv, UpdatedInTime, CounterFacts, Away, ScalarsOK
  <2>2. Away(compare)' = Away(compare)
    BY <1>4, <1>13
  <2> QED BY <1>2, <1>4, <1>13, <2>1, <2>2, Constants DEF UpdatedInTime
<1>17. ~ InHandler'
  BY <1>4 DEF InHandler
<1>18. ObjectsAgree'
  <2> SUFFICES ASSUME NEW u \in Slots
               PROVE  ObjectAgrees(timers'[u], due'[u], Elapsed', InHandler')
    BY DEF ObjectsAgree
  <2>1. CASE u = t
    <3>1. ObjectAgrees(x, due'[t], Elapsed', InHandler')
      BY DEF ObjectAgrees
    <3> QED BY <1>8, <2>1, <3>1
  <2>2. CASE u # t
    <3>1. ObjectAgrees(timers[u], due'[u], Elapsed', InHandler') 
      <4>1. ObjectAgrees(timers[u], due[u], Elapsed, InHandler) /\ due'[u] = due[u]
        BY <1>1, <1>11, <2>2
      <4> QED BY <1>2, <4>1 DEF ObjectAgrees
    <3> QED BY <1>9, <1>14, <2>2, <3>1, AlikeAgrees
  <2> QED BY <2>1, <2>2
<1>19. ASSUME NEW u \in Slots, u # t
       PROVE  /\ SameFields(timers'[u], timers[u]) /\ timers'[u].elapsed = timers[u].elapsed
              /\ Contains(active', u) <=> Contains(active, u)
  BY <1>9, <1>19 DEF Alike, Store
<1>20. ListHoldsRunning'
  <2> SUFFICES ASSUME NEW u \in Slots
               PROVE  Contains(active', u) <=> timers'[u].inUse /\ timers'[u].active
                                      /\ ~ timers'[u].elapsed /\ ~ (at' = "TimerAdd" /\ who' = u)
    BY DEF ListHoldsRunning
  <2>1. CASE u = t
    BY <1>4, <1>8, <2>1
  <2>2. CASE u # t
    BY <1>2, <1>4, <1>19, <2>2 DEF TimersInv, ListHoldsRunning, SameFields
  <2> QED BY <2>1, <2>2
<1>21. AddUnderWay'
  BY <1>4, <1>8, <1>10, <1>11, <1>13, Constants DEF AddUnderWay
<1>22. NoneTooLate'
  <2>1. \A u \in Slots : Contains(active', u) => Contains(active, u) /\ due'[u] = due[u]
    BY <1>8, <1>11, <1>19
  <2>2. Away(compare)' = Away(compare)
    BY <1>4, <1>13
  <2> QED BY <1>2, <1>4, <1>17, <2>1, <2>2 DEF TimersInv, NoneTooLate
<1>23. Asked(t)
  BY <1>8, <1>9, <1>10 DEF Asked
<1> QED BY <1>4, <1>8, <1>14, <1>15, <1>16, <1>18, <1>20, <1>21, <1>22, <1>23
        DEF TimersInv

\* A task starts a timer.
LEMMA StartKeeps ==
    ASSUME TimersInv, NEW t \in Slots, TimerStart(t)
    PROVE  /\ TimersInv' /\ Asked(t) /\ at' = "TimerAdd" /\ who' = t
           /\ ~ InHandler /\ at = "Tasks"
<1>1. /\ FromTask /\ timers[t].inUse /\ ~ timers[t].active
      /\ TimerAddBegin(Started(Store, t), t)
  BY DEF TimerStart
<1>2. ~ timers[t].elapsed /\ ~ InHandler /\ at = "Tasks"
  BY <1>1, TasksFacts DEF FromTask
<1>3. PICK x \in Object : /\ Started(Store, t) = Changed(Store, t, x)
                          /\ x.inUse /\ ~ x.active /\ x.type = timers[t].type
                          /\ x.requested \in Times /\ x.pending = x.requested
                          /\ x.elapsed = timers[t].elapsed
  BY <1>1, StartedIs
<1>4. TimerAddBegin(Changed(Store, t, x), t)
  BY <1>1, <1>3
<1> QED BY <1>1, <1>2, <1>3, <1>4, AddBeginKeeps

\* A task gives a timer, running or not, a new time.
LEMMA ReloadKeeps ==
    ASSUME TimersInv, NEW t \in Slots, NEW type \in Types, NEW period \in Times,
           TimerReload(t, type, period)
    PROVE  /\ TimersInv' /\ Asked(t) /\ at' = "TimerAdd" /\ who' = t
           /\ ~ InHandler /\ at = "Tasks"
<1>1. /\ FromTask /\ timers[t].inUse
      /\ TimerAddBegin(Reloaded(Store, t, type, period), t)
  BY DEF TimerReload
<1>2. ~ InHandler /\ at = "Tasks"
  BY <1>1, TasksFacts DEF FromTask
<1>3. PICK x \in Object : /\ Reloaded(Store, t, type, period) = Changed(Store, t, x)
                          /\ x.inUse /\ x.type = type /\ ~ x.elapsed /\ ~ x.flag
                          /\ x.requested = period /\ x.pending = period
                          /\ x.active = timers[t].active
  BY <1>1, ReloadedIs
<1>4. TimerAddBegin(Changed(Store, t, x), t)
  BY <1>1, <1>3
<1> QED BY <1>1, <1>2, <1>3, <1>4, AddBeginKeeps

\* A callback adds a timer. Its time counts from the interrupt.
LEMMA AddInHandlerKeeps ==
    ASSUME TimersInv, at = "Callback", NEW t \in Slots, NEW x \in Object,
           AddFromCallback(Changed(Store, t, x), t),
           x.inUse, x.requested \in Times, x.pending = x.requested
    PROVE  /\ TimersInv' /\ timers'[t].active
           /\ timers'[t].requested \in Times
           /\ due' = [due EXCEPT ![t] = timers'[t].requested - Elapsed]
           /\ \A u \in Slots : u # t => Alike(Store', Store, u)
<1> DEFINE S == Changed(Store, t, x)
           A == AddToList(S, t)
           Q == Activated(A, t)
<1>1. /\ TimedList(Store, due, Elapsed) /\ ScalarsOK /\ Clocks /\ CounterFacts
      /\ due \in [Slots -> Int]
      /\ \A u \in Slots : ObjectAgrees(timers[u], due[u], Elapsed, InHandler)
  BY InvFacts
<1>2. /\ Keep(Q) /\ at' = "Notify" /\ who' = 0
      /\ due' = [due EXCEPT ![t] = S.tmr[t].pending - Elapsed]
      /\ UNCHANGED <<hardware, previous, swCounter, lag, stall>>
      /\ clock' = clock /\ compare' = compare /\ irq' = irq
  BY DEF AddFromCallback, Elapsed, hardware
<1>3. /\ TimedList(S, due, Elapsed) /\ ~ Contains(S.list, t) /\ S.tmr[t] = x
      /\ S \in [list : Seq(Slots), tmr : [Slots -> Object]]
      /\ \A u \in Slots : u # t => Alike(S, Store, u)
  BY <1>1, ChangedTimed
<1> HIDE DEF S
<1>4. /\ x.pending \in Times /\ x.pending \in 1 .. Period
      /\ due' = [due EXCEPT ![t] = x.pending - Elapsed] /\ Elapsed \in 0 .. Period
  BY <1>1, <1>2, <1>3, SysTimeAssumption DEF CounterFacts
<1>5. /\ due' \in [Slots -> Int] /\ due'[t] = x.pending - Elapsed
      /\ \A u \in Slots : u # t => due'[u] = due[u]
  BY <1>1, <1>4, Constants
<1>6. TimedList(S, due', Elapsed)
  <2>1. \A u \in Slots : Contains(S.list, u) => due'[u] = due[u]
    BY <1>3, <1>5
  <2> QED BY <1>3, <1>5, <2>1, SameTimed DEF SameDue
<1>7. TimedList(Q, due', Elapsed) /\ NowRuns(Q, A, S, t)
  <2>1. A = AddToList(S, t) /\ Q = Activated(A, t)
    OBVIOUS
  <2>2. TimedList(S, due', Elapsed) /\ ~ Contains(S.list, t) /\ due'[t] = S.tmr[t].pending - Elapsed
    BY <1>3, <1>5, <1>6
  <2> HIDE DEF A, Q
  <2> QED BY <2>1, <2>2, ActivatedTimed
<1> HIDE DEF Q
<1>8. Q \in [list : Seq(Slots), tmr : [Slots -> Object]]
  BY <1>7 DEF TimedList, DeltaList
<1>9. Store' = Q /\ Store'.list = active' /\ Store'.tmr = timers'
  BY <1>2, <1>8, KeepIs
<1>10. /\ Elapsed' = Elapsed /\ \A c : Away(c)' = Away(c)
       /\ InHandler /\ InHandler'
  BY <1>2, SameClock DEF InHandler
<1>11. TypeOK' /\ TimedList(Store', due', Elapsed')
  <2>1. ScalarsOK'
    BY <1>1, <1>2, SysTimeAssumption DEF ScalarsOK, Slots
  <2> QED BY <1>7, <1>9, <1>10, <2>1, TypesNext
<1>12. CountsAddUp' /\ UpdatedInTime' /\ AddUnderWay'
  BY <1>2, <1>10 DEF TimersInv, CountsAddUp, UpdatedInTime, AddUnderWay
<1>13. ASSUME NEW u \in Slots, u # t
       PROVE  Alike(Store', Store, u)
  <2>1. Alike(Q, S, u) /\ Alike(S, Store, u)
    BY <1>3, <1>7, <1>13 DEF NowRuns
  <2> QED BY <1>9, <2>1 DEF Alike, SameFields
<1>14. LET r == timers'[t]
       IN  /\ r.inUse /\ r.type = x.type /\ r.requested \in Times /\ r.requested = x.pending
           /\ r.active /\ ~ r.flag /\ ~ r.elapsed
  BY <1>3, <1>7, <1>9 DEF NowRuns
<1>15. ObjectsAgree'
  <2> SUFFICES ASSUME NEW u \in Slots
               PROVE  ObjectAgrees(timers'[u], due'[u], Elapsed, InHandler)
    BY <1>10 DEF ObjectsAgree, InHandler
  <2>1. CASE u = t
    BY <1>14, <2>1 DEF ObjectAgrees
  <2>2. CASE u # t
    BY <1>1, <1>5, <1>11, <1>13, <2>2, AlikeAgrees
  <2> QED BY <2>1, <2>2
<1>16. ASSUME NEW u \in Slots, u # t
       PROVE  /\ SameFields(timers'[u], timers[u]) /\ timers'[u].elapsed = timers[u].elapsed
              /\ Contains(active', u) <=> Contains(active, u)
  BY <1>13, <1>16 DEF Alike, Store
<1>17. ListHoldsRunning'
  <2> SUFFICES ASSUME NEW u \in Slots
               PROVE  Contains(active', u) <=> timers'[u].inUse /\ timers'[u].active
                                               /\ ~ timers'[u].elapsed
    BY <1>2 DEF ListHoldsRunning
  <2>1. CASE u = t
    BY <1>7, <1>9, <1>14, <2>1 DEF NowRuns
  <2>2. CASE u # t
    BY <1>16, <2>2 DEF TimersInv, ListHoldsRunning, SameFields
  <2> QED BY <2>1, <2>2
<1>18. NoneTooLate'
  <2>1. Elapsed = stall /\ stall \in 0 .. Latency
    BY <1>1 DEF TimersInv, UpdatedInTime, ScalarsOK
  <2>2. ASSUME NEW u \in Slots, timers'[u].active
        PROVE  due'[u] >= -Margin - 3 * Latency - stall
    <3>1. CASE u = t
      BY <1>4, <1>5, <2>1, <3>1, Constants
    <3>2. CASE u # t
      <4>1. timers[u].active /\ due'[u] = due[u]
        BY <1>5, <1>16, <2>2, <3>2 DEF SameFields
      <4> QED BY <1>10, <4>1 DEF TimersInv, NoneTooLate
    <3> QED BY <3>1, <3>2
  <2> QED BY <1>2, <2>2 DEF NoneTooLate, InHandler
<1>19. due' = [due EXCEPT ![t] = timers'[t].requested - Elapsed]
  BY <1>4, <1>14
<1> QED BY <1>11, <1>12, <1>13, <1>14, <1>15, <1>17, <1>18, <1>19 DEF TimersInv

\* A callback starts a timer or gives it a new time.
LEMMA CallbackAddsKeeps ==
    ASSUME TimersInv, NEW t \in Slots,
           \/ CallbackStarts(t)
           \/ \E type \in Types, period \in Times : CallbackReloads(t, type, period)
    PROVE  /\ TimersInv' /\ at = "Callback" /\ at' = "Notify" /\ timers'[t].active
           /\ timers'[t].requested \in Times
           /\ due' = [due EXCEPT ![t] = timers'[t].requested - Elapsed]
           /\ \A u \in Slots : u # t => Alike(Store', Store, u)
<1>1. at = "Callback" /\ at' = "Notify" /\ timers[t].inUse
  BY DEF CallbackStarts, CallbackReloads, AddFromCallback
<1>2. \E x \in Object : /\ AddFromCallback(Changed(Store, t, x), t)
                        /\ x.inUse /\ x.requested \in Times /\ x.pending = x.requested
  <2>1. CASE CallbackStarts(t)
    <3>1. ~ timers[t].active /\ AddFromCallback(Started(Store, t), t)
      BY <2>1 DEF CallbackStarts
    <3>2. PICK x \in Object : /\ Started(Store, t) = Changed(Store, t, x)
                              /\ x.inUse /\ x.requested \in Times /\ x.pending = x.requested
      BY <1>1, <3>1, StartedIs
    <3> QED BY <3>1, <3>2
  <2>2. ASSUME NEW type \in Types, NEW period \in Times, CallbackReloads(t, type, period)
        PROVE  \E x \in Object :
                  /\ AddFromCallback(Changed(Store, t, x), t)
                  /\ x.inUse /\ x.requested \in Times /\ x.pending = x.requested
    <3>1. AddFromCallback(Reloaded(Store, t, type, period), t)
      BY <2>2 DEF CallbackReloads
    <3>2. PICK x \in Object : /\ Reloaded(Store, t, type, period) = Changed(Store, t, x)
                              /\ x.inUse /\ x.requested = period /\ x.pending = period
      BY <1>1, ReloadedIs
    <3> QED BY <3>1, <3>2
  <2> QED BY <2>1, <2>2
<1>3. PICK x \in Object : /\ AddFromCallback(Changed(Store, t, x), t)
                          /\ x.inUse /\ x.requested \in Times /\ x.pending = x.requested
  BY <1>2
<1> QED BY <1>1, <1>3, AddInHandlerKeeps

-----------------------------------------------------------------------------
(* The compare register is written, the interrupt is taken, a count passes   *)

\* With c in the compare register the list is looked at within half a turn of its
\* update, and no timer of it is later by then than the margin.
ServedAt(S, c) ==
    /\ c \in 1 .. Period /\ Away(c) \in 1 .. TurnCounts
    /\ Elapsed + Away(c) <= HalfPeriod + 1
    /\ \A u \in Slots : Contains(S.list, u) => /\ due[u] >= Away(c) - Margin - Latency
                                               /\ due[u] >= 1 - Latency

\* The value that HwTimerCompareUpdate writes serves a list whose head is not at its time.
LEMMA CompareServes ==
    ASSUME Clocks, stall \in 0 .. Latency, Elapsed = stall,
           NEW S, TimedList(S, due, Elapsed),
           S.list # <<>> => S.tmr[Head(S.list)].pending > 0,
           NEW now \in ReadBefore, NEW c, c = HwTimerCompareUpdate(S, previous, now)
    PROVE  ServedAt(S, c)
<1>1. DeltaList(S)
  BY DEF TimedList
<1>2. /\ c \in 1 .. Period
      /\ Elapsed + Away(c) <= HalfPeriod + 1
      /\ S.list # <<>> => \/ Away(c) <= Margin + 1
                          \/ Away(c) <= S.tmr[Head(S.list)].pending - Elapsed + 1
  BY <1>1, CompareIs
<1>3. Away(c) \in 1 .. TurnCounts
  BY <1>2, CounterIs, Constants DEF CounterFacts, Away
<1>4. ASSUME NEW u \in Slots, Contains(S.list, u)
      PROVE  due[u] >= Away(c) - Margin - Latency /\ due[u] >= 1 - Latency
  <2>1. S.list # <<>>
    BY <1>4 DEF Contains
  <2> DEFINE h == Head(S.list)
  <2>2. /\ h \in Slots /\ S.tmr[h].pending > 0
        /\ due[h] = S.tmr[h].pending - Elapsed
        /\ due[h] <= due[u]
    BY <1>4, <2>1, HeadTimed
  <2>3. due[h] \in Int /\ due[u] \in Int /\ S.tmr[h].pending \in 0 .. Period
    BY <1>1, <2>2, Entries DEF TimedList
  <2>4. Away(c) <= Margin + 1 \/ Away(c) <= S.tmr[h].pending - Elapsed + 1
    BY <1>2, <2>1
  <2> HIDE DEF h
  <2>5. Away(c) <= Margin + 1 \/ Away(c) <= due[h] + 1
    BY <2>2, <2>3, <2>4
  <2>6. due[h] >= 1 - Latency
    BY <2>2, <2>3, Constants
  <2>7. due[u] >= 1 - Latency
    BY <2>2, <2>3, <2>6, Constants
  <2>8. /\ Away(c) \in Int /\ Margin \in Int /\ Latency \in Int /\ Margin >= 2 /\ Latency >= 0
        /\ due[h] <= due[u] /\ due[h] \in Int /\ due[u] \in Int
    BY <1>3, <2>2, <2>3, Constants
  <2>9. due[u] >= Away(c) - Margin - Latency
    BY <2>5, <2>7, <2>8
  <2> QED BY <2>7, <2>9
<1> QED BY <1>2, <1>3, <1>4 DEF ServedAt

\* The second half of a TimerAdd.
LEMMA AddEndKeeps ==
    ASSUME TimersInv, TimerAddEnd
    PROVE  /\ TimersInv' /\ at = "TimerAdd" /\ at' = "Tasks" /\ timers'[who].active
           /\ timers'[who].type = timers[who].type
           /\ timers'[who].requested = timers[who].requested
           /\ \A u \in Slots : u # who => Alike(Store', Store, u)
<1> DEFINE A == AddToList(Store, who)
           Q == Activated(A, who)
<1>1. /\ TimedList(Store, due, Elapsed) /\ ScalarsOK /\ Clocks /\ CounterFacts
      /\ Store.list = active /\ Store.tmr = timers
      /\ \A u \in Slots : due[u] \in Int
      /\ \A u \in Slots : ObjectAgrees(timers[u], due[u], Elapsed, InHandler)
  BY InvFacts
<1>2. /\ at = "TimerAdd" /\ Keep(Q)
      /\ Head(A.list) = who => \E now \in ReadBefore : compare' = HwTimerCompareUpdate(A, previous, now)
      /\ Head(A.list) # who => compare' = compare
      /\ swCounter' = (swCounter + lag) % (2 * TurnCounts)
      /\ at' = "Tasks" /\ lag' = 0 /\ stall' = 0 /\ who' = 0
      /\ UNCHANGED <<clock, irq, previous, due>>
  BY DEF TimerAddEnd
<1>3. /\ who \in Slots /\ ~ Contains(active, who) /\ timers[who].inUse
      /\ timers[who].pending \in Times /\ timers[who].pending \in 1 .. Period
      /\ due[who] = timers[who].pending - Elapsed
      /\ Elapsed = stall /\ stall \in 0 .. Latency /\ ~ InHandler
  BY <1>1, <1>2, SysTimeAssumption, ListedRuns
     DEF TimersInv, AddUnderWay, ScalarsOK, UpdatedInTime, InHandler
<1>4. TimedList(Q, due, Elapsed) /\ TimedList(A, due, Elapsed) /\ NowRuns(Q, A, Store, who)
  <2>1. A = AddToList(Store, who) /\ Q = Activated(A, who)
    OBVIOUS
  <2>2. ~ Contains(Store.list, who) /\ due[who] = Store.tmr[who].pending - Elapsed
    BY <1>1, <1>3
  <2> HIDE DEF A, Q
  <2> QED BY <1>1, <1>3, <2>1, <2>2, ActivatedTimed
<1> HIDE DEF A, Q
<1>5. Q \in [list : Seq(Slots), tmr : [Slots -> Object]]
  BY <1>4 DEF TimedList, DeltaList
<1>6. Store' = Q /\ Store'.list = active' /\ Store'.tmr = timers'
  BY <1>2, <1>5, KeepIs
<1>7. Elapsed' = Elapsed /\ \A c : Away(c)' = Away(c)
  BY <1>2, SameClock
<1>8. ASSUME NEW u \in Slots, u # who
      PROVE  /\ Alike(Store', Store, u)
             /\ SameFields(timers'[u], timers[u]) /\ timers'[u].elapsed = timers[u].elapsed
             /\ Contains(active', u) <=> Contains(active, u)
  BY <1>1, <1>4, <1>6, <1>8 DEF NowRuns, Alike
<1>9. /\ Contains(active', who) /\ timers'[who].inUse /\ timers'[who].active
      /\ ~ timers'[who].flag /\ ~ timers'[who].elapsed
      /\ timers'[who].type = timers[who].type
      /\ timers'[who].requested = timers[who].requested
  BY <1>1, <1>3, <1>4, <1>6 DEF NowRuns
\* Whichever value the register has now, it serves the new list.
<1>10. ASSUME Head(A.list) = who
       PROVE  ServedAt(A, compare')
  <2>1. PICK now \in ReadBefore : compare' = HwTimerCompareUpdate(A, previous, now)
    BY <1>2, <1>10
  <2>2. A.list # <<>> => A.tmr[Head(A.list)].pending > 0
    BY <1>1, <1>3, <1>4, <1>10 DEF NowRuns
  <2>3. ServedAt(A, compare')
    BY <1>1, <1>3, <1>4, <2>1, <2>2, CompareServes
  <2> QED BY <2>3
<1>11. A.list = active'
  BY <1>4, <1>6 DEF NowRuns
<1>12. ASSUME Head(A.list) # who
       PROVE  \E h \in Slots : h # who /\ Contains(active, h) /\ due[h] <= due[who]
  <2> DEFINE h == Head(A.list)
  <2>1. h \in Slots /\ Contains(A.list, h) /\ \A u \in Slots : Contains(A.list, u) => due[h] <= due[u]
    BY <1>4, HeadTimed DEF NowRuns
  <2> QED BY <1>3, <1>8, <1>9, <1>11, <1>12, <2>1
<1>13. /\ compare' \in 1 .. Period
       /\ ~ irq => Elapsed + Away(compare') <= HalfPeriod + 1
       /\ ~ irq => \A u \in Slots : Contains(active', u) => due[u] >= Away(compare') - Margin - Latency
       /\ irq => \A u \in Slots : Contains(active', u) => due[u] >= -Margin - 2 * Latency
  <2>1. CASE Head(A.list) = who
    <3>1. ServedAt(A, compare')
      BY <2>1, <1>10
    <3>2. \A u \in Slots : Contains(active', u) => due[u] >= -Margin - 2 * Latency
      BY <1>1, <1>11, <3>1, Constants DEF ServedAt
    <3> QED BY <1>11, <3>1, <3>2 DEF ServedAt
  <2>2. CASE Head(A.list) # who
    <3>1. PICK h \in Slots : h # who /\ Contains(active, h) /\ due[h] <= due[who]
      BY <1>12, <2>2
    <3>2. \A u \in Slots : Contains(active', u) => Contains(active, u) \/ u = who
      BY <1>8
    <3>3. compare' = compare
      BY <1>2, <2>2
    <3>4. /\ compare \in 1 .. Period
          /\ ~ irq => Elapsed + Away(compare) <= HalfPeriod + 1
          /\ ~ irq => \A u \in Slots : Contains(active, u) => due[u] >= Away(compare) - Margin - Latency
          /\ irq => \A u \in Slots : Contains(active, u) => due[u] >= -Margin - Latency - stall
      BY <1>1, <1>2 DEF TimersInv, NoneTooLate, UpdatedInTime, ScalarsOK
    <3>5. Away(compare) \in Int
      BY <1>1, <3>4, Constants DEF Away, CounterFacts
    <3>6. ~ irq => due[who] >= Away(compare) - Margin - Latency
      BY <1>1, <1>3, <3>1, <3>4, <3>5, Constants
    <3>7. irq => \A u \in Slots : Contains(active, u) => due[u] >= -Margin - 2 * Latency
      BY <1>1, <1>3, <3>4, Constants
    <3>8. irq => due[who] >= -Margin - 2 * Latency
      BY <1>1, <1>3, <3>1, <3>7, Constants
    <3> QED BY <3>2, <3>3, <3>4, <3>6, <3>7, <3>8
  <2> QED BY <2>1, <2>2
<1>14. swCounter' + Elapsed \in {clock, clock + 2 * TurnCounts}
  <2> DEFINE d == 2 * TurnCounts
             n == swCounter + lag
  <2>1. n + Elapsed \in {clock, clock + d} /\ n \in 0 .. 2 * d - 1 /\ d \in Nat \ {0}
        /\ n \in -d .. 2 * d - 1 /\ clock \in 0 .. d - 1 /\ Elapsed \in Nat
    BY <1>1, Constants DEF TimersInv, CountsAddUp, ScalarsOK, CounterFacts
  <2>2. n % d = IF n < 0 THEN n + d ELSE IF n < d THEN n ELSE n - d
    <3> HIDE DEF d, n
    <3> QED BY <2>1, Remainder
  <2>3. swCounter' = n % d
    BY <1>2
  <2> HIDE DEF d, n
  <2>4. swCounter' + Elapsed \in {clock, clock + d}
    BY <2>1, <2>2, <2>3
  <2> QED BY <2>4 DEF d
<1>15. swCounter' \in 0 .. 2 * TurnCounts - 1
  <2>1. 2 * TurnCounts \in Nat \ {0} /\ swCounter + lag \in Int
    BY <1>1, Constants DEF ScalarsOK
  <2> QED BY <1>2, <2>1
<1>16. TypeOK' /\ TimedList(Store', due', Elapsed')
  <2>1. ScalarsOK'
    BY <1>1, <1>2, <1>13, <1>15, SysTimeAssumption, Constants DEF ScalarsOK, Slots
  <2> QED BY <1>2, <1>4, <1>6, <1>7, <2>1, TypesNext
<1>17. CountsAddUp' /\ AddUnderWay'
  <2>1. swCounter' + lag' + Elapsed' = swCounter' + Elapsed
    BY <1>1, <1>2, <1>7, <1>15, Constants DEF CounterFacts
  <2> QED BY <1>2, <1>14, <2>1 DEF CountsAddUp, AddUnderWay
<1>18. Away(compare)' = Away(compare') /\ irq' = irq /\ due' = due /\ ~ InHandler'
  BY <1>2 DEF Away, Counter, InHandler
<1>19. UpdatedInTime'
  <2>1. irq => Elapsed <= HalfPeriod + 1 + 0
    BY <1>3, Constants
  <2> QED BY <1>2, <1>7, <1>13, <1>18, <2>1 DEF UpdatedInTime
<1>20. ObjectsAgree'
  <2> SUFFICES ASSUME NEW u \in Slots
               PROVE  ObjectAgrees(timers'[u], due'[u], Elapsed', InHandler')
    BY DEF ObjectsAgree
  <2>1. ObjectAgrees(timers[u], due'[u], Elapsed', InHandler')
    <3>1. ObjectAgrees(timers[u], due[u], Elapsed, InHandler)
      BY <1>1
    <3> QED BY <1>3, <1>7, <1>18, <3>1 DEF ObjectAgrees
  <2>2. CASE u = who
    <3>1. timers[who].requested \in Times
      BY <1>1, <1>3 DEF ObjectAgrees
    <3> QED BY <1>9, <2>2, <3>1 DEF ObjectAgrees
  <2>3. CASE u # who
    BY <1>8, <1>16, <2>1, <2>3, AlikeAgrees
  <2> QED BY <2>2, <2>3
<1>21. ListHoldsRunning'
  <2> SUFFICES ASSUME NEW u \in Slots
               PROVE  Contains(active', u) <=> timers'[u].inUse /\ timers'[u].active
                                               /\ ~ timers'[u].elapsed
    BY <1>2 DEF ListHoldsRunning
  <2>1. CASE u = who
    BY <1>9, <2>1
  <2>2. CASE u # who
    BY <1>8, <2>2 DEF TimersInv, ListHoldsRunning, SameFields
  <2> QED BY <2>1, <2>2
<1>22. NoneTooLate'
  <2>1. irq => \A u \in Slots : Contains(active', u) => due[u] >= -Margin - 2 * Latency - 0
    BY <1>13, Constants
  <2> QED BY <1>2, <1>13, <1>18, <2>1 DEF NoneTooLate
<1> QED BY <1>2, <1>8, <1>9, <1>16, <1>17, <1>19, <1>20, <1>21, <1>22 DEF TimersInv

\* The interrupt is taken: the software count catches up and the list is brought up to
\* date.
LEMMA InterruptKeeps ==
    ASSUME TimersInv, InterruptTaken
    PROVE  /\ TimersInv' /\ at = "Tasks" /\ at' = "Notify" /\ due' = due
           /\ \A u \in Slots : Alike(Store', Store, u)
<1> DEFINE U == UpdateTimerList(Store, Elapsed)
<1>1. /\ TimedList(Store, due, Elapsed) /\ ScalarsOK /\ Clocks /\ CounterFacts
      /\ \A u \in Slots : due[u] \in Int
      /\ \A u \in Slots : ObjectAgrees(timers[u], due[u], Elapsed, InHandler)
  BY InvFacts
<1>2. /\ at = "Tasks" /\ irq /\ irq' = FALSE /\ Keep(U) /\ previous' = Counter
      /\ swCounter' = (swCounter + Elapsed) % (2 * TurnCounts)
      /\ at' = "Notify" /\ stall' = 0
      /\ clock' = clock /\ compare' = compare /\ lag' = lag /\ who' = who /\ due' = due
  BY DEF InterruptTaken, Elapsed
<1>3. lag = 0 /\ lag' = 0 /\ InHandler' /\ ~ InHandler
  BY <1>2 DEF TimersInv, UpdatedInTime, InHandler
<1>4. TimedList(U, due, 0) /\ \A u \in Slots : Alike(U, Store, u)
  BY <1>1, UpdateAlike
<1> HIDE DEF U
<1>5. U \in [list : Seq(Slots), tmr : [Slots -> Object]]
  BY <1>4 DEF TimedList, DeltaList
<1>6. Store' = U /\ Store'.list = active' /\ Store'.tmr = timers'
  BY <1>2, <1>5, KeepIs
<1>7. Elapsed' = 0 /\ previous' \in 0 .. Period
  BY <1>1, <1>2, NowUpdated
<1>8. swCounter' = clock
  <2> DEFINE d == 2 * TurnCounts
             n == swCounter + Elapsed
  <2>1. n \in {clock, clock + d} /\ d \in Nat \ {0}
        /\ n \in -d .. 2 * d - 1 /\ clock \in 0 .. d - 1
    BY <1>1, <1>3, Constants DEF TimersInv, CountsAddUp, ScalarsOK, CounterFacts
  <2>2. n % d = IF n < 0 THEN n + d ELSE IF n < d THEN n ELSE n - d
    <3> HIDE DEF d, n
    <3> QED BY <2>1, Remainder
  <2>3. swCounter' = n % d
    BY <1>2
  <2> HIDE DEF d, n
  <2> QED BY <2>1, <2>2, <2>3
<1>9. TypeOK' /\ TimedList(Store', due', Elapsed')
  <2>1. ScalarsOK'
    <3>1. /\ lag' = 0 /\ stall' = 0 /\ irq' = FALSE
          /\ clock' = clock /\ compare' = compare /\ who' = who /\ at' = "Notify"
      BY <1>2, <1>3
    <3>2. 0 \in 0 .. Period /\ 0 \in 0 .. Latency
      BY Constants
    <3> QED BY <1>1, <1>7, <1>8, <3>1, <3>2 DEF ScalarsOK
  <2> QED BY <1>2, <1>4, <1>6, <1>7, <2>1, TypesNext
<1>10. CountsAddUp' /\ UpdatedInTime' /\ AddUnderWay'
  <2>1. clock \in Nat
    BY <1>1, Constants DEF ScalarsOK
  <2> QED BY <1>2, <1>3, <1>7, <1>8, <2>1 DEF CountsAddUp, UpdatedInTime, AddUnderWay
<1>11. ASSUME NEW u \in Slots
       PROVE  /\ Alike(Store', Store, u)
              /\ SameFields(timers'[u], timers[u]) /\ timers'[u].elapsed = timers[u].elapsed
              /\ Contains(active', u) <=> Contains(active, u)
  BY <1>4, <1>6 DEF Alike, Store
<1>12. ObjectsAgree'
  <2> SUFFICES ASSUME NEW u \in Slots
               PROVE  ObjectAgrees(timers'[u], due'[u], Elapsed', InHandler')
    BY DEF ObjectsAgree
  <2>1. ObjectAgrees(timers[u], due'[u], Elapsed', InHandler')
    <3>1. ObjectAgrees(timers[u], due[u], Elapsed, InHandler)
      BY <1>1
    <3> QED BY <1>3, <3>1 DEF ObjectAgrees
  <2> QED BY <1>9, <1>11, <2>1, AlikeAgrees
<1>13. ListHoldsRunning'
  BY <1>2, <1>11 DEF TimersInv, ListHoldsRunning, SameFields
<1>14. NoneTooLate'
  <2> SUFFICES ASSUME NEW u \in Slots, timers'[u].active
               PROVE  due[u] >= -Margin - 3 * Latency - 0
    BY <1>2 DEF NoneTooLate
  <2>1. timers[u].active /\ ~ timers[u].elapsed /\ timers[u].inUse
    <3>1. timers[u].active
      BY <1>11 DEF SameFields
    <3>2. ObjectAgrees(timers[u], due[u], Elapsed, InHandler)
      BY <1>1
    <3> QED BY <1>3, <3>1, <3>2 DEF ObjectAgrees, Unused
  <2>2. Contains(active, u)
    BY <1>2, <2>1 DEF TimersInv, ListHoldsRunning
  <2>3. due[u] >= -Margin - 2 * Latency - stall
    BY <1>2, <2>2 DEF TimersInv, NoneTooLate
  <2> QED BY <1>1, <2>3, Constants DEF ScalarsOK
<1> QED BY <1>2, <1>9, <1>10, <1>11, <1>12, <1>13, <1>14 DEF TimersInv

\* The handler is done: what waited for its period is in the list again, and the
\* compare register is written.
LEMMA InterruptDoneKeeps ==
    ASSUME TimersInv, InterruptDone
    PROVE  /\ TimersInv' /\ at = "Notify" /\ at' = "Tasks" /\ due' = due
           /\ \A u \in Slots : SameFields(timers'[u], timers[u])
<1> DEFINE P == Readd(Store)
<1>1. /\ TimedList(Store, due, Elapsed) /\ ScalarsOK /\ Clocks /\ CounterFacts
      /\ Store.list = active /\ Store.tmr = timers
      /\ \A u \in Slots : due[u] \in Int /\ timers[u] \in Object
      /\ \A u \in Slots : ObjectAgrees(timers[u], due[u], Elapsed, InHandler)
  BY InvFacts
<1>2. /\ at = "Notify" /\ ~ HeadExpired /\ Keep(P)
      /\ \E now \in ReadBefore : compare' = HwTimerCompareUpdate(P, previous, now)
      /\ at' = "Tasks" /\ stall' = 0 /\ who' = 0
      /\ clock' = clock /\ irq' = irq /\ previous' = previous /\ swCounter' = swCounter
      /\ lag' = lag /\ due' = due
  BY DEF InterruptDone
<1>3. InHandler /\ ~ InHandler' /\ lag = 0 /\ Elapsed = stall /\ stall \in 0 .. Latency
  BY <1>1, <1>2 DEF TimersInv, UpdatedInTime, InHandler, ScalarsOK
<1>4. NoneExpired(Store)
  <2>1. CASE active = <<>>
    BY <1>1, <2>1 DEF NoneExpired
  <2>2. CASE active # <<>>
    <3>1. /\ Head(active) \in Slots
          /\ NoneExpired(Store) <=> timers[Head(active)].pending > 0
      BY <1>1, <2>2, HeadTimed
    <3>2. timers[Head(active)].pending # 0 /\ timers[Head(active)].pending \in 0 .. Period
      BY <1>1, <1>2, <2>2, <3>1 DEF HeadExpired, Object
    <3> QED BY <3>1, <3>2, Constants
  <2> QED BY <2>1, <2>2
<1>5. ASSUME NEW u \in Slots, Waits(Store, u)
      PROVE  /\ ~ Contains(Store.list, u)
             /\ Store.tmr[u].requested > 0
             /\ due[u] = Store.tmr[u].requested - Elapsed
             /\ timers[u].inUse /\ timers[u].active
  <2>1. timers[u].elapsed /\ timers[u].type = "PERIODIC"
    BY <1>1, <1>5 DEF Waits
  <2>2. /\ timers[u].inUse /\ timers[u].active /\ timers[u].requested \in Times
        /\ due[u] = timers[u].requested - Elapsed
    <3>1. ObjectAgrees(timers[u], due[u], Elapsed, InHandler)
      BY <1>1
    <3> QED BY <2>1, <3>1 DEF ObjectAgrees
  <2>3. timers[u].requested > 0
    <3>1. timers[u].requested \in 1 .. Period
      BY <2>2, SysTimeAssumption
    <3> QED BY <3>1
  <2>4. ~ Contains(active, u)
    BY <2>1, ListedRuns
  <2> QED BY <1>1, <2>2, <2>3, <2>4
<1>6. LoopInv(Store, due, Elapsed, MaxTimers, P)
  BY <1>1, <1>4, <1>5, ReaddTimed
<1> HIDE DEF P
<1>7. /\ TimedList(P, due, Elapsed) /\ NoneExpired(P)
      /\ P \in [list : Seq(Slots), tmr : [Slots -> Object]]
  BY <1>6 DEF LoopInv, TimedList, DeltaList
<1>8. Store' = P /\ Store'.list = active' /\ Store'.tmr = timers'
  BY <1>2, <1>7, KeepIs
<1>9. ASSUME NEW u \in Slots
      PROVE  /\ Contains(active', u) <=> Contains(active, u) \/ Waits(Store, u)
             /\ SameFields(timers'[u], timers[u]) /\ ~ timers'[u].elapsed
             /\ ~ Contains(active', u) => timers'[u].pending = timers[u].pending
             /\ timers'[u] \in Object
  <2>1. u < MaxTimers /\ ~ (u >= MaxTimers)
    BY SysTimeAssumption DEF Slots
  <2> QED BY <1>1, <1>6, <1>7, <1>8, <2>1 DEF LoopInv
<1>10. Elapsed' = Elapsed /\ \A c : Away(c)' = Away(c)
  BY <1>2, SameClock
<1>11. ServedAt(P, compare')
  <2>1. PICK now \in ReadBefore : compare' = HwTimerCompareUpdate(P, previous, now)
    BY <1>2
  <2>2. P.list # <<>> => P.tmr[Head(P.list)].pending > 0
    BY <1>7, HeadTimed
  <2> QED BY <1>1, <1>3, <1>7, <2>1, <2>2, CompareServes
<1>12. TypeOK' /\ TimedList(Store', due', Elapsed')
  <2>1. ScalarsOK'
    BY <1>1, <1>2, <1>11, SysTimeAssumption, Constants DEF ScalarsOK, Slots, ServedAt
  <2> QED BY <1>2, <1>7, <1>8, <1>10, <2>1, TypesNext
<1>13. Away(compare)' = Away(compare')
  BY <1>2 DEF Away, Counter
<1>14. CountsAddUp' /\ AddUnderWay'
  BY <1>2, <1>10 DEF TimersInv, CountsAddUp, AddUnderWay
<1>15. UpdatedInTime'
  <2>1. irq => Elapsed <= HalfPeriod + 1 + 0
    BY <1>3, Constants
  <2> QED BY <1>2, <1>3, <1>10, <1>11, <1>13, <2>1 DEF UpdatedInTime, ServedAt
<1>16. ASSUME NEW u \in Slots
       PROVE  Contains(active', u) <=> timers[u].inUse /\ timers[u].active
  <2>1. ObjectAgrees(timers[u], due[u], Elapsed, InHandler)
    BY <1>1
  <2>2. Contains(active, u) <=> timers[u].inUse /\ timers[u].active /\ ~ timers[u].elapsed
    BY <1>2 DEF TimersInv, ListHoldsRunning
  <2>3. Waits(Store, u) <=> timers[u].inUse /\ timers[u].active /\ timers[u].elapsed
    BY <1>1, <1>5, <2>1 DEF Waits, ObjectAgrees
  <2> QED BY <1>9, <2>2, <2>3
<1>17. ListHoldsRunning'
  <2> SUFFICES ASSUME NEW u \in Slots
               PROVE  Contains(active', u) <=> timers'[u].inUse /\ timers'[u].active
                                               /\ ~ timers'[u].elapsed
    BY <1>2 DEF ListHoldsRunning
  <2> QED BY <1>9, <1>16 DEF SameFields
<1>18. ObjectsAgree'
  <2> SUFFICES ASSUME NEW u \in Slots
               PROVE  ObjectAgrees(timers'[u], due'[u], Elapsed', InHandler')
    BY DEF ObjectsAgree
  <2>1. ObjectAgrees(timers[u], due[u], Elapsed, InHandler)
    BY <1>1
  <2>2. CASE ~ timers[u].inUse
    <3>1. timers[u] = Unused /\ ~ timers[u].elapsed /\ ~ Contains(active', u)
      BY <1>16, <2>1, <2>2 DEF ObjectAgrees, Unused
    <3>2. timers'[u] = timers[u]
      <4>1. timers'[u].elapsed = timers[u].elapsed
        BY <1>1, <1>9, <3>1 DEF Object
      <4> QED BY <1>1, <1>9, <3>1, <4>1, SameObject
    <3> QED BY <3>1, <3>2, UnusedObject
  <2>3. CASE timers[u].inUse
    <3>1. timers'[u].pending = timers[u].pending \/ timers'[u].active
      BY <1>9, <1>16, <2>3 DEF SameFields
    <3> QED BY <1>9, <2>1, <2>3, <3>1 DEF ObjectAgrees, SameFields
  <2> QED BY <2>2, <2>3
<1>19. NoneTooLate'
  <2>1. \A u \in Slots : Contains(active', u) =>
            due[u] >= Away(compare') - Margin - Latency /\ due[u] >= -Margin - 2 * Latency - 0
    BY <1>1, <1>7, <1>8, <1>11, Constants DEF ServedAt
  <2> QED BY <1>2, <1>3, <1>13, <2>1 DEF NoneTooLate
<1> QED BY <1>2, <1>9, <1>12, <1>14, <1>15, <1>17, <1>18, <1>19 DEF TimersInv

\* A count passes: every time left is one less, and so is what the compare register is
\* away from being met.
LEMMA CountKeeps ==
    ASSUME TimersInv, Count
    PROVE  /\ TimersInv'
           /\ UNCHANGED <<active, timers, at, who>>
           /\ due' = [t \in Slots |-> IF Running(t) THEN due[t] - 1 ELSE due[t]]
           /\ \A u \in Slots : Running(u) => due[u] > -(Margin + 4 * Latency)
<1>1. /\ TimedList(Store, due, Elapsed) /\ ScalarsOK /\ Clocks /\ CounterFacts
      /\ due \in [Slots -> Int] /\ \A u \in Slots : due[u] \in Int
      /\ \A u \in Slots : ObjectAgrees(timers[u], due[u], Elapsed, InHandler)
  BY InvFacts
<1>2. /\ InTime /\ clock' = (clock + 1) % (2 * TurnCounts)
      /\ irq' = (irq \/ Counter' = compare)
      /\ stall' = IF at # "Tasks" \/ irq THEN stall + 1 ELSE 0
      /\ due' = [t \in Slots |-> IF Running(t) THEN due[t] - 1 ELSE due[t]]
      /\ compare' = compare /\ previous' = previous /\ swCounter' = swCounter
      /\ active' = active /\ timers' = timers /\ at' = at /\ lag' = lag /\ who' = who
      /\ Store' = Store /\ InHandler' = InHandler
  BY DEF Count, Counter, Store, InHandler
<1>3. /\ compare \in 1 .. Period /\ compare \in 0 .. Period
      /\ stall \in 0 .. Latency /\ (at # "Tasks" \/ irq => stall < Latency)
      /\ irq \in BOOLEAN /\ lag \in 0 .. Period
  BY <1>1, <1>2, Constants DEF ScalarsOK, InTime
<1>4. Away(compare) \in 1 .. TurnCounts
  BY <1>1, <1>3, Constants DEF CounterFacts, Away
\* The list is brought up to date before the counter has done a whole turn.
<1>5. Elapsed < Period /\ Elapsed \in 0 .. Period
  <2>1. CASE at # "Tasks"
    BY <1>1, <1>3, <2>1, Constants DEF TimersInv, UpdatedInTime, CounterFacts
  <2>2. CASE at = "Tasks" /\ irq
    <3>1. Elapsed <= HalfPeriod + 1 + stall
      BY <2>2 DEF TimersInv, UpdatedInTime
    <3> QED BY <1>1, <1>3, <2>2, <3>1, Constants DEF CounterFacts
  <2>3. CASE at = "Tasks" /\ ~ irq
    <3>1. Elapsed + Away(compare) <= HalfPeriod + 1
      BY <2>3 DEF TimersInv, UpdatedInTime
    <3> QED BY <1>1, <1>4, <3>1, Constants DEF CounterFacts
  <2> QED BY <2>1, <2>2, <2>3
<1>6. /\ Clocks' /\ Elapsed' = Elapsed + 1
      /\ clock' = IF clock + 1 < 2 * TurnCounts THEN clock + 1 ELSE 0
      /\ Away(compare) = 1 => Counter' = compare
      /\ Away(compare) # 1 => Counter' # compare /\ Away(compare)' = Away(compare) - 1
  <2>1. /\ Clocks' /\ Elapsed' = Elapsed + 1
        /\ clock' = IF clock + 1 < 2 * TurnCounts THEN clock + 1 ELSE 0
        /\ \A c \in 0 .. Period : /\ Away(c) = 1 => Counter' = c
                                  /\ Away(c) # 1 => Counter' # c /\ Away(c)' = Away(c) - 1
    BY <1>1, <1>2, <1>5, CountIs
  <2>2. Away(compare)' = IF compare > Counter' THEN compare - Counter'
                         ELSE compare - Counter' + TurnCounts
    BY <1>2 DEF Away
  <2> QED BY <1>3, <2>1, <2>2 DEF Away
<1>7. ASSUME NEW u \in Slots
      PROVE  /\ Running(u) => due'[u] = due[u] - 1
             /\ ~ Running(u) => due'[u] = due[u]
             /\ Contains(active, u) => due'[u] = due[u] - 1
             /\ timers[u].active => due'[u] = due[u] - 1
  BY <1>2, ListedRuns DEF Running
<1>8. due' \in [Slots -> Int]
  BY <1>1, <1>2
<1>9. TypeOK' /\ TimedList(Store', due', Elapsed')
  <2>1. ScalarsOK'
    <3>1. clock' \in 0 .. 2 * TurnCounts - 1 /\ stall' \in 0 .. Latency
      BY <1>2, <1>3, <1>6, Constants DEF Clocks
    <3> QED BY <1>1, <1>2, <3>1 DEF ScalarsOK
  <2>2. \A u \in Slots : Contains(Store.list, u) => due'[u] = due[u] - 1
    BY <1>7, InvFacts
  <2>3. TimedList(Store, due', Elapsed + 1)
    BY <1>1, <1>8, <2>2, CountTimed
  <2> QED BY <1>2, <1>6, <2>1, <2>3, TypesNext
<1>10. CountsAddUp'
  <2>1. swCounter + lag + Elapsed \in {clock, clock + 2 * TurnCounts}
    BY DEF TimersInv, CountsAddUp
  <2>2. swCounter' + lag' + Elapsed' = swCounter + lag + Elapsed + 1
    BY <1>1, <1>2, <1>3, <1>5, <1>6 DEF ScalarsOK
  <2>3. /\ swCounter \in 0 .. 2 * TurnCounts - 1 /\ clock \in 0 .. 2 * TurnCounts - 1
        /\ lag \in 0 .. Period /\ Elapsed \in 0 .. Period
    BY <1>1, <1>3, <1>5 DEF ScalarsOK
  <2> QED BY <1>6, <2>1, <2>2, <2>3, Constants DEF CountsAddUp
<1>11. UpdatedInTime'
  <2>1. at' # "TimerAdd" => lag' = 0
    BY <1>2 DEF TimersInv, UpdatedInTime
  <2>2. at' # "Tasks" => Elapsed' = stall'
    BY <1>2, <1>6 DEF TimersInv, UpdatedInTime
  <2>3. at' = "Tasks" /\ irq' => Elapsed' <= HalfPeriod + 1 + stall'
    <3>1. CASE at = "Tasks" /\ irq
      <4>1. Elapsed <= HalfPeriod + 1 + stall /\ stall' = stall + 1
        BY <1>2, <3>1 DEF TimersInv, UpdatedInTime
      <4> QED BY <1>3, <1>5, <1>6, <4>1, Constants
    <3>2. CASE at = "Tasks" /\ ~ irq /\ irq'
      <4>1. Away(compare) = 1 /\ Elapsed + Away(compare) <= HalfPeriod + 1 /\ stall' = 0
        BY <1>2, <1>6, <3>2 DEF TimersInv, UpdatedInTime
      <4> QED BY <1>3, <1>5, <1>6, <4>1, Constants
    <3> QED BY <1>2, <3>1, <3>2
  <2>4. at' \in {"Tasks", "TimerAdd"} /\ ~ irq' => Elapsed' + Away(compare)' <= HalfPeriod + 1
    <3> SUFFICES ASSUME at' \in {"Tasks", "TimerAdd"}, ~ irq'
                 PROVE  Elapsed' + Away(compare)' <= HalfPeriod + 1
      OBVIOUS
    <3>1. /\ Elapsed + Away(compare) <= HalfPeriod + 1
          /\ Away(compare)' = Away(compare) - 1
      BY <1>2, <1>6 DEF TimersInv, UpdatedInTime
    <3> QED BY <1>4, <1>5, <1>6, <3>1, Constants
  <2> QED BY <2>1, <2>2, <2>3, <2>4 DEF UpdatedInTime
<1>12. ObjectsAgree'
  <2> SUFFICES ASSUME NEW u \in Slots
               PROVE  ObjectAgrees(timers[u], due'[u], Elapsed + 1, InHandler)
    BY <1>2, <1>6 DEF ObjectsAgree
  <2>1. ObjectAgrees(timers[u], due[u], Elapsed, InHandler)
    BY <1>1
  <2>2. timers[u].elapsed /\ timers[u].active => due'[u] = timers[u].requested - (Elapsed + 1)
    <3> SUFFICES ASSUME timers[u].elapsed, timers[u].active
                 PROVE  due'[u] = timers[u].requested - (Elapsed + 1)
      OBVIOUS
    <3>1. due[u] = timers[u].requested - Elapsed /\ timers[u].requested \in Times
      BY <2>1 DEF ObjectAgrees
    <3>2. timers[u].requested \in 1 .. Period
      BY <3>1, SysTimeAssumption
    <3> QED BY <1>1, <1>5, <1>7, <3>1, <3>2
  <2> QED BY <2>1, <2>2 DEF ObjectAgrees
<1>13. ListHoldsRunning'
  BY <1>2 DEF TimersInv, ListHoldsRunning
<1>14. AddUnderWay'
  <2> SUFFICES ASSUME at = "TimerAdd"
               PROVE  /\ timers[who].inUse /\ timers[who].pending \in Times
                      /\ due'[who] = timers[who].pending - (Elapsed + 1)
    BY <1>2, <1>6 DEF AddUnderWay
  <2>1. /\ who \in Slots /\ Running(who) /\ timers[who].inUse /\ timers[who].pending \in Times
        /\ due[who] = timers[who].pending - Elapsed
    BY <1>1 DEF TimersInv, AddUnderWay, Running, ScalarsOK
  <2>2. timers[who].pending \in 1 .. Period
    BY <2>1, SysTimeAssumption
  <2> QED BY <1>1, <1>5, <1>7, <2>1, <2>2
<1>15. NoneTooLate'
  <2>1. ASSUME at \in {"Tasks", "TimerAdd"}, ~ irq', NEW u \in Slots, Contains(active, u)
        PROVE  due'[u] >= Away(compare)' - Margin - Latency
    <3>1. /\ due[u] >= Away(compare) - Margin - Latency
          /\ Away(compare)' = Away(compare) - 1
      BY <1>2, <1>6, <2>1 DEF TimersInv, NoneTooLate
    <3> QED BY <1>1, <1>4, <1>7, <2>1, <3>1, Constants
  <2>2. ASSUME at = "TimerAdd", irq', NEW u \in Slots, Contains(active, u)
        PROVE  due'[u] >= -Margin - Latency - stall'
    <3>1. stall' = stall + 1
      BY <1>2, <2>2
    <3>2. CASE irq
      <4>1. due[u] >= -Margin - Latency - stall
        BY <2>2, <3>2 DEF TimersInv, NoneTooLate
      <4> QED BY <1>1, <1>3, <1>7, <2>2, <3>1, <4>1, Constants
    <3>3. CASE ~ irq
      <4>1. due[u] >= Away(compare) - Margin - Latency
        BY <2>2, <3>3 DEF TimersInv, NoneTooLate
      <4> QED BY <1>1, <1>3, <1>4, <1>7, <2>2, <3>1, <4>1, Constants
    <3> QED BY <3>2, <3>3
  <2>3. ASSUME at = "Tasks", irq', NEW u \in Slots, Contains(active, u)
        PROVE  due'[u] >= -Margin - 2 * Latency - stall'
    <3>1. CASE irq
      <4>1. due[u] >= -Margin - 2 * Latency - stall /\ stall' = stall + 1
        BY <1>2, <2>3, <3>1 DEF TimersInv, NoneTooLate
      <4> QED BY <1>1, <1>3, <1>7, <2>3, <4>1, Constants
    <3>2. CASE ~ irq
      <4>1. due[u] >= Away(compare) - Margin - Latency /\ stall' = 0
        BY <1>2, <2>3, <3>2 DEF TimersInv, NoneTooLate
      <4> QED BY <1>1, <1>4, <1>7, <2>3, <4>1, Constants
    <3> QED BY <3>1, <3>2
  <2>4. ASSUME InHandler, NEW u \in Slots, timers[u].active
        PROVE  due'[u] >= -Margin - 3 * Latency - stall'
    <3>1. due[u] >= -Margin - 3 * Latency - stall /\ stall' = stall + 1
      BY <1>2, <2>4 DEF TimersInv, NoneTooLate, InHandler
    <3> QED BY <1>1, <1>3, <1>7, <2>4, <3>1, Constants
  <2> QED BY <1>2, <2>1, <2>2, <2>3, <2>4 DEF NoneTooLate
\* Nothing that runs is as late as the service allows.
<1>16. ASSUME NEW u \in Slots, Running(u)
       PROVE  due[u] > -(Margin + 4 * Latency)
  <2>1. CASE InHandler
    <3>1. /\ timers[u].active /\ due[u] >= -Margin - 3 * Latency - stall /\ stall < Latency
      BY <1>3, <1>16, <2>1 DEF Running, InHandler, TimersInv, NoneTooLate
    <3> QED BY <1>1, <1>3, <3>1, Constants
  <2>2. CASE at = "TimerAdd" /\ who = u
    <3>1. /\ due[u] = timers[u].pending - Elapsed /\ timers[u].pending \in 1 .. Period
          /\ Elapsed = stall
      BY <2>2, SysTimeAssumption DEF TimersInv, AddUnderWay, UpdatedInTime
    <3> QED BY <1>1, <1>3, <3>1, Constants
  <2>3. CASE ~ InHandler /\ ~ (at = "TimerAdd" /\ who = u)
    <3>1. Contains(active, u)
      <4>1. timers[u].active
        BY <1>16, <2>3 DEF Running
      <4>2. ObjectAgrees(timers[u], due[u], Elapsed, InHandler)
        BY <1>1
      <4>3. timers[u].inUse /\ ~ timers[u].elapsed
        BY <2>3, <4>1, <4>2 DEF ObjectAgrees, Unused
      <4> QED BY <2>3, <4>1, <4>3 DEF TimersInv, ListHoldsRunning
    <3>2. at \in {"Tasks", "TimerAdd"}
      BY <1>1, <2>3 DEF InHandler, ScalarsOK
    <3>3. CASE ~ irq
      <4>1. due[u] >= Away(compare) - Margin - Latency
        BY <3>1, <3>2, <3>3 DEF TimersInv, NoneTooLate
      <4> QED BY <1>1, <1>4, <4>1, Constants
    <3>4. CASE irq
      <4>1. due[u] >= -Margin - Latency - stall \/ due[u] >= -Margin - 2 * Latency - stall
        BY <3>1, <3>2, <3>4 DEF TimersInv, NoneTooLate
      <4> QED BY <1>1, <1>3, <3>4, <4>1, Constants
    <3> QED BY <3>3, <3>4
  <2> QED BY <2>1, <2>2, <2>3
<1> QED BY <1>2, <1>9, <1>10, <1>11, <1>12, <1>13, <1>14, <1>15, <1>16 DEF TimersInv

-----------------------------------------------------------------------------
(* The invariant holds                                                       *)

\* SYS_TIME_Initialize leaves the invariant true.
LEMMA InitInv == Init => TimersInv
<1> SUFFICES ASSUME Init
             PROVE  TimersInv
  OBVIOUS
<1>1. PICK period \in Times :
        /\ timers = [t \in Slots |->
                       IF t = 0 THEN [Unused EXCEPT !.inUse = TRUE, !.active = TRUE,
                                          !.type = "PERIODIC", !.requested = period,
                                          !.pending = period]
                       ELSE Unused]
        /\ active = <<0>>
        /\ due = [t \in Slots |-> IF t = 0 THEN period ELSE 0]
        /\ clock = 0 /\ previous = 0 /\ swCounter = 0 /\ irq = FALSE
        /\ compare = HwTimerCompareUpdate(Store, 0, 0)
        /\ at = "Tasks" /\ lag = 0 /\ who = 0 /\ stall = 0
  BY DEF Init
<1>2. period \in 1 .. Period /\ period \in 0 .. Period /\ 0 \in Slots
  <2>1. period \in 1 .. Period /\ 0 \in Slots
    BY SysTimeAssumption DEF Slots
  <2> QED BY <2>1
<1> DEFINE x == [Unused EXCEPT !.inUse = TRUE, !.active = TRUE, !.type = "PERIODIC",
                               !.requested = period, !.pending = period]
<1>3. /\ x \in Object /\ x.inUse = TRUE /\ x.active = TRUE /\ x.type = "PERIODIC"
      /\ x.requested = period /\ x.pending = period /\ x.flag = FALSE /\ x.elapsed = FALSE
  BY <1>2 DEF Unused, Object
<1>4. /\ timers[0] = x /\ due[0] = period
      /\ \A t \in Slots : t # 0 => timers[t] = Unused /\ due[t] = 0
  BY <1>1, <1>2
<1>5. timers \in [Slots -> Object] /\ due \in [Slots -> Int]
  BY <1>1, <1>2, <1>3, UnusedObject
<1> HIDE DEF x
<1>6. /\ Store.list = active /\ Store.tmr = timers
      /\ active \in Seq(Slots) /\ Len(active) = 1 /\ active[1] = 0 /\ Head(active) = 0
      /\ Store \in [list : Seq(Slots), tmr : [Slots -> Object]]
      /\ \A t \in Slots : Contains(active, t) <=> t = 0
  BY <1>1, <1>2, <1>5 DEF Store, Contains
<1>7. IsInjective(active)
  BY <1>1 DEF IsInjective
<1>8. /\ Until(Store, 1) = period /\ Until(Store, 0) = 0
  <2>1. 1 \in Nat \ {0} /\ 1 - 1 = 0
    OBVIOUS
  <2>2. Until(Store, 1) = Until(Store, 1 - 1) + Step(Store, 1) /\ Until(Store, 0) = 0
    BY <2>1, UntilSteps
  <2> QED BY <1>2, <1>3, <1>4, <1>6, <2>1, <2>2 DEF Step
<1>9. /\ Clocks /\ Counter = 0 /\ Elapsed = 0
      /\ stall = 0 /\ Elapsed = stall /\ stall \in 0 .. Latency
  <2>1. Clocks
    BY <1>1, Constants DEF Clocks
  <2>2. Counter = 0
    BY <1>1, <2>1, CounterIs, Constants DEF CounterFacts
  <2>3. Elapsed = 0
    BY <1>1, <2>1, <2>2, CounterIs DEF CounterFacts
  <2> QED BY <1>1, <2>1, <2>2, <2>3, Constants
<1>10. TimedList(Store, due, Elapsed)
  <2>1. DeltaList(Store)
    BY <1>2, <1>6, <1>7, <1>8 DEF DeltaList
  <2>2. OnTime(Store, due, Elapsed) /\ InOrder(Store, due)
    BY <1>2, <1>4, <1>6, <1>8, <1>9 DEF OnTime, InOrder
  <2> QED BY <1>5, <1>9, <2>1, <2>2 DEF TimedList
<1>11. ServedAt(Store, compare)
  <2>1. 0 \in ReadBefore
    <3>1. (clock - 0) % TurnCounts = 0
      BY <1>1, <1>9 DEF Counter
    <3>2. 0 \in 0 .. (IF stall < ExecTicks THEN stall ELSE ExecTicks)
      BY <1>9, Constants
    <3> QED BY <3>1, <3>2 DEF ReadBefore
  <2>2. compare = HwTimerCompareUpdate(Store, previous, 0)
    BY <1>1
  <2>3. Store.tmr[Head(Store.list)].pending > 0
    BY <1>2, <1>3, <1>4, <1>6
  <2> QED BY <1>9, <1>10, <2>1, <2>2, <2>3, CompareServes
<1>12. TypeOK
  <2>1. 0 \in 0 .. 2 * TurnCounts - 1 /\ 0 \in 0 .. Period /\ 0 \in 0 .. Latency
    BY Constants
  <2>2. compare \in 1 .. Period
    BY <1>11 DEF ServedAt
  <2> QED BY <1>1, <1>2, <1>5, <1>6, <1>7, <2>1, <2>2 DEF TypeOK
<1>13. ~ InHandler
  BY <1>1 DEF InHandler
<1>14. CountsAddUp /\ UpdatedInTime /\ AddUnderWay
  BY <1>1, <1>9, <1>11 DEF CountsAddUp, UpdatedInTime, AddUnderWay, ServedAt
<1>15. ObjectsAgree
  <2> SUFFICES ASSUME NEW t \in Slots
               PROVE  ObjectAgrees(timers[t], due[t], Elapsed, InHandler)
    BY DEF ObjectsAgree
  <2>1. CASE t = 0
    BY <1>3, <1>4, <2>1 DEF ObjectAgrees
  <2>2. CASE t # 0
    BY <1>4, <2>2, UnusedObject
  <2> QED BY <2>1, <2>2
<1>16. ListHoldsRunning
  BY <1>1, <1>3, <1>4, <1>6 DEF ListHoldsRunning, Unused
<1>17. NoneTooLate
  BY <1>1, <1>6, <1>11, <1>13 DEF NoneTooLate, ServedAt
<1> QED BY <1>10, <1>12, <1>14, <1>15, <1>16, <1>17 DEF TimersInv

\* The invariant speaks of the variables only.
LEMMA StutterInv == TimersInv /\ UNCHANGED vars => TimersInv'
<1> SUFFICES ASSUME TimersInv, UNCHANGED vars
             PROVE  TimersInv'
  OBVIOUS
<1>1. /\ clock' = clock /\ compare' = compare /\ irq' = irq /\ previous' = previous
      /\ swCounter' = swCounter /\ active' = active /\ timers' = timers /\ at' = at
      /\ lag' = lag /\ who' = who /\ stall' = stall /\ due' = due
      /\ Store' = Store /\ InHandler' = InHandler
  BY DEF vars, Store, InHandler
<1>2. Elapsed' = Elapsed /\ Away(compare)' = Away(compare)
  BY <1>1, SameClock DEF Away, Counter
<1>3. TypeOK' /\ TimedList(Store', due', Elapsed')
  BY <1>1, <1>2 DEF TimersInv, TypeOK
<1>4. CountsAddUp' /\ UpdatedInTime' /\ AddUnderWay'
  BY <1>1, <1>2 DEF TimersInv, CountsAddUp, UpdatedInTime, AddUnderWay
<1>5. ObjectsAgree' /\ ListHoldsRunning' /\ NoneTooLate'
  BY <1>1, <1>2 DEF TimersInv, ObjectsAgree, ListHoldsRunning, NoneTooLate
<1> QED BY <1>3, <1>4, <1>5 DEF TimersInv

\* Every step keeps the invariant.
LEMMA NextInv == TimersInv /\ [Next]_vars => TimersInv'
<1> SUFFICES ASSUME TimersInv, [Next]_vars
             PROVE  TimersInv'
  OBVIOUS
<1>1. CASE Count
  BY <1>1, CountKeeps
<1>2. CASE Serves
  BY <1>2, AddEndKeeps, InterruptKeeps, NotifyKeeps, CallbackReturnsKeeps, InterruptDoneKeeps
     DEF Serves
<1>3. ASSUME NEW type \in Types, NEW period \in Times, TimerCreate(type, period)
      PROVE  TimersInv'
  BY <1>3, CreateKeeps
<1>4. ASSUME NEW t \in Slots, Calls(t)
      PROVE  TimersInv'
  BY <1>4, StartKeeps, StopKeeps, HasExpiredKeeps, CallbackAddsKeeps, CallbackCancelsKeeps,
     ReloadKeeps DEF Calls
<1>5. CASE UNCHANGED vars
  BY <1>5, StutterInv
<1> QED BY <1>1, <1>2, <1>3, <1>4, <1>5 DEF Next

\* The inductive invariant: the list holds the true deadlines, the counts add up, the
\* list is looked at in time and no deadline is further past than the handlers take.
THEOREM InvHolds == Spec => []TimersInv
BY InitInv, NextInv, PTL DEF Spec

\* Every variable keeps its type: no pending time is negative or beyond the range of
\* the counter, and RemoveFromList and AddToList never leave a timer in the list twice.
THEOREM TypesHold == Spec => []TypeOK
<1>1. TimersInv => TypeOK
  BY DEF TimersInv
<1> QED BY <1>1, InvHolds, PTL

\* The list from tmrActive on holds the timers whose active flag is set, but for those
\* that expired and wait inside the handler and the one a TimerAdd is putting in.
THEOREM HoldsRunning == Spec => []ListHoldsRunning
<1>1. TimersInv => ListHoldsRunning
  BY DEF TimersInv
<1> QED BY <1>1, InvHolds, PTL

\* The times of the delta list, added up to a timer's place and less what has elapsed
\* since the list was updated, are the time until that timer's deadline.
THEOREM KeepsDeadlines == Spec => []ListKeepsDeadlines
<1>1. ASSUME TimersInv, NEW t \in Slots, Contains(active, t),
             NEW k, k = CHOOSE j \in DOMAIN active : active[j] = t
      PROVE  Least0(Until(Store, k) - Elapsed) = Least0(due[t])
  <2>1. /\ TimedList(Store, due, Elapsed) /\ Store.list = active /\ CounterFacts
        /\ due[t] \in Int
    BY <1>1, InvFacts
  <2>2. /\ Len(active) \in Nat /\ DOMAIN active = 1 .. Len(active)
    BY <2>1, Entries DEF TimedList
  <2>3. k \in 1 .. Len(active) /\ active[k] = t
    <3>1. \E j \in DOMAIN active : active[j] = t
      BY <1>1, <2>2 DEF Contains
    <3> QED BY <1>1, <2>2, <3>1
  <2>4. Until(Store, k) \in 0 .. Period
    <3>1. DeltaList(Store) /\ k \in 0 .. Len(Store.list)
      BY <2>1, <2>2, <2>3 DEF TimedList
    <3> QED BY <3>1, UntilGrows
  <2>5. /\ due[t] <= Until(Store, k) - Elapsed
        /\ Until(Store, k) > 0 => due[t] = Until(Store, k) - Elapsed
    BY <2>1, <2>3 DEF TimedList, OnTime
  <2>6. Elapsed \in 0 .. Period
    BY <2>1 DEF CounterFacts
  <2> QED BY <2>1, <2>4, <2>5, <2>6, Constants DEF Least0
<1>2. TimersInv => ListKeepsDeadlines
  BY <1>1 DEF ListKeepsDeadlines, Elapsed
<1> QED BY <1>2, InvHolds, PTL

\* SYS_TIME_Counter64Get gives the true time, but for the lag of a TimerAdd under way,
\* whenever it is called and however the updates fall.
THEOREM KeepsTime == Spec => []CounterKeepsTime
<1>1. ASSUME TimersInv
      PROVE  CounterKeepsTime
  <2> DEFINE d == 2 * TurnCounts
             n == clock - lag
             m == swCounter + Elapsed
  <2>1. /\ m \in {n, n + d} /\ d \in Nat \ {0}
        /\ n \in -d .. 2 * d - 1 /\ n < d /\ m \in -d .. 2 * d - 1 /\ m >= 0
    <3>1. /\ swCounter + lag + Elapsed \in {clock, clock + 2 * TurnCounts}
          /\ swCounter \in 0 .. 2 * TurnCounts - 1 /\ clock \in 0 .. 2 * TurnCounts - 1
          /\ lag \in 0 .. Period /\ Elapsed \in 0 .. Period
      BY <1>1, InvFacts DEF TimersInv, CountsAddUp, ScalarsOK, CounterFacts
    <3> QED BY <3>1, Constants
  <2>2. Counter64 = m % d
    BY DEF Counter64, Elapsed
  <2> HIDE DEF d, m, n
  <2>3. /\ n % d = IF n < 0 THEN n + d ELSE IF n < d THEN n ELSE n - d
        /\ m % d = IF m < 0 THEN m + d ELSE IF m < d THEN m ELSE m - d
    BY <2>1, Remainder
  <2>4. m % d = n % d
    BY <2>1, <2>3
  <2> QED BY <2>2, <2>4 DEF CounterKeepsTime, d, n
<1> QED BY <1>1, InvHolds, PTL

-----------------------------------------------------------------------------
(* The refinement of TimerService                                            *)

\* What the service sees of the timers and of who has them.
Kinds == [type : {"SINGLE", "PERIODIC", "DELAY"}, period : Times]
Off == [type |-> "OFF", period |-> 0]

Mode == [t \in Slots |-> IF Running(t)
                         THEN [type |-> timers[t].type, period |-> timers[t].requested]
                         ELSE [type |-> "OFF", period |-> 0]]
Turn == IF at = "Tasks" THEN "tasks" ELSE IF at = "TimerAdd" THEN "adding" ELSE "handler"
Calling == IF at = "Callback" THEN {who} ELSE {}
View == <<Mode, due, Turn, Calling>>

\* The steps of TimerService, on what it sees.
Passes ==
    /\ due' = [t \in Slots |-> IF Mode[t] # Off THEN due[t] - 1 ELSE due[t]]
    /\ \A t \in Slots : Mode[t] # Off => due[t] > -(Margin + 4 * Latency)
    /\ Mode' = Mode /\ Turn' = Turn /\ Calling' = Calling

Arm(t, h) ==
    \E m \in Kinds : /\ Mode' = [Mode EXCEPT ![t] = m]
                     /\ due' = [due EXCEPT ![t] = m.period - h]

Disarm(t) == Mode' = [Mode EXCEPT ![t] = Off] /\ due' = [due EXCEPT ![t] = 0]

TaskStarts(t) == Turn = "tasks" /\ Turn' = "adding" /\ Arm(t, 0) /\ Calling' = Calling

TaskStops(t) == Turn = "tasks" /\ Disarm(t) /\ Turn' = Turn /\ Calling' = Calling

Hands(from, to) ==
    /\ Turn = from /\ Turn' = to /\ Calling = {}
    /\ Mode' = Mode /\ due' = due /\ Calling' = Calling

Expire(t) ==
    /\ Turn = "handler" /\ Calling = {}
    /\ Mode[t] # Off /\ due[t] <= 0
    /\ \A u \in Slots : Mode[u] # Off => due[t] <= due[u]
    /\ IF Mode[t].type = "PERIODIC"
       THEN \E h \in 0 .. Latency :
               due' = [due EXCEPT ![t] = Mode[t].period - h] /\ Mode' = Mode
       ELSE Disarm(t)
    /\ Calling' = IF Mode[t].type = "DELAY" THEN {} ELSE {t}
    /\ Turn' = Turn

CallbackEnds ==
    /\ Calling # {} /\ Calling' = {}
    /\ \/ Mode' = Mode /\ due' = due
       \/ \E t \in Slots : Disarm(t) \/ \E h \in 0 .. Latency : Arm(t, h)
    /\ Turn' = Turn

ServiceStep ==
    \/ Passes \/ CallbackEnds
    \/ \E t \in Slots : TaskStarts(t) \/ TaskStops(t) \/ Expire(t)
    \/ Hands("adding", "tasks") \/ Hands("tasks", "handler") \/ Hands("handler", "tasks")
    \/ View' = View

\* These are the steps of TimerService under the refinement mapping.
LEMMA ServiceStepIs == ServiceStep => [Service!Step]_(Service!svars)
<1>1. Passes => Service!Passes
  BY DEF Passes, Service!Passes, Service!Runs, Service!Off, Off, Mode, Turn, Calling
<1>2. ASSUME NEW t \in Slots
      PROVE  /\ \A h : Arm(t, h) => Service!Arm(t, h)
             /\ Disarm(t) => Service!Disarm(t)
  BY DEF Arm, Disarm, Mode, Kinds, Off, Service!Arm, Service!Disarm, Service!Off
<1>3. ASSUME NEW t \in Slots
      PROVE  /\ TaskStarts(t) => Service!TaskStarts(t)
             /\ TaskStops(t) => Service!TaskStops(t)
  BY <1>2 DEF TaskStarts, TaskStops, Turn, Calling, Service!TaskStarts, Service!TaskStops
<1>4. ASSUME NEW t \in Slots
      PROVE  Expire(t) => Service!Expire(t)
  BY <1>2 DEF Expire, Mode, Turn, Calling, Off, Service!Expire, Service!Runs, Service!Off
<1>5. CallbackEnds => Service!CallbackEnds
  BY <1>2 DEF CallbackEnds, Mode, Turn, Calling, Service!CallbackEnds
<1>6. \A from, to : Hands(from, to) => Service!Hands(from, to)
  BY DEF Hands, Mode, Turn, Calling, Service!Hands
<1>7. View' = View => UNCHANGED Service!svars
  BY DEF View, Mode, Turn, Calling, Service!svars
<1> QED BY <1>1, <1>3, <1>4, <1>5, <1>6, <1>7 DEF ServiceStep, Service!Step

\* A timer's mode, in this state and in the next.
LEMMA ModeIs ==
    ASSUME NEW u \in Slots
    PROVE  /\ Mode[u] = IF Running(u) THEN Seen(u) ELSE Off
           /\ Mode'[u] = IF Running(u)' THEN Seen(u)' ELSE Off
BY DEF Mode, Seen, Off

\* A timer that is seen to run is of one of the kinds.
LEMMA SeenIs ==
    ASSUME NEW u \in Slots, timers[u] \in Object
    PROVE  Seen(u) # Off /\ (timers[u].requested \in Times => Seen(u) \in Kinds)
<1>1. timers[u].type \in {"SINGLE", "PERIODIC", "DELAY"}
  BY SysTimeAssumption DEF Object
<1> QED BY <1>1 DEF Seen, Off, Kinds

\* A timer is off in the service just when it does not run.
LEMMA OffIs ==
    ASSUME TypeOK, NEW u \in Slots
    PROVE  Mode[u] # Off <=> Running(u)
<1>1. timers[u] \in Object
  BY DEF TypeOK
<1> QED BY <1>1, ModeIs, SeenIs

\* A step about one timer changes no other's mode.
LEMMA OneMode ==
    ASSUME NEW t \in Slots, \A u \in Slots : u # t => Alike(Store', Store, u),
           at = "TimerAdd" => who = t, at' = "TimerAdd" => who' = t
    PROVE  Mode' = [Mode EXCEPT ![t] = Mode'[t]]
<1>1. ASSUME NEW u \in Slots, u # t
      PROVE  Mode'[u] = Mode[u]
  <2>1. SameFields(timers'[u], timers[u])
    BY <1>1 DEF Alike, Store
  <2>2. Running(u)' <=> Running(u)
    BY <1>1, <2>1 DEF Running, SameFields
  <2>3. Seen(u)' = Seen(u)
    BY <2>1 DEF Seen, SameFields
  <2> QED BY <2>2, <2>3, ModeIs
<1>2. Mode' = [u \in Slots |-> Mode'[u]] /\ Mode = [u \in Slots |-> Mode[u]]
  BY DEF Mode
<1> QED BY <1>1, <1>2

\* A step that leaves what is seen of every timer.
LEMMA SameMode ==
    ASSUME \A u \in Slots : SameFields(timers'[u], timers[u]) /\ (Running(u)' <=> Running(u))
    PROVE  Mode' = Mode
<1>1. ASSUME NEW u \in Slots
      PROVE  Mode'[u] = Mode[u]
  <2>1. Seen(u)' = Seen(u)
    BY <1>1 DEF Seen, SameFields
  <2> QED BY <1>1, <2>1, ModeIs
<1>2. Mode' = [u \in Slots |-> Mode'[u]] /\ Mode = [u \in Slots |-> Mode[u]]
  BY DEF Mode
<1> QED BY <1>1, <1>2

\* A timer is off after the step.
LEMMA OffMode ==
    ASSUME NEW t \in Slots, \A u \in Slots : u # t => Alike(Store', Store, u),
           at # "TimerAdd", at' # "TimerAdd", ~ timers'[t].active
    PROVE  /\ Mode' = [Mode EXCEPT ![t] = Off]
           /\ ~ timers[t].active => Mode' = Mode
<1>1. Mode' = [Mode EXCEPT ![t] = Mode'[t]] /\ Mode = [u \in Slots |-> Mode[u]]
  BY OneMode DEF Mode
<1>2. Mode'[t] = Off
  BY ModeIs DEF Running
<1>3. ~ timers[t].active => Mode[t] = Off
  BY ModeIs DEF Running
<1> QED BY <1>1, <1>2, <1>3

\* A timer runs after the step.
LEMMA OnMode ==
    ASSUME NEW t \in Slots, \A u \in Slots : u # t => Alike(Store', Store, u),
           at = "TimerAdd" => who = t, at' = "TimerAdd" => who' = t, Running(t)'
    PROVE  /\ Mode' = [Mode EXCEPT ![t] = Seen(t)']
           /\ Running(t) /\ Seen(t)' = Seen(t) => Mode' = Mode
<1>1. Mode' = [Mode EXCEPT ![t] = Mode'[t]] /\ Mode = [u \in Slots |-> Mode[u]]
  BY OneMode DEF Mode
<1>2. Mode'[t] = Seen(t)'
  BY ModeIs
<1>3. Running(t) /\ Seen(t)' = Seen(t) => Mode'[t] = Mode[t]
  BY <1>2, ModeIs
<1> QED BY <1>1, <1>2, <1>3

\* A call has set a timer to run for its period, h counts of which have passed.
LEMMA ArmIs ==
    ASSUME TimersInv', NEW t \in Slots, NEW h,
           \A u \in Slots : u # t => Alike(Store', Store, u),
           at = "TimerAdd" => who = t, at' = "TimerAdd" => who' = t, Running(t)',
           timers'[t].requested \in Times,
           due' = [due EXCEPT ![t] = timers'[t].requested - h]
    PROVE  Arm(t, h)
<1>1. timers'[t] \in Object
  BY DEF TimersInv, TypeOK
<1>2. Seen(t)' \in Kinds /\ Seen(t)'.period = timers'[t].requested
  BY <1>1, SysTimeAssumption DEF Object, Seen, Kinds
<1>3. Mode' = [Mode EXCEPT ![t] = Seen(t)']
  BY OnMode
<1> QED BY <1>2, <1>3 DEF Arm

\* What the handler and a TimerAdd do, the service allows.
LEMMA ServesStep ==
    ASSUME TimersInv, Serves
    PROVE  ServiceStep
<1>1. CASE TimerAddEnd
  <2>1. /\ at = "TimerAdd" /\ at' = "Tasks" /\ timers'[who].active
        /\ timers'[who].type = timers[who].type
        /\ timers'[who].requested = timers[who].requested
        /\ \A u \in Slots : u # who => Alike(Store', Store, u)
    BY <1>1, AddEndKeeps
  <2>2. who \in Slots /\ due' = due
    BY <1>1, InvFacts DEF ScalarsOK, TimerAddEnd
  <2>3. PICK w \in Slots : w = who
    BY <2>2
  <2>4. Running(w) /\ Running(w)' /\ Seen(w)' = Seen(w)
    BY <2>1, <2>3 DEF Running, Seen
  <2>5. \A u \in Slots : u # w => Alike(Store', Store, u)
    BY <2>1, <2>3
  <2>6. Mode' = Mode
    BY <2>1, <2>3, <2>4, <2>5, OnMode
  <2> QED BY <2>1, <2>2, <2>6 DEF ServiceStep, Hands, Turn, Calling
<1>2. CASE InterruptTaken
  <2>1. /\ at = "Tasks" /\ at' = "Notify" /\ due' = due
        /\ \A u \in Slots : SameFields(timers'[u], timers[u])
    BY <1>2, InterruptKeeps DEF Alike, Store
  <2>2. \A u \in Slots : Running(u)' <=> Running(u)
    BY <2>1 DEF Running, SameFields
  <2>3. Mode' = Mode
    BY <2>1, <2>2, SameMode
  <2> QED BY <2>1, <2>3 DEF ServiceStep, Hands, Turn, Calling
<1>3. CASE InterruptDone
  <2>1. /\ at = "Notify" /\ at' = "Tasks" /\ due' = due
        /\ \A u \in Slots : SameFields(timers'[u], timers[u])
    BY <1>3, InterruptDoneKeeps
  <2>2. \A u \in Slots : Running(u)' <=> Running(u)
    BY <2>1 DEF Running, SameFields
  <2>3. Mode' = Mode
    BY <2>1, <2>2, SameMode
  <2> QED BY <2>1, <2>3 DEF ServiceStep, Hands, Turn, Calling
<1>4. CASE CallbackReturns
  <2>1. timers' = timers /\ due' = due /\ at = "Callback" /\ at' = "Notify"
    BY <1>4 DEF CallbackReturns
  <2>2. \A u \in Slots : (Running(u)' <=> Running(u)) /\ SameFields(timers'[u], timers[u])
    BY <2>1 DEF Running, SameFields
  <2>3. Mode' = Mode
    BY <2>2, SameMode
  <2> QED BY <2>1, <2>3 DEF ServiceStep, CallbackEnds, Turn, Calling
<1>5. CASE ClientNotify
  <2>1. PICK t \in Slots :
          /\ t = Head(active) /\ Running(t) /\ due[t] <= 0 /\ due[t] <= -Elapsed
          /\ \A u \in Slots : Running(u) => due[t] <= due[u]
          /\ due' = [due EXCEPT ![t] = IF timers[t].type = "PERIODIC"
                                       THEN timers[t].requested - Elapsed ELSE 0]
          /\ timers[t].requested \in Times
          /\ timers[t].type # "PERIODIC" => ~ timers'[t].active
          /\ timers[t].type = "PERIODIC" =>
                /\ timers'[t].active /\ timers'[t].type = timers[t].type
                /\ timers'[t].requested = timers[t].requested
          /\ timers[t].type = "DELAY" => at' = "Notify"
          /\ timers[t].type # "DELAY" => at' = "Callback" /\ who' = t
          /\ \A u \in Slots : u # t => Alike(Store', Store, u)
    BY <1>5, NotifyKeeps
  <2>2. at = "Notify" /\ at' \in {"Notify", "Callback"} /\ TypeOK
    BY <1>5, <2>1 DEF ClientNotify, TimersInv
  <2>3. Elapsed \in 0 .. Latency
    BY <2>2, InvFacts DEF TimersInv, UpdatedInTime, ScalarsOK
  <2>4. /\ Mode[t] # Off /\ \A u \in Slots : Mode[u] # Off => due[t] <= due[u]
        /\ Mode[t] = Seen(t)
    BY <2>1, <2>2, OffIs, ModeIs
  <2>5. /\ Turn = "handler" /\ Turn' = Turn /\ Calling = {}
        /\ Calling' = IF Mode[t].type = "DELAY" THEN {} ELSE {t}
    <3>1. Mode[t].type = timers[t].type
      BY <2>4 DEF Seen
    <3>2. timers[t].type = "DELAY" => Calling' = {}
      BY <2>1 DEF Calling
    <3>3. timers[t].type # "DELAY" => Calling' = {t}
      BY <2>1 DEF Calling
    <3>4. Turn = "handler" /\ Turn' = "handler" /\ Calling = {}
      BY <2>2 DEF Turn, Calling
    <3> QED BY <3>1, <3>2, <3>3, <3>4
  <2>6. CASE timers[t].type = "PERIODIC"
    <3>1. Running(t)' /\ Seen(t)' = Seen(t)
      BY <2>1, <2>6 DEF Running, Seen
    <3>2. Mode' = Mode
      BY <2>1, <2>2, <3>1, OnMode
    <3>3. Mode[t].type = "PERIODIC" /\ due' = [due EXCEPT ![t] = Mode[t].period - Elapsed]
      BY <2>1, <2>4, <2>6 DEF Seen
    <3> QED BY <2>1, <2>3, <2>4, <2>5, <3>2, <3>3 DEF ServiceStep, Expire
  <2>7. CASE timers[t].type # "PERIODIC"
    <3>1. Mode[t].type # "PERIODIC"
      BY <2>4, <2>7 DEF Seen
    <3>2. Disarm(t)
      BY <2>1, <2>2, <2>7, OffMode DEF Disarm
    <3> QED BY <2>1, <2>4, <2>5, <3>1, <3>2 DEF ServiceStep, Expire
  <2> QED BY <2>6, <2>7
<1> QED BY <1>1, <1>2, <1>3, <1>4, <1>5 DEF Serves

\* What a call does, the service allows.
LEMMA CallsStep ==
    ASSUME TimersInv, NEW t \in Slots, Calls(t)
    PROVE  ServiceStep
<1>1. CASE TimerStart(t) \/ \E type \in Types, period \in Times : TimerReload(t, type, period)
  <2>1. TimersInv' /\ Asked(t) /\ at' = "TimerAdd" /\ who' = t /\ at = "Tasks"
    BY <1>1, StartKeeps, ReloadKeeps
  <2>2. Running(t)'
    BY <2>1 DEF Running
  <2>3. due' = [due EXCEPT ![t] = timers'[t].requested - 0]
    <3>1. timers'[t].requested \in 1 .. Period
      BY <2>1, SysTimeAssumption DEF Asked
    <3>2. timers'[t].requested - 0 = timers'[t].requested
      BY <3>1, Constants
    <3> QED BY <2>1, <3>2 DEF Asked
  <2>4. Arm(t, 0)
    BY <2>1, <2>2, <2>3, ArmIs DEF Asked
  <2> QED BY <2>1, <2>4 DEF ServiceStep, TaskStarts, Turn, Calling
<1>2. CASE TimerStop(t) \/ TimerDestroy(t)
  <2>1. /\ ~ timers'[t].active /\ due' = [due EXCEPT ![t] = 0]
        /\ \A u \in Slots : u # t => Alike(Store', Store, u)
    BY <1>2, StopKeeps
  <2>2. at = "Tasks" /\ at' = "Tasks"
    BY <1>2 DEF TimerStop, TimerDestroy, FromTask
  <2>3. Disarm(t)
    BY <2>1, <2>2, OffMode DEF Disarm
  <2> QED BY <2>2, <2>3 DEF ServiceStep, TaskStops, Turn, Calling
<1>3. CASE CallbackCancels(t)
  <2>1. /\ ~ timers'[t].active /\ due' = [due EXCEPT ![t] = 0]
        /\ \A u \in Slots : u # t => Alike(Store', Store, u)
    BY <1>3, CallbackCancelsKeeps
  <2>2. at = "Callback" /\ at' = "Notify"
    BY <1>3 DEF CallbackCancels
  <2>3. Disarm(t)
    BY <2>1, <2>2, OffMode DEF Disarm
  <2> QED BY <2>2, <2>3 DEF ServiceStep, CallbackEnds, Turn, Calling
<1>4. CASE TimerPeriodHasExpired(t)
  <2>1. /\ ~ timers[t].active /\ ~ timers'[t].active
        /\ \A u \in Slots : u # t => Alike(Store', Store, u)
    BY <1>4, HasExpiredKeeps
  <2>2. at = "Tasks" /\ at' = "Tasks" /\ due' = due
    BY <1>4 DEF TimerPeriodHasExpired, FromTask
  <2>3. Mode' = Mode
    BY <2>1, <2>2, OffMode
  <2> QED BY <2>2, <2>3 DEF ServiceStep, View, Turn, Calling
<1>5. CASE \/ CallbackStarts(t)
           \/ \E type \in Types, period \in Times : CallbackReloads(t, type, period)
  <2>1. /\ TimersInv' /\ at = "Callback" /\ at' = "Notify" /\ timers'[t].active
        /\ timers'[t].requested \in Times
        /\ due' = [due EXCEPT ![t] = timers'[t].requested - Elapsed]
        /\ \A u \in Slots : u # t => Alike(Store', Store, u)
    BY <1>5, CallbackAddsKeeps
  <2>2. Elapsed \in 0 .. Latency
    BY <2>1, InvFacts DEF TimersInv, UpdatedInTime, ScalarsOK
  <2>3. Running(t)'
    BY <2>1 DEF Running
  <2>4. Arm(t, Elapsed)
    BY <2>1, <2>3, ArmIs
  <2> QED BY <2>1, <2>2, <2>4 DEF ServiceStep, CallbackEnds, Turn, Calling
<1> QED BY <1>1, <1>2, <1>3, <1>4, <1>5 DEF Calls

\* Every step is a step of the service, or one that it does not see.
LEMMA NextStep == TimersInv /\ [Next]_vars => ServiceStep
<1> SUFFICES ASSUME TimersInv, [Next]_vars
             PROVE  ServiceStep
  OBVIOUS
<1>1. CASE Count
  <2>1. /\ UNCHANGED <<active, timers, at, who>>
        /\ due' = [t \in Slots |-> IF Running(t) THEN due[t] - 1 ELSE due[t]]
        /\ \A u \in Slots : Running(u) => due[u] > -(Margin + 4 * Latency)
    BY <1>1, CountKeeps
  <2>2. \A u \in Slots : (Running(u)' <=> Running(u)) /\ SameFields(timers'[u], timers[u])
    BY <2>1 DEF Running, SameFields
  <2>3. Mode' = Mode
    BY <2>2, SameMode
  <2>4. \A u \in Slots : Mode[u] # Off <=> Running(u)
    BY OffIs DEF TimersInv
  <2>5. due' = [t \in Slots |-> IF Mode[t] # Off THEN due[t] - 1 ELSE due[t]]
    BY <2>1, <2>4
  <2> QED BY <2>1, <2>3, <2>4, <2>5 DEF ServiceStep, Passes, Turn, Calling
<1>2. CASE Serves
  BY <1>2, ServesStep
<1>3. ASSUME NEW type \in Types, NEW period \in Times, TimerCreate(type, period)
      PROVE  ServiceStep
  <2>1. PICK t \in Slots : /\ ~ timers[t].active /\ ~ timers'[t].active
                           /\ \A u \in Slots : u # t => Alike(Store', Store, u)
    BY <1>3, CreateKeeps
  <2>2. at = "Tasks" /\ at' = "Tasks" /\ due' = due
    BY <1>3 DEF TimerCreate, FromTask
  <2>3. Mode' = Mode
    BY <2>1, <2>2, OffMode
  <2> QED BY <2>2, <2>3 DEF ServiceStep, View, Turn, Calling
<1>4. ASSUME NEW t \in Slots, Calls(t)
      PROVE  ServiceStep
  BY <1>4, CallsStep
<1>5. CASE UNCHANGED vars
  <2>1. timers' = timers /\ due' = due /\ at' = at /\ who' = who
    BY <1>5 DEF vars
  <2>2. \A u \in Slots : (Running(u)' <=> Running(u)) /\ SameFields(timers'[u], timers[u])
    BY <2>1 DEF Running, SameFields
  <2>3. Mode' = Mode
    BY <2>2, SameMode
  <2> QED BY <2>1, <2>3 DEF ServiceStep, View, Turn, Calling
<1> QED BY <1>1, <1>2, <1>3, <1>4, <1>5 DEF Next

\* The delta list, the compare register and the interrupt keep what TimerService says a
\* timer is: it expires in the handler only, never before its time or out of turn, and
\* no later than the update of the register, the interrupt and the handlers before it
\* take; its callback runs once for each deadline; and a periodic timer has its own
\* period from there, whatever tasks and callbacks start, stop and reload.
THEOREM ServesAsPromised == Spec => ServesTimers
<1>1. Init => Service!Init
  <2> SUFFICES ASSUME Init
               PROVE  /\ Mode \in [Slots -> {Off} \cup [type : {"PERIODIC"}, period : Times]]
                      /\ due = [t \in Slots |-> Mode[t].period]
                      /\ Turn = "tasks" /\ Calling = {}
    BY DEF Service!Init, Service!Off, Mode, Off, Turn, Calling
  <2>1. PICK period \in Times :
          /\ \A t \in Slots : timers[t] =
                IF t = 0 THEN [Unused EXCEPT !.inUse = TRUE, !.active = TRUE, !.type = "PERIODIC",
                                             !.requested = period, !.pending = period]
                ELSE Unused
          /\ due = [t \in Slots |-> IF t = 0 THEN period ELSE 0]
          /\ at = "Tasks"
    BY DEF Init
  <2>2. ASSUME NEW t \in Slots
        PROVE  Mode[t] = IF t = 0 THEN [type |-> "PERIODIC", period |-> period] ELSE Off
    <3>1. CASE t = 0
      <4>1. timers[t] = [Unused EXCEPT !.inUse = TRUE, !.active = TRUE, !.type = "PERIODIC",
                                       !.requested = period, !.pending = period]
        BY <2>1, <3>1
      <4>2. timers[t].active /\ timers[t].type = "PERIODIC" /\ timers[t].requested = period
        BY <4>1 DEF Unused
      <4> QED BY <3>1, <4>2, ModeIs DEF Running, Seen
    <3>2. CASE t # 0
      <4>1. ~ timers[t].active
        BY <2>1, <3>2 DEF Unused
      <4> QED BY <2>1, <3>2, <4>1, ModeIs DEF Running
    <3> QED BY <3>1, <3>2
  <2>3. Mode = [t \in Slots |-> Mode[t]]
    BY DEF Mode
  <2>4. \A t \in Slots : Mode[t].period = IF t = 0 THEN period ELSE 0
    BY <2>2 DEF Off
  <2> QED BY <2>1, <2>2, <2>3, <2>4 DEF Turn, Calling
<1>2. TimersInv /\ [Next]_vars => [Service!Step]_(Service!svars)
  BY NextStep, ServiceStepIs
<1> QED BY <1>1, <1>2, InvHolds, PTL DEF Spec, ServesTimers, Service!ServiceSpec
=============================================================================
