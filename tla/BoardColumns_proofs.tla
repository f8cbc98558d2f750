------------------------ MODULE BoardColumns_proofs -------------------------
(***************************************************************************)
(* What the operations on columns do, for columns of any length: where     *)
(* each task of the column that they return was before.  That filter does  *)
(* it is shown by induction over the natural numbers, as a set.            *)
(***************************************************************************)
EXTENDS BoardClient, SequenceTheorems, FiniteSetTheorems, TLAPS

\* A set of naturals that has 0 and with each number the next has them all.
LEMMA SetInduction ==
    ASSUME NEW S \in SUBSET Nat, 0 \in S, \A n \in S : n + 1 \in S
    PROVE  S = Nat
<1>1. SUFFICES ASSUME Nat \ S # {} PROVE FALSE
  OBVIOUS
<1>2. PICK x \in Nat \ S : \A y \in Nat \ S : ~ (<< y, x >> \in OpToRel(<, Nat))
  BY <1>1, NatLessThanWellFounded, WFMin
<1>3. \A y \in Nat : y < x => << y, x >> \in OpToRel(<, Nat)
  BY DEF OpToRel
<1>4. \A y \in Nat \ S : ~ (y < x)
  BY <1>2, <1>3
<1>5. x # 0 /\ x \in Nat /\ x \notin S
  BY <1>2
<1>6. x - 1 \in Nat /\ x - 1 < x
  BY <1>5
<1>7. x - 1 \in S
  BY <1>4, <1>6
<1>8. (x - 1) + 1 \in S
  BY <1>7
<1>9. QED
  BY <1>8, <1>5

-----------------------------------------------------------------------------
\* splice takes one task out; those behind it move up.
LEMMA PoppedPlaces ==
    ASSUME NEW S, NEW tasks \in Seq(S), NEW at \in Nat \ {0}
    PROVE  LET rest == Popped(tasks, at)
               out == at <= Len(tasks)
           IN  /\ rest \in Seq(S)
               /\ Len(rest) = IF out THEN Len(tasks) - 1 ELSE Len(tasks)
               /\ \A i \in 1 .. Len(rest) :
                     rest[i] = tasks[IF out /\ i >= at THEN i + 1 ELSE i]
<1>1. CASE at > Len(tasks)
  BY <1>1 DEF Popped
<1>2. CASE at <= Len(tasks)
  <2> DEFINE a == SubSeq(tasks, 1, at - 1)
             b == SubSeq(tasks, at + 1, Len(tasks))
  <2>1. /\ a \in Seq(S) /\ Len(a) = at - 1
        /\ \A i \in 1 .. at - 1 : a[i] = tasks[i]
    BY <1>2, SubSeqProperties
  <2>2. /\ b \in Seq(S) /\ Len(b) = Len(tasks) - at
        /\ \A i \in 1 .. Len(tasks) - at : b[i] = tasks[i + at]
    BY <1>2, SubSeqProperties
  <2>3. Popped(tasks, at) = a \o b
    BY <1>2 DEF Popped, RemoveAt
  <2> HIDE DEF a, b
  <2>4. /\ a \o b \in Seq(S) /\ Len(a \o b) = Len(a) + Len(b)
        /\ \A i \in 1 .. Len(a) + Len(b) :
              (a \o b)[i] = IF i <= Len(a) THEN a[i] ELSE b[i - Len(a)]
    BY <2>1, <2>2, ConcatProperties
  <2>5. \A i \in 1 .. Len(tasks) - 1 :
           (a \o b)[i] = tasks[IF i >= at THEN i + 1 ELSE i]
    BY <2>1, <2>2, <2>4
  <2>6. Len(a \o b) = Len(tasks) - 1
    BY <1>2, <2>1, <2>2, <2>4
  <2>7. QED
    BY <1>2, <2>3, <2>4, <2>5, <2>6
<1>3. QED
  BY <1>1, <1>2

\* splice puts one task in; those behind it move down.
LEMMA InsertedPlaces ==
    ASSUME NEW S, NEW tasks \in Seq(S), NEW n \in 1 .. Len(tasks) + 1, NEW e \in S
    PROVE  LET placed == InsertAt(tasks, n, e)
           IN  /\ placed \in Seq(S)
               /\ Len(placed) = Len(tasks) + 1
               /\ \A i \in 1 .. Len(placed) :
                     placed[i] = IF i = n THEN e
                                 ELSE tasks[IF i < n THEN i ELSE i - 1]
<1> DEFINE a == SubSeq(tasks, 1, n - 1)
           b == SubSeq(tasks, n, Len(tasks))
           c == << e >>
<1>1. /\ a \in Seq(S) /\ Len(a) = n - 1
      /\ \A i \in 1 .. n - 1 : a[i] = tasks[i]
  BY SubSeqProperties
<1>2. /\ b \in Seq(S) /\ Len(b) = Len(tasks) - n + 1
      /\ \A i \in 1 .. Len(tasks) - n + 1 : b[i] = tasks[i + n - 1]
  BY SubSeqProperties
<1>3. c \in Seq(S) /\ Len(c) = 1 /\ c[1] = e
  OBVIOUS
<1>4. InsertAt(tasks, n, e) = (a \o c) \o b
  BY DEF InsertAt
<1> HIDE DEF a, b, c
<1>5. /\ a \o c \in Seq(S) /\ Len(a \o c) = Len(a) + Len(c)
      /\ \A i \in 1 .. Len(a) + Len(c) :
            (a \o c)[i] = IF i <= Len(a) THEN a[i] ELSE c[i - Len(a)]
  BY <1>1, <1>3, ConcatProperties
<1>6. \A i \in 1 .. n : (a \o c)[i] = IF i = n THEN e ELSE tasks[i]
  BY <1>1, <1>3, <1>5
<1> DEFINE d == a \o c
<1> HIDE DEF d
<1>7. d \in Seq(S) /\ Len(d) = n
  BY <1>1, <1>3, <1>5 DEF d
<1>8. /\ d \o b \in Seq(S) /\ Len(d \o b) = Len(d) + Len(b)
      /\ \A i \in 1 .. Len(d) + Len(b) :
            (d \o b)[i] = IF i <= Len(d) THEN d[i] ELSE b[i - Len(d)]
  BY <1>2, <1>7, ConcatProperties
<1>9. \A i \in 1 .. Len(tasks) + 1 :
         (d \o b)[i] = IF i = n THEN e ELSE tasks[IF i < n THEN i ELSE i - 1]
  BY <1>2, <1>6, <1>7, <1>8 DEF d
<1>10. QED
  BY <1>2, <1>4, <1>7, <1>8, <1>9 DEF d

-----------------------------------------------------------------------------
\* filter, one task after the other: of the first n tasks those are left
\* whose ID is another, in their order, and each once.
Filters(tasks, id, n, left) ==
    \E p \in [1 .. Len(left) -> 1 .. n] :
        /\ \A i, j \in 1 .. Len(left) : i < j => p[i] < p[j]
        /\ \A i \in 1 .. Len(left) : left[i] = tasks[p[i]] /\ left[i].ID # id
        /\ \A k \in 1 .. n : tasks[k].ID # id => \E i \in 1 .. Len(left) : p[i] = k

\* What filter has collected after n tasks, given what it has before.
Collects(tasks, id, others, n) ==
    IF n = 0 THEN << >>
    ELSE IF tasks[n].ID # id THEN Append(others[n - 1], tasks[n])
    ELSE others[n - 1]

\* The recursion defines a function.
LEMMA WithoutDefined ==
    ASSUME NEW S, NEW tasks \in Seq(S), NEW id
    PROVE  \E f \in [0 .. Len(tasks) -> Seq(S)] :
              /\ f = [n \in 0 .. Len(tasks) |-> Collects(tasks, id, f, n)]
              /\ Without(id, tasks) = f[Len(tasks)]
<1> DEFINE Sol(m, f) == \A n \in 0 .. m : f[n] = Collects(tasks, id, f, n)
           Solved == {m \in Nat : m <= Len(tasks) =>
                         \E f \in [0 .. m -> Seq(S)] : Sol(m, f)}
<1>1. 0 \in Solved
  <2>1. [n \in 0 .. 0 |-> << >>] \in [0 .. 0 -> Seq(S)]
    BY EmptySeq
  <2>2. Sol(0, [n \in 0 .. 0 |-> << >>])
    BY DEF Collects
  <2>3. QED
    BY <2>1, <2>2
<1>2. ASSUME NEW m \in Solved PROVE m + 1 \in Solved
  <2>0. m \in Nat /\ m + 1 \in Nat
    BY <1>2
  <2>1. SUFFICES ASSUME m + 1 <= Len(tasks)
                 PROVE  \E g \in [0 .. m + 1 -> Seq(S)] : Sol(m + 1, g)
    <3> HIDE DEF Sol
    <3> QED
      BY <2>0
  <2>2. PICK f \in [0 .. m -> Seq(S)] : Sol(m, f)
    BY <1>2, <2>0, <2>1, LenProperties
  <2> DEFINE g == [n \in 0 .. m + 1 |-> IF n <= m THEN f[n]
                                        ELSE Collects(tasks, id, f, m + 1)]
  <2>3. m \in Nat /\ f[m] \in Seq(S) /\ tasks[m + 1] \in S
    BY <2>1, <2>2, ElementOfSeq
  <2>4. Collects(tasks, id, f, m + 1) \in Seq(S)
    BY <2>3, AppendProperties DEF Collects
  <2>5. g \in [0 .. m + 1 -> Seq(S)]
    BY <2>2, <2>3, <2>4
  <2>6. \A n \in 0 .. m : g[n] = f[n]
    BY <2>3
  <2>7. ASSUME NEW n \in 0 .. m PROVE g[n] = Collects(tasks, id, g, n)
    <3> HIDE DEF g
    <3>1. g[n] = Collects(tasks, id, f, n)
      BY <2>2, <2>6
    <3>2. n # 0 => g[n - 1] = f[n - 1]
      BY <2>3, <2>6
    <3>3. QED
      BY <3>1, <3>2 DEF Collects
  <2>8. g[m + 1] = Collects(tasks, id, g, m + 1)
    BY <2>3, <2>6 DEF Collects
  <2> HIDE DEF g
  <2>9. Sol(m + 1, g)
    BY <2>3, <2>7, <2>8
  <2>10. QED
    BY <2>5, <2>9
<1>3. Solved = Nat
  <2> HIDE DEF Solved
  <2>1. Solved \in SUBSET Nat
    BY DEF Solved
  <2>2. QED
    BY <1>1, <1>2, <2>1, SetInduction
<1>4. PICK f \in [0 .. Len(tasks) -> Seq(S)] : Sol(Len(tasks), f)
  BY <1>3, LenProperties
<1>5. f = [n \in 0 .. Len(tasks) |-> Collects(tasks, id, f, n)]
  BY <1>4
<1> DEFINE F == CHOOSE h : h = [n \in 0 .. Len(tasks) |->
                    IF n = 0 THEN << >>
                    ELSE IF tasks[n].ID # id THEN Append(h[n - 1], tasks[n])
                    ELSE h[n - 1]]
<1>6. F = [n \in 0 .. Len(tasks) |-> Collects(tasks, id, F, n)]
  BY <1>5 DEF Collects
<1>7. Without(id, tasks) = F[Len(tasks)]
  BY DEF Without
<1> HIDE DEF F
<1>8. F \in [0 .. Len(tasks) -> Seq(S)]
  <2> DEFINE Typed == {m \in Nat : m <= Len(tasks) => F[m] \in Seq(S)}
  <2>1. 0 \in Typed
    BY <1>6, EmptySeq, LenProperties DEF Collects
  <2>2. ASSUME NEW m \in Typed PROVE m + 1 \in Typed
    <3>1. SUFFICES ASSUME m + 1 <= Len(tasks) PROVE F[m + 1] \in Seq(S)
      BY <2>2
    <3>2. m \in Nat /\ F[m] \in Seq(S) /\ tasks[m + 1] \in S
      BY <2>2, <3>1, LenProperties, ElementOfSeq
    <3>3. F[m + 1] = Collects(tasks, id, F, m + 1)
      <4>1. m + 1 \in 0 .. Len(tasks)
        BY <3>1, <3>2, LenProperties
      <4>2. QED
        BY <1>6, <4>1
    <3>4. QED
      BY <3>2, <3>3, AppendProperties DEF Collects
  <2>3. Typed = Nat
    <3> HIDE DEF Typed
    <3>1. Typed \in SUBSET Nat
      BY DEF Typed
    <3>2. QED
      BY <2>1, <2>2, <3>1, SetInduction
  <2>4. \A m \in 0 .. Len(tasks) : F[m] \in Seq(S)
    BY <2>3
  <2>5. QED
    BY <1>6, <2>4
<1>9. QED
  BY <1>6, <1>7, <1>8

\* So filter leaves what it should.
LEMMA WithoutPlaces ==
    ASSUME NEW S, NEW tasks \in Seq(S), NEW id
    PROVE  LET left == Without(id, tasks)
           IN  /\ left \in Seq(S)
               /\ Len(left) <= Len(tasks)
               /\ Filters(tasks, id, Len(tasks), left)
<1>1. PICK f \in [0 .. Len(tasks) -> Seq(S)] :
         /\ f = [n \in 0 .. Len(tasks) |-> Collects(tasks, id, f, n)]
         /\ Without(id, tasks) = f[Len(tasks)]
  BY WithoutDefined
<1> DEFINE Done == {m \in Nat : m <= Len(tasks) =>
                       Len(f[m]) <= m /\ Filters(tasks, id, m, f[m])}
<1>2. 0 \in Done
  <2>1. f[0] = << >>
    BY <1>1, LenProperties DEF Collects
  <2>2. [i \in {} |-> 0] \in [1 .. Len(f[0]) -> 1 .. 0]
    BY <2>1
  <2>3. Len(f[0]) = 0
    BY <2>1
  <2>4. Filters(tasks, id, 0, f[0])
    BY <2>2, <2>3 DEF Filters
  <2>5. QED
    BY <2>3, <2>4
<1>3. ASSUME NEW m \in Done PROVE m + 1 \in Done
  <2>1. SUFFICES ASSUME m + 1 <= Len(tasks)
                 PROVE  Len(f[m + 1]) <= m + 1 /\ Filters(tasks, id, m + 1, f[m + 1])
    BY <1>3
  <2>2. /\ m \in Nat /\ f[m] \in Seq(S) /\ f[m + 1] \in Seq(S)
        /\ tasks[m + 1] \in S /\ Len(f[m]) <= m /\ Len(f[m]) \in Nat
    BY <1>1, <1>3, <2>1, LenProperties, ElementOfSeq
  <2>3. PICK p \in [1 .. Len(f[m]) -> 1 .. m] :
           /\ \A i, j \in 1 .. Len(f[m]) : i < j => p[i] < p[j]
           /\ \A i \in 1 .. Len(f[m]) : f[m][i] = tasks[p[i]] /\ f[m][i].ID # id
           /\ \A k \in 1 .. m : tasks[k].ID # id => \E i \in 1 .. Len(f[m]) : p[i] = k
    BY <1>3, <2>1 DEF Filters
  <2>4. f[m + 1] = IF tasks[m + 1].ID # id THEN Append(f[m], tasks[m + 1]) ELSE f[m]
    <3>1. m + 1 \in 0 .. Len(tasks) /\ m + 1 # 0 /\ (m + 1) - 1 = m
      BY <2>1, <2>2, LenProperties
    <3>2. f[m + 1] = Collects(tasks, id, f, m + 1)
      BY <1>1, <3>1
    <3>3. QED
      BY <3>1, <3>2 DEF Collects
  <2>5. CASE tasks[m + 1].ID # id
    <3> DEFINE n == Len(f[m]) + 1
               q == [i \in 1 .. n |-> IF i = n THEN m + 1 ELSE p[i]]
    <3>1. /\ Len(f[m + 1]) = n /\ f[m + 1][n] = tasks[m + 1]
          /\ \A i \in 1 .. Len(f[m]) : f[m + 1][i] = f[m][i]
      BY <2>2, <2>4, <2>5, AppendProperties
    <3>2. /\ n \in Nat /\ n \in 1 .. n /\ q[n] = m + 1
          /\ \A i \in 1 .. Len(f[m]) : i \in 1 .. n /\ q[i] = p[i]
          /\ \A i \in 1 .. n : i = n \/ i \in 1 .. Len(f[m])
          /\ q \in [1 .. n -> 1 .. m + 1]
      BY <2>2, <2>3
    <3> HIDE DEF q
    <3>3. ASSUME NEW i \in 1 .. n, NEW j \in 1 .. n, i < j PROVE q[i] < q[j]
      <4>1. i \in 1 .. Len(f[m]) /\ q[i] = p[i] /\ p[i] \in 1 .. m
        BY <2>3, <3>2, <3>3
      <4>2. CASE j = n
        BY <2>2, <3>2, <4>1, <4>2
      <4>3. CASE j \in 1 .. Len(f[m])
        BY <2>3, <3>2, <3>3, <4>1, <4>3
      <4>4. QED
        BY <3>2, <4>2, <4>3
    <3>4. ASSUME NEW i \in 1 .. n PROVE f[m + 1][i] = tasks[q[i]] /\ f[m + 1][i].ID # id
      <4>1. CASE i = n
        BY <2>5, <3>1, <3>2, <4>1
      <4>2. CASE i \in 1 .. Len(f[m])
        BY <2>3, <3>1, <3>2, <4>2
      <4>3. QED
        BY <3>2, <4>1, <4>2
    <3>5. ASSUME NEW k \in 1 .. m + 1, tasks[k].ID # id PROVE \E i \in 1 .. n : q[i] = k
      <4>1. CASE k = m + 1
        BY <3>2, <4>1
      <4>2. CASE k # m + 1
        <5>1. k \in 1 .. m
          BY <2>2, <4>2
        <5>2. PICK i \in 1 .. Len(f[m]) : p[i] = k
          BY <2>3, <3>5, <5>1
        <5>3. QED
          BY <3>2, <5>2
      <4>3. QED
        BY <4>1, <4>2
    <3>6. Filters(tasks, id, m + 1, f[m + 1])
      <4> HIDE DEF n
      <4>1. q \in [1 .. Len(f[m + 1]) -> 1 .. m + 1]
        BY <3>1, <3>2
      <4>2. \A i, j \in 1 .. Len(f[m + 1]) : i < j => q[i] < q[j]
        BY <3>1, <3>3
      <4>3. \A i \in 1 .. Len(f[m + 1]) :
               f[m + 1][i] = tasks[q[i]] /\ f[m + 1][i].ID # id
        BY <3>1, <3>4
      <4>4. \A k \in 1 .. m + 1 :
               tasks[k].ID # id => \E i \in 1 .. Len(f[m + 1]) : q[i] = k
        BY <3>1, <3>5
      <4>5. QED
        BY <4>1, <4>2, <4>3, <4>4 DEF Filters
    <3>7. QED
      BY <2>2, <3>1, <3>6
  <2>6. CASE tasks[m + 1].ID = id
    <3>1. p \in [1 .. Len(f[m]) -> 1 .. m + 1]
      BY <2>2, <2>3
    <3>2. ASSUME NEW k \in 1 .. m + 1, tasks[k].ID # id PROVE k \in 1 .. m
      <4>1. k # m + 1
        BY <2>6, <3>2
      <4>2. QED
        BY <2>2, <4>1
    <3>3. f[m + 1] = f[m]
      BY <2>4, <2>6
    <3>4. \A k \in 1 .. m + 1 : tasks[k].ID # id => \E i \in 1 .. Len(f[m]) : p[i] = k
      BY <2>3, <3>2
    <3>5. Filters(tasks, id, m + 1, f[m + 1])
      BY <2>3, <3>1, <3>3, <3>4 DEF Filters
    <3>6. QED
      BY <2>2, <3>3, <3>5
  <2>7. QED
    BY <2>5, <2>6
<1>4. Done = Nat
  <2> HIDE DEF Done
  <2>1. Done \in SUBSET Nat
    BY DEF Done
  <2>2. QED
    BY <1>2, <1>3, <2>1, SetInduction
<1>5. Len(tasks) \in Nat /\ Len(tasks) \in Done
  BY <1>4, LenProperties
<1>6. Len(f[Len(tasks)]) <= Len(tasks) /\ Filters(tasks, id, Len(tasks), f[Len(tasks)])
  BY <1>5
<1>7. f[Len(tasks)] \in Seq(S)
  BY <1>1, <1>5
<1>8. QED
  BY <1>1, <1>6, <1>7

-----------------------------------------------------------------------------
\* The constants are finite sets, and the greatest order a natural number.
LEMMA Finite ==
    /\ Cardinality(TaskIDs) \in Nat /\ Cardinality(Gestures) \in Nat
    /\ MaxOrder \in Nat /\ Cardinality(TaskIDs) <= MaxOrder
<1>1. Cardinality(TaskIDs) \in Nat /\ Cardinality(Gestures) \in Nat
  BY BoardClientAssumption, FS_CardinalityType
<1>2. QED
  BY <1>1 DEF MaxOrder

\* A board is what GET /tasks can read.
Board == [TaskIDs -> Item \cup {NoItem}]

\* A stored task can be shown.
LEMMA StoredEntries ==
    ASSUME NEW t \in Board, NEW c \in Cols
    PROVE  StoredIn(t, c) \subseteq Entry
<1>1. ASSUME NEW id \in TaskIDs, t[id] # NoItem PROVE EntryOf(id, t[id]) \in Entry
  <2>1. t[id] \in Item
    BY <1>1 DEF Board
  <2>2. QED
    BY <2>1, BoardClientAssumption DEF EntryOf, Entry, Item
<1>2. QED
  BY <1>1 DEF StoredIn

\* A column stores each task once, so not more tasks than there are IDs.
LEMMA StoredBounded ==
    ASSUME NEW t \in Board, NEW c \in Cols
    PROVE  /\ IsFiniteSet(StoredIn(t, c))
           /\ Cardinality(StoredIn(t, c)) \in Nat
           /\ Cardinality(StoredIn(t, c)) <= Cardinality(TaskIDs)
<1> DEFINE S == StoredIn(t, c)
           f == [e \in S |-> e.ID]
<1>1. \A e \in S : e.ID \in TaskIDs /\ e = EntryOf(e.ID, t[e.ID])
  BY DEF StoredIn, EntryOf
<1>2. f \in [S -> TaskIDs]
  BY <1>1
<1>3. IsInjective(f)
  BY <1>1 DEF IsInjective
<1>4. f \in Injection(S, TaskIDs)
  BY <1>2, <1>3 DEF Injection
<1>5. IsFiniteSet(TaskIDs)
  BY BoardClientAssumption
<1> HIDE DEF S, f
<1>6. IsFiniteSet(S) /\ Cardinality(S) <= Cardinality(TaskIDs)
  BY <1>4, <1>5, FS_Injection
<1>7. QED
  BY <1>6, FS_CardinalityType DEF S

\* A layout shows what is stored in a column, once, by its order.
LEMMA LayoutColumns ==
    ASSUME NEW t \in Board, NEW f \in Layouts(t), NEW c \in Cols
    PROVE  LET stored == StoredIn(t, c)
               n == Cardinality(stored)
           IN  /\ f[c] \in Seq(Entry) /\ f[c] \in [1 .. n -> stored]
               /\ n \in Nat /\ n <= Cardinality(TaskIDs) /\ Len(f[c]) = n
               /\ Range(f[c]) = stored
               /\ IsInjective(f[c])
               /\ \A i, j \in 1 .. n : i < j => f[c][i].Order <= f[c][j].Order
<1> DEFINE S == StoredIn(t, c)
           n == Cardinality(S)
           s == f[c]
<1>1. s \in Sorted(S)
  BY DEF Layouts
<1>2. s \in SetToSeqs(S) /\ \A i, j \in DOMAIN s : i < j => s[i].Order <= s[j].Order
  BY <1>1 DEF Sorted
<1>3. s \in [1 .. n -> S] /\ \A i, j \in 1 .. n : i # j => s[i] # s[j]
  BY <1>2 DEF SetToSeqs
<1>4. IsFiniteSet(S) /\ n \in Nat /\ n <= Cardinality(TaskIDs) /\ S \subseteq Entry
  BY StoredBounded, StoredEntries
<1> HIDE DEF S, s
<1>5. IsInjective(s)
  BY <1>3 DEF IsInjective
<1>6. s \in Injection(1 .. n, S)
  BY <1>3, <1>5 DEF Injection
<1>7. Cardinality(1 .. n) = n
  BY <1>4, FS_Interval
<1>8. s \in Surjection(1 .. n, S)
  <2> HIDE DEF n
  <2>1. Cardinality(1 .. n) = Cardinality(S)
    BY <1>7 DEF n
  <2>2. QED
    BY <1>4, <1>6, <2>1, FS_Injection
<1>9. \A e \in S : \E i \in 1 .. n : s[i] = e
  BY <1>8 DEF Surjection
<1>10. Range(s) = S
  BY <1>3, <1>9 DEF Range
<1>11. s \in [1 .. n -> Entry]
  BY <1>3, <1>4
<1>12. s \in Seq(Entry) /\ Len(s) = n
  <2> HIDE DEF n
  <2>1. QED
    BY <1>4, <1>11, <1>3, IsASeq, LenProperties
<1>13. QED
  BY <1>2, <1>3, <1>4, <1>5, <1>10, <1>12 DEF S, s

\* Numbering changes the column and the order of each task, and no more.
LEMMA NumberedPlaces ==
    ASSUME NEW tasks \in Seq(Entry), NEW c \in Cols, Len(tasks) <= MaxOrder + 1
    PROVE  LET new == Numbered(tasks, c)
           IN  /\ new \in Seq(Entry) /\ Len(new) = Len(tasks)
               /\ \A i \in 1 .. Len(tasks) :
                     /\ new[i] = [ID |-> tasks[i].ID, ColNo |-> c, Order |-> i - 1,
                                  Content |-> tasks[i].Content]
                     /\ new[i] \in Entry
<1> DEFINE new == Numbered(tasks, c)
<1>1. Len(tasks) \in Nat /\ DOMAIN tasks = 1 .. Len(tasks)
  BY LenProperties
<1>2. ASSUME NEW i \in 1 .. Len(tasks)
      PROVE  /\ new[i] = [ID |-> tasks[i].ID, ColNo |-> c, Order |-> i - 1,
                          Content |-> tasks[i].Content]
             /\ new[i] \in Entry
  <2>1. tasks[i] \in Entry
    BY <1>1, ElementOfSeq
  <2>2. new[i] = [tasks[i] EXCEPT !.ColNo = c, !.Order = i - 1]
    BY <1>1 DEF Numbered
  <2>3. i - 1 \in 0 .. MaxOrder
    BY <1>1, Finite
  <2> HIDE DEF new
  <2>4. QED
    BY <2>1, <2>2, <2>3 DEF Entry
<1>3. new \in [1 .. Len(tasks) -> Entry]
  <2>1. new = [i \in 1 .. Len(tasks) |-> new[i]]
    BY <1>1 DEF Numbered
  <2> HIDE DEF new
  <2>2. QED
    BY <1>2, <2>1
<1>4. new \in Seq(Entry) /\ Len(new) = Len(tasks)
  <2> HIDE DEF new
  <2>1. QED
    BY <1>1, <1>3, IsASeq, LenProperties
<1>5. QED
  BY <1>2, <1>4

=============================================================================
