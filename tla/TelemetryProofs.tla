--------------------------- MODULE TelemetryProofs ---------------------------
(***************************************************************************)
(* From cockpit to cloud, for every set of aircraft and controls, every    *)
(* size of chunks, deltas, queue and wire: the gateway accepts what        *)
(* reaches it, the newest value gets through, and no position of a switch  *)
(* is skipped.                                                             *)
(***************************************************************************)
EXTENDS TelemetryStream, Integers, FiniteSetTheorems, SequenceTheorems, TLAPS

-----------------------------------------------------------------------------
(* Sets of numbers in increasing order.                                    *)

LEMMA RankOf ==
    ASSUME NEW S \in SUBSET Nat, IsFiniteSet(S)
    PROVE  \E rank \in [S -> 1..Cardinality(S)] :
              /\ \A x \in S : rank[x] = Cardinality({y \in S : y < x}) + 1
              /\ \A x, y \in S : x < y => rank[x] < rank[y]
              /\ \A k \in 1..Cardinality(S) : \E x \in S : rank[x] = k
<1>. DEFINE below(x) == {y \in S : y < x}
            n == Cardinality(S)
            rank == [x \in S |-> Cardinality(below(x)) + 1]
<1>1. n \in Nat
  BY FS_CardinalityType
<1>2. ASSUME NEW x \in S PROVE IsFiniteSet(below(x)) /\ Cardinality(below(x)) \in 0..(n - 1)
  <2>1. below(x) \in SUBSET S /\ x \notin below(x)
    OBVIOUS
  <2>2. IsFiniteSet(below(x)) /\ Cardinality(below(x)) <= n /\ Cardinality(below(x)) # n
    BY <2>1, FS_Subset
  <2>. QED
    BY <1>1, <2>2, FS_CardinalityType
<1>3. ASSUME NEW x \in S, NEW y \in S, x < y PROVE Cardinality(below(x)) < Cardinality(below(y))
  <2>0. x \in Nat /\ y \in Nat
    OBVIOUS
  <2>a. ASSUME NEW z \in below(x) PROVE z \in below(y)
    <3>1. z \in S /\ z \in Nat /\ z < x
      OBVIOUS
    <3>. QED
      BY <1>3, <2>0, <3>1
  <2>1. below(x) \cup {x} \in SUBSET below(y) /\ x \notin below(x)
    <3>1. \A z \in below(x) : z \in below(y)
      BY <2>a
    <3>2. x \in below(y) /\ x \notin below(x)
      BY <1>3, <2>0
    <3>. QED
      BY ONLY <3>1, <3>2
  <2>2. Cardinality(below(x) \cup {x}) = Cardinality(below(x)) + 1
    BY <1>2, <2>1, FS_AddElement
  <2>3. Cardinality(below(x) \cup {x}) <= Cardinality(below(y))
    BY <1>2, <2>1, FS_Subset
  <2>. QED
    BY <1>2, <2>2, <2>3
<1>4. rank \in [S -> 1..n]
  BY <1>1, <1>2
<1>. HIDE DEF below, n
<1>5. \A x, y \in S : x < y => rank[x] < rank[y]
  BY <1>1, <1>2, <1>3
<1>6. rank \in Injection(S, 1..n)
  <2>1. \A x, y \in S : x # y => rank[x] # rank[y]
    BY <1>4, <1>5
  <2>. QED
    BY <1>4, <2>1 DEF Injection, IsInjective
<1>7. IsFiniteSet(1..n) /\ Cardinality(1..n) = n
  BY <1>1, FS_Interval
<1>8. rank \in Surjection(S, 1..n)
  BY <1>6, <1>7, FS_Injection DEF n
<1>9. \A k \in 1..n : \E x \in S : rank[x] = k
  BY <1>8 DEF Surjection
<1>. QED
  BY <1>4, <1>5, <1>9 DEF below, n

LEMMA Ordered ==
    ASSUME NEW S \in SUBSET Nat, IsFiniteSet(S)
    PROVE  /\ Cardinality(S) \in Nat
           /\ InOrder(S) \in [1..Cardinality(S) -> S]
           /\ \A i, j \in 1..Cardinality(S) : i < j => InOrder(S)[i] < InOrder(S)[j]
           /\ \A x \in S : \E k \in 1..Cardinality(S) : InOrder(S)[k] = x
<1>. DEFINE n == Cardinality(S)
            s == InOrder(S)
<1>1. n \in Nat
  BY FS_CardinalityType
<1>2. PICK rank \in [S -> 1..n] :
        /\ \A x \in S : rank[x] = Cardinality({y \in S : y < x}) + 1
        /\ \A x, y \in S : x < y => rank[x] < rank[y]
        /\ \A k \in 1..n : \E x \in S : rank[x] = k
  BY RankOf
<1>3. ASSUME NEW x \in S PROVE Cardinality({y \in S : y < x}) = rank[x] - 1
  <2>1. {y \in S : y < x} \in SUBSET S
    OBVIOUS
  <2>2. Cardinality({y \in S : y < x}) \in Nat
    BY <2>1, FS_Subset, FS_CardinalityType
  <2>. QED
    BY <1>2, <2>2
<1>4. ASSUME NEW k \in 1..n PROVE s[k] \in S /\ rank[s[k]] = k
  <2>1. PICK x \in S : rank[x] = k
    BY <1>2
  <2>2. Cardinality({y \in S : y < x}) = k - 1
    BY <1>3, <2>1
  <2>3. s[k] \in S /\ Cardinality({y \in S : y < s[k]}) = k - 1
    BY <2>2 DEF InOrder
  <2>. HIDE DEF s
  <2>4. Cardinality({y \in S : y < s[k]}) = rank[s[k]] - 1
    BY <1>3, <2>3
  <2>5. rank[s[k]] \in 1..n /\ k \in 1..n
    BY <1>2, <2>3
  <2>. QED
    BY <1>1, <2>3, <2>4, <2>5
<1>5. s \in [1..n -> S]
  BY <1>4 DEF InOrder
<1>. HIDE DEF n, s
<1>6. ASSUME NEW i \in 1..n, NEW j \in 1..n, i < j PROVE s[i] < s[j]
  <2>1. /\ s[i] \in S /\ s[j] \in S /\ i \in Nat /\ j \in Nat
        /\ s[i] \in Nat /\ s[j] \in Nat
    <3>1. s[i] \in S /\ s[j] \in S
      BY <1>4
    <3>2. s[i] \in Nat /\ s[j] \in Nat
      BY <3>1
    <3>. QED
      BY <1>1, <3>1, <3>2
  <2>2. ~(s[j] < s[i]) /\ s[i] # s[j]
    BY <1>2, <1>4, <1>6, <2>1
  <2>. QED
    BY <2>1, <2>2
<1>7. ASSUME NEW x \in S PROVE s[rank[x]] = x
  <2>1. /\ rank[x] \in 1..n /\ s[rank[x]] \in S /\ rank[s[rank[x]]] = rank[x]
        /\ x \in Nat /\ s[rank[x]] \in Nat
    BY <1>2, <1>4
  <2>2. ~(s[rank[x]] < x) /\ ~(x < s[rank[x]])
    BY <1>1, <1>2, <2>1
  <2>. QED
    BY <2>1, <2>2
<1>. QED
  BY <1>1, <1>2, <1>5, <1>6, <1>7 DEF n, s

\* There is only one increasing order.
LEMMA Enumerated ==
    ASSUME NEW S \in SUBSET Nat, NEW n \in Nat, NEW f \in [1..n -> S],
           \A i, j \in 1..n : i < j => f[i] < f[j],
           \A x \in S : \E k \in 1..n : f[k] = x
    PROVE  IsFiniteSet(S) /\ Cardinality(S) = n /\ InOrder(S) = f
<1>1. \A i, j \in 1..n : f[i] < f[j] => i < j
  <2>. SUFFICES ASSUME NEW i \in 1..n, NEW j \in 1..n, f[i] < f[j], ~(i < j) PROVE FALSE
    OBVIOUS
  <2>1. f[i] \in Nat /\ f[j] \in Nat
    OBVIOUS
  <2>2. i = j \/ j < i
    OBVIOUS
  <2>. QED
    BY <2>1, <2>2
<1>2. f \in Bijection(1..n, S)
  <2>1. \A i, j \in 1..n : f[i] = f[j] => i = j
    <3>. SUFFICES ASSUME NEW i \in 1..n, NEW j \in 1..n, f[i] = f[j] PROVE i = j
      OBVIOUS
    <3>0. f[i] \in Nat /\ f[j] \in Nat
      OBVIOUS
    <3>1. ~(i < j) /\ ~(j < i)
      BY <3>0
    <3>. QED
      BY <3>1
  <2>. QED
    BY <2>1 DEF Bijection, Injection, Surjection, IsInjective
<1>3. ExistsBijection(1..n, S)
  BY <1>2 DEF ExistsBijection
<1>4. IsFiniteSet(S) /\ Cardinality(S) = n
  BY <1>3, FS_NatBijection, FS_CountingElements
<1>5. /\ InOrder(S) \in [1..n -> S]
      /\ \A i, j \in 1..n : i < j => InOrder(S)[i] < InOrder(S)[j]
      /\ \A x \in S : \E k \in 1..n : InOrder(S)[k] = x
  BY <1>4, Ordered
<1>6. PICK rank \in [S -> 1..n] :
        /\ \A x \in S : rank[x] = Cardinality({y \in S : y < x}) + 1
        /\ \A x, y \in S : x < y => rank[x] < rank[y]
        /\ \A k \in 1..n : \E x \in S : rank[x] = k
  BY <1>4, RankOf
<1>7. ASSUME NEW k \in 1..n PROVE Cardinality({y \in S : y < f[k]}) = k - 1
  <2>. DEFINE T == {y \in S : y < f[k]}
              g == [i \in 1..(k - 1) |-> f[i]]
  <2>1. g \in [1..(k - 1) -> T]
    OBVIOUS
  <2>2. \A y \in T : \E i \in 1..(k - 1) : g[i] = y
    <3>. SUFFICES ASSUME NEW y \in T PROVE \E i \in 1..(k - 1) : g[i] = y
      OBVIOUS
    <3>1. PICK i \in 1..n : f[i] = y
      OBVIOUS
    <3>2. i \in 1..(k - 1)
      BY <1>1, <3>1
    <3>. QED
      BY <3>1, <3>2
  <2>3. \A i, j \in 1..(k - 1) : g[i] = g[j] => i = j
    BY <1>2 DEF Bijection, Injection, IsInjective
  <2>. HIDE DEF g, T
  <2>4. g \in Bijection(1..(k - 1), T)
    BY <2>1, <2>2, <2>3, Zenon DEF Bijection, Injection, Surjection, IsInjective
  <2>5. ExistsBijection(1..(k - 1), T) /\ k - 1 \in Nat
    BY <2>4 DEF ExistsBijection
  <2>. QED
    BY <2>5, FS_CountingElements DEF T
<1>8. ASSUME NEW k \in 1..n PROVE InOrder(S)[k] = f[k]
  <2>1. f[k] \in S /\ Cardinality({y \in S : y < f[k]}) = k - 1
    BY <1>7
  <2>2. InOrder(S)[k] \in S /\ Cardinality({y \in S : y < InOrder(S)[k]}) = k - 1
    BY <1>4, <2>1 DEF InOrder
  <2>3. rank[f[k]] = k - 1 + 1 /\ rank[InOrder(S)[k]] = k - 1 + 1
    BY <1>6, <2>1, <2>2, Zenon
  <2>4. f[k] \in Nat /\ InOrder(S)[k] \in Nat
    BY <2>1, <2>2
  <2>5. ~(f[k] < InOrder(S)[k]) /\ ~(InOrder(S)[k] < f[k])
    <3>1. \A x, y \in S : x < y => rank[x] < rank[y]
      BY <1>6
    <3>2. /\ rank[f[k]] = rank[InOrder(S)[k]] /\ f[k] \in S /\ InOrder(S)[k] \in S
          /\ rank[f[k]] \in Nat /\ rank[InOrder(S)[k]] \in Nat
      BY <1>6, <2>1, <2>2, <2>3
    <3>3. \A x, y \in S : x < y => rank[x] # rank[y]
      <4>. SUFFICES ASSUME NEW x \in S, NEW y \in S, x < y PROVE rank[x] # rank[y]
        OBVIOUS
      <4>a. rank[x] < rank[y]
        BY <1>6, Zenon
      <4>b. rank[x] \in 1..n /\ rank[y] \in 1..n
        BY <1>6, Zenon
      <4>1. rank[x] < rank[y] /\ rank[x] \in Nat /\ rank[y] \in Nat
        BY <4>a, <4>b
      <4>. QED
        BY <4>1
    <3>. QED
      BY <3>2, <3>3, Zenon
  <2>. QED
    BY <2>4, <2>5
<1>. QED
  BY <1>4, <1>5, <1>8

LEMMA OrderAppended ==
    ASSUME NEW n \in Nat, NEW T \in SUBSET (1..n)
    PROVE  /\ IsFiniteSet(T) /\ Cardinality(T) \in Nat
           /\ Cardinality(T \cup {n + 1}) = Cardinality(T) + 1
           /\ InOrder(T \cup {n + 1}) =
                 [k \in 1..(Cardinality(T) + 1) |->
                     IF k = Cardinality(T) + 1 THEN n + 1 ELSE InOrder(T)[k]]
<1>. DEFINE size == Cardinality(T)
            f == [k \in 1..(size + 1) |-> IF k = size + 1 THEN n + 1 ELSE InOrder(T)[k]]
<1>1. IsFiniteSet(T)
  <2>1. 1 \in Int /\ n \in Int
    OBVIOUS
  <2>2. IsFiniteSet(1..n)
    BY <2>1, FS_Interval
  <2>. QED
    BY <2>2, FS_Subset
<1>2. T \in SUBSET Nat /\ T \cup {n + 1} \in SUBSET Nat
  OBVIOUS
<1>3. /\ size \in Nat /\ InOrder(T) \in [1..size -> T]
      /\ \A i, j \in 1..size : i < j => InOrder(T)[i] < InOrder(T)[j]
      /\ \A x \in T : \E k \in 1..size : InOrder(T)[k] = x
  BY <1>1, <1>2, Ordered
<1>. HIDE DEF size
<1>4. f \in [1..(size + 1) -> T \cup {n + 1}]
  BY <1>3
<1>5. ASSUME NEW i \in 1..(size + 1), NEW j \in 1..(size + 1), i < j PROVE f[i] < f[j]
  <2>1. i \in 1..size /\ InOrder(T)[i] \in T /\ InOrder(T)[i] \in 1..n /\ f[i] = InOrder(T)[i]
    <3>1. i \in 1..size /\ i # size + 1
      BY <1>3, <1>5
    <3>2. InOrder(T)[i] \in T
      BY <1>3, <3>1
    <3>3. InOrder(T)[i] \in 1..n
      BY <3>2
    <3>. QED
      BY <3>1, <3>2, <3>3
  <2>2. CASE j = size + 1
    BY <1>3, <2>1, <2>2
  <2>3. CASE j # size + 1
    <3>1. j \in 1..size /\ f[j] = InOrder(T)[j]
      BY <1>3, <2>3
    <3>. QED
      BY <1>3, <1>5, <2>1, <3>1
  <2>. QED
    BY <2>2, <2>3
<1>6. ASSUME NEW x \in T \cup {n + 1} PROVE \E k \in 1..(size + 1) : f[k] = x
  <2>1. CASE x = n + 1
    <3>1. size + 1 \in 1..(size + 1) /\ f[size + 1] = n + 1
      BY <1>3
    <3>. QED
      BY <2>1, <3>1
  <2>2. CASE x \in T
    <3>1. PICK k \in 1..size : InOrder(T)[k] = x
      BY <1>3, <2>2
    <3>2. k \in 1..(size + 1) /\ f[k] = x
      BY <1>3, <3>1
    <3>. QED
      BY <3>2
  <2>. QED
    BY <2>1, <2>2
<1>. HIDE DEF f
<1>7. Cardinality(T \cup {n + 1}) = size + 1 /\ InOrder(T \cup {n + 1}) = f
  BY <1>2, <1>3, <1>4, <1>5, <1>6, Enumerated
<1>. QED
  BY <1>1, <1>3, <1>7 DEF size, f

LEMMA OrderShifted ==
    ASSUME NEW U \in SUBSET (Nat \ {0}), IsFiniteSet(U)
    PROVE  LET T == {i + 1 : i \in U} IN
           /\ IsFiniteSet(T) /\ Cardinality(T) = Cardinality(U)
           /\ InOrder(T) = [k \in 1..Cardinality(U) |-> InOrder(U)[k] + 1]
<1>. DEFINE size == Cardinality(U)
            T == {i + 1 : i \in U}
            f == [k \in 1..size |-> InOrder(U)[k] + 1]
<1>1. U \in SUBSET Nat /\ T \in SUBSET Nat
  OBVIOUS
<1>2. /\ size \in Nat /\ InOrder(U) \in [1..size -> U]
      /\ \A i, j \in 1..size : i < j => InOrder(U)[i] < InOrder(U)[j]
      /\ \A x \in U : \E k \in 1..size : InOrder(U)[k] = x
  BY <1>1, Ordered
<1>. HIDE DEF size
<1>3. f \in [1..size -> T]
  BY <1>2
<1>4. ASSUME NEW i \in 1..size, NEW j \in 1..size, i < j PROVE f[i] < f[j]
  <2>1. InOrder(U)[i] \in Nat /\ InOrder(U)[j] \in Nat
    BY <1>1, <1>2
  <2>2. InOrder(U)[i] < InOrder(U)[j]
    BY <1>2, <1>4
  <2>. QED
    BY <2>1, <2>2
<1>5. ASSUME NEW x \in T PROVE \E k \in 1..size : f[k] = x
  <2>1. PICK i \in U : x = i + 1
    OBVIOUS
  <2>2. PICK k \in 1..size : InOrder(U)[k] = i
    BY <1>2
  <2>. QED
    BY <2>1, <2>2
<1>. HIDE DEF f, T
<1>6. IsFiniteSet(T) /\ Cardinality(T) = size /\ InOrder(T) = f
  BY <1>1, <1>2, <1>3, <1>4, <1>5, Enumerated
<1>. QED
  BY <1>6 DEF size, f, T

LEMMA OrderPrepended ==
    ASSUME NEW U \in SUBSET (Nat \ {0}), IsFiniteSet(U)
    PROVE  LET T == {1} \cup {i + 1 : i \in U} IN
           /\ IsFiniteSet(T) /\ Cardinality(T) = Cardinality(U) + 1
           /\ InOrder(T) = [k \in 1..(Cardinality(U) + 1) |->
                               IF k = 1 THEN 1 ELSE InOrder(U)[k - 1] + 1]
<1>. DEFINE size == Cardinality(U)
            T == {1} \cup {i + 1 : i \in U}
            f == [k \in 1..(size + 1) |-> IF k = 1 THEN 1 ELSE InOrder(U)[k - 1] + 1]
<1>1. U \in SUBSET Nat /\ T \in SUBSET Nat
  OBVIOUS
<1>2. /\ size \in Nat /\ InOrder(U) \in [1..size -> U]
      /\ \A i, j \in 1..size : i < j => InOrder(U)[i] < InOrder(U)[j]
      /\ \A x \in U : \E k \in 1..size : InOrder(U)[k] = x
  BY <1>1, Ordered
<1>. HIDE DEF size
<1>a. ASSUME NEW k \in 1..(size + 1), k # 1
      PROVE k - 1 \in 1..size /\ InOrder(U)[k - 1] \in U /\ f[k] = InOrder(U)[k - 1] + 1
  BY <1>2, <1>a
<1>b. f[1] = 1 /\ 1 \in 1..(size + 1)
  BY <1>2
<1>3. f \in [1..(size + 1) -> T]
  BY <1>a
<1>4. ASSUME NEW i \in 1..(size + 1), NEW j \in 1..(size + 1), i < j PROVE f[i] < f[j]
  <2>1. j # 1
    BY <1>2, <1>4
  <2>2. j - 1 \in 1..size /\ InOrder(U)[j - 1] \in Nat \ {0} /\ f[j] = InOrder(U)[j - 1] + 1
    BY <1>a, <2>1
  <2>3. CASE i = 1
    BY <1>b, <2>2, <2>3
  <2>4. CASE i # 1
    <3>1. i - 1 \in 1..size /\ InOrder(U)[i - 1] \in Nat \ {0} /\ f[i] = InOrder(U)[i - 1] + 1
      BY <1>a, <2>4
    <3>2. InOrder(U)[i - 1] < InOrder(U)[j - 1]
      BY <1>2, <1>4, <2>2, <3>1
    <3>. QED
      BY <2>2, <3>1, <3>2
  <2>. QED
    BY <2>3, <2>4
<1>5. ASSUME NEW x \in T PROVE \E k \in 1..(size + 1) : f[k] = x
  <2>1. CASE x = 1
    BY <1>b, <2>1
  <2>2. CASE \E i \in U : x = i + 1
    <3>1. PICK i \in U : x = i + 1
      BY <2>2
    <3>2. PICK k \in 1..size : InOrder(U)[k] = i
      BY <1>2
    <3>3. k + 1 \in 1..(size + 1) /\ k + 1 # 1 /\ (k + 1) - 1 = k
      BY <1>2
    <3>4. f[k + 1] = x
      BY <1>a, <3>1, <3>2, <3>3
    <3>. QED
      BY <3>3, <3>4
  <2>. QED
    BY <2>1, <2>2
<1>. HIDE DEF f, T
<1>6. IsFiniteSet(T) /\ Cardinality(T) = size + 1 /\ InOrder(T) = f
  <2>1. size + 1 \in Nat
    BY <1>2
  <2>. QED
    BY <1>1, <1>3, <1>4, <1>5, <2>1, Enumerated
<1>. QED
  BY <1>6 DEF size, f, T

-----------------------------------------------------------------------------
(* What a sequence of messages tells of a control in an epoch.             *)

Matches(m, epoch, c) == m.epoch = epoch /\ c \in DOMAIN m.values

Mine(P, epoch, c) == {i \in DOMAIN P : P[i].epoch = epoch /\ c \in DOMAIN P[i].values}

Told(P, epoch, c) ==
    [k \in 1..Cardinality(Mine(P, epoch, c)) |->
        Selected(P, Mine(P, epoch, c))[k].values[c]]

LEMMA ShownValues ==
    ASSUME NEW f \in Shown, NEW c \in DOMAIN f
    PROVE  c \in Controls /\ f[c] \in Values
  BY DEF Shown

LEMMA MineFinite ==
    ASSUME NEW P \in Seq(Messages), NEW epoch, NEW c
    PROVE  /\ Mine(P, epoch, c) \in SUBSET (1..Len(P))
           /\ Mine(P, epoch, c) \in SUBSET Nat
           /\ Mine(P, epoch, c) \in SUBSET (Nat \ {0})
           /\ IsFiniteSet(Mine(P, epoch, c))
           /\ Cardinality(Mine(P, epoch, c)) \in Nat
<1>1. Len(P) \in Nat /\ DOMAIN P = 1..Len(P)
  OBVIOUS
<1>2. Mine(P, epoch, c) \in SUBSET (1..Len(P))
  BY <1>1 DEF Mine
<1>3. IsFiniteSet(Mine(P, epoch, c)) /\ Cardinality(Mine(P, epoch, c)) \in Nat
  BY <1>1, <1>2, OrderAppended
<1>4. 1..Len(P) \in SUBSET (Nat \ {0})
  BY <1>1
<1>. QED
  BY <1>2, <1>3, <1>4

LEMMA ToldAt ==
    ASSUME NEW P \in Seq(Messages), NEW epoch, NEW c,
           NEW k \in 1..Cardinality(Mine(P, epoch, c))
    PROVE  /\ InOrder(Mine(P, epoch, c))[k] \in Mine(P, epoch, c)
           /\ Told(P, epoch, c)[k] = P[InOrder(Mine(P, epoch, c))[k]].values[c]
<1>1. InOrder(Mine(P, epoch, c)) \in [1..Cardinality(Mine(P, epoch, c)) -> Mine(P, epoch, c)]
  BY MineFinite, Ordered
<1>. QED
  BY <1>1 DEF Told, Selected

LEMMA ToldType ==
    ASSUME NEW P \in Seq(Messages), NEW epoch, NEW c
    PROVE  /\ Told(P, epoch, c) \in Seq(Values)
           /\ Len(Told(P, epoch, c)) = Cardinality(Mine(P, epoch, c))
           /\ Told(P, epoch, c) = <<>> <=> Mine(P, epoch, c) = {}
<1>. DEFINE n == Cardinality(Mine(P, epoch, c))
            v(k) == Told(P, epoch, c)[k]
<1>1. n \in Nat
  BY MineFinite
<1>2. ASSUME NEW k \in 1..n PROVE v(k) \in Values
  <2>1. PICK i \in Mine(P, epoch, c) : Told(P, epoch, c)[k] = P[i].values[c]
    BY ToldAt
  <2>2. i \in DOMAIN P /\ P[i] \in Messages /\ c \in DOMAIN P[i].values
    BY DEF Mine
  <2>3. P[i].values \in Shown
    BY <2>2 DEF Messages
  <2>. QED
    BY <2>1, <2>2, <2>3, ShownValues
<1>3. Told(P, epoch, c) = [k \in 1..n |-> v(k)]
  BY DEF Told
<1>4. Told(P, epoch, c) \in [1..n -> Values]
  BY <1>2, <1>3, Zenon
<1>5. n = 0 <=> Mine(P, epoch, c) = {}
  BY MineFinite, FS_EmptySet
<1>. HIDE DEF n
<1>6. Told(P, epoch, c) \in Seq(Values) /\ Len(Told(P, epoch, c)) = n
  BY <1>1, <1>4
<1>7. Told(P, epoch, c) = <<>> <=> n = 0
  BY <1>6
<1>. QED
  BY <1>5, <1>6, <1>7 DEF n

LEMMA ToldAppend ==
    ASSUME NEW P \in Seq(Messages), NEW epoch, NEW c, NEW m \in Messages
    PROVE  Told(Append(P, m), epoch, c) =
              IF Matches(m, epoch, c)
              THEN Append(Told(P, epoch, c), m.values[c])
              ELSE Told(P, epoch, c)
<1>. DEFINE n == Len(P)
            T == Mine(P, epoch, c)
            size == Cardinality(T)
<1>0. PICK Q : Q = Append(P, m)
  OBVIOUS
<1>1. /\ n \in Nat /\ DOMAIN P = 1..n /\ Q \in Seq(Messages) /\ Len(Q) = n + 1
      /\ DOMAIN Q = 1..(n + 1) /\ Q[n + 1] = m /\ \A i \in 1..n : Q[i] = P[i]
  BY <1>0, AppendProperties
<1>2. Told(P, epoch, c) \in Seq(Values) /\ Len(Told(P, epoch, c)) = size
  BY ToldType
<1>3. /\ T \in SUBSET (1..n) /\ size \in Nat
      /\ InOrder(T) \in [1..size -> T]
  BY MineFinite, Ordered
<1>4. CASE Matches(m, epoch, c)
  <2>1. Mine(Q, epoch, c) = T \cup {n + 1}
    BY <1>1, <1>4 DEF Mine, Matches
  <2>. HIDE DEF n, T, size
  <2>2. /\ Cardinality(Mine(Q, epoch, c)) = size + 1
        /\ InOrder(Mine(Q, epoch, c)) =
              [k \in 1..(size + 1) |-> IF k = size + 1 THEN n + 1 ELSE InOrder(T)[k]]
    BY <1>1, <1>3, <2>1, OrderAppended DEF size
  <2>3. Told(Q, epoch, c) \in Seq(Values) /\ Len(Told(Q, epoch, c)) = size + 1
    BY <1>1, <2>2, ToldType
  <2>4. m.values[c] \in Values
    BY <1>4, ShownValues DEF Matches, Messages
  <2>5. ASSUME NEW k \in 1..(size + 1)
        PROVE  Told(Q, epoch, c)[k] = Append(Told(P, epoch, c), m.values[c])[k]
    <3>0. k \in 1..Cardinality(Mine(Q, epoch, c))
      BY <2>2
    <3>1. Told(Q, epoch, c)[k] = Q[InOrder(Mine(Q, epoch, c))[k]].values[c]
      BY <1>1, <3>0, ToldAt
    <3>2. CASE k = size + 1
      BY <1>1, <1>2, <2>2, <2>4, <3>1, <3>2, AppendProperties
    <3>3. CASE k # size + 1
      <4>1. k \in 1..size
        BY <1>3, <3>3
      <4>2. InOrder(T)[k] \in 1..n /\ InOrder(Mine(Q, epoch, c))[k] = InOrder(T)[k]
        <5>1. InOrder(T)[k] \in T
          BY <1>3, <4>1
        <5>. QED
          BY <1>3, <2>2, <3>3, <5>1
      <4>3. Told(P, epoch, c)[k] = P[InOrder(T)[k]].values[c]
        BY <4>1, ToldAt DEF T, size
      <4>4. Append(Told(P, epoch, c), m.values[c])[k] = Told(P, epoch, c)[k]
        BY <1>2, <2>4, <4>1, AppendProperties
      <4>. QED
        BY <1>1, <3>1, <4>2, <4>3, <4>4
    <3>. QED
      BY <3>2, <3>3
  <2>6. /\ Append(Told(P, epoch, c), m.values[c]) \in Seq(Values)
        /\ Len(Append(Told(P, epoch, c), m.values[c])) = size + 1
    BY <1>2, <2>4, AppendProperties
  <2>7. Told(Q, epoch, c) = Append(Told(P, epoch, c), m.values[c])
    BY <2>3, <2>5, <2>6, SeqEqual
  <2>. QED
    BY <1>0, <1>4, <2>7
<1>5. CASE ~Matches(m, epoch, c)
  <2>1. Mine(Q, epoch, c) = T
    BY <1>1, <1>5 DEF Mine, Matches
  <2>2. Told(Q, epoch, c) \in Seq(Values) /\ Len(Told(Q, epoch, c)) = size
    BY <1>1, <2>1, ToldType
  <2>3. ASSUME NEW k \in 1..size PROVE Told(Q, epoch, c)[k] = Told(P, epoch, c)[k]
    <3>1. InOrder(T)[k] \in 1..n
      BY <1>3
    <3>2. Told(Q, epoch, c)[k] = Q[InOrder(T)[k]].values[c]
      BY <1>1, <2>1, ToldAt
    <3>3. Told(P, epoch, c)[k] = P[InOrder(T)[k]].values[c]
      BY ToldAt
    <3>. QED
      BY <1>1, <3>1, <3>2, <3>3
  <2>4. Told(Q, epoch, c) = Told(P, epoch, c)
    BY <1>2, <2>2, <2>3, SeqEqual
  <2>. QED
    BY <1>0, <1>5, <2>4
<1>. QED
  BY <1>4, <1>5

LEMMA ToldTail ==
    ASSUME NEW P \in Seq(Messages), P # <<>>, NEW epoch, NEW c
    PROVE  Told(P, epoch, c) =
              IF Matches(Head(P), epoch, c)
              THEN <<Head(P).values[c]>> \o Told(Tail(P), epoch, c)
              ELSE Told(Tail(P), epoch, c)
<1>. DEFINE n == Len(P)
            U == Mine(Tail(P), epoch, c)
            size == Cardinality(U)
<1>0. PICK Q : Q = Tail(P)
  OBVIOUS
<1>1. /\ n \in Nat \ {0} /\ DOMAIN P = 1..n /\ Q \in Seq(Messages) /\ Len(Q) = n - 1
      /\ DOMAIN Q = 1..(n - 1) /\ P[1] = Head(P) /\ \A i \in 1..(n - 1) : Q[i] = P[i + 1]
      /\ P[1] \in Messages
  BY <1>0, HeadTailProperties
<1>2. Told(Q, epoch, c) \in Seq(Values) /\ Len(Told(Q, epoch, c)) = size
  BY <1>0, <1>1, ToldType
<1>3. /\ U \in SUBSET (1..(n - 1)) /\ U \in SUBSET (Nat \ {0}) /\ IsFiniteSet(U)
      /\ size \in Nat /\ InOrder(U) \in [1..size -> U]
  <2>1. /\ U \in SUBSET (1..(n - 1)) /\ U \in SUBSET (Nat \ {0}) /\ IsFiniteSet(U)
        /\ size \in Nat
    BY <1>0, <1>1, MineFinite
  <2>. QED
    BY <2>1, Ordered
<1>4. ASSUME NEW i \in 2..n PROVE i \in Mine(P, epoch, c) <=> i - 1 \in U
  BY <1>0, <1>1 DEF Mine
<1>. HIDE DEF U
<1>5. {i \in Mine(P, epoch, c) : i # 1} = {i + 1 : i \in U}
  <2>1. ASSUME NEW i \in Mine(P, epoch, c), i # 1 PROVE i \in {j + 1 : j \in U}
    <3>1. i \in 1..n
      BY <1>1 DEF Mine
    <3>2. i \in 2..n /\ i = (i - 1) + 1
      BY <1>1, <2>1, <3>1
    <3>3. i - 1 \in U
      BY <1>4, <3>2
    <3>. QED
      BY <3>2, <3>3
  <2>2. ASSUME NEW i \in U PROVE i + 1 \in Mine(P, epoch, c) /\ i + 1 # 1
    <3>1. i \in 1..(n - 1)
      BY <1>3
    <3>2. i + 1 \in 2..n /\ (i + 1) - 1 = i
      BY <1>1, <3>1
    <3>. QED
      BY <1>4, <3>2
  <2>. QED
    BY <2>1, <2>2
<1>. DEFINE T == Mine(P, epoch, c)
<1>6. CASE Matches(Head(P), epoch, c)
  <2>1. T = {1} \cup {i + 1 : i \in U}
    <3>1. 1 \in T
      BY <1>1, <1>6 DEF Mine, Matches
    <3>. HIDE DEF T
    <3>. QED
      BY <1>5, <3>1 DEF T
  <2>2. /\ Cardinality(T) = size + 1
        /\ InOrder(T) = [k \in 1..(size + 1) |-> IF k = 1 THEN 1 ELSE InOrder(U)[k - 1] + 1]
    BY <1>3, <2>1, OrderPrepended
  <2>3. Told(P, epoch, c) \in Seq(Values) /\ Len(Told(P, epoch, c)) = size + 1
    BY <2>2, ToldType
  <2>4. Head(P).values[c] \in Values
    BY <1>1, <1>6, ShownValues DEF Matches, Messages
  <2>5. PICK v \in Values : v = Head(P).values[c]
    BY <2>4
  <2>6. <<v>> \in Seq(Values) /\ Len(<<v>>) = 1 /\ <<v>>[1] = v
    OBVIOUS
  <2>7. PICK t : t = <<v>> \o Told(Q, epoch, c)
    OBVIOUS
  <2>8. /\ t \in Seq(Values) /\ Len(t) = 1 + size
        /\ \A k \in 1..(1 + size) : t[k] = IF k <= 1 THEN <<v>>[k] ELSE Told(Q, epoch, c)[k - 1]
    BY ONLY <1>2, <2>6, <2>7, ConcatProperties
  <2>. HIDE DEF T, size
  <2>9. ASSUME NEW k \in 1..(size + 1) PROVE Told(P, epoch, c)[k] = t[k]
    <3>0. k \in 1..Cardinality(T)
      BY <2>2
    <3>1. Told(P, epoch, c)[k] = P[InOrder(T)[k]].values[c]
      BY <3>0, ToldAt DEF T
    <3>2. CASE k = 1
      BY <1>1, <1>3, <2>2, <2>5, <2>6, <2>8, <3>1, <3>2
    <3>3. CASE k # 1
      <4>1. k - 1 \in 1..size /\ (k - 1) + 1 = k
        BY <1>3, <3>3
      <4>2. InOrder(U)[k - 1] \in U
        BY <1>3, <4>1
      <4>3. InOrder(U)[k - 1] \in 1..(n - 1) /\ InOrder(T)[k] = InOrder(U)[k - 1] + 1
        BY <1>3, <2>2, <3>3, <4>2
      <4>4. Told(Q, epoch, c)[k - 1] = Q[InOrder(U)[k - 1]].values[c]
        <5>1. /\ Q \in Seq(Messages) /\ U = Mine(Q, epoch, c)
              /\ k - 1 \in 1..Cardinality(Mine(Q, epoch, c))
          BY <1>0, <1>1, <4>1 DEF U, size
        <5>. QED
          BY <5>1, ToldAt
      <4>5. t[k] = Told(Q, epoch, c)[k - 1]
        BY <1>3, <2>8, <3>3, <4>1
      <4>. QED
        BY <1>1, <3>1, <4>3, <4>4, <4>5
    <3>. QED
      BY <3>2, <3>3
  <2>10. Told(P, epoch, c) = t
    <3>1. Len(t) = size + 1
      BY <1>3, <2>8
    <3>. QED
      BY <2>3, <2>8, <2>9, <3>1, SeqEqual
  <2>. QED
    BY <1>0, <1>6, <2>5, <2>7, <2>10
<1>7. CASE ~Matches(Head(P), epoch, c)
  <2>1. T = {i + 1 : i \in U}
    <3>1. 1 \notin T
      BY <1>1, <1>7 DEF Mine, Matches
    <3>. HIDE DEF T
    <3>. QED
      BY <1>5, <3>1 DEF T
  <2>2. /\ Cardinality(T) = size
        /\ InOrder(T) = [k \in 1..size |-> InOrder(U)[k] + 1]
    BY <1>3, <2>1, OrderShifted
  <2>3. Told(P, epoch, c) \in Seq(Values) /\ Len(Told(P, epoch, c)) = size
    BY <2>2, ToldType
  <2>. HIDE DEF T, size
  <2>4. ASSUME NEW k \in 1..size PROVE Told(P, epoch, c)[k] = Told(Q, epoch, c)[k]
    <3>0. k \in 1..Cardinality(T)
      BY <2>2
    <3>1. Told(P, epoch, c)[k] = P[InOrder(T)[k]].values[c]
      BY <3>0, ToldAt DEF T
    <3>2. InOrder(U)[k] \in U
      BY <1>3
    <3>3. InOrder(U)[k] \in 1..(n - 1) /\ InOrder(T)[k] = InOrder(U)[k] + 1
      BY <1>3, <2>2, <3>2
    <3>4. Told(Q, epoch, c)[k] = Q[InOrder(U)[k]].values[c]
      <4>1. Q \in Seq(Messages) /\ U = Mine(Q, epoch, c) /\ k \in 1..Cardinality(Mine(Q, epoch, c))
        BY <1>0, <1>1 DEF U, size
      <4>. QED
        BY <4>1, ToldAt
    <3>. QED
      BY <1>1, <3>1, <3>3, <3>4
  <2>5. Told(P, epoch, c) = Told(Q, epoch, c)
    BY <1>2, <2>3, <2>4, SeqEqual
  <2>. QED
    BY <1>0, <1>7, <2>5
<1>. QED
  BY <1>6, <1>7

LEMMA ToldNothing ==
    ASSUME NEW P \in Seq(Messages), NEW epoch, NEW c,
           \A i \in 1..Len(P) : ~Matches(P[i], epoch, c)
    PROVE  Told(P, epoch, c) = <<>>
<1>1. Mine(P, epoch, c) = {}
  BY DEF Mine, Matches
<1>. QED
  BY <1>1, ToldType

\* P tells of c, and never anything but v.
TellsOnly(P, epoch, c, v) ==
    /\ \E i \in 1..Len(P) : Matches(P[i], epoch, c)
    /\ \A i \in 1..Len(P) : Matches(P[i], epoch, c) => P[i].values[c] = v

LEMMA ToldOneValue ==
    ASSUME NEW P \in Seq(Messages), NEW epoch, NEW c, NEW v, TellsOnly(P, epoch, c, v)
    PROVE  Told(P, epoch, c) # <<>> /\ Last(Told(P, epoch, c)) = v
<1>1. Mine(P, epoch, c) # {}
  BY DEF Mine, Matches, TellsOnly
<1>2. PICK t : t = Told(P, epoch, c)
  OBVIOUS
<1>3. t \in Seq(Values) /\ t # <<>> /\ Len(t) = Cardinality(Mine(P, epoch, c))
  BY <1>1, <1>2, ToldType
<1>4. Len(t) \in 1..Cardinality(Mine(P, epoch, c))
  BY <1>3
<1>5. PICK i \in Mine(P, epoch, c) : t[Len(t)] = P[i].values[c]
  BY <1>2, <1>4, ToldAt
<1>6. i \in 1..Len(P) /\ Matches(P[i], epoch, c)
  BY DEF Mine, Matches
<1>. QED
  BY <1>2, <1>3, <1>5, <1>6 DEF Last, TellsOnly

-----------------------------------------------------------------------------
(* Chunks: each element of the set is in one of them, and in no other.     *)

LEMMA Quotients ==
    ASSUME NEW a \in Nat, NEW b \in Nat, NEW d \in Nat \ {0}, a <= b
    PROVE  a \div d \in Nat /\ b \div d \in Nat /\ a \div d <= b \div d
<1>1. a \div d \in Nat /\ b \div d \in Nat
  OBVIOUS
<1>2. a \div d <= b \div d
  OBVIOUS
<1>. QED
  BY <1>1, <1>2

LEMMA Chunked ==
    ASSUME NEW S \in SUBSET Nat, IsFiniteSet(S), NEW size \in Nat \ {0}
    PROVE  /\ Chunks(S, size) \in Seq(SUBSET S)
           /\ Len(Chunks(S, size)) \in Nat \ {0}
           /\ \A i, j \in 1..Len(Chunks(S, size)) :
                 i # j => Chunks(S, size)[i] \cap Chunks(S, size)[j] = {}
           /\ \A x \in S : \E i \in 1..Len(Chunks(S, size)) : x \in Chunks(S, size)[i]
<1>. DEFINE n == Cardinality(S)
            s == InOrder(S)
            count == IF S = {} THEN 1 ELSE (n - 1) \div size + 1
            quotient(j) == (j - 1) \div size
            chunk(i) == {s[k] : k \in {j \in 1..n : quotient(j) = i - 1}}
<1>1. /\ n \in Nat /\ s \in [1..n -> S]
      /\ \A i, j \in 1..n : i < j => s[i] < s[j]
      /\ \A x \in S : \E k \in 1..n : s[k] = x
  BY Ordered
<1>2. S # {} => n \in Nat \ {0}
  BY <1>1, FS_EmptySet
<1>. HIDE DEF n, s
<1>3. ASSUME NEW j \in 1..n
      PROVE  quotient(j) \in Nat /\ S # {} /\ quotient(j) + 1 \in 1..count
  <2>1. S # {}
    BY <1>1
  <2>2. j - 1 \in Nat /\ n - 1 \in Nat /\ j - 1 <= n - 1
    BY <1>1
  <2>3. (j - 1) \div size \in Nat /\ (n - 1) \div size \in Nat
        /\ (j - 1) \div size <= (n - 1) \div size
    BY <2>2, Quotients
  <2>4. count = (n - 1) \div size + 1
    BY <2>1
  <2>5. PICK p \in Nat, q \in Nat : p = (j - 1) \div size /\ q = (n - 1) \div size /\ p <= q
    BY <2>3
  <2>6. quotient(j) = p /\ count = q + 1
    BY <2>4, <2>5
  <2>. HIDE DEF quotient, count
  <2>. QED
    BY <2>1, <2>5, <2>6
<1>4. count \in Nat \ {0}
  <2>1. CASE S = {}
    BY <2>1
  <2>2. CASE S # {}
    <3>1. n \in 1..n
      BY <1>2, <2>2
    <3>. QED
      BY <1>3, <2>2, <3>1
  <2>. QED
    BY <2>1, <2>2
<1>5. Chunks(S, size) = [i \in 1..count |-> chunk(i)]
  BY <1>1 DEF Chunks, n, s
<1>. HIDE DEF count, quotient
<1>6. ASSUME NEW i \in 1..count PROVE chunk(i) \in SUBSET S
  BY <1>1
<1>7. ASSUME NEW i \in 1..count, NEW j \in 1..count, i # j PROVE chunk(i) \cap chunk(j) = {}
  <2>. SUFFICES ASSUME NEW x \in chunk(i), x \in chunk(j) PROVE FALSE
    OBVIOUS
  <2>1. PICK k \in 1..n : quotient(k) = i - 1 /\ x = s[k]
    OBVIOUS
  <2>2. PICK l \in 1..n : quotient(l) = j - 1 /\ x = s[l]
    OBVIOUS
  <2>3. k # l
    BY <1>4, <1>7, <2>1, <2>2
  <2>4. s[k] # s[l]
    <3>1. s[k] \in Nat /\ s[l] \in Nat /\ k \in Nat /\ l \in Nat
      <4>1. s[k] \in S /\ s[l] \in S
        BY <1>1
      <4>2. s[k] \in Nat /\ s[l] \in Nat
        BY <4>1
      <4>3. k \in Nat /\ l \in Nat
        BY <1>1
      <4>. QED
        BY <4>2, <4>3
    <3>2. k < l => s[k] < s[l]
      BY <1>1
    <3>3. l < k => s[l] < s[k]
      BY <1>1
    <3>. QED
      BY <2>3, <3>1, <3>2, <3>3
  <2>. QED
    BY <2>1, <2>2, <2>4
<1>8. ASSUME NEW x \in S PROVE \E i \in 1..count : x \in chunk(i)
  <2>1. PICK k \in 1..n : s[k] = x
    BY <1>1
  <2>2. PICK i \in 1..count : i = quotient(k) + 1
    BY <1>3
  <2>3. quotient(k) = i - 1
    BY <1>3, <2>2
  <2>4. x \in chunk(i)
    BY <2>1, <2>3
  <2>. QED
    BY <2>4
<1>. HIDE DEF chunk
<1>9. /\ Chunks(S, size) \in Seq(SUBSET S) /\ Len(Chunks(S, size)) = count
      /\ \A i \in 1..count : Chunks(S, size)[i] = chunk(i)
  <2>1. Chunks(S, size) \in [1..count -> SUBSET S]
    BY <1>5, <1>6
  <2>. QED
    BY <1>4, <1>5, <2>1
<1>. QED
  BY <1>4, <1>7, <1>8, <1>9

-----------------------------------------------------------------------------
(* Pending values.                                                         *)

Pendings == [control : Controls, values : Seq(Values)]

\* Each control waits once, with at least one value, a switch with at most
\* MaxTransitions and any other with one.
Orderly(pending) ==
    /\ pending \in Seq(Pendings)
    /\ \A i \in 1..Len(pending) :
          /\ Len(pending[i].values) \in 1..MaxTransitions
          /\ pending[i].control \notin Switches => Len(pending[i].values) = 1
    /\ \A i, j \in 1..Len(pending) : pending[i].control = pending[j].control => i = j

LEMMA QueuedAt ==
    ASSUME NEW pending, Orderly(pending), NEW i \in 1..Len(pending)
    PROVE  /\ Queued(pending, pending[i].control) = pending[i].values
           /\ pending[i].control \in Controls /\ pending[i].values \in Seq(Values)
           /\ pending[i].values # <<>>
<1>1. DOMAIN pending = 1..Len(pending) /\ pending[i] \in Pendings
  BY DEF Orderly
<1>. DEFINE c == pending[i].control
            j == CHOOSE j \in DOMAIN pending : pending[j].control = c
<1>2. j \in DOMAIN pending /\ pending[j].control = c
  BY <1>1
<1>3. j = i
  BY <1>1, <1>2 DEF Orderly
<1>4. Queued(pending, c) = pending[j].values
  BY <1>1 DEF Queued
<1>5. Len(pending[i].values) \in 1..MaxTransitions
  BY DEF Orderly
<1>6. pending[i].values # <<>>
  BY <1>5
<1>. QED
  BY <1>1, <1>3, <1>4, <1>6 DEF Pendings

LEMMA QueuedNothing ==
    ASSUME NEW pending \in Seq(Pendings), NEW c,
           \A i \in 1..Len(pending) : pending[i].control # c
    PROVE  Queued(pending, c) = <<>>
<1>1. DOMAIN pending = 1..Len(pending)
  OBVIOUS
<1>. QED
  BY <1>1 DEF Queued

LEMMA QueuedType ==
    ASSUME NEW pending, Orderly(pending), NEW c
    PROVE  /\ Queued(pending, c) \in Seq(Values)
           /\ Queued(pending, c) = <<>> <=> \A i \in 1..Len(pending) : pending[i].control # c
           /\ Len(Queued(pending, c)) \in 0..MaxTransitions
           /\ c \notin Switches => Len(Queued(pending, c)) \in 0..1
<1>0. MaxTransitions \in Nat \ {0}
  BY StreamAssumption
<1>1. CASE \E i \in 1..Len(pending) : pending[i].control = c
  <2>1. PICK i \in 1..Len(pending) : pending[i].control = c
    BY <1>1
  <2>2. /\ Len(pending[i].values) \in 1..MaxTransitions
        /\ c \notin Switches => Len(pending[i].values) = 1
    BY <2>1 DEF Orderly
  <2>3. /\ Queued(pending, c) = pending[i].values /\ pending[i].values \in Seq(Values)
        /\ pending[i].values # <<>>
    BY <2>1, QueuedAt
  <2>. QED
    BY <1>0, <2>1, <2>2, <2>3
<1>2. CASE \A i \in 1..Len(pending) : pending[i].control # c
  <2>1. pending \in Seq(Pendings)
    BY DEF Orderly
  <2>2. Queued(pending, c) = <<>>
    BY <1>2, <2>1, QueuedNothing
  <2>. QED
    BY <1>0, <1>2, <2>2
<1>. QED
  BY <1>1, <1>2

LEMMA Coalesced ==
    ASSUME NEW c, NEW values \in Seq(Values), NEW v \in Values,
           Len(values) \in 1..MaxTransitions,
           c \notin Switches => Len(values) = 1
    PROVE  /\ Coalesce(c, values, v) \in Seq(Values)
           /\ Len(Coalesce(c, values, v)) \in 1..MaxTransitions
           /\ c \notin Switches => Len(Coalesce(c, values, v)) = 1
           /\ Coalesce(c, values, v) # <<>> /\ Last(Coalesce(c, values, v)) = v
           /\ \/ Coalesce(c, values, v) = values
              \/ Coalesce(c, values, v) = Append(values, v)
              \/ /\ c \in Switches => Len(values) = MaxTransitions
                 /\ Len(Coalesce(c, values, v)) = Len(values)
                 /\ \A i \in 1..(Len(values) - 1) : Coalesce(c, values, v)[i] = values[i]
<1>0. MaxTransitions \in Nat \ {0} /\ Len(values) \in Nat \ {0} /\ Len(values) =< MaxTransitions
  BY StreamAssumption
<1>1. CASE Last(values) # v /\ c \in Switches /\ Len(values) < MaxTransitions
  <2>1. PICK t : t = Append(values, v)
    OBVIOUS
  <2>2. /\ t \in Seq(Values) /\ t # <<>> /\ Len(t) = Len(values) + 1
        /\ t[Len(values) + 1] = v
    BY <2>1, AppendProperties
  <2>3. Coalesce(c, values, v) = t
    BY <1>1, <2>1 DEF Coalesce
  <2>4. Len(t) \in 1..MaxTransitions /\ Last(t) = v
    BY <1>0, <1>1, <2>2 DEF Last
  <2>. QED
    BY <1>1, <2>1, <2>2, <2>3, <2>4
<1>2. CASE ~(Last(values) # v /\ c \in Switches /\ Len(values) < MaxTransitions)
  <2>1. PICK t : t = [values EXCEPT ![Len(values)] = v]
    OBVIOUS
  <2>0. Len(values) \in 1..Len(values)
    BY <1>0
  <2>2. /\ t \in Seq(Values) /\ Len(t) = Len(values)
        /\ \A i \in 1..Len(values) : t[i] = IF i = Len(values) THEN v ELSE values[i]
    BY <2>0, <2>1, ExceptSeq
  <2>3. Coalesce(c, values, v) = t
    BY <1>2, <2>1 DEF Coalesce
  <2>4. t # <<>> /\ Last(t) = v
    BY <1>0, <2>0, <2>2 DEF Last
  <2>5. \A i \in 1..(Len(values) - 1) : t[i] = values[i]
    BY <1>0, <2>2
  <2>6. t = values \/ (c \in Switches => Len(values) = MaxTransitions)
    <3>1. CASE Last(values) = v
      <4>1. \A i \in 1..Len(values) : t[i] = values[i]
        BY <1>0, <2>2, <3>1 DEF Last
      <4>. QED
        BY <2>2, <4>1, SeqEqual
    <3>2. CASE Last(values) # v
      BY <1>0, <1>2, <3>2
    <3>. QED
      BY <3>1, <3>2
  <2>. QED
    BY <1>0, <2>2, <2>3, <2>4, <2>5, <2>6
<1>. QED
  BY <1>1, <1>2

LEMMA ControlsFinite ==
    ASSUME NEW S \in SUBSET Controls
    PROVE  S \in SUBSET Nat /\ IsFiniteSet(S)
<1>1. Controls \in SUBSET Nat /\ IsFiniteSet(Controls)
  BY StreamAssumption
<1>. QED
  BY <1>1, FS_Subset

Fresh(pending, changes) == {c \in DOMAIN changes : Queued(pending, c) = <<>>}

LEMMA QueueAllShape ==
    ASSUME NEW pending, Orderly(pending), NEW changes \in Shown,
           NEW fresh, fresh = Fresh(pending, changes),
           NEW all, all = QueueAll(pending, changes),
           NEW s, s = InOrder(fresh), NEW size, size = Cardinality(fresh)
    PROVE  /\ size \in Nat /\ s \in [1..size -> fresh]
           /\ \A i, j \in 1..size : s[i] = s[j] => i = j
           /\ \A c \in fresh : \E k \in 1..size : s[k] = c
           /\ all \in Seq(Pendings) /\ Len(all) = Len(pending) + size
           /\ \A i \in 1..Len(pending) :
                 all[i] = IF pending[i].control \notin DOMAIN changes THEN pending[i]
                          ELSE [control |-> pending[i].control,
                                values |-> Coalesce(pending[i].control, pending[i].values,
                                                    changes[pending[i].control])]
           /\ \A k \in 1..size :
                 all[Len(pending) + k] = [control |-> s[k], values |-> <<changes[s[k]]>>]
<1>. DEFINE n == Len(pending)
            old(i) == IF pending[i].control \notin DOMAIN changes THEN pending[i]
                      ELSE [control |-> pending[i].control,
                            values |-> Coalesce(pending[i].control, pending[i].values,
                                                changes[pending[i].control])]
            new(k) == [control |-> s[k], values |-> <<changes[s[k]]>>]
<1>1. \A c \in DOMAIN changes : c \in Controls /\ changes[c] \in Values
  BY ShownValues
<1>2. fresh \in SUBSET Controls /\ fresh \in SUBSET Nat /\ IsFiniteSet(fresh)
  <2>1. fresh \in SUBSET Controls
    BY <1>1 DEF Fresh
  <2>. QED
    BY <2>1, ControlsFinite
<1>3. /\ size \in Nat /\ s \in [1..size -> fresh]
      /\ \A i, j \in 1..size : i < j => s[i] < s[j]
      /\ \A c \in fresh : \E k \in 1..size : s[k] = c
  BY <1>2, Ordered
<1>4. pending \in Seq(Pendings) /\ n \in Nat /\ DOMAIN pending = 1..n
  BY DEF Orderly
<1>5. QueueAll(pending, changes) = [i \in 1..n |-> old(i)] \o [k \in 1..size |-> new(k)]
  BY <1>3, <1>4 DEF QueueAll, Fresh
<1>. HIDE DEF n
<1>6. ASSUME NEW i \in 1..size, NEW j \in 1..size, s[i] = s[j] PROVE i = j
  <2>1. s[i] \in fresh /\ s[j] \in fresh
    BY <1>3
  <2>2. s[i] \in Nat /\ s[j] \in Nat
    BY <1>2, <2>1
  <2>3. ~(s[i] < s[j]) /\ ~(s[j] < s[i])
    BY <1>6, <2>2
  <2>4. i \in Nat /\ j \in Nat
    BY <1>3
  <2>5. ~(i < j) /\ ~(j < i)
    BY <1>3, <2>3
  <2>. QED
    BY <2>4, <2>5
<1>7. ASSUME NEW i \in 1..n PROVE old(i) \in Pendings
  <2>1. /\ pending[i] \in Pendings /\ Len(pending[i].values) \in 1..MaxTransitions
        /\ pending[i].control \notin Switches => Len(pending[i].values) = 1
    BY <1>4 DEF Orderly, n
  <2>2. pending[i].control \in Controls /\ pending[i].values \in Seq(Values)
    BY <2>1 DEF Pendings
  <2>3. CASE pending[i].control \notin DOMAIN changes
    BY <2>1, <2>3
  <2>4. CASE pending[i].control \in DOMAIN changes
    <3>1. changes[pending[i].control] \in Values
      BY <1>1, <2>4
    <3>2. Coalesce(pending[i].control, pending[i].values, changes[pending[i].control]) \in Seq(Values)
      BY <2>1, <2>2, <3>1, Coalesced
    <3>. QED
      BY <2>2, <2>4, <3>2 DEF Pendings
  <2>. QED
    BY <2>3, <2>4
<1>8. ASSUME NEW k \in 1..size PROVE new(k) \in Pendings
  <2>1. s[k] \in fresh
    BY <1>3
  <2>2. s[k] \in Controls /\ changes[s[k]] \in Values
    BY <1>1, <2>1 DEF Fresh
  <2>3. <<changes[s[k]]>> \in Seq(Values)
    BY <2>2
  <2>. QED
    BY <2>2, <2>3 DEF Pendings
<1>. HIDE DEF old, new
<1>9. PICK p, q : p = [i \in 1..n |-> old(i)] /\ q = [k \in 1..size |-> new(k)]
  OBVIOUS
<1>10. /\ p \in Seq(Pendings) /\ Len(p) = n /\ \A i \in 1..n : p[i] = old(i)
       /\ q \in Seq(Pendings) /\ Len(q) = size /\ \A k \in 1..size : q[k] = new(k)
  <2>1. p \in [1..n -> Pendings] /\ q \in [1..size -> Pendings]
    BY <1>7, <1>8, <1>9
  <2>2. n \in Nat /\ size \in Nat
    BY <1>3, <1>4
  <2>3. p \in Seq(Pendings) /\ Len(p) = n
    BY ONLY <2>1, <2>2
  <2>3a. q \in Seq(Pendings) /\ Len(q) = size
    BY ONLY <2>1, <2>2
  <2>4. (\A i \in 1..n : p[i] = old(i)) /\ \A k \in 1..size : q[k] = new(k)
    BY <1>9, Zenon
  <2>. QED
    BY <2>3, <2>3a, <2>4
<1>11. all = p \o q
  BY <1>5, <1>9
<1>12. /\ all \in Seq(Pendings) /\ Len(all) = Len(p) + Len(q)
       /\ \A i \in 1..(Len(p) + Len(q)) :
             all[i] = IF i <= Len(p) THEN p[i] ELSE q[i - Len(p)]
  <2>1. p \in Seq(Pendings) /\ q \in Seq(Pendings)
    BY <1>10
  <2>. QED
    BY ONLY <2>1, <1>11, ConcatProperties
<1>13. ASSUME NEW i \in 1..n PROVE all[i] = old(i)
  BY <1>3, <1>4, <1>10, <1>12
<1>14. ASSUME NEW k \in 1..size PROVE all[n + k] = new(k)
  <2>1. n + k \in 1..(n + size) /\ ~(n + k <= n) /\ (n + k) - n = k
    BY <1>3, <1>4
  <2>. QED
    BY <1>10, <1>12, <2>1
<1>15. all \in Seq(Pendings) /\ Len(all) = n + size
  BY <1>10, <1>12
<1>. QED
  BY <1>3, <1>6, <1>13, <1>14, <1>15 DEF n, old, new

LEMMA QueuedAll ==
    ASSUME NEW pending, Orderly(pending), NEW changes \in Shown
    PROVE  /\ Orderly(QueueAll(pending, changes))
           /\ \A c : Queued(QueueAll(pending, changes), c) =
                       IF c \notin DOMAIN changes THEN Queued(pending, c)
                       ELSE IF Queued(pending, c) = <<>> THEN <<changes[c]>>
                       ELSE Coalesce(c, Queued(pending, c), changes[c])
           /\ \A i \in 1..Len(QueueAll(pending, changes)) :
                 \/ QueueAll(pending, changes)[i].control \in DOMAIN changes
                 \/ \E j \in 1..Len(pending) :
                       pending[j].control = QueueAll(pending, changes)[i].control
<1>. DEFINE n == Len(pending)
<1>0. PICK all : all = QueueAll(pending, changes)
  OBVIOUS
<1>a. PICK fresh : fresh = Fresh(pending, changes)
  OBVIOUS
<1>b. PICK s, size : s = InOrder(fresh) /\ size = Cardinality(fresh)
  OBVIOUS
<1>1. /\ size \in Nat /\ s \in [1..size -> fresh]
      /\ \A i, j \in 1..size : s[i] = s[j] => i = j
      /\ \A c \in fresh : \E k \in 1..size : s[k] = c
      /\ all \in Seq(Pendings) /\ Len(all) = n + size
      /\ \A i \in 1..n :
            all[i] = IF pending[i].control \notin DOMAIN changes THEN pending[i]
                     ELSE [control |-> pending[i].control,
                           values |-> Coalesce(pending[i].control, pending[i].values,
                                               changes[pending[i].control])]
      /\ \A k \in 1..size : all[n + k] = [control |-> s[k], values |-> <<changes[s[k]]>>]
  BY ONLY <1>0, <1>a, <1>b, Orderly(pending), changes \in Shown, QueueAllShape DEF n
<1>2. n \in Nat /\ DOMAIN pending = 1..n /\ pending \in Seq(Pendings) /\ MaxTransitions \in Nat \ {0}
  BY StreamAssumption DEF Orderly
<1>3. \A c \in fresh : /\ c \in DOMAIN changes /\ changes[c] \in Values
                       /\ \A i \in 1..n : pending[i].control # c
  BY <1>a, QueuedType, ShownValues DEF Fresh
<1>3a. \A c \in DOMAIN changes : c \notin fresh => \E i \in 1..n : pending[i].control = c
  BY <1>a, QueuedType DEF Fresh
<1>. HIDE DEF n
<1>4. ASSUME NEW i \in 1..n
      PROVE  /\ all[i].control = pending[i].control
             /\ all[i].values = IF pending[i].control \notin DOMAIN changes THEN pending[i].values
                                ELSE Coalesce(pending[i].control, pending[i].values,
                                              changes[pending[i].control])
             /\ Len(all[i].values) \in 1..MaxTransitions
             /\ pending[i].control \notin Switches => Len(all[i].values) = 1
  <2>1. /\ pending[i] \in Pendings /\ Len(pending[i].values) \in 1..MaxTransitions
        /\ pending[i].control \notin Switches => Len(pending[i].values) = 1
    BY <1>2 DEF Orderly, n
  <2>2. pending[i].control \in Controls /\ pending[i].values \in Seq(Values)
    BY <2>1 DEF Pendings
  <2>3. CASE pending[i].control \notin DOMAIN changes
    BY <1>1, <2>1, <2>3
  <2>4. CASE pending[i].control \in DOMAIN changes
    <3>1. changes[pending[i].control] \in Values
      BY <2>4, ShownValues
    <3>2. PICK t : t = Coalesce(pending[i].control, pending[i].values, changes[pending[i].control])
      OBVIOUS
    <3>3. /\ Len(t) \in 1..MaxTransitions
          /\ pending[i].control \notin Switches => Len(t) = 1
      BY <2>1, <2>2, <3>1, <3>2, Coalesced
    <3>4. all[i] = [control |-> pending[i].control, values |-> t]
      BY <1>1, <2>4, <3>2
    <3>. QED
      BY <2>4, <3>2, <3>3, <3>4
  <2>. QED
    BY <2>3, <2>4
<1>5. ASSUME NEW k \in 1..size
      PROVE  /\ all[n + k].control = s[k] /\ all[n + k].values = <<changes[s[k]]>>
             /\ s[k] \in fresh /\ Len(all[n + k].values) = 1
  <2>1. all[n + k] = [control |-> s[k], values |-> <<changes[s[k]]>>]
    BY <1>1
  <2>2. all[n + k].control = s[k] /\ all[n + k].values = <<changes[s[k]]>>
    BY <2>1
  <2>3. Len(<<changes[s[k]]>>) = 1
    OBVIOUS
  <2>. QED
    BY <1>1, <2>2, <2>3
<1>6. ASSUME NEW i \in 1..(n + size) PROVE i \in 1..n \/ \E k \in 1..size : i = n + k
  <2>1. CASE i <= n
    BY <1>1, <1>2, <2>1
  <2>2. CASE ~(i <= n)
    <3>1. i - n \in 1..size /\ i = n + (i - n)
      BY <1>1, <1>2, <2>2
    <3>. QED
      BY <3>1
  <2>. QED
    BY <2>1, <2>2
<1>7. Orderly(all)
  <2>1. ASSUME NEW i \in 1..(n + size)
        PROVE  /\ Len(all[i].values) \in 1..MaxTransitions
               /\ all[i].control \notin Switches => Len(all[i].values) = 1
    <3>1. CASE i \in 1..n
      BY <1>4, <3>1
    <3>2. CASE \E k \in 1..size : i = n + k
      <4>1. Len(all[i].values) = 1
        BY <1>5, <3>2
      <4>. QED
        BY <1>2, <4>1
    <3>. QED
      BY <1>6, <3>1, <3>2
  <2>2. ASSUME NEW i \in 1..(n + size), NEW j \in 1..(n + size), all[i].control = all[j].control
        PROVE  i = j
    <3>1. CASE i \in 1..n /\ j \in 1..n
      <4>1. pending[i].control = pending[j].control
        BY <1>4, <2>2, <3>1
      <4>. QED
        BY <3>1, <4>1 DEF Orderly, n
    <3>2. CASE i \in 1..n /\ \E k \in 1..size : j = n + k
      <4>1. PICK k \in 1..size : j = n + k
        BY <3>2
      <4>2. s[k] \in fresh /\ pending[i].control = s[k]
        BY <1>4, <1>5, <2>2, <3>2, <4>1
      <4>. QED
        BY <1>3, <3>2, <4>2
    <3>3. CASE j \in 1..n /\ \E k \in 1..size : i = n + k
      <4>1. PICK k \in 1..size : i = n + k
        BY <3>3
      <4>2. s[k] \in fresh /\ pending[j].control = s[k]
        BY <1>4, <1>5, <2>2, <3>3, <4>1
      <4>. QED
        BY <1>3, <3>3, <4>2
    <3>4. CASE (\E k \in 1..size : i = n + k) /\ (\E k \in 1..size : j = n + k)
      <4>1. PICK k \in 1..size : i = n + k
        BY <3>4
      <4>2. PICK l \in 1..size : j = n + l
        BY <3>4
      <4>3. s[k] = s[l]
        BY <1>5, <2>2, <4>1, <4>2
      <4>. QED
        BY <1>1, <4>1, <4>2, <4>3
    <3>. QED
      BY <1>6, <3>1, <3>2, <3>3, <3>4
  <2>. QED
    BY <1>1, <2>1, <2>2 DEF Orderly
<1>8. ASSUME NEW i \in 1..n
      PROVE  /\ Queued(all, pending[i].control) = all[i].values
             /\ Queued(pending, pending[i].control) = pending[i].values
             /\ pending[i].values # <<>>
  <2>1. i \in 1..Len(all) /\ i \in 1..Len(pending)
    BY <1>1, <1>2 DEF n
  <2>2. Queued(all, all[i].control) = all[i].values
    BY <1>7, <2>1, QueuedAt
  <2>. QED
    BY <1>4, <2>1, <2>2, QueuedAt
<1>9. ASSUME NEW k \in 1..size PROVE Queued(all, s[k]) = <<changes[s[k]]>>
  <2>1. n + k \in 1..Len(all)
    BY <1>1, <1>2
  <2>2. Queued(all, all[n + k].control) = all[n + k].values
    BY <1>7, <2>1, QueuedAt
  <2>. QED
    BY <1>5, <2>2
<1>10. ASSUME NEW c
       PROVE  Queued(all, c) =
                 IF c \notin DOMAIN changes THEN Queued(pending, c)
                 ELSE IF Queued(pending, c) = <<>> THEN <<changes[c]>>
                 ELSE Coalesce(c, Queued(pending, c), changes[c])
  <2>1. CASE \E i \in 1..n : pending[i].control = c
    <3>1. PICK i \in 1..n : pending[i].control = c
      BY <2>1
    <3>. QED
      BY <1>4, <1>8, <3>1
  <2>2. CASE c \in fresh
    <3>1. PICK k \in 1..size : s[k] = c
      BY <1>1, <2>2
    <3>2. Queued(all, c) = <<changes[c]>>
      BY <1>9, <3>1
    <3>. QED
      BY <1>a, <2>2, <3>2 DEF Fresh
  <2>3. CASE c \notin fresh /\ \A i \in 1..n : pending[i].control # c
    <3>1. c \notin DOMAIN changes
      BY <1>3a, <2>3
    <3>2. ASSUME NEW i \in 1..Len(all) PROVE all[i].control # c
      <4>1. i \in 1..(n + size)
        BY ONLY <1>1, i \in 1..Len(all)
      <4>2. CASE i \in 1..n
        <5>1. all[i].control = pending[i].control
          BY ONLY <1>4, <4>2
        <5>. QED
          BY ONLY <2>3, <4>2, <5>1
      <4>3. CASE \E k \in 1..size : i = n + k
        <5>1. PICK k \in 1..size : i = n + k
          BY ONLY <4>3
        <5>2. all[i].control = s[k] /\ s[k] \in fresh
          BY ONLY <1>5, <5>1, k \in 1..size
        <5>. QED
          BY ONLY <2>3, <5>2
      <4>. QED
        BY ONLY <1>6, <4>1, <4>2, <4>3
    <3>3. Queued(all, c) = <<>> /\ Queued(pending, c) = <<>>
      BY <1>1, <1>2, <2>3, <3>2, QueuedNothing DEF n
    <3>. QED
      BY <3>1, <3>3
  <2>. QED
    BY <2>1, <2>2, <2>3
<1>11. ASSUME NEW i \in 1..Len(all)
       PROVE  all[i].control \in DOMAIN changes \/ \E j \in 1..n : pending[j].control = all[i].control
  BY <1>1, <1>3, <1>4, <1>5, <1>6
<1>. QED
  BY <1>0, <1>7, <1>10, <1>11 DEF n

LEMMA Injective ==
    ASSUME NEW S \in SUBSET Nat, IsFiniteSet(S),
           NEW i \in 1..Cardinality(S), NEW j \in 1..Cardinality(S),
           InOrder(S)[i] = InOrder(S)[j]
    PROVE  i = j
<1>1. /\ Cardinality(S) \in Nat /\ InOrder(S) \in [1..Cardinality(S) -> S]
      /\ \A k, l \in 1..Cardinality(S) : k < l => InOrder(S)[k] < InOrder(S)[l]
  BY Ordered
<1>2. InOrder(S)[i] \in S
  BY <1>1
<1>3. InOrder(S)[i] \in Nat
  BY <1>2
<1>3a. i \in Nat /\ j \in Nat
  BY <1>1
<1>4. ~(i < j) /\ ~(j < i)
  BY <1>1, <1>3
<1>. QED
  BY <1>3a, <1>4

\* What stays of a waiting control when its first value is taken, or not.
Left(pending, i) ==
    IF i > DeltaSize THEN pending[i]
    ELSE [control |-> pending[i].control, values |-> Tail(pending[i].values)]

Kept(pending) == {i \in 1..Len(pending) : Left(pending, i).values # <<>>}

LEMMA LeftType ==
    ASSUME NEW pending, Orderly(pending), NEW i \in 1..Len(pending)
    PROVE  /\ Left(pending, i) \in Pendings
           /\ Left(pending, i).control = pending[i].control
           /\ Left(pending, i).values = IF i > DeltaSize THEN pending[i].values
                                        ELSE Tail(pending[i].values)
           /\ Left(pending, i).values # <<>> =>
                 /\ Len(Left(pending, i).values) \in 1..MaxTransitions
                 /\ pending[i].control \notin Switches => Len(Left(pending, i).values) = 1
<1>1. /\ pending[i] \in Pendings /\ Len(pending[i].values) \in 1..MaxTransitions
      /\ pending[i].control \notin Switches => Len(pending[i].values) = 1
      /\ MaxTransitions \in Nat \ {0}
  BY StreamAssumption DEF Orderly
<1>2. /\ pending[i].control \in Controls /\ pending[i].values \in Seq(Values)
      /\ pending[i].values # <<>>
  BY <1>1 DEF Pendings
<1>3. PICK t : t = Tail(pending[i].values)
  OBVIOUS
<1>4. t \in Seq(Values) /\ Len(t) = Len(pending[i].values) - 1
  <2>1. PICK u \in Seq(Values) : u # <<>> /\ u = pending[i].values
    BY <1>2
  <2>2. Tail(u) \in Seq(Values) /\ Len(Tail(u)) = Len(u) - 1
    BY ONLY <2>1, HeadTailProperties
  <2>3. t = Tail(u)
    BY <1>3, <2>1, Zenon
  <2>. QED
    BY <2>1, <2>2, <2>3, Zenon
<1>5. t # <<>> => Len(t) \in 1..MaxTransitions /\ Len(pending[i].values) # 1
  <2>1. t # <<>> => Len(t) \in Nat \ {0}
    BY <1>4, EmptySeq
  <2>. QED
    BY <1>1, <1>4, <2>1
<1>6. CASE i > DeltaSize
  BY <1>1, <1>2, <1>6 DEF Left
<1>7. CASE ~(i > DeltaSize)
  <2>1. Left(pending, i) = [control |-> pending[i].control, values |-> t]
    BY <1>3, <1>7 DEF Left
  <2>2. Left(pending, i).control = pending[i].control /\ Left(pending, i).values = t
    BY <2>1
  <2>3. Left(pending, i) \in Pendings
    BY <1>2, <1>4, <2>1 DEF Pendings
  <2>. QED
    BY <1>1, <1>3, <1>5, <1>7, <2>2, <2>3
<1>. QED
  BY <1>6, <1>7

LEMMA BeheadShape ==
    ASSUME NEW pending, Orderly(pending)
    PROVE  /\ Behead(pending) \in Seq(Pendings)
           /\ \A k \in 1..Len(Behead(pending)) : \E i \in Kept(pending) :
                 Behead(pending)[k] = Left(pending, i)
           /\ \A i \in Kept(pending) : \E k \in 1..Len(Behead(pending)) :
                 Behead(pending)[k] = Left(pending, i)
           /\ \A k, l \in 1..Len(Behead(pending)) :
                 Behead(pending)[k].control = Behead(pending)[l].control => k = l
<1>. DEFINE n == Len(pending)
            T == Kept(pending)
            m == Cardinality(T)
            left == [i \in 1..n |-> Left(pending, i)]
<1>1. n \in Nat /\ DOMAIN pending = 1..n
  BY DEF Orderly
<1>2. T \in SUBSET (1..n) /\ T \in SUBSET Nat /\ IsFiniteSet(T)
  <2>1. T \in SUBSET (1..n)
    BY DEF Kept
  <2>2. 1..n \in SUBSET Nat
    BY <1>1
  <2>. QED
    BY <1>1, <2>1, <2>2, OrderAppended
<1>3. /\ m \in Nat /\ InOrder(T) \in [1..m -> T]
      /\ \A i \in T : \E k \in 1..m : InOrder(T)[k] = i
  BY <1>2, Ordered
<1>4. {i \in DOMAIN left : left[i].values # <<>>} = T
  BY DEF Kept
<1>5. left = [i \in DOMAIN pending |->
                IF i > DeltaSize THEN pending[i]
                ELSE [control |-> pending[i].control, values |-> Tail(pending[i].values)]]
  BY <1>1 DEF Left
<1>6. Behead(pending) = Selected(left, T)
  BY <1>4, <1>5 DEF Behead
<1>. HIDE DEF n, T, m
<1>7. Behead(pending) = [k \in 1..m |-> Left(pending, InOrder(T)[k])]
  BY <1>2, <1>3, <1>6 DEF Selected, m
<1>8. ASSUME NEW k \in 1..m PROVE Left(pending, InOrder(T)[k]) \in Pendings
  <2>1. InOrder(T)[k] \in T
    BY <1>3
  <2>2. InOrder(T)[k] \in 1..n
    BY <1>2, <2>1
  <2>. QED
    BY <2>2, LeftType DEF n
<1>9. PICK b : b = Behead(pending)
  OBVIOUS
<1>10. b \in [1..m -> Pendings] /\ \A k \in 1..m : b[k] = Left(pending, InOrder(T)[k])
  BY <1>7, <1>8, <1>9
<1>11. b \in Seq(Pendings) /\ Len(b) = m
  BY <1>3, <1>10
<1>12. ASSUME NEW k \in 1..m, NEW l \in 1..m, b[k].control = b[l].control PROVE k = l
  <2>1. InOrder(T)[k] \in 1..n /\ InOrder(T)[l] \in 1..n
    BY <1>2, <1>3
  <2>2. pending[InOrder(T)[k]].control = pending[InOrder(T)[l]].control
    BY <1>10, <1>12, <2>1, LeftType DEF n
  <2>3. InOrder(T)[k] = InOrder(T)[l]
    BY <2>1, <2>2 DEF Orderly, n
  <2>. QED
    BY <1>2, <2>3, Injective DEF m
<1>13. \A k \in 1..m : \E i \in T : b[k] = Left(pending, i)
  BY <1>3, <1>10
<1>14. \A i \in T : \E k \in 1..m : b[k] = Left(pending, i)
  <2>. SUFFICES ASSUME NEW i \in T PROVE \E k \in 1..m : b[k] = Left(pending, i)
    OBVIOUS
  <2>1. PICK k \in 1..m : InOrder(T)[k] = i
    BY <1>3
  <2>. QED
    BY <1>10, <2>1
<1>. QED
  BY <1>9, <1>11, <1>12, <1>13, <1>14 DEF T

LEMMA Beheaded ==
    ASSUME NEW pending, Orderly(pending)
    PROVE  /\ Orderly(Behead(pending))
           /\ Heads(pending) \in Shown
           /\ \A c : IF c \in DOMAIN Heads(pending)
                     THEN /\ Queued(pending, c) # <<>>
                          /\ Heads(pending)[c] = Head(Queued(pending, c))
                          /\ Queued(Behead(pending), c) = Tail(Queued(pending, c))
                     ELSE Queued(Behead(pending), c) = Queued(pending, c)
           /\ \A k \in 1..Len(Behead(pending)) : \E i \in 1..Len(pending) :
                 Behead(pending)[k].control = pending[i].control
           /\ \A c \in DOMAIN Heads(pending) : \E i \in 1..Len(pending) : pending[i].control = c
<1>. DEFINE n == Len(pending)
            taken == {pending[i].control : i \in {j \in 1..n : j =< DeltaSize}}
<1>1. n \in Nat /\ DOMAIN pending = 1..n /\ DeltaSize \in Nat
  BY StreamAssumption DEF Orderly
<1>2. Heads(pending) = [c \in taken |-> Head(Queued(pending, c))]
  BY <1>1 DEF Heads
<1>3. PICK b : b = Behead(pending)
  OBVIOUS
<1>4. /\ b \in Seq(Pendings)
      /\ \A k \in 1..Len(b) : \E i \in Kept(pending) : b[k] = Left(pending, i)
      /\ \A i \in Kept(pending) : \E k \in 1..Len(b) : b[k] = Left(pending, i)
      /\ \A k, l \in 1..Len(b) : b[k].control = b[l].control => k = l
  BY <1>3, BeheadShape
<1>5. ASSUME NEW i \in 1..n
      PROVE  /\ Queued(pending, pending[i].control) = pending[i].values
             /\ pending[i].control \in Controls /\ pending[i].values \in Seq(Values)
             /\ pending[i].values # <<>>
             /\ Left(pending, i).control = pending[i].control
             /\ Left(pending, i).values = IF i > DeltaSize THEN pending[i].values
                                          ELSE Tail(pending[i].values)
  BY QueuedAt, LeftType
<1>6. Kept(pending) = {i \in 1..n : Left(pending, i).values # <<>>}
  BY DEF Kept
<1>. HIDE DEF n, taken
<1>7. Orderly(b)
  <2>1. ASSUME NEW k \in 1..Len(b)
        PROVE  /\ Len(b[k].values) \in 1..MaxTransitions
               /\ b[k].control \notin Switches => Len(b[k].values) = 1
    <3>1. PICK i \in Kept(pending) : b[k] = Left(pending, i)
      BY <1>4
    <3>2. i \in 1..n /\ Left(pending, i).values # <<>>
      BY <1>6
    <3>. QED
      BY <3>1, <3>2, LeftType DEF n
  <2>. QED
    BY <1>4, <2>1 DEF Orderly
<1>8. Heads(pending) \in Shown
  <2>1. ASSUME NEW c \in taken PROVE c \in Controls /\ Head(Queued(pending, c)) \in Values
    <3>1. PICK i \in 1..n : c = pending[i].control
      BY DEF taken
    <3>2. PICK t \in Seq(Values) : t # <<>> /\ t = Queued(pending, c)
      BY <1>5, <3>1
    <3>3. Head(t) \in Values
      BY <3>2, HeadTailProperties
    <3>. QED
      BY <1>5, <3>1, <3>2, <3>3
  <2>2. taken \in SUBSET Controls /\ Heads(pending) \in [taken -> Values]
    BY <1>2, <2>1
  <2>. QED
    BY <2>2 DEF Shown
<1>9. ASSUME NEW i \in 1..n
      PROVE  /\ pending[i].control \in taken <=> ~(i > DeltaSize)
             /\ Queued(b, pending[i].control) = Left(pending, i).values
  <2>1. pending[i].control \in taken <=> ~(i > DeltaSize)
    <3>1. ASSUME NEW j \in 1..n, pending[i].control = pending[j].control PROVE i = j
      BY <3>1 DEF Orderly, n
    <3>2. i \in Nat
      BY <1>1
    <3>. QED
      BY <1>1, <3>1, <3>2 DEF taken
  <2>2. ASSUME i \in Kept(pending)
        PROVE  Queued(b, pending[i].control) = Left(pending, i).values
    <3>1. PICK k \in 1..Len(b) : b[k] = Left(pending, i)
      BY <1>4, <2>2
    <3>2. Queued(b, b[k].control) = b[k].values
      BY <1>7, QueuedAt
    <3>. QED
      BY <1>5, <3>1, <3>2
  <2>3. ASSUME i \notin Kept(pending)
        PROVE  Queued(b, pending[i].control) = Left(pending, i).values
    <3>1. Left(pending, i).values = <<>>
      BY <1>6, <2>3
    <3>2. ASSUME NEW k \in 1..Len(b) PROVE b[k].control # pending[i].control
      <4>1. PICK j \in Kept(pending) : b[k] = Left(pending, j)
        BY <1>4
      <4>2. j \in 1..n /\ b[k].control = pending[j].control /\ i # j
        BY <1>5, <1>6, <2>3, <4>1
      <4>. QED
        BY <4>2 DEF Orderly, n
    <3>3. Queued(b, pending[i].control) = <<>>
      BY <1>4, <3>2, QueuedNothing
    <3>. QED
      BY <3>1, <3>3
  <2>. QED
    BY <2>1, <2>2, <2>3
<1>10. ASSUME NEW k \in 1..Len(b) PROVE \E i \in 1..n : b[k].control = pending[i].control
  <2>1. PICK i \in Kept(pending) : b[k] = Left(pending, i)
    BY <1>4
  <2>2. i \in 1..n /\ Left(pending, i).control = pending[i].control
    BY <1>5, <1>6
  <2>. QED
    BY <2>1, <2>2
<1>11. ASSUME NEW c
       PROVE  IF c \in taken
              THEN /\ Queued(pending, c) # <<>>
                   /\ Queued(b, c) = Tail(Queued(pending, c))
              ELSE Queued(b, c) = Queued(pending, c)
  <2>1. CASE \E i \in 1..n : pending[i].control = c
    <3>1. PICK i \in 1..n : pending[i].control = c
      BY <2>1
    <3>. QED
      BY <1>5, <1>9, <3>1
  <2>2. CASE \A i \in 1..n : pending[i].control # c
    <3>1. c \notin taken
      BY <2>2 DEF taken
    <3>2. \A k \in 1..Len(b) : b[k].control # c
      BY <1>10, <2>2
    <3>3. pending \in Seq(Pendings)
      BY DEF Orderly
    <3>4. Queued(b, c) = <<>> /\ Queued(pending, c) = <<>>
      BY <1>4, <2>2, <3>2, <3>3, QueuedNothing DEF n
    <3>. QED
      BY <3>1, <3>4
  <2>. QED
    BY <2>1, <2>2
<1>12. DOMAIN Heads(pending) = taken /\ \A c \in taken : Heads(pending)[c] = Head(Queued(pending, c))
  BY <1>2
<1>13. \A c \in taken : \E i \in 1..n : pending[i].control = c
  BY DEF taken
<1>. QED
  BY <1>3, <1>7, <1>8, <1>10, <1>11, <1>12, <1>13 DEF n

-----------------------------------------------------------------------------
(* The cockpit side: what the client has decoded is what is available, and *)
(* while a session listens, what no frame under way has touched is known.  *)

LEMMA EmptyShown == Empty \in Shown /\ DOMAIN Empty = {}
<1>1. Empty \in [{} -> Values] /\ DOMAIN Empty = {}
  BY DEF Empty
<1>2. {} \in SUBSET Controls
  OBVIOUS
<1>. QED
  BY <1>1, <1>2 DEF Shown

LEMMA ShownIntro ==
    ASSUME NEW f, NEW S \in SUBSET Controls, f \in [S -> Values]
    PROVE  f \in Shown
  BY DEF Shown

LEMMA ShownElim ==
    ASSUME NEW f \in Shown
    PROVE  DOMAIN f \in SUBSET Controls /\ f \in [DOMAIN f -> Values]
  BY DEF Shown

LEMMA RestrictShown ==
    ASSUME NEW f \in Shown, NEW S \in SUBSET (DOMAIN f)
    PROVE  /\ Restrict(f, S) \in Shown /\ DOMAIN Restrict(f, S) = S
           /\ \A c \in S : Restrict(f, S)[c] = f[c]
<1>1. S \in SUBSET Controls /\ Restrict(f, S) \in [S -> Values]
  BY ShownElim DEF Restrict
<1>2. Restrict(f, S) \in Shown
  BY <1>1, ShownIntro
<1>. QED
  BY <1>2 DEF Restrict

LEMMA PutShown ==
    ASSUME NEW f \in Shown, NEW g \in Shown
    PROVE  /\ Put(f, g) \in Shown
           /\ DOMAIN Put(f, g) = DOMAIN f \cup DOMAIN g
           /\ \A c \in DOMAIN g : Put(f, g)[c] = g[c]
           /\ \A c \in DOMAIN f \ DOMAIN g : Put(f, g)[c] = f[c]
<1>1. /\ DOMAIN f \in SUBSET Controls /\ f \in [DOMAIN f -> Values]
      /\ DOMAIN g \in SUBSET Controls /\ g \in [DOMAIN g -> Values]
  BY ShownElim
<1>2. Put(f, g) \in [DOMAIN f \cup DOMAIN g -> Values]
  BY <1>1 DEF Put
<1>3. Put(f, g) \in Shown
  BY <1>1, <1>2, ShownIntro
<1>. QED
  BY <1>3 DEF Put

LEMMA ActiveShown ==
    ASSUME NEW b \in Shown, NEW a \in Slots
    PROVE  /\ Active(b, a) \in Shown
           /\ DOMAIN Active(b, a) = IF a = NoAircraft THEN {} ELSE DOMAIN b \cap Definitions[a]
           /\ DOMAIN Active(b, a) \subseteq DOMAIN b
           /\ \A c \in DOMAIN Active(b, a) : Active(b, a)[c] = b[c]
<1>1. CASE a = NoAircraft
  <2>1. Active(b, a) = Empty
    BY <1>1 DEF Active
  <2>. QED
    BY <1>1, <2>1, EmptyShown
<1>2. CASE a # NoAircraft
  <2>1. Active(b, a) = Restrict(b, DOMAIN b \cap Definitions[a])
    BY <1>2 DEF Active
  <2>2. DOMAIN b \cap Definitions[a] \in SUBSET (DOMAIN b)
    OBVIOUS
  <2>. QED
    BY <1>2, <2>1, <2>2, RestrictShown
<1>. QED
  BY <1>1, <1>2

Decoded == DOMAIN decoded \subseteq DOMAIN Active(bytes, current_aircraft)

Known ==
    \A c \in DOMAIN Active(bytes, current_aircraft) \ dirty :
        c \in DOMAIN decoded /\ decoded[c] = bytes[c]

\* What a complete frame leaves.
LEMMA FrameOutcome ==
    ASSUME BiosTypeOK, Decoded, NEW asked \in BOOLEAN
    PROVE  LET r == FrameResult(asked)
               active == DOMAIN Active(r.bytes, name)
           IN  /\ r.news = (name # current_aircraft)
               /\ r.bytes \in Shown /\ r.changes \in Shown /\ r.decoded \in Shown
               /\ ~r.news => r.bytes = bytes
               /\ DOMAIN r.changes \subseteq active
               /\ \A c \in DOMAIN r.changes : r.changes[c] = r.bytes[c]
               /\ DOMAIN r.decoded \subseteq active
               /\ \A c \in DOMAIN r.changes : c \in DOMAIN r.decoded /\ r.decoded[c] = r.changes[c]
               /\ ~r.news => /\ DOMAIN r.decoded = DOMAIN decoded \cup DOMAIN r.changes
                             /\ \A c \in DOMAIN decoded \ DOMAIN r.changes : r.decoded[c] = decoded[c]
               /\ (r.news /\ asked) \/ (~r.news /\ Known) =>
                     \A c \in active : c \in DOMAIN r.decoded /\ r.decoded[c] = r.bytes[c]
<1>. DEFINE news == name # current_aircraft
<1>0. PICK now : now = IF news THEN Restrict(bytes, DOMAIN bytes \cap frame.controls) ELSE bytes
  OBVIOUS
<1>1. PICK seen : seen = IF ~news THEN decoded ELSE IF asked THEN Active(now, name) ELSE Empty
  OBVIOUS
<1>2. PICK told : told = {c \in dirty \cap DOMAIN Active(now, name) :
                             ~(c \in DOMAIN seen /\ seen[c] = now[c])}
  OBVIOUS
<1>3. PICK changes : changes = Restrict(now, told)
  OBVIOUS
<1>4. PICK after : after = Put(seen, changes)
  OBVIOUS
<1>5. FrameResult(asked) = [news |-> news, bytes |-> now, changes |-> changes, decoded |-> after]
  <2>1. seen = CASE ~news -> decoded
                 [] news /\ asked -> Active(now, name)
                 [] OTHER -> Empty
    BY <1>1, Zenon
  <2>2. FrameResult(asked) = [news |-> news, bytes |-> now, changes |-> Restrict(now, told),
                              decoded |-> Put(seen, Restrict(now, told))]
    BY <1>0, <1>2, <2>1, Zenon DEF FrameResult
  <2>. QED
    BY <1>3, <1>4, <2>2
<1>6. PICK r : r = FrameResult(asked)
  OBVIOUS
<1>7. r.news = news /\ r.bytes = now /\ r.changes = changes /\ r.decoded = after
  BY <1>5, <1>6
<1>8. bytes \in Shown /\ decoded \in Shown /\ name \in Slots /\ current_aircraft \in Slots
  BY DEF BiosTypeOK
<1>9. now \in Shown
  <2>1. DOMAIN bytes \cap frame.controls \in SUBSET (DOMAIN bytes)
    OBVIOUS
  <2>. QED
    BY <1>0, <1>8, <2>1, RestrictShown
<1>10. PICK a : a = Active(now, name)
  OBVIOUS
<1>11. a \in Shown /\ DOMAIN a \subseteq DOMAIN now /\ \A c \in DOMAIN a : a[c] = now[c]
  <2>1. now \in Shown /\ name \in Slots
    BY <1>8, <1>9
  <2>2. /\ Active(now, name) \in Shown /\ DOMAIN Active(now, name) \subseteq DOMAIN now
        /\ \A c \in DOMAIN Active(now, name) : Active(now, name)[c] = now[c]
    BY ONLY <2>1, ActiveShown
  <2>. QED
    BY ONLY <1>10, <2>2
<1>12. seen \in Shown /\ DOMAIN seen \subseteq DOMAIN a
  <2>1. CASE ~news
    <3>1. seen = decoded /\ a = Active(bytes, current_aircraft)
      BY <1>0, <1>1, <1>10, <2>1
    <3>. QED
      BY <1>8, <3>1 DEF Decoded
  <2>2. CASE news /\ asked
    BY <1>1, <1>10, <1>11, <2>2
  <2>3. CASE news /\ ~asked
    BY <1>1, <2>3, EmptyShown
  <2>. QED
    BY <2>1, <2>2, <2>3
<1>13. /\ told \subseteq DOMAIN a /\ told \in SUBSET (DOMAIN now)
       /\ \A c \in (dirty \cap DOMAIN a) \ told : c \in DOMAIN seen /\ seen[c] = now[c]
  BY <1>2, <1>10, <1>11
<1>14. changes \in Shown /\ DOMAIN changes = told /\ \A c \in told : changes[c] = now[c]
  BY <1>3, <1>9, <1>13, RestrictShown
<1>15. /\ after \in Shown /\ DOMAIN after = DOMAIN seen \cup told
       /\ \A c \in told : after[c] = changes[c]
       /\ \A c \in DOMAIN seen \ told : after[c] = seen[c]
  BY <1>4, <1>12, <1>14, PutShown
<1>16. ASSUME (news /\ asked) \/ (~news /\ Known), NEW c \in DOMAIN a
       PROVE  c \in DOMAIN after /\ after[c] = now[c]
  <2>1. CASE c \in told
    BY <1>14, <1>15, <2>1
  <2>2. CASE c \notin told /\ c \in DOMAIN seen /\ seen[c] = now[c]
    BY <1>15, <2>2
  <2>3. CASE c \notin told /\ ~(c \in DOMAIN seen /\ seen[c] = now[c])
    <3>1. c \notin dirty
      BY <1>13, <2>3
    <3>2. CASE news /\ asked
      BY <1>1, <1>10, <1>11, <2>3, <3>2
    <3>3. CASE ~news /\ Known
      <4>1. seen = decoded /\ now = bytes /\ a = Active(bytes, current_aircraft)
        BY <1>0, <1>1, <1>10, <3>3
      <4>. QED
        BY <2>3, <3>1, <3>3, <4>1 DEF Known
    <3>. QED
      BY <1>16, <3>2, <3>3
  <2>. QED
    BY <2>1, <2>2, <2>3
<1>17. ~news => now = bytes /\ seen = decoded
  BY <1>0, <1>1
<1>18. r.news = (name # current_aircraft)
  BY <1>7
<1>19. a = Active(r.bytes, name)
  BY <1>7, <1>10
<1>. HIDE DEF news
<1>20. /\ r.bytes \in Shown /\ r.changes \in Shown /\ r.decoded \in Shown
       /\ ~r.news => r.bytes = bytes
       /\ DOMAIN r.changes \subseteq DOMAIN a
       /\ \A c \in DOMAIN r.changes : r.changes[c] = r.bytes[c]
       /\ DOMAIN r.decoded \subseteq DOMAIN a
       /\ \A c \in DOMAIN r.changes : c \in DOMAIN r.decoded /\ r.decoded[c] = r.changes[c]
  BY <1>7, <1>9, <1>12, <1>13, <1>14, <1>15, <1>17
<1>21. ~r.news => /\ DOMAIN r.decoded = DOMAIN decoded \cup DOMAIN r.changes
                  /\ \A c \in DOMAIN decoded \ DOMAIN r.changes : r.decoded[c] = decoded[c]
  BY <1>7, <1>14, <1>15, <1>17
<1>22. (r.news /\ asked) \/ (~r.news /\ Known) =>
          \A c \in DOMAIN a : c \in DOMAIN r.decoded /\ r.decoded[c] = r.bytes[c]
  BY <1>7, <1>16, Zenon
<1>. QED
  BY ONLY <1>6, <1>18, <1>19, <1>20, <1>21, <1>22

LEMMA ExportedValue ==
    ASSUME BiosTypeOK, Decoded, NEW c \in Controls, NEW v \in Values, ExportValue(c, v)
    PROVE  BiosTypeOK' /\ Decoded' /\ (Known => Known')
<1>0. MaxWrites \in Nat /\ writes \in 0..MaxWrites
  BY BiosAssumption DEF BiosTypeOK
<1>1. PICK g : g = [d \in {c} |-> v]
  OBVIOUS
<1>2. g \in Shown /\ DOMAIN g = {c} /\ g[c] = v
  <2>1. {c} \in SUBSET Controls /\ g \in [{c} -> Values]
    BY <1>1
  <2>2. g \in Shown
    BY <2>1, ShownIntro
  <2>. QED
    BY <1>1, <2>2
<1>3. bytes \in Shown /\ current_aircraft \in Slots /\ decoded \in Shown
  BY DEF BiosTypeOK
<1>4. bytes' = Put(bytes, g) /\ current_aircraft' = current_aircraft /\ decoded' = decoded
  BY <1>1 DEF ExportValue
<1>5. /\ bytes' \in Shown /\ DOMAIN bytes' = DOMAIN bytes \cup {c}
      /\ bytes'[c] = v /\ \A d \in DOMAIN bytes \ {c} : bytes'[d] = bytes[d]
  <2>1. /\ Put(bytes, g) \in Shown /\ DOMAIN Put(bytes, g) = DOMAIN bytes \cup DOMAIN g
        /\ \A d \in DOMAIN g : Put(bytes, g)[d] = g[d]
        /\ \A d \in DOMAIN bytes \ DOMAIN g : Put(bytes, g)[d] = bytes[d]
    BY ONLY <1>2, <1>3, PutShown
  <2>. QED
    BY ONLY <1>2, <1>4, <2>1
<1>6. BiosTypeOK'
  BY <1>0, <1>5 DEF ExportValue, BiosTypeOK
<1>7. PICK a, b : a = Active(bytes, current_aircraft) /\ b = Active(bytes', current_aircraft)
  OBVIOUS
<1>8. /\ DOMAIN a = IF current_aircraft = NoAircraft THEN {} ELSE DOMAIN bytes \cap Definitions[current_aircraft]
      /\ DOMAIN b = IF current_aircraft = NoAircraft THEN {} ELSE DOMAIN bytes' \cap Definitions[current_aircraft]
  BY <1>3, <1>5, <1>7, ActiveShown
<1>9. /\ DOMAIN a \subseteq DOMAIN b /\ DOMAIN b \subseteq DOMAIN a \cup {c}
      /\ c \in DOMAIN bytes => DOMAIN b = DOMAIN a
  BY <1>5, <1>8
<1>10. Decoded'
  BY <1>4, <1>7, <1>9 DEF Decoded
<1>11. ASSUME Known, NEW d \in DOMAIN b \ dirty'
       PROVE  d \in DOMAIN decoded /\ decoded[d] = bytes'[d]
  <2>1. dirty' = IF c \in DOMAIN bytes /\ bytes[c] = v THEN dirty ELSE dirty \cup {c}
    BY DEF ExportValue
  <2>2. d \in DOMAIN a \ dirty
    BY <1>9, <1>11, <2>1
  <2>3. d \in DOMAIN decoded /\ decoded[d] = bytes[d]
    BY <1>7, <1>11, <2>2 DEF Known
  <2>4. bytes'[d] = bytes[d]
    <3>1. d \in DOMAIN bytes
      BY <1>8, <2>2
    <3>. QED
      BY <1>5, <1>11, <2>1, <3>1
  <2>. QED
    BY <2>3, <2>4
<1>12. Known => Known'
  BY <1>4, <1>7, <1>11 DEF Known
<1>. QED
  BY <1>6, <1>10, <1>12

LEMMA ExportedName ==
    ASSUME BiosTypeOK, Decoded, NEW a \in Slots, ExportName(a)
    PROVE  BiosTypeOK' /\ Decoded' /\ (Known => Known')
<1>1. BiosTypeOK'
  <2>1. /\ writes' = writes + 1 /\ writes < MaxWrites /\ writes \in 0..MaxWrites
        /\ MaxWrites \in Nat
    BY BiosAssumption DEF BiosTypeOK, ExportName
  <2>2. writes' \in 0..MaxWrites
    BY <2>1
  <2>3. frame' \in [controls : SUBSET Controls, named : BOOLEAN]
    BY DEF BiosTypeOK, ExportName
  <2>4. /\ name' \in Slots /\ exported' \in Slots
        /\ UNCHANGED <<bytes, dirty, connected, current_aircraft, decoded>>
    BY DEF ExportName
  <2>. QED
    BY <2>2, <2>3, <2>4 DEF BiosTypeOK
<1>2. UNCHANGED <<bytes, dirty, current_aircraft, decoded>>
  BY DEF ExportName
<1>. QED
  BY <1>1, <1>2 DEF Decoded, Known

LEMMA FrameDropped ==
    ASSUME BiosTypeOK, Decoded, FrameMalformed
    PROVE  BiosTypeOK' /\ Decoded' /\ (Known => Known')
<1>1. BiosTypeOK'
  BY DEF BiosTypeOK, FrameMalformed, NewFrame
<1>2. UNCHANGED <<bytes, dirty, current_aircraft, decoded>>
  BY DEF FrameMalformed
<1>. QED
  BY <1>1, <1>2 DEF Decoded, Known

LEMMA FrameTaken ==
    ASSUME BiosTypeOK, Decoded, NEW asked \in BOOLEAN, FrameComplete(asked)
    PROVE  BiosTypeOK' /\ Decoded' /\ (asked /\ Known => Known')
<1>1. PICK r : r = FrameResult(asked)
  OBVIOUS
<1>2. /\ r.bytes \in Shown /\ r.decoded \in Shown
      /\ DOMAIN r.decoded \subseteq DOMAIN Active(r.bytes, name)
      /\ (r.news /\ asked) \/ (~r.news /\ Known) =>
            \A c \in DOMAIN Active(r.bytes, name) : c \in DOMAIN r.decoded /\ r.decoded[c] = r.bytes[c]
      /\ r.news = (name # current_aircraft)
  BY <1>1, FrameOutcome
<1>3. /\ bytes' = r.bytes /\ decoded' = r.decoded /\ current_aircraft' = name
      /\ dirty' = {} /\ frame' = NewFrame /\ connected' = TRUE
      /\ name' = (IF r.news /\ ~frame.named THEN NoAircraft ELSE name)
      /\ UNCHANGED <<exported, writes>>
  BY <1>1 DEF FrameComplete
<1>4. BiosTypeOK'
  BY <1>2, <1>3 DEF BiosTypeOK, Slots, NewFrame
<1>5. Decoded'
  BY <1>2, <1>3 DEF Decoded
<1>6. asked /\ Known => Known'
  BY <1>2, <1>3 DEF Known
<1>. QED
  BY <1>4, <1>5, <1>6

LEMMA Expired ==
    ASSUME BiosTypeOK, Expire
    PROVE  BiosTypeOK' /\ Decoded' /\ Known'
<1>1. /\ connected' = FALSE /\ bytes' = Empty /\ name' = NoAircraft
      /\ current_aircraft' = NoAircraft /\ dirty' = {} /\ decoded' = Empty
      /\ UNCHANGED <<frame, exported, writes>>
  BY DEF Expire
<1>2. BiosTypeOK'
  BY <1>1, EmptyShown DEF BiosTypeOK, Slots
<1>3. Active(bytes', current_aircraft') = Empty
  BY <1>1 DEF Active
<1>4. Decoded'
  BY <1>1, <1>3, EmptyShown DEF Decoded
<1>5. Known'
  BY <1>3, EmptyShown DEF Known
<1>. QED
  BY <1>2, <1>4, <1>5

LEMMA SnapshotTaken ==
    ASSUME BiosTypeOK, Decoded, TakeSnapshot
    PROVE  /\ BiosTypeOK' /\ Decoded' /\ Known'
           /\ DOMAIN decoded' = DOMAIN Active(bytes, current_aircraft)
           /\ \A c \in DOMAIN decoded' : decoded'[c] = bytes[c]
<1>1. PICK a : a = Active(bytes, current_aircraft)
  OBVIOUS
<1>2. bytes \in Shown /\ decoded \in Shown /\ current_aircraft \in Slots
  BY DEF BiosTypeOK
<1>3. a \in Shown /\ \A c \in DOMAIN a : a[c] = bytes[c]
  <2>1. /\ Active(bytes, current_aircraft) \in Shown
        /\ \A c \in DOMAIN Active(bytes, current_aircraft) :
              Active(bytes, current_aircraft)[c] = bytes[c]
    BY ONLY <1>2, ActiveShown
  <2>. QED
    BY ONLY <1>1, <2>1
<1>4. /\ decoded' = Put(decoded, a)
      /\ UNCHANGED <<bytes, name, frame, dirty, connected, current_aircraft, exported, writes>>
  BY <1>1 DEF TakeSnapshot
<1>5. /\ decoded' \in Shown /\ DOMAIN decoded' = DOMAIN decoded \cup DOMAIN a
      /\ \A c \in DOMAIN a : decoded'[c] = a[c]
  BY <1>2, <1>3, <1>4, PutShown
<1>6. DOMAIN decoded \subseteq DOMAIN a
  BY <1>1 DEF Decoded
<1>7. BiosTypeOK'
  BY <1>4, <1>5 DEF BiosTypeOK
<1>8. DOMAIN decoded' = DOMAIN a
  BY <1>5, <1>6
<1>9. Decoded'
  BY <1>1, <1>4, <1>8 DEF Decoded
<1>10. Known'
  BY <1>1, <1>3, <1>4, <1>5, <1>8 DEF Known
<1>. QED
  BY <1>1, <1>3, <1>5, <1>7, <1>8, <1>9, <1>10

-----------------------------------------------------------------------------
(* The messages an epoch starts with.                                      *)

Catalogs(a) == Chunks(Definitions[a], CatalogChunk)

Snapshots(values) == Chunks(DOMAIN values, SnapshotChunk)

LEMMA CatalogsShape ==
    ASSUME NEW a \in Aircraft
    PROVE  /\ Definitions[a] \in SUBSET Controls
           /\ Catalogs(a) \in Seq(SUBSET Definitions[a])
           /\ Len(Catalogs(a)) \in Nat \ {0}
           /\ \A i, j \in 1..Len(Catalogs(a)) : i # j => Catalogs(a)[i] \cap Catalogs(a)[j] = {}
           /\ \A c \in Definitions[a] : \E i \in 1..Len(Catalogs(a)) : c \in Catalogs(a)[i]
<1>1. Definitions[a] \in SUBSET Controls
  BY BiosAssumption
<1>2. /\ Definitions[a] \in SUBSET Nat /\ IsFiniteSet(Definitions[a])
      /\ CatalogChunk \in Nat \ {0}
  BY <1>1, ControlsFinite, StreamAssumption
<1>. QED
  BY <1>1, <1>2, Chunked DEF Catalogs

LEMMA SnapshotsShape ==
    ASSUME NEW values \in Shown
    PROVE  /\ Snapshots(values) \in Seq(SUBSET (DOMAIN values))
           /\ Len(Snapshots(values)) \in Nat \ {0}
           /\ \A i, j \in 1..Len(Snapshots(values)) :
                 i # j => Snapshots(values)[i] \cap Snapshots(values)[j] = {}
           /\ \A c \in DOMAIN values : \E i \in 1..Len(Snapshots(values)) : c \in Snapshots(values)[i]
<1>1. DOMAIN values \in SUBSET Controls
  BY ShownElim
<1>2. /\ DOMAIN values \in SUBSET Nat /\ IsFiniteSet(DOMAIN values)
      /\ SnapshotChunk \in Nat \ {0}
  BY <1>1, ControlsFinite, StreamAssumption
<1>. QED
  BY <1>1, <1>2, Chunked DEF Snapshots

CatalogMessage(epoch, a, i) ==
    Message("catalog", epoch, i - 1, a, i - 1, Len(Catalogs(a)), Catalogs(a)[i], Empty)

SnapshotMessage(epoch, a, values, i) ==
    Message("snapshot", epoch, Len(Catalogs(a)) + i - 1, a, i - 1, Len(Snapshots(values)),
            {}, Restrict(values, Snapshots(values)[i]))

LEMMA CatalogTyped ==
    ASSUME NEW epoch \in Nat, NEW a \in Aircraft, NEW i \in 1..Len(Catalogs(a))
    PROVE  CatalogMessage(epoch, a, i) \in Messages
<1>1. /\ Len(Catalogs(a)) \in Nat /\ Catalogs(a) \in Seq(SUBSET Definitions[a])
      /\ Definitions[a] \in SUBSET Controls
  BY CatalogsShape
<1>2. Catalogs(a)[i] \in SUBSET Controls
  BY <1>1
<1>3. i - 1 \in Nat
  BY <1>1
<1>. QED
  BY <1>1, <1>2, <1>3, EmptyShown DEF CatalogMessage, Message, Messages, Kinds

LEMMA SnapshotTyped ==
    ASSUME NEW epoch \in Nat, NEW a \in Aircraft, NEW values \in Shown,
           NEW i \in 1..Len(Snapshots(values))
    PROVE  /\ SnapshotMessage(epoch, a, values, i) \in Messages
           /\ Snapshots(values)[i] \in SUBSET (DOMAIN values)
           /\ Restrict(values, Snapshots(values)[i]) \in Shown
           /\ DOMAIN Restrict(values, Snapshots(values)[i]) = Snapshots(values)[i]
           /\ \A c \in Snapshots(values)[i] : Restrict(values, Snapshots(values)[i])[c] = values[c]
<1>1. /\ Len(Catalogs(a)) \in Nat \ {0}
      /\ Snapshots(values) \in Seq(SUBSET (DOMAIN values))
      /\ Len(Snapshots(values)) \in Nat
  BY CatalogsShape, SnapshotsShape
<1>2. Snapshots(values)[i] \in SUBSET (DOMAIN values)
  BY <1>1
<1>3. PICK part : part = Restrict(values, Snapshots(values)[i])
  OBVIOUS
<1>4. /\ part \in Shown /\ DOMAIN part = Snapshots(values)[i]
      /\ \A c \in Snapshots(values)[i] : part[c] = values[c]
  BY <1>2, <1>3, RestrictShown
<1>5. i - 1 \in Nat /\ Len(Catalogs(a)) + i - 1 \in Nat
  BY <1>1
<1>6. SnapshotMessage(epoch, a, values, i) \in Messages
  BY <1>1, <1>3, <1>4, <1>5 DEF SnapshotMessage, Message, Messages, Kinds
<1>. QED
  BY <1>2, <1>3, <1>4, <1>6

LEMMA InitialShape ==
    ASSUME NEW epoch \in Nat, NEW a \in Aircraft, NEW values \in Shown
    PROVE  /\ Initial(epoch, a, values) \in Seq(Messages)
           /\ Len(Initial(epoch, a, values)) = Len(Catalogs(a)) + Len(Snapshots(values))
           /\ \A i \in 1..Len(Catalogs(a)) :
                 Initial(epoch, a, values)[i] = CatalogMessage(epoch, a, i)
           /\ \A i \in 1..Len(Snapshots(values)) :
                 Initial(epoch, a, values)[Len(Catalogs(a)) + i] = SnapshotMessage(epoch, a, values, i)
<1>. DEFINE k == Len(Catalogs(a))
            n == Len(Snapshots(values))
<1>1. k \in Nat /\ n \in Nat
  BY CatalogsShape, SnapshotsShape
<1>2. DOMAIN Catalogs(a) = 1..k /\ DOMAIN Snapshots(values) = 1..n
  BY CatalogsShape, SnapshotsShape
<1>3. PICK p, q : /\ p = [i \in 1..k |-> CatalogMessage(epoch, a, i)]
                  /\ q = [i \in 1..n |-> SnapshotMessage(epoch, a, values, i)]
  OBVIOUS
<1>4. PICK all : all = Initial(epoch, a, values)
  OBVIOUS
<1>5. all = p \o q
  BY <1>2, <1>3, <1>4 DEF Initial, Catalogs, Snapshots, CatalogMessage, SnapshotMessage
<1>. HIDE DEF k, n
<1>6. p \in [1..k -> Messages] /\ q \in [1..n -> Messages]
  BY <1>3, CatalogTyped, SnapshotTyped DEF k, n
<1>7. p \in Seq(Messages) /\ Len(p) = k
  BY ONLY <1>1, <1>6
<1>8. q \in Seq(Messages) /\ Len(q) = n
  BY ONLY <1>1, <1>6
<1>9. /\ all \in Seq(Messages) /\ Len(all) = Len(p) + Len(q)
      /\ \A i \in 1..(Len(p) + Len(q)) : all[i] = IF i <= Len(p) THEN p[i] ELSE q[i - Len(p)]
  BY ONLY <1>5, <1>7, <1>8, ConcatProperties
<1>10. ASSUME NEW i \in 1..k PROVE all[i] = CatalogMessage(epoch, a, i)
  <2>1. i \in 1..(k + n) /\ i <= k
    BY <1>1
  <2>2. all[i] = p[i]
    BY <1>7, <1>8, <1>9, <2>1
  <2>. QED
    BY <1>3, <2>2
<1>11. ASSUME NEW i \in 1..n PROVE all[k + i] = SnapshotMessage(epoch, a, values, i)
  <2>1. k + i \in 1..(k + n) /\ ~(k + i <= k) /\ (k + i) - k = i
    BY <1>1
  <2>2. all[k + i] = q[i]
    BY <1>7, <1>8, <1>9, <2>1
  <2>. QED
    BY <1>3, <2>2
<1>12. Len(all) = k + n
  BY <1>7, <1>8, <1>9
<1>. QED
  BY <1>4, <1>9, <1>10, <1>11, <1>12 DEF k, n

-----------------------------------------------------------------------------
(* The types of the stream, and what publisher, queue and connection have  *)
(* in common.                                                              *)

SentBy(n) == {m \in Messages : m.epoch \in 1..n}

PublisherType(n) ==
    [epoch : 0..n, aircraft : Slots, sequence : Nat, initial : Seq(SentBy(n)),
     pending : Seq(Pendings)]

IngressType(n) ==
    [epoch : 0..n, aircraft : Slots, next : Nat, ready : BOOLEAN,
     catalogs : Nat, catalogCount : Nat, catalog : SUBSET Controls,
     snapshots : Nat, snapshotCount : Nat, snapshot : Shown]

CockpitOK == BiosTypeOK /\ Decoded /\ (link # "down" => Known)

PublisherOK ==
    /\ epochs \in Nat
    /\ publisher \in PublisherType(epochs)
    /\ Orderly(publisher.pending)
    /\ publisher.epoch = 0 => publisher = Reset
    /\ publisher.epoch # 0 =>
          /\ publisher.epoch = epochs
          /\ publisher.aircraft = current_aircraft /\ current_aircraft \in Aircraft
          /\ \A i \in 1..Len(publisher.pending) :
                publisher.pending[i].control \in Definitions[current_aircraft]

LinkOK ==
    /\ link \in {"down", "up", "ending"}
    /\ sessions \in 0..MaxSessions /\ refreshes \in 0..MaxRefreshes
    /\ queue \in Seq(SentBy(epochs)) /\ Len(queue) =< QueueLimit
    /\ wire \in Seq(SentBy(epochs)) /\ Len(wire) =< WireSize
    /\ ingress \in IngressType(epochs) /\ raw \in Shown
    /\ link # "up" => wire = <<>> /\ ingress = NewIngress /\ raw = Empty
    /\ link = "down" => publisher = Reset /\ queue = <<>>

Base == CockpitOK /\ PublisherOK /\ LinkOK

LEMMA Sizes ==
    /\ MaxTransitions \in Nat \ {0} /\ DeltaSize \in Nat \ {0}
    /\ QueueLimit \in Nat \ {0} /\ WireSize \in Nat \ {0}
    /\ MaxSessions \in Nat /\ MaxRefreshes \in Nat /\ MaxWrites \in Nat
  BY StreamAssumption, BiosAssumption

LEMMA NothingPending == Orderly(<<>>)
  BY DEF Orderly

LEMMA ResetTyped ==
    ASSUME NEW n \in Nat
    PROVE  /\ Reset \in PublisherType(n) /\ Reset.epoch = 0 /\ Orderly(Reset.pending)
           /\ Reset.initial = <<>> /\ Reset.pending = <<>>
<1>1. <<>> \in Seq(SentBy(n)) /\ <<>> \in Seq(Pendings) /\ NoAircraft \in Slots
  BY DEF Slots
<1>. QED
  BY <1>1, NothingPending DEF Reset, PublisherType

LEMMA NewIngressTyped ==
    ASSUME NEW n \in Nat
    PROVE  NewIngress \in IngressType(n)
  BY EmptyShown DEF NewIngress, IngressType, Slots

LEMMA SentMonotonic ==
    ASSUME NEW n \in Nat, NEW m \in Nat, n <= m
    PROVE  /\ SentBy(n) \subseteq SentBy(m)
           /\ \A s \in Seq(SentBy(n)) : s \in Seq(SentBy(m)) /\ s \in Seq(Messages)
<1>1. SentBy(n) \subseteq SentBy(m) /\ SentBy(n) \subseteq Messages
  BY DEF SentBy
<1>. QED
  BY <1>1, SeqMonotonic

LEMMA BaseTyped ==
    ASSUME Base
    PROVE  TypeOK
<1>1. epochs \in Nat /\ publisher \in PublisherType(epochs) /\ Orderly(publisher.pending)
  BY DEF Base, PublisherOK
<1>2. \A s \in Seq(SentBy(epochs)) : s \in Seq(Messages)
  BY <1>1, SentMonotonic
<1>3. publisher \in [epoch : 0..epochs, aircraft : Slots, sequence : Nat,
                     initial : Seq(Messages),
                     pending : Seq([control : Controls, values : Seq(Values)])]
  BY <1>1, <1>2 DEF PublisherType, Pendings
<1>4. PICK pending : pending = publisher.pending
  OBVIOUS
<1>5. Orderly(pending) /\ DOMAIN pending = 1..Len(pending)
  BY <1>1, <1>4 DEF Orderly
<1>6. ASSUME NEW p \in ToSet(pending)
      PROVE  Len(p.values) \in 1..MaxTransitions /\ (p.control \notin Switches => Len(p.values) = 1)
  <2>1. PICK i \in 1..Len(pending) : p = pending[i]
    BY <1>5 DEF ToSet
  <2>. QED
    BY <1>5, <2>1 DEF Orderly
<1>7. /\ \A p \in ToSet(pending) : Len(p.values) \in 1..MaxTransitions
      /\ \A p \in ToSet(pending) \ {q \in ToSet(pending) : q.control \in Switches} :
            Len(p.values) = 1
  BY <1>6
<1>8. /\ queue \in Seq(Messages) /\ Len(queue) =< QueueLimit
      /\ wire \in Seq(Messages) /\ Len(wire) =< WireSize
      /\ link \in {"down", "up", "ending"} /\ raw \in Shown
      /\ sessions \in 0..MaxSessions /\ refreshes \in 0..MaxRefreshes
      /\ ingress \in IngressType(epochs)
  BY <1>2 DEF Base, LinkOK
<1>9. BiosTypeOK
  BY DEF Base, CockpitOK
<1>. QED
  BY <1>1, <1>3, <1>4, <1>7, <1>8, <1>9 DEF TypeOK, IngressType

LEMMA BaseInit ==
    ASSUME Init
    PROVE  Base
<1>1. BiosTypeOK
  <2>1. /\ bytes = Empty /\ name = NoAircraft /\ frame = NewFrame /\ dirty = {}
        /\ connected = FALSE /\ current_aircraft = NoAircraft /\ decoded = Empty
        /\ exported = NoAircraft /\ writes = 0
    BY DEF Init, BiosInit
  <2>2. NoAircraft \in Slots /\ NewFrame \in [controls : SUBSET Controls, named : BOOLEAN]
    BY DEF Slots, NewFrame
  <2>3. writes \in 0..MaxWrites
    BY <2>1, Sizes
  <2>. QED
    BY <2>1, <2>2, <2>3, EmptyShown DEF BiosTypeOK
<1>2. Decoded
  BY EmptyShown DEF Init, BiosInit, Decoded
<1>3. CockpitOK
  BY <1>1, <1>2 DEF CockpitOK, Init
<1>4. PublisherOK
  <2>1. publisher = Reset /\ epochs = 0 /\ epochs \in Nat
    BY DEF Init
  <2>. QED
    BY <2>1, ResetTyped DEF PublisherOK
<1>5. LinkOK
  <2>1. /\ link = "down" /\ sessions = 0 /\ refreshes = 0 /\ queue = <<>> /\ wire = <<>>
        /\ ingress = NewIngress /\ raw = Empty /\ publisher = Reset /\ epochs \in Nat
    BY DEF Init
  <2>2. <<>> \in Seq(SentBy(epochs)) /\ Len(<<>>) = 0
    OBVIOUS
  <2>3. ingress \in IngressType(epochs) /\ raw \in Shown
    BY <2>1, NewIngressTyped, EmptyShown
  <2>. QED
    BY <2>1, <2>2, <2>3, Sizes DEF LinkOK
<1>. QED
  BY <1>3, <1>4, <1>5 DEF Base

\* An epoch begins, or ends for want of an aircraft.
LEMMA EpochBegun ==
    ASSUME PublisherOK, NEW a \in Slots, NEW values \in Shown,
           BeginEpoch(a, values), current_aircraft' = a
    PROVE  /\ PublisherOK' /\ epochs' \in Nat /\ epochs <= epochs'
           /\ a = NoAircraft => publisher' = Reset /\ epochs' = epochs
           /\ a # NoAircraft =>
                 /\ epochs' = epochs + 1 /\ publisher'.epoch = epochs + 1
                 /\ publisher'.aircraft = a /\ publisher'.pending = <<>>
                 /\ publisher'.initial = Initial(epochs + 1, a, values)
                 /\ publisher'.sequence = Len(Initial(epochs + 1, a, values))
<1>0. epochs \in Nat
  BY DEF PublisherOK
<1>1. CASE a = NoAircraft
  <2>1. publisher' = Reset /\ epochs' = epochs
    BY <1>1 DEF BeginEpoch
  <2>2. PublisherOK'
    BY <1>0, <2>1, ResetTyped DEF PublisherOK
  <2>. QED
    BY <1>0, <1>1, <2>1, <2>2
<1>2. CASE a # NoAircraft
  <2>1. publisher' = Begun(a, values) /\ epochs' = epochs + 1 /\ a \in Aircraft
    BY <1>2 DEF BeginEpoch, Slots
  <2>2. PICK n \in Nat : n = epochs + 1 /\ n # 0
    BY <1>0
  <2>3. PICK initial : initial = Initial(n, a, values)
    OBVIOUS
  <2>4. publisher' = [epoch |-> n, aircraft |-> a, sequence |-> Len(initial),
                      initial |-> initial, pending |-> <<>>]
    BY <2>1, <2>2, <2>3 DEF Begun
  <2>5. /\ initial \in Seq(Messages) /\ Len(initial) = Len(Catalogs(a)) + Len(Snapshots(values))
        /\ \A i \in 1..Len(Catalogs(a)) : initial[i] = CatalogMessage(n, a, i)
        /\ \A i \in 1..Len(Snapshots(values)) :
              initial[Len(Catalogs(a)) + i] = SnapshotMessage(n, a, values, i)
    BY <2>1, <2>3, InitialShape
  <2>6. ASSUME NEW i \in 1..Len(initial) PROVE initial[i] \in SentBy(n)
    <3>0. Len(Catalogs(a)) \in Nat /\ Len(Snapshots(values)) \in Nat
      BY <2>1, CatalogsShape, SnapshotsShape
    <3>1. initial[i] \in Messages
      BY <2>5
    <3>2. initial[i].epoch = n
      <4>1. CASE i <= Len(Catalogs(a))
        <5>1. initial[i] = CatalogMessage(n, a, i)
          BY <2>5, <3>0, <4>1
        <5>. QED
          BY <5>1 DEF CatalogMessage, Message
      <4>2. CASE ~(i <= Len(Catalogs(a)))
        <5>1. PICK j \in 1..Len(Snapshots(values)) : i = Len(Catalogs(a)) + j
          <6>1. i - Len(Catalogs(a)) \in 1..Len(Snapshots(values))
            BY <2>5, <3>0, <4>2
          <6>2. i = Len(Catalogs(a)) + (i - Len(Catalogs(a)))
            BY <3>0
          <6>. QED
            BY <6>1, <6>2
        <5>2. initial[i] = SnapshotMessage(n, a, values, j)
          BY <2>5, <5>1
        <5>. QED
          BY <5>2 DEF SnapshotMessage, Message
      <4>. QED
        BY <4>1, <4>2
    <3>. QED
      BY <2>2, <3>1, <3>2 DEF SentBy
  <2>7. initial \in Seq(SentBy(n)) /\ Len(initial) \in Nat
    <3>1. Len(initial) \in Nat /\ initial \in [1..Len(initial) -> SentBy(n)]
      BY <2>5, <2>6
    <3>. QED
      BY <3>1
  <2>8. publisher' \in PublisherType(n)
    BY <2>2, <2>4, <2>7 DEF PublisherType
  <2>9. PublisherOK'
    <3>1. publisher'.pending = <<>> /\ publisher'.epoch = n /\ publisher'.aircraft = a
      BY <2>4
    <3>2. Len(<<>>) = 0
      OBVIOUS
    <3>. QED
      BY <2>1, <2>2, <2>8, <3>1, <3>2, NothingPending DEF PublisherOK
  <2>. QED
    BY <1>0, <1>2, <2>1, <2>2, <2>3, <2>4, <2>9
<1>. QED
  BY <1>1, <1>2

LEMMA IngressMonotonic ==
    ASSUME NEW n \in Nat, NEW m \in Nat, n <= m, NEW i \in IngressType(n)
    PROVE  i \in IngressType(m)
<1>1. \A e \in 0..n : e \in 0..m
  OBVIOUS
<1>. QED
  BY <1>1 DEF IngressType

LEMMA PublisherMonotonic ==
    ASSUME NEW n \in Nat, NEW m \in Nat, n <= m, NEW p \in PublisherType(n)
    PROVE  p \in PublisherType(m)
<1>1. \A e \in 0..n : e \in 0..m
  OBVIOUS
<1>. QED
  BY <1>1, SentMonotonic DEF PublisherType

\* Sessions, queue and cloud are left alone.
LEMMA LinkKept ==
    ASSUME PublisherOK, LinkOK, epochs' \in Nat, epochs <= epochs',
           UNCHANGED <<linkVars, queue, cloudVars, refreshes>>,
           link = "down" => publisher' = Reset
    PROVE  LinkOK'
<1>0. epochs \in Nat
  BY DEF PublisherOK
<1>1. /\ UNCHANGED <<link, sessions, wire, queue, ingress, raw, refreshes>>
  BY DEF linkVars, cloudVars
<1>2. queue \in Seq(SentBy(epochs')) /\ wire \in Seq(SentBy(epochs'))
  <2>1. queue \in Seq(SentBy(epochs)) /\ wire \in Seq(SentBy(epochs))
    BY DEF LinkOK
  <2>. QED
    BY <1>0, <2>1, SentMonotonic
<1>3. ingress \in IngressType(epochs')
  <2>1. ingress \in IngressType(epochs)
    BY DEF LinkOK
  <2>. QED
    BY <1>0, <2>1, IngressMonotonic
<1>. QED
  BY <1>1, <1>2, <1>3 DEF LinkOK

LEMMA ChangesQueued ==
    ASSUME PublisherOK, publisher.epoch # 0, NEW changes \in Shown,
           DOMAIN changes \subseteq Definitions[current_aircraft],
           publisher' = [publisher EXCEPT !.pending = QueueAll(@, changes)],
           UNCHANGED <<epochs, current_aircraft>>
    PROVE  /\ PublisherOK'
           /\ publisher'.epoch = publisher.epoch /\ publisher'.initial = publisher.initial
           /\ publisher'.sequence = publisher.sequence
           /\ publisher'.aircraft = publisher.aircraft
           /\ publisher'.pending = QueueAll(publisher.pending, changes)
<1>1. PICK pending, all : pending = publisher.pending /\ all = QueueAll(pending, changes)
  OBVIOUS
<1>2. Orderly(pending) /\ publisher \in PublisherType(epochs)
  BY <1>1 DEF PublisherOK
<1>3. /\ Orderly(all)
      /\ \A i \in 1..Len(all) :
            \/ all[i].control \in DOMAIN changes
            \/ \E j \in 1..Len(pending) : pending[j].control = all[i].control
  BY <1>1, <1>2, QueuedAll
<1>4. publisher' = [publisher EXCEPT !.pending = all]
  BY <1>1
<1>5. all \in Seq(Pendings)
  BY <1>3 DEF Orderly
<1>6. /\ publisher'.epoch = publisher.epoch /\ publisher'.initial = publisher.initial
      /\ publisher'.sequence = publisher.sequence
      /\ publisher'.aircraft = publisher.aircraft
      /\ publisher'.pending = all /\ publisher' \in PublisherType(epochs)
  BY <1>2, <1>4, <1>5 DEF PublisherType
<1>7. \A i \in 1..Len(all) : all[i].control \in Definitions[current_aircraft]
  BY <1>1, <1>3 DEF PublisherOK
<1>8. PublisherOK'
  BY <1>3, <1>6, <1>7 DEF PublisherOK
<1>. QED
  BY <1>1, <1>6, <1>8

LEMMA ActiveDefined ==
    ASSUME NEW b \in Shown, NEW a \in Aircraft
    PROVE  DOMAIN Active(b, a) \subseteq Definitions[a]
<1>1. a \in Slots /\ a # NoAircraft
  BY BiosAssumption DEF Slots
<1>2. DOMAIN Active(b, a) = IF a = NoAircraft THEN {} ELSE DOMAIN b \cap Definitions[a]
  BY <1>1, ActiveShown
<1>. QED
  BY <1>1, <1>2

LEMMA ExportBase ==
    ASSUME Base, Export
    PROVE  Base'
<1>1. UNCHANGED <<publisher, epochs, linkVars, queue, cloudVars, refreshes>>
  BY DEF Export
<1>2. current_aircraft' = current_aircraft
  BY DEF Export, ExportValue, ExportName
<1>3. BiosTypeOK' /\ Decoded' /\ (Known => Known')
  BY ExportedValue, ExportedName DEF Export, Base, CockpitOK
<1>4. CockpitOK'
  BY <1>1, <1>3 DEF Base, CockpitOK, linkVars
<1>5. PublisherOK'
  BY <1>1, <1>2 DEF Base, PublisherOK
<1>6. LinkOK'
  BY <1>1 DEF Base, LinkOK, linkVars, cloudVars
<1>. QED
  BY <1>4, <1>5, <1>6 DEF Base

LEMMA MalformedBase ==
    ASSUME Base, Malformed
    PROVE  Base'
<1>1. UNCHANGED <<publisher, epochs, linkVars, queue, cloudVars, refreshes>>
  BY DEF Malformed
<1>2. current_aircraft' = current_aircraft
  BY DEF Malformed, FrameMalformed
<1>3. BiosTypeOK' /\ Decoded' /\ (Known => Known')
  BY FrameDropped DEF Malformed, Base, CockpitOK
<1>4. CockpitOK'
  BY <1>1, <1>3 DEF Base, CockpitOK, linkVars
<1>5. PublisherOK'
  BY <1>1, <1>2 DEF Base, PublisherOK
<1>6. LinkOK'
  BY <1>1 DEF Base, LinkOK, linkVars, cloudVars
<1>. QED
  BY <1>4, <1>5, <1>6 DEF Base

\* A frame that brings a new slot begins an epoch with what it has written; any
\* other only queues its changes, if there is an epoch.
LEMMA FrameStep ==
    ASSUME Base, Frame, NEW r, r = FrameResult(link # "down")
    PROVE  /\ bytes' = r.bytes /\ decoded' = r.decoded /\ current_aircraft' = name /\ dirty' = {}
           /\ UNCHANGED <<linkVars, queue, cloudVars, refreshes>>
           /\ CockpitOK'
           /\ \/ r.news /\ link # "down" /\ BeginEpoch(name, Active(r.bytes, name))
              \/ publisher.epoch = 0 /\ UNCHANGED <<publisher, epochs>>
              \/ /\ publisher.epoch # 0 /\ ~r.news /\ link # "down"
                 /\ publisher' = [publisher EXCEPT !.pending = QueueAll(@, r.changes)]
                 /\ UNCHANGED <<epochs, current_aircraft>>
                 /\ r.changes \in Shown
                 /\ DOMAIN r.changes \subseteq Definitions[current_aircraft]
<1>. DEFINE asked == link # "down"
<1>1. FrameComplete(asked)
  BY DEF Frame
<1>2. bytes' = r.bytes /\ decoded' = r.decoded /\ current_aircraft' = name /\ dirty' = {}
  BY <1>1 DEF FrameComplete
<1>3. UNCHANGED <<linkVars, queue, cloudVars, refreshes>>
  BY DEF Frame
<1>4. asked \in BOOLEAN
  OBVIOUS
<1>5. CockpitOK'
  <2>1. BiosTypeOK /\ Decoded
    BY DEF Base, CockpitOK
  <2>2. BiosTypeOK' /\ Decoded' /\ (asked /\ Known => Known')
    BY <1>1, <1>4, <2>1, FrameTaken
  <2>. QED
    BY <1>3, <2>2 DEF Base, CockpitOK, linkVars
<1>6. /\ r.news = (name # current_aircraft) /\ r.bytes \in Shown /\ r.changes \in Shown
      /\ DOMAIN r.changes \subseteq DOMAIN Active(r.bytes, name)
  <2>1. BiosTypeOK /\ Decoded
    BY DEF Base, CockpitOK
  <2>. QED
    BY <1>4, <2>1, FrameOutcome
<1>7. IF r.news /\ asked
      THEN BeginEpoch(name, Active(r.bytes, name))
      ELSE /\ UNCHANGED epochs
           /\ publisher' = IF publisher.epoch = 0 THEN publisher
                           ELSE [publisher EXCEPT !.pending = QueueAll(@, r.changes)]
  BY DEF Frame
<1>8. publisher.epoch # 0 => asked /\ current_aircraft \in Aircraft
  BY ResetTyped DEF Base, LinkOK, PublisherOK
<1>. HIDE DEF asked
<1>9. CASE r.news /\ asked
  BY <1>2, <1>3, <1>5, <1>7, <1>9 DEF asked
<1>10. CASE ~(r.news /\ asked) /\ publisher.epoch = 0
  BY <1>2, <1>3, <1>5, <1>7, <1>10
<1>11. CASE ~(r.news /\ asked) /\ publisher.epoch # 0
  <2>1. ~r.news /\ asked /\ name = current_aircraft
    BY <1>6, <1>8, <1>11
  <2>2. DOMAIN r.changes \subseteq Definitions[current_aircraft]
    BY <1>6, <1>8, <1>11, <2>1, ActiveDefined
  <2>3. publisher' = [publisher EXCEPT !.pending = QueueAll(@, r.changes)] /\ UNCHANGED epochs
    BY <1>7, <1>11
  <2>. QED
    BY <1>2, <1>3, <1>5, <1>6, <1>11, <2>1, <2>2, <2>3 DEF asked
<1>. QED
  BY <1>9, <1>10, <1>11

LEMMA FrameBase ==
    ASSUME Base, Frame
    PROVE  Base'
<1>0. PICK r : r = FrameResult(link # "down")
  OBVIOUS
<1>1. /\ current_aircraft' = name
      /\ UNCHANGED <<linkVars, queue, cloudVars, refreshes>>
      /\ CockpitOK'
      /\ \/ r.news /\ link # "down" /\ BeginEpoch(name, Active(r.bytes, name))
         \/ publisher.epoch = 0 /\ UNCHANGED <<publisher, epochs>>
         \/ /\ publisher.epoch # 0 /\ ~r.news /\ link # "down"
            /\ publisher' = [publisher EXCEPT !.pending = QueueAll(@, r.changes)]
            /\ UNCHANGED <<epochs, current_aircraft>>
            /\ r.changes \in Shown
            /\ DOMAIN r.changes \subseteq Definitions[current_aircraft]
  BY <1>0, FrameStep
<1>2. PublisherOK /\ LinkOK /\ epochs \in Nat /\ BiosTypeOK /\ Decoded
  BY DEF Base, PublisherOK, CockpitOK
<1>3. CASE r.news /\ link # "down" /\ BeginEpoch(name, Active(r.bytes, name))
  <2>1. r.bytes \in Shown /\ name \in Slots
    BY <1>0, <1>2, FrameOutcome DEF BiosTypeOK
  <2>2. Active(r.bytes, name) \in Shown
    BY <2>1, ActiveShown
  <2>3. PublisherOK' /\ epochs' \in Nat /\ epochs <= epochs'
    BY <1>1, <1>2, <1>3, <2>1, <2>2, EpochBegun
  <2>4. LinkOK'
    BY <1>1, <1>2, <1>3, <2>3, LinkKept
  <2>. QED
    BY <1>1, <2>3, <2>4 DEF Base
<1>4. CASE publisher.epoch = 0 /\ UNCHANGED <<publisher, epochs>>
  <2>1. publisher = Reset /\ publisher' = Reset /\ epochs' = epochs
    BY <1>2, <1>4 DEF PublisherOK
  <2>2. PublisherOK'
    BY <1>2, <2>1, ResetTyped DEF PublisherOK
  <2>3. LinkOK'
    BY <1>1, <1>2, <2>1, LinkKept
  <2>. QED
    BY <1>1, <2>2, <2>3 DEF Base
<1>5. CASE /\ publisher.epoch # 0 /\ ~r.news /\ link # "down"
           /\ publisher' = [publisher EXCEPT !.pending = QueueAll(@, r.changes)]
           /\ UNCHANGED <<epochs, current_aircraft>>
           /\ r.changes \in Shown
           /\ DOMAIN r.changes \subseteq Definitions[current_aircraft]
  <2>1. PublisherOK'
    BY <1>2, <1>5, ChangesQueued
  <2>2. LinkOK'
    BY <1>1, <1>2, <1>5, LinkKept
  <2>. QED
    BY <1>1, <2>1, <2>2 DEF Base
<1>. QED
  BY <1>1, <1>3, <1>4, <1>5

LEMMA PublisherReset ==
    ASSUME PublisherOK, publisher' = Reset, UNCHANGED epochs
    PROVE  PublisherOK'
<1>1. epochs \in Nat
  BY DEF PublisherOK
<1>. QED
  BY <1>1, ResetTyped DEF PublisherOK

LEMMA DcsLostBase ==
    ASSUME Base, DcsLost
    PROVE  Base'
<1>1. /\ Expire /\ publisher' = Reset
      /\ UNCHANGED <<epochs, linkVars, queue, cloudVars, refreshes>>
  BY DEF DcsLost
<1>2. PublisherOK /\ LinkOK /\ epochs \in Nat /\ BiosTypeOK
  BY DEF Base, PublisherOK, CockpitOK
<1>3. CockpitOK'
  BY <1>1, <1>2, Expired DEF CockpitOK
<1>4. PublisherOK'
  BY <1>1, <1>2, PublisherReset
<1>5. LinkOK'
  BY <1>1, <1>2, LinkKept
<1>. QED
  BY <1>3, <1>4, <1>5 DEF Base

\* The parts of the publisher that a flush changes.
Flushed(initial, sequence, pending) ==
    [epoch |-> publisher.epoch, aircraft |-> publisher.aircraft, sequence |-> sequence,
     initial |-> initial, pending |-> pending]

LEMMA FlushedTyped ==
    ASSUME PublisherOK, publisher.epoch # 0,
           NEW initial \in Seq(SentBy(epochs)), NEW sequence \in Nat, NEW pending,
           Orderly(pending),
           \A i \in 1..Len(pending) : pending[i].control \in Definitions[current_aircraft],
           publisher' = Flushed(initial, sequence, pending),
           UNCHANGED <<epochs, current_aircraft>>
    PROVE  PublisherOK'
<1>1. /\ publisher'.epoch = publisher.epoch /\ publisher'.aircraft = publisher.aircraft
      /\ publisher'.sequence = sequence /\ publisher'.initial = initial
      /\ publisher'.pending = pending
  BY DEF Flushed
<1>2. publisher' \in PublisherType(epochs)
  <2>1. pending \in Seq(Pendings)
    BY DEF Orderly
  <2>2. publisher.epoch \in 0..epochs /\ publisher.aircraft \in Slots
    BY DEF PublisherOK, PublisherType
  <2>. QED
    BY <2>1, <2>2 DEF PublisherType, Flushed
<1>. QED
  BY <1>1, <1>2 DEF PublisherOK

LEMMA FlushInitialStep ==
    ASSUME Base, FlushInitial
    PROVE  /\ publisher.epoch # 0
           /\ Room \in Nat /\ Room < Len(publisher.initial)
           /\ publisher.initial \in Seq(SentBy(epochs)) /\ queue \in Seq(SentBy(epochs))
           /\ SubSeq(publisher.initial, 1, Room) \in Seq(SentBy(epochs))
           /\ Len(SubSeq(publisher.initial, 1, Room)) = Room
           /\ SubSeq(publisher.initial, Room + 1, Len(publisher.initial)) \in Seq(SentBy(epochs))
           /\ queue' = queue \o SubSeq(publisher.initial, 1, Room)
           /\ publisher' = Flushed(SubSeq(publisher.initial, Room + 1, Len(publisher.initial)),
                                   publisher.sequence, publisher.pending)
           /\ UNCHANGED <<biosVars, epochs, linkVars, cloudVars, refreshes>>
<1>1. /\ publisher.epoch # 0 /\ Len(publisher.initial) > Room
      /\ queue' = queue \o SubSeq(publisher.initial, 1, Room)
      /\ publisher' = [publisher EXCEPT !.initial = SubSeq(@, Room + 1, Len(@))]
      /\ UNCHANGED <<biosVars, epochs, linkVars, cloudVars, refreshes>>
  BY DEF FlushInitial
<1>2. publisher \in PublisherType(epochs) /\ queue \in Seq(SentBy(epochs)) /\ Len(queue) =< QueueLimit
  BY DEF Base, PublisherOK, LinkOK
<1>3. PICK initial \in Seq(SentBy(epochs)) : initial = publisher.initial
  BY <1>2 DEF PublisherType
<1>4. PICK room \in Nat : room = Room
  BY <1>2, Sizes DEF Room
<1>5. Len(initial) \in Nat /\ room < Len(initial)
  BY <1>1, <1>3, <1>4
<1>6. PICK s, t : s = SubSeq(initial, 1, room) /\ t = SubSeq(initial, room + 1, Len(initial))
  OBVIOUS
<1>7. s \in Seq(SentBy(epochs)) /\ Len(s) = room
  <2>1. /\ 1 \in Int /\ room \in Int
        /\ \A i \in 1..room : initial[i] \in SentBy(epochs)
    BY <1>5
  <2>2. /\ SubSeq(initial, 1, room) \in Seq(SentBy(epochs))
        /\ Len(SubSeq(initial, 1, room)) = IF 1 <= room THEN room - 1 + 1 ELSE 0
    BY ONLY <2>1, SubSeqProperties
  <2>. QED
    BY <1>6, <2>2
<1>8. t \in Seq(SentBy(epochs))
  <2>1. /\ room + 1 \in Int /\ Len(initial) \in Int
        /\ \A i \in (room + 1)..Len(initial) : initial[i] \in SentBy(epochs)
    BY <1>5
  <2>2. SubSeq(initial, room + 1, Len(initial)) \in Seq(SentBy(epochs))
    BY ONLY <2>1, SubSeqProperties
  <2>. QED
    BY <1>6, <2>2
<1>9. publisher' = Flushed(t, publisher.sequence, publisher.pending)
  <2>1. publisher' = [publisher EXCEPT !.initial = t]
    BY <1>1, <1>3, <1>4, <1>6
  <2>. QED
    BY <1>2, <2>1 DEF PublisherType, Flushed
<1>. QED
  BY <1>1, <1>2, <1>3, <1>4, <1>5, <1>6, <1>7, <1>8, <1>9

LEMMA FlushInitialBase ==
    ASSUME Base, FlushInitial
    PROVE  Base'
<1>1. PICK s, t : /\ s = SubSeq(publisher.initial, 1, Room)
                  /\ t = SubSeq(publisher.initial, Room + 1, Len(publisher.initial))
  OBVIOUS
<1>2. /\ publisher.epoch # 0 /\ Room \in Nat
      /\ s \in Seq(SentBy(epochs)) /\ Len(s) = Room /\ t \in Seq(SentBy(epochs))
      /\ queue \in Seq(SentBy(epochs)) /\ queue' = queue \o s
      /\ publisher' = Flushed(t, publisher.sequence, publisher.pending)
      /\ UNCHANGED <<biosVars, epochs, linkVars, cloudVars, refreshes>>
  BY <1>1, FlushInitialStep
<1>3. queue' \in Seq(SentBy(epochs)) /\ Len(queue') = Len(queue) + Len(s)
  BY ONLY <1>2, ConcatProperties
<1>4. Len(queue') =< QueueLimit
  <2>1. Len(queue) \in Nat /\ Len(queue) =< QueueLimit
    BY <1>2 DEF Base, LinkOK
  <2>. QED
    BY <1>2, <1>3, <2>1, Sizes DEF Room
<1>5. PublisherOK'
  <2>1. /\ publisher.sequence \in Nat /\ Orderly(publisher.pending) /\ PublisherOK
        /\ \A i \in 1..Len(publisher.pending) :
              publisher.pending[i].control \in Definitions[current_aircraft]
        /\ current_aircraft' = current_aircraft
    BY <1>2 DEF Base, PublisherOK, PublisherType, biosVars
  <2>. QED
    BY <1>2, <2>1, FlushedTyped
<1>6. CockpitOK'
  BY <1>2 DEF Base, CockpitOK, BiosTypeOK, Decoded, Known, biosVars, linkVars
<1>7. LinkOK'
  <2>1. link # "down"
    BY <1>2, ResetTyped DEF Base, LinkOK, PublisherOK
  <2>2. UNCHANGED <<link, sessions, wire, ingress, raw, refreshes, epochs>>
    BY <1>2 DEF linkVars, cloudVars
  <2>. QED
    BY <1>3, <1>4, <2>1, <2>2 DEF Base, LinkOK
<1>. QED
  BY <1>5, <1>6, <1>7 DEF Base

LEMMA DeltaTyped ==
    ASSUME PublisherOK, publisher.epoch # 0, NEW pending, Orderly(pending)
    PROVE  /\ Delta(pending) \in SentBy(epochs)
           /\ Delta(pending).kind = "delta" /\ Delta(pending).epoch = publisher.epoch
           /\ Delta(pending).sequence = publisher.sequence
           /\ Delta(pending).aircraft = publisher.aircraft
           /\ Delta(pending).values = Heads(pending)
<1>1. /\ publisher.epoch \in 1..epochs /\ publisher.epoch \in Nat /\ publisher.sequence \in Nat
      /\ publisher.aircraft \in Aircraft
  BY DEF PublisherOK, PublisherType
<1>2. Heads(pending) \in Shown
  BY Beheaded
<1>. QED
  BY <1>1, <1>2 DEF Delta, Message, Messages, SentBy, Kinds

\* Everything left goes to the queue; a delta follows if there is room.
LEMMA FlushDeltaStep ==
    ASSUME Base, NEW due \in BOOLEAN, FlushDelta(due),
           NEW fresh, fresh = IF due THEN Active(bytes, current_aircraft) ELSE Empty,
           NEW all, all = QueueAll(publisher.pending, fresh)
    PROVE  /\ publisher.epoch # 0 /\ link # "down"
           /\ fresh \in Shown /\ DOMAIN fresh \subseteq Definitions[current_aircraft]
           /\ Orderly(all)
           /\ \A i \in 1..Len(all) : all[i].control \in Definitions[current_aircraft]
           /\ queue \o publisher.initial \in Seq(SentBy(epochs))
           /\ Len(queue \o publisher.initial) =< QueueLimit
           /\ \/ /\ queue' = queue \o publisher.initial
                 /\ publisher' = Flushed(<<>>, publisher.sequence, all)
              \/ /\ Len(queue \o publisher.initial) < QueueLimit
                 /\ queue' = Append(queue \o publisher.initial, Delta(all))
                 /\ publisher' = Flushed(<<>>, publisher.sequence + 1, Behead(all))
           /\ IF due THEN TakeSnapshot ELSE UNCHANGED biosVars
           /\ refreshes' \in 0..MaxRefreshes
           /\ UNCHANGED <<epochs, linkVars, cloudVars>>
<1>. DEFINE sent == all # <<>> /\ Room > Len(publisher.initial)
<1>1. /\ publisher.epoch # 0 /\ Len(publisher.initial) =< Room
      /\ due => refreshes < MaxRefreshes
      /\ refreshes' = IF due THEN refreshes + 1 ELSE refreshes
      /\ IF due THEN TakeSnapshot ELSE UNCHANGED biosVars
      /\ queue' = queue \o publisher.initial \o (IF sent THEN <<Delta(all)>> ELSE <<>>)
      /\ publisher' = [publisher EXCEPT !.initial = <<>>,
                                        !.sequence = IF sent THEN @ + 1 ELSE @,
                                        !.pending = IF sent THEN Behead(all) ELSE all]
      /\ UNCHANGED <<epochs, linkVars, cloudVars>>
  BY Zenon DEF FlushDelta
<1>2. /\ PublisherOK /\ publisher \in PublisherType(epochs) /\ queue \in Seq(SentBy(epochs))
      /\ Len(queue) =< QueueLimit /\ refreshes \in 0..MaxRefreshes
      /\ current_aircraft \in Aircraft /\ bytes \in Shown
      /\ link = "down" => publisher = Reset
  BY <1>1 DEF Base, PublisherOK, LinkOK, CockpitOK, BiosTypeOK
<1>3. link # "down"
  BY <1>1, <1>2, ResetTyped
<1>4. fresh \in Shown /\ DOMAIN fresh \subseteq Definitions[current_aircraft]
  <2>1. CASE due
    <3>1. fresh = Active(bytes, current_aircraft) /\ current_aircraft \in Slots
      BY <1>2, <2>1 DEF Slots
    <3>2. Active(bytes, current_aircraft) \in Shown
      BY ONLY <1>2, <3>1, ActiveShown
    <3>3. DOMAIN Active(bytes, current_aircraft) \subseteq Definitions[current_aircraft]
      BY <1>2, ActiveDefined
    <3>. QED
      BY <3>1, <3>2, <3>3
  <2>2. CASE ~due
    BY <2>2, EmptyShown
  <2>. QED
    BY <2>1, <2>2
<1>5. PICK pending : pending = publisher.pending
  OBVIOUS
<1>6. /\ Orderly(pending)
      /\ \A i \in 1..Len(pending) : pending[i].control \in Definitions[current_aircraft]
  BY <1>1, <1>5 DEF Base, PublisherOK
<1>7. /\ Orderly(all)
      /\ \A i \in 1..Len(all) : \/ all[i].control \in DOMAIN fresh
                                \/ \E j \in 1..Len(pending) : pending[j].control = all[i].control
  BY <1>4, <1>5, <1>6, QueuedAll
<1>8. \A i \in 1..Len(all) : all[i].control \in Definitions[current_aircraft]
  BY <1>4, <1>6, <1>7
<1>9. PICK initial, q : initial = publisher.initial /\ q = queue \o initial
  OBVIOUS
<1>10. initial \in Seq(SentBy(epochs))
  BY <1>2, <1>9 DEF PublisherType
<1>11. q \in Seq(SentBy(epochs)) /\ Len(q) = Len(queue) + Len(initial)
  BY ONLY <1>2, <1>9, <1>10, ConcatProperties
<1>12. Len(q) =< QueueLimit /\ (sent => Len(q) < QueueLimit)
  <2>1. Len(queue) \in Nat /\ Len(initial) \in Nat
    BY <1>2, <1>10
  <2>. QED
    BY <1>1, <1>9, <1>11, <2>1, Sizes DEF Room
<1>13. refreshes' \in 0..MaxRefreshes
  BY <1>1, <1>2, Sizes
<1>14. CASE ~sent
  <2>1. queue' = q \o <<>>
    BY <1>1, <1>9, <1>14, Zenon
  <2>2. queue' = q
    BY ONLY <1>11, <2>1, ConcatEmptySeq
  <2>3. publisher' = [publisher EXCEPT !.initial = <<>>, !.sequence = publisher.sequence, !.pending = all]
    BY <1>1, <1>14, Zenon
  <2>4. publisher' = Flushed(<<>>, publisher.sequence, all)
    BY ONLY <1>2, <2>3 DEF PublisherType, Flushed
  <2>. QED
    BY <1>1, <1>3, <1>4, <1>7, <1>8, <1>9, <1>11, <1>12, <1>13, <2>2, <2>4, Zenon
<1>15. CASE sent
  <2>1. queue' = q \o <<Delta(all)>>
    BY <1>1, <1>9, <1>15, Zenon
  <2>2. PICK d \in SentBy(epochs) : d = Delta(all)
    BY <1>1, <1>2, <1>7, DeltaTyped
  <2>3. queue' = q \o <<d>>
    BY <2>1, <2>2, Zenon
  <2>4. queue' = Append(q, d)
    BY ONLY <1>11, <2>2, <2>3, AppendIsConcat
  <2>5. publisher' = [publisher EXCEPT !.initial = <<>>, !.sequence = publisher.sequence + 1,
                                       !.pending = Behead(all)]
    BY <1>1, <1>15, Zenon
  <2>6. publisher' = Flushed(<<>>, publisher.sequence + 1, Behead(all))
    BY ONLY <1>2, <2>5 DEF PublisherType, Flushed
  <2>7. Len(q) < QueueLimit
    BY <1>12, <1>15
  <2>. QED
    BY <1>1, <1>3, <1>4, <1>7, <1>8, <1>9, <1>11, <1>12, <1>13, <2>2, <2>4, <2>6, <2>7, Zenon
<1>. QED
  BY <1>14, <1>15

LEMMA FlushDeltaBase ==
    ASSUME Base, NEW due \in BOOLEAN, FlushDelta(due)
    PROVE  Base'
<1>1. PICK fresh, all : /\ fresh = IF due THEN Active(bytes, current_aircraft) ELSE Empty
                        /\ all = QueueAll(publisher.pending, fresh)
  OBVIOUS
<1>2. PICK q : q = queue \o publisher.initial
  OBVIOUS
<1>3. /\ publisher.epoch # 0 /\ link # "down" /\ Orderly(all)
      /\ \A i \in 1..Len(all) : all[i].control \in Definitions[current_aircraft]
      /\ q \in Seq(SentBy(epochs)) /\ Len(q) =< QueueLimit
      /\ \/ queue' = q /\ publisher' = Flushed(<<>>, publisher.sequence, all)
         \/ /\ Len(q) < QueueLimit /\ queue' = Append(q, Delta(all))
            /\ publisher' = Flushed(<<>>, publisher.sequence + 1, Behead(all))
      /\ IF due THEN TakeSnapshot ELSE UNCHANGED biosVars
      /\ refreshes' \in 0..MaxRefreshes
      /\ UNCHANGED <<epochs, linkVars, cloudVars>>
  BY <1>1, <1>2, FlushDeltaStep
<1>4. PublisherOK /\ BiosTypeOK /\ Decoded /\ Known /\ publisher.sequence \in Nat
  BY <1>3 DEF Base, PublisherOK, PublisherType, CockpitOK
<1>5. BiosTypeOK' /\ Decoded' /\ Known' /\ current_aircraft' = current_aircraft
  <2>1. CASE due
    <3>1. TakeSnapshot
      BY <1>3, <2>1
    <3>. QED
      BY <1>4, <3>1, SnapshotTaken DEF TakeSnapshot
  <2>2. CASE ~due
    <3>1. UNCHANGED biosVars
      BY <1>3, <2>2
    <3>. QED
      BY <1>4, <3>1 DEF biosVars, BiosTypeOK, Decoded, Known
  <2>. QED
    BY <2>1, <2>2
<1>6. PICK sequence, pending :
        /\ sequence \in Nat
        /\ publisher' = Flushed(<<>>, sequence, pending) /\ Orderly(pending)
        /\ \A i \in 1..Len(pending) : pending[i].control \in Definitions[current_aircraft]
        /\ queue' \in Seq(SentBy(epochs)) /\ Len(queue') =< QueueLimit
  <2>1. CASE queue' = q /\ publisher' = Flushed(<<>>, publisher.sequence, all)
    BY <1>3, <1>4, <2>1
  <2>2. CASE /\ Len(q) < QueueLimit /\ queue' = Append(q, Delta(all))
             /\ publisher' = Flushed(<<>>, publisher.sequence + 1, Behead(all))
    <3>1. /\ Orderly(Behead(all))
          /\ \A i \in 1..Len(Behead(all)) : \E j \in 1..Len(all) :
                Behead(all)[i].control = all[j].control
      BY <1>3, Beheaded
    <3>2. PICK d \in SentBy(epochs) : d = Delta(all)
      BY <1>3, <1>4, DeltaTyped
    <3>3. queue' \in Seq(SentBy(epochs)) /\ Len(queue') = Len(q) + 1
      BY ONLY <1>3, <2>2, <3>2, AppendProperties
    <3>4. Len(queue') =< QueueLimit
      BY <1>3, <2>2, <3>3, Sizes
    <3>5. publisher.sequence + 1 \in Nat
      BY <1>4
    <3>6. \A i \in 1..Len(Behead(all)) : Behead(all)[i].control \in Definitions[current_aircraft]
      BY <1>3, <3>1
    <3>. QED
      BY <2>2, <3>1, <3>3, <3>4, <3>5, <3>6
  <2>. QED
    BY <1>3, <2>1, <2>2
<1>7. PublisherOK'
  <2>1. <<>> \in Seq(SentBy(epochs)) /\ UNCHANGED <<epochs, current_aircraft>>
    BY <1>3, <1>5
  <2>. QED
    BY <1>3, <1>4, <1>6, <2>1, FlushedTyped
<1>8. UNCHANGED <<link, sessions, wire, ingress, raw, epochs>>
  BY <1>3 DEF linkVars, cloudVars
<1>9. CockpitOK'
  BY <1>5 DEF CockpitOK
<1>10. LinkOK'
  BY <1>3, <1>6, <1>8 DEF Base, LinkOK
<1>. QED
  BY <1>7, <1>9, <1>10 DEF Base

LEMMA FlushLostStep ==
    ASSUME Base, FlushLost
    PROVE  /\ publisher.epoch # 0 /\ link # "down" /\ Expire /\ publisher' = Reset
           /\ queue' = queue \o publisher.initial
           /\ queue' \in Seq(SentBy(epochs)) /\ Len(queue') =< QueueLimit
           /\ UNCHANGED <<epochs, linkVars, cloudVars, refreshes>>
<1>1. /\ publisher.epoch # 0 /\ Len(publisher.initial) =< Room /\ Expire
      /\ queue' = queue \o publisher.initial /\ publisher' = Reset
      /\ UNCHANGED <<epochs, linkVars, cloudVars, refreshes>>
  BY DEF FlushLost
<1>2. /\ queue \in Seq(SentBy(epochs)) /\ Len(queue) =< QueueLimit
      /\ link = "down" => publisher = Reset
  BY DEF Base, LinkOK
<1>3. PICK initial \in Seq(SentBy(epochs)) : initial = publisher.initial
  BY DEF Base, PublisherOK, PublisherType
<1>4. queue' = queue \o initial
  BY <1>1, <1>3
<1>5. queue' \in Seq(SentBy(epochs)) /\ Len(queue') = Len(queue) + Len(initial)
  BY ONLY <1>2, <1>3, <1>4, ConcatProperties
<1>6. Len(queue') =< QueueLimit
  <2>1. Len(queue) \in Nat /\ Len(initial) \in Nat /\ Len(initial) =< Room
    BY <1>1, <1>2, <1>3
  <2>. QED
    BY <1>5, <2>1, Sizes DEF Room
<1>7. link # "down"
  BY <1>1, <1>2, ResetTyped
<1>. QED
  BY <1>1, <1>5, <1>6, <1>7

LEMMA FlushLostBase ==
    ASSUME Base, FlushLost
    PROVE  Base'
<1>1. /\ link # "down" /\ Expire /\ publisher' = Reset
      /\ queue' \in Seq(SentBy(epochs)) /\ Len(queue') =< QueueLimit
      /\ UNCHANGED <<epochs, linkVars, cloudVars, refreshes>>
  BY FlushLostStep
<1>2. CockpitOK'
  BY <1>1, Expired DEF Base, CockpitOK
<1>3. PublisherOK'
  BY <1>1, PublisherReset DEF Base
<1>4. UNCHANGED <<link, sessions, wire, ingress, raw, refreshes, epochs>>
  BY <1>1 DEF linkVars, cloudVars
<1>5. LinkOK'
  BY <1>1, <1>4 DEF Base, LinkOK
<1>. QED
  BY <1>2, <1>3, <1>5 DEF Base

LEMMA ConnectStep ==
    ASSUME Base, Connect
    PROVE  /\ link = "down" /\ link' = "up"
           /\ publisher = Reset /\ queue = <<>> /\ wire = <<>>
           /\ ingress = NewIngress /\ raw = Empty
           /\ TakeSnapshot
           /\ BeginEpoch(current_aircraft, Active(bytes, current_aircraft))
           /\ current_aircraft' = current_aircraft /\ current_aircraft \in Slots
           /\ Active(bytes, current_aircraft) \in Shown
           /\ sessions' \in 0..MaxSessions
           /\ UNCHANGED <<queue, wire, cloudVars, refreshes>>
<1>1. /\ link = "down" /\ link' = "up"
      /\ sessions < MaxSessions /\ sessions' = sessions + 1
      /\ BeginEpoch(current_aircraft, Active(bytes, current_aircraft))
      /\ TakeSnapshot
      /\ UNCHANGED <<queue, wire, cloudVars, refreshes>>
  BY DEF Connect
<1>2. /\ publisher = Reset /\ queue = <<>> /\ wire = <<>>
      /\ ingress = NewIngress /\ raw = Empty /\ sessions \in 0..MaxSessions
  BY <1>1 DEF Base, LinkOK
<1>3. sessions' \in 0..MaxSessions
  BY <1>1, <1>2, Sizes
<1>4. bytes \in Shown /\ current_aircraft \in Slots /\ current_aircraft' = current_aircraft
  BY <1>1 DEF Base, CockpitOK, BiosTypeOK, TakeSnapshot
<1>5. Active(bytes, current_aircraft) \in Shown
  BY <1>4, ActiveShown
<1>. QED
  BY <1>1, <1>2, <1>3, <1>4, <1>5

LEMMA ConnectBase ==
    ASSUME Base, Connect
    PROVE  Base'
<1>1. /\ link' = "up" /\ queue = <<>> /\ wire = <<>>
      /\ ingress = NewIngress /\ raw = Empty
      /\ TakeSnapshot
      /\ BeginEpoch(current_aircraft, Active(bytes, current_aircraft))
      /\ current_aircraft' = current_aircraft /\ current_aircraft \in Slots
      /\ Active(bytes, current_aircraft) \in Shown
      /\ sessions' \in 0..MaxSessions
      /\ UNCHANGED <<queue, wire, cloudVars, refreshes>>
  BY ConnectStep
<1>2. PublisherOK' /\ epochs' \in Nat
  BY <1>1, EpochBegun DEF Base
<1>3. CockpitOK'
  BY <1>1, SnapshotTaken DEF Base, CockpitOK
<1>4. LinkOK'
  <2>1. <<>> \in Seq(SentBy(epochs')) /\ Len(<<>>) = 0
    OBVIOUS
  <2>2. NewIngress \in IngressType(epochs')
    BY <1>2, NewIngressTyped
  <2>3. UNCHANGED <<queue, wire, ingress, raw, refreshes>> /\ refreshes \in 0..MaxRefreshes
    BY <1>1 DEF cloudVars, Base, LinkOK
  <2>. QED
    BY <1>1, <2>1, <2>2, <2>3, EmptyShown, Sizes DEF LinkOK
<1>. QED
  BY <1>2, <1>3, <1>4 DEF Base

\* The steps of the connection leave the client's side alone.
LEMMA ClientKept ==
    ASSUME CockpitOK, PublisherOK, UNCHANGED <<biosVars, publisher, epochs>>,
           link = "down" => link' = "down"
    PROVE  CockpitOK' /\ PublisherOK'
  BY DEF CockpitOK, BiosTypeOK, Decoded, Known, PublisherOK, biosVars

LEMMA TransmitStep ==
    ASSUME Base, Transmit
    PROVE  /\ link = "up" /\ queue # <<>>
           /\ Head(queue) \in SentBy(epochs) /\ Tail(queue) \in Seq(SentBy(epochs))
           /\ Len(Tail(queue)) =< QueueLimit
           /\ wire \in Seq(SentBy(epochs)) /\ Len(wire) < WireSize
           /\ wire' = Append(wire, Head(queue)) /\ queue' = Tail(queue)
           /\ UNCHANGED <<biosVars, publisher, epochs, link, sessions, cloudVars, refreshes>>
<1>1. /\ link = "up" /\ queue # <<>> /\ Len(wire) < WireSize
      /\ wire' = Append(wire, Head(queue)) /\ queue' = Tail(queue)
      /\ UNCHANGED <<biosVars, publisher, epochs, link, sessions, cloudVars, refreshes>>
  BY DEF Transmit
<1>2. /\ queue \in Seq(SentBy(epochs)) /\ Len(queue) =< QueueLimit
      /\ wire \in Seq(SentBy(epochs))
  BY DEF Base, LinkOK
<1>3. /\ Head(queue) \in SentBy(epochs) /\ Tail(queue) \in Seq(SentBy(epochs))
      /\ Len(Tail(queue)) = Len(queue) - 1
  BY ONLY <1>1, <1>2, HeadTailProperties
<1>4. Len(Tail(queue)) =< QueueLimit
  BY <1>2, <1>3, Sizes
<1>. QED
  BY <1>1, <1>2, <1>3, <1>4

LEMMA TransmitBase ==
    ASSUME Base, Transmit
    PROVE  Base'
<1>1. PICK m \in SentBy(epochs) : m = Head(queue)
  BY TransmitStep
<1>2. /\ link = "up" /\ Tail(queue) \in Seq(SentBy(epochs))
      /\ Len(Tail(queue)) =< QueueLimit
      /\ wire \in Seq(SentBy(epochs)) /\ Len(wire) < WireSize
      /\ wire' = Append(wire, m) /\ queue' = Tail(queue)
      /\ UNCHANGED <<biosVars, publisher, epochs, link, sessions, cloudVars, refreshes>>
  BY <1>1, TransmitStep
<1>3. wire' \in Seq(SentBy(epochs)) /\ Len(wire') = Len(wire) + 1
  BY ONLY <1>1, <1>2, AppendProperties
<1>4. Len(wire') =< WireSize
  <2>1. Len(wire) \in Nat
    BY <1>2
  <2>. QED
    BY <1>2, <1>3, <2>1, Sizes
<1>5. CockpitOK' /\ PublisherOK'
  BY <1>2, ClientKept DEF Base
<1>6. LinkOK'
  BY <1>2, <1>3, <1>4 DEF Base, LinkOK, cloudVars
<1>. QED
  BY <1>5, <1>6 DEF Base

LEMMA BreakBase ==
    ASSUME Base, Break
    PROVE  Base'
<1>1. /\ link = "up" /\ link' = "ending" /\ wire' = <<>>
      /\ ingress' = NewIngress /\ raw' = Empty
      /\ UNCHANGED <<biosVars, publisher, epochs, sessions, queue, refreshes>>
  BY DEF Break
<1>2. CockpitOK' /\ PublisherOK'
  BY <1>1, ClientKept DEF Base
<1>3. <<>> \in Seq(SentBy(epochs)) /\ Len(<<>>) = 0 /\ epochs \in Nat
  BY DEF Base, PublisherOK
<1>4. NewIngress \in IngressType(epochs) /\ Empty \in Shown
  BY <1>3, NewIngressTyped, EmptyShown
<1>5. LinkOK'
  BY <1>1, <1>3, <1>4, Sizes DEF Base, LinkOK
<1>. QED
  BY <1>2, <1>5 DEF Base

LEMMA DisconnectBase ==
    ASSUME Base, Disconnect
    PROVE  Base'
<1>1. /\ link = "ending" /\ link' = "down" /\ queue' = <<>> /\ publisher' = Reset
      /\ UNCHANGED <<biosVars, epochs, sessions, wire, cloudVars, refreshes>>
  BY DEF Disconnect
<1>2. CockpitOK'
  BY <1>1 DEF Base, CockpitOK, BiosTypeOK, Decoded, biosVars
<1>3. PublisherOK'
  BY <1>1, PublisherReset DEF Base
<1>4. <<>> \in Seq(SentBy(epochs)) /\ Len(<<>>) = 0
  OBVIOUS
<1>5. LinkOK'
  BY <1>1, <1>4, Sizes DEF Base, LinkOK, cloudVars
<1>. QED
  BY <1>2, <1>3, <1>5 DEF Base

\* Whatever arrives, the assembly stays well formed.
LEMMA AcceptedTyped ==
    ASSUME epochs \in Nat, ingress \in IngressType(epochs), raw \in Shown,
           NEW m \in SentBy(epochs), Acceptable(m)
    PROVE  Accepted(m) \in IngressType(epochs) /\ Applied(m) \in Shown
<1>0. /\ m \in Messages /\ m.epoch \in 0..epochs /\ m.kind \in Kinds /\ m.values \in Shown
      /\ m.aircraft \in Slots /\ m.entries \in SUBSET Controls /\ m.sequence \in Nat
      /\ m.count \in Nat /\ m.chunk \in Nat
  BY DEF SentBy, Messages, Slots
<1>1. CASE m.kind = "catalog"
  <2>1. PICK base \in IngressType(epochs) : base = IF NewEpoch(m) THEN NewIngress ELSE ingress
    BY NewIngressTyped
  <2>2. Accepted(m) = [base EXCEPT !.epoch = m.epoch, !.aircraft = m.aircraft,
                                   !.next = m.sequence + 1, !.catalogs = @ + 1,
                                   !.catalogCount = m.count, !.catalog = @ \cup m.entries]
    BY <1>1, <2>1 DEF Accepted
  <2>3. PICK next \in Nat, catalogs \in Nat, catalog \in SUBSET Controls :
          /\ next = m.sequence + 1 /\ catalogs = base.catalogs + 1
          /\ catalog = base.catalog \cup m.entries
    <3>1. base.catalog \cup m.entries \in SUBSET Controls /\ base.catalogs + 1 \in Nat
      BY <1>0 DEF IngressType
    <3>2. m.sequence + 1 \in Nat
      BY <1>0
    <3>. QED
      BY <3>1, <3>2
  <2>4. Accepted(m) = [base EXCEPT !.epoch = m.epoch, !.aircraft = m.aircraft,
                                   !.next = next, !.catalogs = catalogs,
                                   !.catalogCount = m.count, !.catalog = catalog]
    BY <2>2, <2>3
  <2>5. Accepted(m) \in IngressType(epochs)
    BY <1>0, <2>4 DEF IngressType
  <2>6. Applied(m) \in Shown
    BY <1>1, EmptyShown DEF Applied
  <2>. QED
    BY <2>5, <2>6
<1>2. CASE m.kind = "snapshot"
  <2>1. PICK snapshot \in Shown : snapshot = Put(ingress.snapshot, m.values)
    BY <1>0, PutShown DEF IngressType
  <2>2. PICK next \in Nat, snapshots \in Nat, ready \in BOOLEAN :
          /\ next = ingress.next + 1 /\ snapshots = ingress.snapshots + 1
          /\ ready = (m.chunk + 1 = m.count)
    <3>1. ingress.next + 1 \in Nat /\ ingress.snapshots + 1 \in Nat
      BY DEF IngressType
    <3>2. (m.chunk + 1 = m.count) \in BOOLEAN
      OBVIOUS
    <3>. QED
      BY <3>1, <3>2
  <2>3. Accepted(m) = [ingress EXCEPT !.next = next, !.snapshots = snapshots,
                                      !.snapshotCount = m.count, !.snapshot = snapshot,
                                      !.ready = ready]
    BY <1>2, <2>1, <2>2 DEF Accepted
  <2>4. Accepted(m) \in IngressType(epochs) /\ Accepted(m).snapshot = snapshot
    BY <1>0, <2>3 DEF IngressType
  <2>5. Put(raw, snapshot) \in Shown
    BY PutShown
  <2>6. Applied(m) \in Shown
    BY <1>2, <2>4, <2>5 DEF Applied, NewEpoch
  <2>. QED
    BY <2>4, <2>6
<1>3. CASE m.kind = "delta"
  <2>1. PICK next \in Nat : next = ingress.next + 1
    BY DEF IngressType
  <2>2. Accepted(m) = [ingress EXCEPT !.next = next]
    BY <1>3, <2>1 DEF Accepted
  <2>3. Accepted(m) \in IngressType(epochs)
    BY <2>2 DEF IngressType
  <2>4. Put(raw, m.values) \in Shown
    BY <1>0, PutShown
  <2>5. Applied(m) \in Shown
    BY <1>3, <2>4 DEF Applied, NewEpoch
  <2>. QED
    BY <2>3, <2>5
<1>. QED
  BY <1>0, <1>1, <1>2, <1>3 DEF Kinds

LEMMA ReceiveBase ==
    ASSUME Base, Receive
    PROVE  Base'
<1>1. /\ wire # <<>> /\ wire' = Tail(wire)
      /\ UNCHANGED <<biosVars, publisher, epochs, link, sessions, queue, refreshes>>
  BY DEF Receive
<1>2. PICK m : m = Head(wire)
  OBVIOUS
<1>3. /\ ingress' = IF Acceptable(m) THEN Accepted(m) ELSE ingress
      /\ raw' = IF Acceptable(m) THEN Applied(m) ELSE raw
  BY <1>2 DEF Receive
<1>4. /\ wire \in Seq(SentBy(epochs)) /\ Len(wire) =< WireSize
      /\ ingress \in IngressType(epochs) /\ raw \in Shown /\ epochs \in Nat
      /\ link # "up" => wire = <<>>
  BY DEF Base, LinkOK, PublisherOK
<1>5. m \in SentBy(epochs) /\ wire' \in Seq(SentBy(epochs)) /\ Len(wire') = Len(wire) - 1
  BY ONLY <1>1, <1>2, <1>4, HeadTailProperties
<1>6. ingress' \in IngressType(epochs) /\ raw' \in Shown
  BY <1>3, <1>4, <1>5, AcceptedTyped
<1>7. Len(wire') =< WireSize
  BY <1>4, <1>5, Sizes
<1>8. CockpitOK' /\ PublisherOK'
  BY <1>1, ClientKept DEF Base
<1>9. LinkOK'
  BY <1>1, <1>4, <1>5, <1>6, <1>7 DEF Base, LinkOK
<1>. QED
  BY <1>8, <1>9 DEF Base

LEMMA BaseStep ==
    ASSUME Base, [Next]_vars
    PROVE  Base'
<1>1. CASE UNCHANGED vars
  <2>1. /\ UNCHANGED <<biosVars, publisher, epochs, link, sessions, wire, queue, ingress, raw,
                       refreshes>>
    BY <1>1 DEF vars, linkVars, cloudVars
  <2>2. CockpitOK' /\ PublisherOK'
    BY <2>1, ClientKept DEF Base
  <2>3. LinkOK'
    BY <2>1 DEF Base, LinkOK
  <2>. QED
    BY <2>2, <2>3 DEF Base
<1>. QED
  BY <1>1, ExportBase, MalformedBase, FrameBase, DcsLostBase, FlushInitialBase,
     FlushDeltaBase, FlushLostBase, ConnectBase, TransmitBase, BreakBase, DisconnectBase,
     ReceiveBase DEF Next

LEMMA BaseHolds == Spec => []Base
  BY BaseInit, BaseStep, PTL DEF Spec

\* Every variable keeps its type: queue and wire stay within their limits, a
\* control waits with at most one value or, for a switch, MaxTransitions, and
\* what the gateway assembles is well formed.
THEOREM TelemetryTyped == Spec => []TypeOK
  BY BaseHolds, BaseTyped, PTL

-----------------------------------------------------------------------------
(* A contiguous stream: each message is the next of its epoch, or the first *)
(* of a later one.                                                          *)

\* The slot of an epoch, and the values its snapshot has.
Origins ==
    {o \in [aircraft : Aircraft, values : Shown] :
        DOMAIN o.values \subseteq Definitions[o.aircraft]}

Opening(o) == Len(Catalogs(o.aircraft)) + Len(Snapshots(o.values))

\* A message of an epoch with this origin.
Legit(m, o) ==
    \/ \E i \in 1..Len(Catalogs(o.aircraft)) : m = CatalogMessage(m.epoch, o.aircraft, i)
    \/ \E i \in 1..Len(Snapshots(o.values)) :
          m = SnapshotMessage(m.epoch, o.aircraft, o.values, i)
    \/ /\ m.kind = "delta" /\ m.aircraft = o.aircraft /\ m.sequence >= Opening(o)
       /\ DOMAIN m.values \subseteq Definitions[o.aircraft]

Follows(m, epoch, next) ==
    \/ m.epoch = epoch /\ m.sequence = next
    \/ m.epoch > epoch /\ m.sequence = 0

\* The epoch, and the sequence number to come, after P.
EpochAfter(P, epoch) == IF P = <<>> THEN epoch ELSE P[Len(P)].epoch
NextAfter(P, next) == IF P = <<>> THEN next ELSE P[Len(P)].sequence + 1

Sound(P, epoch, next, origin) ==
    \A i \in 1..Len(P) :
        /\ Legit(P[i], origin[P[i].epoch])
        /\ Follows(P[i], IF i = 1 THEN epoch ELSE P[i - 1].epoch,
                         IF i = 1 THEN next ELSE P[i - 1].sequence + 1)

LEMMA SoundPrefix ==
    ASSUME NEW P \in Seq(Messages), NEW Q \in Seq(Messages), NEW epoch, NEW next, NEW origin,
           Sound(P \o Q, epoch, next, origin)
    PROVE  Sound(P, epoch, next, origin)
<1>1. PICK R \in Seq(Messages) : R = P \o Q
  BY ConcatProperties
<1>2. /\ Len(P) \in Nat /\ Len(Q) \in Nat /\ Len(R) = Len(P) + Len(Q)
      /\ \A i \in 1..Len(P) : R[i] = P[i]
  BY <1>1
<1>3. Sound(R, epoch, next, origin)
  BY <1>1
<1>4. SUFFICES ASSUME NEW i \in 1..Len(P)
               PROVE  /\ Legit(P[i], origin[P[i].epoch])
                      /\ Follows(P[i], IF i = 1 THEN epoch ELSE P[i - 1].epoch,
                                       IF i = 1 THEN next ELSE P[i - 1].sequence + 1)
  BY DEF Sound
<1>5. i \in 1..Len(R) /\ R[i] = P[i] /\ (i # 1 => R[i - 1] = P[i - 1])
  <2>1. i \in 1..Len(R) /\ (i # 1 => i - 1 \in 1..Len(P))
    BY <1>2
  <2>. QED
    BY <1>2, <2>1
<1>6. /\ Legit(R[i], origin[R[i].epoch])
      /\ Follows(R[i], IF i = 1 THEN epoch ELSE R[i - 1].epoch,
                       IF i = 1 THEN next ELSE R[i - 1].sequence + 1)
  BY <1>3, <1>5 DEF Sound
<1>. QED
  BY <1>5, <1>6

LEMMA SoundConcat ==
    ASSUME NEW P \in Seq(Messages), NEW Q \in Seq(Messages), NEW epoch, NEW next, NEW origin,
           Sound(P, epoch, next, origin),
           Sound(Q, EpochAfter(P, epoch), NextAfter(P, next), origin)
    PROVE  /\ Sound(P \o Q, epoch, next, origin)
           /\ Q # <<>> => /\ EpochAfter(P \o Q, epoch) = Q[Len(Q)].epoch
                          /\ NextAfter(P \o Q, next) = Q[Len(Q)].sequence + 1
<1>1. PICK R \in Seq(Messages) : R = P \o Q
  BY ConcatProperties
<1>2. /\ Len(P) \in Nat /\ Len(Q) \in Nat /\ Len(R) = Len(P) + Len(Q)
      /\ \A i \in 1..Len(P) : R[i] = P[i]
      /\ \A i \in 1..Len(Q) : R[Len(P) + i] = Q[i]
  BY <1>1
<1>3. ASSUME NEW i \in 1..Len(R)
      PROVE  /\ Legit(R[i], origin[R[i].epoch])
             /\ Follows(R[i], IF i = 1 THEN epoch ELSE R[i - 1].epoch,
                              IF i = 1 THEN next ELSE R[i - 1].sequence + 1)
  <2>1. CASE i <= Len(P)
    <3>1. i \in 1..Len(P) /\ (i # 1 => i - 1 \in 1..Len(P))
      BY <1>2, <2>1
    <3>2. R[i] = P[i] /\ (i # 1 => R[i - 1] = P[i - 1])
      BY <1>2, <3>1
    <3>. QED
      BY <3>1, <3>2 DEF Sound
  <2>2. CASE i = Len(P) + 1
    <3>1. 1 \in 1..Len(Q) /\ R[i] = Q[1]
      BY <1>2, <2>2
    <3>2. IF i = 1 THEN P = <<>> ELSE P # <<>> /\ R[i - 1] = P[Len(P)]
      <4>1. CASE i = 1
        <5>1. Len(P) = 0
          BY <1>2, <2>2, <4>1
        <5>. QED
          BY <4>1, <5>1, EmptySeq
      <4>2. CASE i # 1
        <5>1. Len(P) # 0 /\ Len(P) \in 1..Len(P) /\ i - 1 = Len(P)
          BY <1>2, <2>2, <4>2
        <5>. QED
          BY <1>2, <4>2, <5>1, EmptySeq
      <4>. QED
        BY <4>1, <4>2
    <3>3. /\ Legit(Q[1], origin[Q[1].epoch])
          /\ Follows(Q[1], EpochAfter(P, epoch), NextAfter(P, next))
      BY <3>1 DEF Sound
    <3>. QED
      BY <3>1, <3>2, <3>3 DEF EpochAfter, NextAfter
  <2>3. CASE i > Len(P) + 1
    <3>1. PICK j \in 1..Len(Q) : /\ j # 1 /\ j - 1 \in 1..Len(Q) /\ i # 1
                                 /\ i = Len(P) + j /\ i - 1 = Len(P) + (j - 1)
      <4>1. PICK j : j = i - Len(P)
        OBVIOUS
      <4>2. i \in Int /\ j \in Int /\ i = Len(P) + j /\ j > 1 /\ j <= Len(Q)
        <5>1. /\ i \in Nat /\ i <= Len(P) + Len(Q) /\ i > Len(P) + 1
              /\ Len(P) \in Nat /\ Len(Q) \in Nat
          BY <1>2, <2>3
        <5>. QED
          BY ONLY <4>1, <5>1
      <4>3. j \in 1..Len(Q) /\ j - 1 \in 1..Len(Q) /\ i - 1 = Len(P) + (j - 1) /\ i # 1
        BY <1>2, <4>2
      <4>. QED
        BY <4>2, <4>3
    <3>2. R[i] = Q[j] /\ R[i - 1] = Q[j - 1]
      <4>1. R[Len(P) + j] = Q[j] /\ R[Len(P) + (j - 1)] = Q[j - 1]
        BY <1>2, <3>1
      <4>. QED
        BY <3>1, <4>1
    <3>3. /\ Legit(Q[j], origin[Q[j].epoch])
          /\ Follows(Q[j], Q[j - 1].epoch, Q[j - 1].sequence + 1)
      BY <3>1 DEF Sound
    <3>. QED
      BY <3>1, <3>2, <3>3
  <2>. QED
    BY <1>2, <2>1, <2>2, <2>3
<1>4. Q # <<>> => R # <<>> /\ R[Len(R)] = Q[Len(Q)]
  <2>1. SUFFICES ASSUME Q # <<>> PROVE R # <<>> /\ R[Len(R)] = Q[Len(Q)]
    OBVIOUS
  <2>2. Len(Q) # 0
    BY <2>1, EmptySeq
  <2>3. Len(Q) \in 1..Len(Q) /\ Len(R) # 0
    BY <1>2, <2>2
  <2>. QED
    BY <1>2, <2>3
<1>. QED
  BY <1>1, <1>3, <1>4 DEF Sound, EpochAfter, NextAfter

LEMMA SoundAppend ==
    ASSUME NEW P \in Seq(Messages), NEW m \in Messages, NEW epoch, NEW next, NEW origin,
           Sound(P, epoch, next, origin), Legit(m, origin[m.epoch]),
           Follows(m, EpochAfter(P, epoch), NextAfter(P, next))
    PROVE  /\ Sound(Append(P, m), epoch, next, origin)
           /\ EpochAfter(Append(P, m), epoch) = m.epoch
           /\ NextAfter(Append(P, m), next) = m.sequence + 1
<1>1. PICK Q \in Seq(Messages) : Q = <<m>>
  <2>1. <<m>> \in Seq(Messages)
    OBVIOUS
  <2>. QED
    BY ONLY <2>1
<1>2. Len(Q) = 1 /\ Q[1] = m /\ Q # <<>>
  BY <1>1
<1>3. Sound(Q, EpochAfter(P, epoch), NextAfter(P, next), origin)
  BY <1>2 DEF Sound
<1>4. Append(P, m) = P \o Q
  BY <1>1
<1>. QED
  BY <1>2, <1>3, <1>4, SoundConcat

LEMMA SoundTail ==
    ASSUME NEW P \in Seq(Messages), P # <<>>, NEW epoch, NEW next, NEW origin,
           Sound(P, epoch, next, origin)
    PROVE  /\ Legit(Head(P), origin[Head(P).epoch]) /\ Follows(Head(P), epoch, next)
           /\ Sound(Tail(P), Head(P).epoch, Head(P).sequence + 1, origin)
           /\ EpochAfter(Tail(P), Head(P).epoch) = EpochAfter(P, epoch)
           /\ NextAfter(Tail(P), Head(P).sequence + 1) = NextAfter(P, next)
<1>1. PICK m, T : m = Head(P) /\ T = Tail(P)
  OBVIOUS
<1>2. /\ T \in Seq(Messages) /\ Len(P) \in Nat /\ Len(P) # 0 /\ Len(T) = Len(P) - 1
      /\ m = P[1] /\ \A i \in 1..Len(T) : T[i] = P[i + 1]
  <2>1. Len(P) # 0
    BY EmptySeq
  <2>. QED
    BY <1>1, <2>1
<1>3. 1 \in 1..Len(P)
  BY <1>2
<1>4. Legit(m, origin[m.epoch]) /\ Follows(m, epoch, next)
  BY <1>2, <1>3 DEF Sound
<1>5. ASSUME NEW i \in 1..Len(T)
      PROVE  /\ Legit(T[i], origin[T[i].epoch])
             /\ Follows(T[i], IF i = 1 THEN m.epoch ELSE T[i - 1].epoch,
                              IF i = 1 THEN m.sequence + 1 ELSE T[i - 1].sequence + 1)
  <2>1. i + 1 \in 1..Len(P) /\ i + 1 # 1 /\ (i + 1) - 1 = i /\ T[i] = P[i + 1]
    BY <1>2
  <2>2. /\ Legit(T[i], origin[T[i].epoch])
        /\ Follows(T[i], P[i].epoch, P[i].sequence + 1)
    BY <2>1 DEF Sound
  <2>3. i # 1 => T[i - 1] = P[i]
    <3>1. i # 1 => i - 1 \in 1..Len(T) /\ (i - 1) + 1 = i
      BY <1>2
    <3>. QED
      BY <1>2, <3>1
  <2>. QED
    BY <1>2, <2>2, <2>3
<1>6. Sound(T, m.epoch, m.sequence + 1, origin)
  BY <1>5 DEF Sound
<1>7. IF T = <<>> THEN P[Len(P)] = m ELSE P[Len(P)] = T[Len(T)]
  <2>1. CASE T = <<>>
    <3>1. Len(P) = 1
      BY <1>2, <2>1
    <3>. QED
      BY <1>2, <2>1, <3>1
  <2>2. CASE T # <<>>
    <3>1. Len(T) # 0
      BY <1>2, <2>2, EmptySeq
    <3>2. Len(T) \in 1..Len(T) /\ Len(T) + 1 = Len(P)
      BY <1>2, <3>1
    <3>. QED
      BY <1>2, <2>2, <3>2
  <2>. QED
    BY <2>1, <2>2
<1>. QED
  BY <1>1, <1>4, <1>6, <1>7 DEF EpochAfter, NextAfter

LEMMA SoundKept ==
    ASSUME NEW n \in Nat, NEW P \in Seq(SentBy(n)), NEW epoch, NEW next,
           NEW origin, NEW other, \A k \in 1..n : other[k] = origin[k],
           Sound(P, epoch, next, origin)
    PROVE  Sound(P, epoch, next, other)
<1>1. \A i \in 1..Len(P) : P[i].epoch \in 1..n
  <2>1. \A i \in 1..Len(P) : P[i] \in SentBy(n)
    OBVIOUS
  <2>. QED
    BY <2>1 DEF SentBy
<1>. QED
  BY <1>1 DEF Sound

\* The fields of an epoch's first messages.
LEMMA CatalogFields ==
    ASSUME NEW epoch, NEW a, NEW i
    PROVE  /\ CatalogMessage(epoch, a, i).kind = "catalog"
           /\ CatalogMessage(epoch, a, i).epoch = epoch
           /\ CatalogMessage(epoch, a, i).sequence = i - 1
           /\ CatalogMessage(epoch, a, i).aircraft = a
           /\ CatalogMessage(epoch, a, i).chunk = i - 1
           /\ CatalogMessage(epoch, a, i).count = Len(Catalogs(a))
           /\ CatalogMessage(epoch, a, i).entries = Catalogs(a)[i]
           /\ CatalogMessage(epoch, a, i).values = Empty
  BY DEF CatalogMessage, Message

LEMMA SnapshotFields ==
    ASSUME NEW epoch, NEW a, NEW values, NEW i
    PROVE  /\ SnapshotMessage(epoch, a, values, i).kind = "snapshot"
           /\ SnapshotMessage(epoch, a, values, i).epoch = epoch
           /\ SnapshotMessage(epoch, a, values, i).sequence = Len(Catalogs(a)) + i - 1
           /\ SnapshotMessage(epoch, a, values, i).aircraft = a
           /\ SnapshotMessage(epoch, a, values, i).chunk = i - 1
           /\ SnapshotMessage(epoch, a, values, i).count = Len(Snapshots(values))
           /\ SnapshotMessage(epoch, a, values, i).values =
                 Restrict(values, Snapshots(values)[i])
  BY DEF SnapshotMessage, Message

LEMMA SoundInitial ==
    ASSUME NEW epoch \in Nat, NEW a \in Aircraft, NEW values \in Shown,
           NEW before \in Nat, before < epoch, NEW next, NEW origin,
           origin[epoch] = [aircraft |-> a, values |-> values]
    PROVE  /\ Sound(Initial(epoch, a, values), before, next, origin)
           /\ Initial(epoch, a, values) # <<>>
           /\ EpochAfter(Initial(epoch, a, values), before) = epoch
           /\ NextAfter(Initial(epoch, a, values), next) = Len(Initial(epoch, a, values))
<1>1. PICK P \in Seq(Messages) : P = Initial(epoch, a, values)
  BY InitialShape
<1>2. PICK K, N : K = Len(Catalogs(a)) /\ N = Len(Snapshots(values))
  OBVIOUS
<1>3. /\ K \in Nat \ {0} /\ N \in Nat \ {0} /\ Len(P) = K + N
      /\ \A i \in 1..K : P[i] = CatalogMessage(epoch, a, i)
      /\ \A i \in 1..N : P[K + i] = SnapshotMessage(epoch, a, values, i)
  <2>1. K \in Nat \ {0} /\ N \in Nat \ {0}
    BY <1>2, CatalogsShape, SnapshotsShape
  <2>2. /\ Len(P) = K + N
        /\ \A i \in 1..K : P[i] = CatalogMessage(epoch, a, i)
        /\ \A i \in 1..N : P[K + i] = SnapshotMessage(epoch, a, values, i)
    BY ONLY <1>1, <1>2, InitialShape, epoch \in Nat, a \in Aircraft, values \in Shown
  <2>. QED
    BY <2>1, <2>2
<1>4. ASSUME NEW i \in 1..Len(P)
      PROVE  Legit(P[i], origin[epoch]) /\ P[i].epoch = epoch /\ P[i].sequence = i - 1
  <2>1. origin[epoch].aircraft = a /\ origin[epoch].values = values
    OBVIOUS
  <2>2. CASE i <= K
    <3>1. i \in 1..K
      BY <1>3, <2>2
    <3>2. P[i] = CatalogMessage(epoch, a, i)
      BY <1>3, <3>1
    <3>3. P[i].epoch = epoch /\ P[i].sequence = i - 1
      BY <3>2, CatalogFields
    <3>. QED
      BY <1>2, <2>1, <3>1, <3>2, <3>3 DEF Legit
  <2>3. CASE i > K
    <3>1. PICK j \in 1..N : i = K + j
      <4>1. i - K \in 1..N /\ i = K + (i - K)
        BY <1>3, <2>3
      <4>. QED
        BY <4>1
    <3>2. P[i] = SnapshotMessage(epoch, a, values, j)
      BY <1>3, <3>1
    <3>3. P[i].epoch = epoch /\ P[i].sequence = K + j - 1
      BY ONLY <1>2, <3>2, SnapshotFields
    <3>4. Legit(P[i], origin[epoch])
      BY <1>2, <2>1, <3>1, <3>2, <3>3 DEF Legit
    <3>. QED
      BY <1>3, <3>1, <3>3, <3>4
  <2>. QED
    BY <1>3, <2>2, <2>3
<1>5. Sound(P, before, next, origin)
  <2>1. SUFFICES ASSUME NEW i \in 1..Len(P)
                 PROVE  /\ Legit(P[i], origin[P[i].epoch])
                        /\ Follows(P[i], IF i = 1 THEN before ELSE P[i - 1].epoch,
                                         IF i = 1 THEN next ELSE P[i - 1].sequence + 1)
    BY DEF Sound
  <2>2. CASE i = 1
    BY <1>4, <2>2 DEF Follows
  <2>3. CASE i # 1
    <3>1. i - 1 \in 1..Len(P) /\ ((i - 1) - 1) + 1 = i - 1
      BY <1>3, <2>3
    <3>2. P[i - 1].epoch = epoch /\ P[i - 1].sequence + 1 = i - 1
      BY <1>4, <3>1
    <3>. QED
      BY <1>4, <2>3, <3>2 DEF Follows
  <2>. QED
    BY <2>2, <2>3
<1>6. Len(P) \in 1..Len(P) /\ P # <<>> /\ Len(P) \in Nat
  BY <1>3
<1>7. P[Len(P)].epoch = epoch /\ P[Len(P)].sequence + 1 = Len(P)
  BY <1>4, <1>6
<1>. QED
  BY <1>1, <1>5, <1>6, <1>7 DEF EpochAfter, NextAfter

-----------------------------------------------------------------------------
(* Wire, queue and initial messages, one behind the other.                 *)

LEMMA Moved ==
    ASSUME NEW S, NEW s \in Seq(S), NEW t \in Seq(S), t # <<>>
    PROVE  Append(s, Head(t)) \o Tail(t) = s \o t
<1>1. PICK h \in S, r \in Seq(S) : h = Head(t) /\ r = Tail(t)
  BY HeadTailProperties
<1>2. <<h>> \in Seq(S) /\ Append(s, h) = s \o <<h>>
  BY AppendIsConcat
<1>3. <<h>> \o r = t
  BY ONLY <1>1, t \in Seq(S), t # <<>>
<1>. QED
  BY <1>1, <1>2, <1>3, ConcatAssociative

LEMMA Cut ==
    ASSUME NEW S, NEW s \in Seq(S), NEW n \in Nat, n <= Len(s)
    PROVE  SubSeq(s, 1, n) \o SubSeq(s, n + 1, Len(s)) = s
<1>1. /\ SubSeq(s, 1, n) \in Seq(S) /\ Len(SubSeq(s, 1, n)) = n
      /\ \A i \in 1..n : SubSeq(s, 1, n)[i] = s[i]
  OBVIOUS
<1>2. /\ SubSeq(s, n + 1, Len(s)) \in Seq(S) /\ Len(SubSeq(s, n + 1, Len(s))) = Len(s) - n
      /\ \A i \in 1..(Len(s) - n) : SubSeq(s, n + 1, Len(s))[i] = s[n + i]
  OBVIOUS
<1>3. PICK p \in Seq(S), q \in Seq(S) :
        p = SubSeq(s, 1, n) /\ q = SubSeq(s, n + 1, Len(s))
  BY <1>1, <1>2
<1>4. /\ p \o q \in Seq(S) /\ Len(p \o q) = Len(p) + Len(q)
      /\ \A i \in 1..(Len(p) + Len(q)) :
            (p \o q)[i] = IF i <= Len(p) THEN p[i] ELSE q[i - Len(p)]
  BY ONLY <1>3, ConcatProperties
<1>5. Len(p) = n /\ Len(q) = Len(s) - n /\ Len(s) \in Nat
  BY <1>1, <1>2, <1>3
<1>6. ASSUME NEW i \in 1..Len(s)
      PROVE  (p \o q)[i] = s[i]
  <2>1. i \in 1..(Len(p) + Len(q))
    BY <1>5
  <2>2. CASE i <= n
    <3>1. i \in 1..n /\ (p \o q)[i] = p[i]
      BY <1>4, <1>5, <2>1, <2>2
    <3>. QED
      BY <1>1, <1>3, <3>1
  <2>3. CASE i > n
    <3>1. /\ i - n \in 1..(Len(s) - n) /\ n + (i - n) = i
          /\ (p \o q)[i] = q[i - n]
      BY <1>4, <1>5, <2>1, <2>3
    <3>. QED
      BY <1>2, <1>3, <3>1
  <2>. QED
    BY <1>5, <2>2, <2>3
<1>7. p \o q = s
  <2>1. p \o q \in Seq(S) /\ Len(p \o q) = Len(s)
    BY ONLY <1>4, <1>5
  <2>2. \A i \in 1..Len(p \o q) : (p \o q)[i] = s[i]
    BY ONLY <1>6, <2>1
  <2>. QED
    BY ONLY <2>1, <2>2, s \in Seq(S), SeqEqual, Zenon
<1>. QED
  BY <1>3, <1>7

LEMMA PipeTyped ==
    ASSUME Base
    PROVE  /\ wire \in Seq(SentBy(epochs)) /\ queue \in Seq(SentBy(epochs))
           /\ publisher.initial \in Seq(SentBy(epochs))
           /\ wire \o queue \in Seq(SentBy(epochs)) /\ Pipe \in Seq(SentBy(epochs))
           /\ Pipe = wire \o (queue \o publisher.initial)
<1>1. /\ wire \in Seq(SentBy(epochs)) /\ queue \in Seq(SentBy(epochs))
      /\ publisher.initial \in Seq(SentBy(epochs))
  BY DEF Base, LinkOK, PublisherOK, PublisherType
<1>2. wire \o queue \in Seq(SentBy(epochs))
  BY ONLY <1>1, ConcatProperties
<1>3. (wire \o queue) \o publisher.initial \in Seq(SentBy(epochs))
  BY ONLY <1>1, <1>2, ConcatProperties
<1>4. (wire \o queue) \o publisher.initial = wire \o (queue \o publisher.initial)
  <2>1. PICK S, s, t, u : S = SentBy(epochs) /\ s = wire /\ t = queue /\ u = publisher.initial
    OBVIOUS
  <2>2. s \in Seq(S) /\ t \in Seq(S) /\ u \in Seq(S)
    BY <1>1, <2>1
  <2>3. (s \o t) \o u = s \o (t \o u)
    BY ONLY <2>2, ConcatAssociative
  <2>. QED
    BY ONLY <2>1, <2>3
<1>. QED
  BY <1>1, <1>2, <1>3, <1>4 DEF Pipe

-----------------------------------------------------------------------------
(* The assembly: what the gateway has after the first messages of an epoch. *)

Assembled(g, r, o) ==
    LET K == Len(Catalogs(o.aircraft))
        N == Len(Snapshots(o.values))
    IN  /\ g.aircraft = o.aircraft /\ g.next # 0 /\ g.catalogCount = K
        /\ g.catalogs = IF g.next <= K THEN g.next ELSE K
        /\ g.snapshotCount = IF g.next <= K THEN 0 ELSE N
        /\ g.snapshots = IF g.next <= K THEN 0
                         ELSE IF g.next <= K + N THEN g.next - K ELSE N
        /\ g.ready <=> g.next >= K + N
        /\ \A c \in Controls :
              c \in g.catalog <=> \E j \in 1..g.catalogs : c \in Catalogs(o.aircraft)[j]
        /\ \A c \in Controls :
              c \in DOMAIN g.snapshot <=>
                  \E j \in 1..g.snapshots : c \in Snapshots(o.values)[j]
        /\ DOMAIN r \subseteq Definitions[o.aircraft]
        /\ r # Empty => g.ready

\* The origin's chunks: one catalog and one snapshot at least, without overlap.
LEMMA OriginShape ==
    ASSUME NEW o \in Origins
    PROVE  LET C == Catalogs(o.aircraft)
               S == Snapshots(o.values)
           IN  /\ o.aircraft \in Aircraft /\ o.values \in Shown
               /\ DOMAIN o.values \subseteq Definitions[o.aircraft]
               /\ Definitions[o.aircraft] \in SUBSET Controls
               /\ Len(C) \in Nat \ {0} /\ Len(S) \in Nat \ {0}
               /\ \A i \in 1..Len(C) : C[i] \in SUBSET Definitions[o.aircraft]
               /\ \A i, j \in 1..Len(C) : i # j => C[i] \cap C[j] = {}
               /\ \A c \in Definitions[o.aircraft] : \E i \in 1..Len(C) : c \in C[i]
               /\ \A i \in 1..Len(S) : S[i] \in SUBSET (DOMAIN o.values)
               /\ \A i, j \in 1..Len(S) : i # j => S[i] \cap S[j] = {}
<1>1. PICK a, v : a = o.aircraft /\ v = o.values
  OBVIOUS
<1>2. a \in Aircraft /\ v \in Shown /\ DOMAIN v \subseteq Definitions[a]
  BY <1>1 DEF Origins
<1>3. PICK C, S : C = Catalogs(a) /\ S = Snapshots(v)
  OBVIOUS
<1>4. /\ Definitions[a] \in SUBSET Controls
      /\ C \in Seq(SUBSET Definitions[a]) /\ Len(C) \in Nat \ {0}
      /\ \A i, j \in 1..Len(C) : i # j => C[i] \cap C[j] = {}
      /\ \A c \in Definitions[a] : \E i \in 1..Len(C) : c \in C[i]
  BY <1>2, <1>3, CatalogsShape
<1>5. /\ S \in Seq(SUBSET (DOMAIN v)) /\ Len(S) \in Nat \ {0}
      /\ \A i, j \in 1..Len(S) : i # j => S[i] \cap S[j] = {}
  BY <1>2, <1>3, SnapshotsShape
<1>6. \A i \in 1..Len(C) : C[i] \in SUBSET Definitions[a]
  BY <1>4
<1>7. \A i \in 1..Len(S) : S[i] \in SUBSET (DOMAIN v)
  BY <1>5
<1>. QED
  BY <1>1, <1>2, <1>3, <1>4, <1>5, <1>6, <1>7

LEMMA CatalogAccepted ==
    ASSUME NEW n, ingress \in IngressType(n), NEW m, m.kind = "catalog", ~NewEpoch(m)
    PROVE  LET g == Accepted(m)
           IN  /\ g.epoch = m.epoch /\ g.aircraft = m.aircraft /\ g.next = m.sequence + 1
               /\ g.ready = ingress.ready
               /\ g.catalogs = ingress.catalogs + 1 /\ g.catalogCount = m.count
               /\ g.catalog = ingress.catalog \cup m.entries
               /\ g.snapshots = ingress.snapshots
               /\ g.snapshotCount = ingress.snapshotCount /\ g.snapshot = ingress.snapshot
               /\ Applied(m) = raw
<1>1. Accepted(m) = [ingress EXCEPT !.epoch = m.epoch, !.aircraft = m.aircraft,
                                    !.next = m.sequence + 1, !.catalogs = @ + 1,
                                    !.catalogCount = m.count, !.catalog = @ \cup m.entries]
  BY DEF Accepted
<1>2. Applied(m) = raw
  BY DEF Applied
<1>. QED
  BY <1>1, <1>2 DEF IngressType

LEMMA FirstAccepted ==
    ASSUME NEW m, m.kind = "catalog", NewEpoch(m)
    PROVE  LET g == Accepted(m)
           IN  /\ g.epoch = m.epoch /\ g.aircraft = m.aircraft /\ g.next = m.sequence + 1
               /\ g.ready = FALSE
               /\ g.catalogs = 1 /\ g.catalogCount = m.count /\ g.catalog = m.entries
               /\ g.snapshots = 0 /\ g.snapshotCount = 0 /\ g.snapshot = Empty
               /\ Applied(m) = Empty
<1>1. Accepted(m) = [NewIngress EXCEPT !.epoch = m.epoch, !.aircraft = m.aircraft,
                                       !.next = m.sequence + 1, !.catalogs = @ + 1,
                                       !.catalogCount = m.count, !.catalog = @ \cup m.entries]
  BY DEF Accepted
<1>2. Applied(m) = Empty
  BY DEF Applied
<1>. QED
  BY <1>1, <1>2 DEF NewIngress

LEMMA SnapshotAccepted ==
    ASSUME NEW n, ingress \in IngressType(n), NEW m, m.kind = "snapshot"
    PROVE  LET g == Accepted(m)
           IN  /\ g.epoch = ingress.epoch /\ g.aircraft = ingress.aircraft
               /\ g.next = ingress.next + 1
               /\ g.ready = (m.chunk + 1 = m.count)
               /\ g.catalogs = ingress.catalogs /\ g.catalogCount = ingress.catalogCount
               /\ g.catalog = ingress.catalog
               /\ g.snapshots = ingress.snapshots + 1 /\ g.snapshotCount = m.count
               /\ g.snapshot = Put(ingress.snapshot, m.values)
               /\ Applied(m) = IF m.chunk + 1 = m.count
                               THEN Put(raw, Put(ingress.snapshot, m.values)) ELSE raw
<1>1. PICK snapshot : snapshot = Put(ingress.snapshot, m.values)
  OBVIOUS
<1>2. Accepted(m) = [ingress EXCEPT !.next = @ + 1, !.snapshots = @ + 1,
                                    !.snapshotCount = m.count, !.snapshot = snapshot,
                                    !.ready = (m.chunk + 1 = m.count)]
  BY <1>1 DEF Accepted
<1>3. /\ Accepted(m).snapshot = snapshot
      /\ Accepted(m).ready = (m.chunk + 1 = m.count)
  BY <1>2 DEF IngressType
<1>4. Applied(m) = IF Accepted(m).ready THEN Put(raw, Accepted(m).snapshot) ELSE raw
  BY DEF Applied, NewEpoch
<1>5. Applied(m) = IF m.chunk + 1 = m.count THEN Put(raw, snapshot) ELSE raw
  BY <1>3, <1>4
<1>. QED
  BY <1>1, <1>2, <1>3, <1>5 DEF IngressType

LEMMA DeltaAccepted ==
    ASSUME NEW n, ingress \in IngressType(n), NEW m, m.kind = "delta"
    PROVE  /\ Accepted(m) = [ingress EXCEPT !.next = ingress.next + 1]
           /\ Applied(m) = Put(raw, m.values)
  BY DEF Accepted, Applied, NewEpoch, IngressType

LEMMA CatalogAssembled ==
    ASSUME NEW n, ingress \in IngressType(n), NEW o \in Origins,
           Assembled(ingress, raw, o), NEW m,
           NEW i \in 1..Len(Catalogs(o.aircraft)), m = CatalogMessage(m.epoch, o.aircraft, i),
           m.epoch = ingress.epoch, m.sequence = ingress.next
    PROVE  /\ Acceptable(m) /\ Assembled(Accepted(m), Applied(m), o)
           /\ Accepted(m).epoch = m.epoch /\ Accepted(m).next = m.sequence + 1
<1>1. PICK C, S, K, N :
        C = Catalogs(o.aircraft) /\ S = Snapshots(o.values) /\ K = Len(C) /\ N = Len(S)
  OBVIOUS
<1>2. /\ K \in Nat \ {0} /\ N \in Nat \ {0}
      /\ \A j \in 1..K : C[j] \in SUBSET Controls
      /\ \A j, k \in 1..K : j # k => C[j] \cap C[k] = {}
  BY <1>1, OriginShape
<1>3. /\ m.kind = "catalog" /\ m.sequence = i - 1 /\ m.aircraft = o.aircraft
      /\ m.chunk = i - 1 /\ m.count = K /\ m.entries = C[i]
  BY <1>1, CatalogFields
<1>4. i \in 1..K
  BY <1>1
<1>5. /\ ingress.aircraft = o.aircraft /\ ingress.next # 0 /\ ingress.catalogCount = K
      /\ ingress.catalogs = IF ingress.next <= K THEN ingress.next ELSE K
      /\ ingress.snapshotCount = IF ingress.next <= K THEN 0 ELSE N
      /\ ingress.snapshots = IF ingress.next <= K THEN 0
                             ELSE IF ingress.next <= K + N THEN ingress.next - K ELSE N
      /\ ingress.ready <=> ingress.next >= K + N
      /\ \A c \in Controls : c \in ingress.catalog <=> \E j \in 1..ingress.catalogs : c \in C[j]
      /\ \A c \in Controls :
            c \in DOMAIN ingress.snapshot <=> \E j \in 1..ingress.snapshots : c \in S[j]
      /\ DOMAIN raw \subseteq Definitions[o.aircraft]
      /\ raw # Empty => ingress.ready
  BY <1>1 DEF Assembled
<1>6. ingress.next = i - 1
  BY <1>3
<1>7. /\ ingress.catalogs = i - 1 /\ ingress.snapshots = 0 /\ ingress.snapshotCount = 0
      /\ ~ingress.ready
  <2>1. ingress.next <= K /\ ~(ingress.next >= K + N)
    BY <1>2, <1>4, <1>6
  <2>. QED
    BY <1>5, <1>6, <2>1
<1>8. ~NewEpoch(m)
  BY DEF NewEpoch
<1>9. m.entries \cap ingress.catalog = {}
  <2>1. SUFFICES ASSUME NEW c \in C[i], c \in ingress.catalog PROVE FALSE
    BY <1>3
  <2>2. c \in Controls
    BY <1>2, <1>4, <2>1
  <2>3. PICK j \in 1..(i - 1) : c \in C[j]
    BY <1>5, <1>7, <2>1, <2>2
  <2>4. j \in 1..K /\ j # i
    BY <1>2, <1>4, <2>3
  <2>. QED
    BY <1>2, <1>4, <2>1, <2>3, <2>4
<1>10. Acceptable(m)
  BY <1>3, <1>5, <1>7, <1>8, <1>9 DEF Acceptable, Continues
<1>11. PICK g : g = Accepted(m)
  OBVIOUS
<1>12. /\ g.epoch = m.epoch /\ g.aircraft = m.aircraft /\ g.next = m.sequence + 1
       /\ g.ready = ingress.ready
       /\ g.catalogs = ingress.catalogs + 1 /\ g.catalogCount = m.count
       /\ g.catalog = ingress.catalog \cup m.entries
       /\ g.snapshots = ingress.snapshots
       /\ g.snapshotCount = ingress.snapshotCount /\ g.snapshot = ingress.snapshot
       /\ Applied(m) = raw
  BY <1>3, <1>8, <1>11, CatalogAccepted
<1>13. /\ g.next = i /\ g.catalogs = i /\ g.snapshots = 0 /\ g.snapshotCount = 0
       /\ ~g.ready /\ g.catalogCount = K /\ g.aircraft = o.aircraft
  BY <1>3, <1>4, <1>7, <1>12
<1>14. ASSUME NEW c \in Controls
       PROVE  c \in g.catalog <=> \E j \in 1..g.catalogs : c \in C[j]
  <2>1. c \in g.catalog <=> (c \in ingress.catalog \/ c \in C[i])
    BY <1>3, <1>12
  <2>2. c \in ingress.catalog <=> \E j \in 1..(i - 1) : c \in C[j]
    BY <1>5, <1>7
  <2>3. (\E j \in 1..i : c \in C[j]) <=> (c \in C[i] \/ \E j \in 1..(i - 1) : c \in C[j])
    <3>1. 1..i = 1..(i - 1) \cup {i}
      BY <1>2, <1>4
    <3>. QED
      BY <3>1
  <2>. QED
    BY <1>13, <2>1, <2>2, <2>3
<1>15. \A c \in Controls :
          c \in DOMAIN g.snapshot <=> \E j \in 1..g.snapshots : c \in S[j]
  BY <1>5, <1>12
<1>16. raw # Empty => g.ready
  BY <1>5, <1>12
<1>17. /\ g.catalogs = IF g.next <= K THEN g.next ELSE K
       /\ g.snapshotCount = IF g.next <= K THEN 0 ELSE N
       /\ g.snapshots = IF g.next <= K THEN 0
                        ELSE IF g.next <= K + N THEN g.next - K ELSE N
       /\ g.ready <=> g.next >= K + N
       /\ g.next # 0
  BY <1>2, <1>4, <1>13
<1>18. Assembled(g, raw, o)
  BY <1>1, <1>5, <1>13, <1>14, <1>15, <1>16, <1>17 DEF Assembled
<1>. QED
  BY <1>10, <1>11, <1>12, <1>18

LEMMA FirstAssembled ==
    ASSUME NEW o \in Origins, NEW m, Legit(m, o), m.sequence = 0, m.epoch # ingress.epoch
    PROVE  /\ m.kind = "catalog" /\ NewEpoch(m)
           /\ Acceptable(m) /\ Assembled(Accepted(m), Applied(m), o)
           /\ Accepted(m).epoch = m.epoch /\ Accepted(m).next = m.sequence + 1
<1>1. PICK C, S, K, N :
        C = Catalogs(o.aircraft) /\ S = Snapshots(o.values) /\ K = Len(C) /\ N = Len(S)
  OBVIOUS
<1>2. K \in Nat \ {0} /\ N \in Nat \ {0}
  BY <1>1, OriginShape
<1>3. PICK i \in 1..K : m = CatalogMessage(m.epoch, o.aircraft, i)
  <2>1. CASE \E i \in 1..N : m = SnapshotMessage(m.epoch, o.aircraft, o.values, i)
    <3>1. PICK i \in 1..N : m = SnapshotMessage(m.epoch, o.aircraft, o.values, i)
      BY <2>1
    <3>2. m.sequence = K + i - 1
      BY <1>1, <3>1, SnapshotFields
    <3>. QED
      BY <1>2, <3>2
  <2>2. m.sequence < K + N
    BY <1>2
  <2>. QED
    BY <1>1, <2>1, <2>2 DEF Legit, Opening
<1>4. /\ m.kind = "catalog" /\ m.sequence = i - 1 /\ m.aircraft = o.aircraft
      /\ m.chunk = i - 1 /\ m.count = K /\ m.entries = C[i]
  BY <1>1, <1>3, CatalogFields
<1>5. i = 1 /\ NewEpoch(m)
  BY <1>2, <1>3, <1>4 DEF NewEpoch
<1>6. Acceptable(m)
  BY <1>4, <1>5 DEF Acceptable
<1>7. PICK g : g = Accepted(m)
  OBVIOUS
<1>8. /\ g.epoch = m.epoch /\ g.aircraft = m.aircraft /\ g.next = m.sequence + 1
      /\ g.ready = FALSE
      /\ g.catalogs = 1 /\ g.catalogCount = m.count /\ g.catalog = m.entries
      /\ g.snapshots = 0 /\ g.snapshotCount = 0 /\ g.snapshot = Empty
      /\ Applied(m) = Empty
  BY <1>4, <1>5, <1>7, FirstAccepted
<1>9. /\ g.aircraft = o.aircraft /\ g.next = 1 /\ g.catalogCount = K /\ ~g.ready
      /\ g.catalog = C[1] /\ Applied(m) = Empty
  BY <1>4, <1>5, <1>8
<1>10. /\ g.catalogs = IF g.next <= K THEN g.next ELSE K
       /\ g.snapshotCount = IF g.next <= K THEN 0 ELSE N
       /\ g.snapshots = IF g.next <= K THEN 0
                        ELSE IF g.next <= K + N THEN g.next - K ELSE N
       /\ g.ready <=> g.next >= K + N
       /\ g.next # 0
  BY <1>2, <1>8, <1>9
<1>11. \A c \in Controls : c \in g.catalog <=> \E j \in 1..g.catalogs : c \in C[j]
  <2>1. 1..g.catalogs = {1}
    BY <1>8
  <2>. QED
    BY <1>9, <2>1
<1>12. \A c \in Controls :
          c \in DOMAIN g.snapshot <=> \E j \in 1..g.snapshots : c \in S[j]
  <2>1. 1..g.snapshots = {}
    BY <1>8
  <2>. QED
    BY <1>8, <2>1, EmptyShown
<1>13. DOMAIN Applied(m) \subseteq Definitions[o.aircraft] /\ (Applied(m) # Empty => g.ready)
  BY <1>9, EmptyShown
<1>14. Assembled(g, Applied(m), o)
  BY <1>1, <1>9, <1>10, <1>11, <1>12, <1>13 DEF Assembled
<1>. QED
  BY <1>4, <1>5, <1>6, <1>7, <1>8, <1>14

LEMMA SnapshotAssembled ==
    ASSUME NEW n, ingress \in IngressType(n), raw \in Shown, NEW o \in Origins,
           Assembled(ingress, raw, o), NEW m,
           NEW i \in 1..Len(Snapshots(o.values)),
           m = SnapshotMessage(m.epoch, o.aircraft, o.values, i),
           m.epoch = ingress.epoch, m.sequence = ingress.next
    PROVE  /\ Acceptable(m) /\ Assembled(Accepted(m), Applied(m), o)
           /\ Accepted(m).epoch = m.epoch /\ Accepted(m).next = m.sequence + 1
<1>1. PICK C, S, K, N :
        C = Catalogs(o.aircraft) /\ S = Snapshots(o.values) /\ K = Len(C) /\ N = Len(S)
  OBVIOUS
<1>2. /\ K \in Nat \ {0} /\ N \in Nat \ {0}
      /\ o.values \in Shown /\ DOMAIN o.values \subseteq Definitions[o.aircraft]
      /\ Definitions[o.aircraft] \in SUBSET Controls
      /\ \A c \in Definitions[o.aircraft] : \E j \in 1..K : c \in C[j]
      /\ \A j \in 1..N : S[j] \in SUBSET (DOMAIN o.values)
      /\ \A j, k \in 1..N : j # k => S[j] \cap S[k] = {}
  BY <1>1, OriginShape
<1>3. /\ m.kind = "snapshot" /\ m.sequence = K + i - 1 /\ m.aircraft = o.aircraft
      /\ m.chunk = i - 1 /\ m.count = N /\ m.values = Restrict(o.values, S[i])
  BY <1>1, SnapshotFields
<1>4. i \in 1..N
  BY <1>1
<1>5. /\ ingress.aircraft = o.aircraft /\ ingress.next # 0 /\ ingress.catalogCount = K
      /\ ingress.catalogs = IF ingress.next <= K THEN ingress.next ELSE K
      /\ ingress.snapshotCount = IF ingress.next <= K THEN 0 ELSE N
      /\ ingress.snapshots = IF ingress.next <= K THEN 0
                             ELSE IF ingress.next <= K + N THEN ingress.next - K ELSE N
      /\ ingress.ready <=> ingress.next >= K + N
      /\ \A c \in Controls : c \in ingress.catalog <=> \E j \in 1..ingress.catalogs : c \in C[j]
      /\ \A c \in Controls :
            c \in DOMAIN ingress.snapshot <=> \E j \in 1..ingress.snapshots : c \in S[j]
      /\ DOMAIN raw \subseteq Definitions[o.aircraft]
      /\ raw # Empty => ingress.ready
  BY <1>1 DEF Assembled
<1>6. ingress.next = K + i - 1
  BY <1>3
<1>7. /\ ingress.catalogs = K /\ ingress.snapshots = i - 1 /\ ~ingress.ready
      /\ ingress.snapshotCount \in {0, N}
  <2>1. /\ ingress.next <= K + N /\ ~(ingress.next >= K + N)
        /\ ingress.next <= K => i - 1 = 0 /\ ingress.next = K
        /\ ingress.next - K = i - 1
    BY <1>2, <1>4, <1>6
  <2>2. ingress.catalogs = K
    BY <1>5, <2>1
  <2>3. ingress.snapshots = i - 1
    BY <1>5, <2>1
  <2>. QED
    BY <1>5, <2>1, <2>2, <2>3
<1>8. m.values \in Shown /\ DOMAIN m.values = S[i]
  <2>1. S[i] \in SUBSET (DOMAIN o.values)
    BY <1>2, <1>4
  <2>. QED
    BY <1>2, <1>3, <2>1, RestrictShown
<1>9. S[i] \subseteq ingress.catalog
  <2>1. SUFFICES ASSUME NEW c \in S[i] PROVE c \in ingress.catalog
    OBVIOUS
  <2>2. c \in Definitions[o.aircraft] /\ c \in Controls
    BY <1>2, <1>4
  <2>. QED
    BY <1>2, <1>5, <1>7, <2>2
<1>10. S[i] \cap DOMAIN ingress.snapshot = {}
  <2>1. SUFFICES ASSUME NEW c \in S[i], c \in DOMAIN ingress.snapshot PROVE FALSE
    OBVIOUS
  <2>2. c \in Controls
    BY <1>2, <1>4
  <2>3. PICK j \in 1..(i - 1) : c \in S[j]
    BY <1>5, <1>7, <2>1, <2>2
  <2>4. j \in 1..N /\ j # i
    BY <1>2, <1>4, <2>3
  <2>. QED
    BY <1>2, <1>4, <2>1, <2>3, <2>4
<1>11. Acceptable(m)
  BY <1>2, <1>3, <1>5, <1>7, <1>8, <1>9, <1>10 DEF Acceptable, Continues, CatalogComplete, NewEpoch
<1>12. PICK g, r : g = Accepted(m) /\ r = Applied(m)
  OBVIOUS
<1>13. /\ g.epoch = ingress.epoch /\ g.aircraft = ingress.aircraft
       /\ g.next = ingress.next + 1
       /\ g.ready = (m.chunk + 1 = m.count)
       /\ g.catalogs = ingress.catalogs /\ g.catalogCount = ingress.catalogCount
       /\ g.catalog = ingress.catalog
       /\ g.snapshots = ingress.snapshots + 1 /\ g.snapshotCount = m.count
       /\ g.snapshot = Put(ingress.snapshot, m.values)
       /\ r = IF m.chunk + 1 = m.count
              THEN Put(raw, Put(ingress.snapshot, m.values)) ELSE raw
  BY <1>3, <1>12, SnapshotAccepted
<1>14. /\ g.next = K + i /\ g.catalogs = K /\ g.snapshots = i /\ g.snapshotCount = N
       /\ g.ready <=> i = N
  <2>1. i \in Nat /\ (m.chunk + 1 = m.count <=> i = N) /\ (i - 1) + 1 = i /\ (K + i - 1) + 1 = K + i
    BY <1>2, <1>3, <1>4
  <2>. QED
    BY <1>3, <1>6, <1>7, <1>13, <2>1
<1>15. /\ g.snapshot \in Shown
       /\ DOMAIN g.snapshot = DOMAIN ingress.snapshot \cup S[i]
  <2>1. ingress.snapshot \in Shown
    BY DEF IngressType
  <2>. QED
    BY <1>8, <1>13, <2>1, PutShown
<1>16. ASSUME NEW c \in Controls
       PROVE  c \in DOMAIN g.snapshot <=> \E j \in 1..g.snapshots : c \in S[j]
  <2>1. c \in DOMAIN ingress.snapshot <=> \E j \in 1..(i - 1) : c \in S[j]
    BY <1>5, <1>7
  <2>2. (\E j \in 1..i : c \in S[j]) <=> (c \in S[i] \/ \E j \in 1..(i - 1) : c \in S[j])
    <3>1. 1..i = 1..(i - 1) \cup {i}
      BY <1>2, <1>4
    <3>. QED
      BY <3>1
  <2>. QED
    BY <1>14, <1>15, <2>1, <2>2
<1>17. DOMAIN r \subseteq Definitions[o.aircraft] /\ (r # Empty => g.ready)
  <2>1. CASE i = N
    <3>1. r = Put(raw, g.snapshot) /\ g.ready
      <4>1. m.chunk + 1 = m.count
        BY <1>2, <1>3, <2>1
      <4>. QED
        BY <1>13, <1>14, <2>1, <4>1
    <3>2. DOMAIN r = DOMAIN raw \cup DOMAIN g.snapshot
      BY <1>15, <3>1, PutShown
    <3>3. \A c \in DOMAIN g.snapshot : c \in Controls
      BY <1>15, ShownElim
    <3>4. DOMAIN g.snapshot \subseteq Definitions[o.aircraft]
      <4>1. SUFFICES ASSUME NEW c \in DOMAIN g.snapshot
                     PROVE  c \in Definitions[o.aircraft]
        OBVIOUS
      <4>2. PICK j \in 1..i : c \in S[j]
        BY <1>14, <1>16, <3>3, <4>1
      <4>. QED
        BY <1>2, <2>1, <4>2
    <3>. QED
      BY <1>5, <3>1, <3>2, <3>4
  <2>2. CASE i # N
    <3>1. ~(m.chunk + 1 = m.count)
      BY <1>2, <1>3, <1>4, <2>2
    <3>2. r = raw
      BY <1>13, <3>1
    <3>. QED
      BY <1>5, <1>7, <3>2
  <2>. QED
    BY <2>1, <2>2
<1>18. /\ g.catalogs = IF g.next <= K THEN g.next ELSE K
       /\ g.snapshotCount = IF g.next <= K THEN 0 ELSE N
       /\ g.snapshots = IF g.next <= K THEN 0
                        ELSE IF g.next <= K + N THEN g.next - K ELSE N
       /\ g.ready <=> g.next >= K + N
       /\ g.next # 0
  <2>1. /\ ~(K + i <= K) /\ K + i <= K + N /\ (K + i) - K = i /\ K + i # 0
        /\ K + i >= K + N <=> i = N
    BY <1>2, <1>4
  <2>. QED
    BY <1>14, <2>1
<1>19. \A c \in Controls : c \in g.catalog <=> \E j \in 1..g.catalogs : c \in C[j]
  BY <1>5, <1>13
<1>20. g.aircraft = o.aircraft /\ g.catalogCount = K
  BY <1>5, <1>13
<1>21. Assembled(g, r, o)
  BY <1>1, <1>16, <1>17, <1>18, <1>19, <1>20 DEF Assembled
<1>. QED
  BY <1>11, <1>12, <1>13, <1>21

LEMMA DeltaAssembled ==
    ASSUME NEW n, ingress \in IngressType(n), raw \in Shown, NEW o \in Origins,
           Assembled(ingress, raw, o), NEW m,
           m.kind = "delta", m.aircraft = o.aircraft, m.sequence >= Opening(o),
           m.values \in Shown, DOMAIN m.values \subseteq Definitions[o.aircraft],
           m.epoch = ingress.epoch, m.sequence = ingress.next
    PROVE  /\ Acceptable(m) /\ Assembled(Accepted(m), Applied(m), o)
           /\ Accepted(m).epoch = m.epoch /\ Accepted(m).next = m.sequence + 1
<1>1. PICK C, S, K, N :
        C = Catalogs(o.aircraft) /\ S = Snapshots(o.values) /\ K = Len(C) /\ N = Len(S)
  OBVIOUS
<1>2. /\ K \in Nat \ {0} /\ N \in Nat \ {0}
      /\ Definitions[o.aircraft] \in SUBSET Controls
      /\ \A c \in Definitions[o.aircraft] : \E j \in 1..K : c \in C[j]
  BY <1>1, OriginShape
<1>3. /\ ingress.aircraft = o.aircraft /\ ingress.next # 0 /\ ingress.catalogCount = K
      /\ ingress.catalogs = IF ingress.next <= K THEN ingress.next ELSE K
      /\ ingress.snapshotCount = IF ingress.next <= K THEN 0 ELSE N
      /\ ingress.snapshots = IF ingress.next <= K THEN 0
                             ELSE IF ingress.next <= K + N THEN ingress.next - K ELSE N
      /\ ingress.ready <=> ingress.next >= K + N
      /\ \A c \in Controls : c \in ingress.catalog <=> \E j \in 1..ingress.catalogs : c \in C[j]
      /\ \A c \in Controls :
            c \in DOMAIN ingress.snapshot <=> \E j \in 1..ingress.snapshots : c \in S[j]
      /\ DOMAIN raw \subseteq Definitions[o.aircraft]
      /\ raw # Empty => ingress.ready
  BY <1>1 DEF Assembled
<1>4. ingress.next \in Nat /\ ingress.next >= K + N
  BY <1>1 DEF Opening, IngressType
<1>5. ingress.catalogs = K /\ ingress.ready
  <2>1. ingress.next <= K => ingress.next = K
    BY <1>2, <1>4
  <2>. QED
    BY <1>3, <1>4, <2>1
<1>6. Definitions[o.aircraft] \subseteq ingress.catalog
  BY <1>2, <1>3, <1>5
<1>7. Acceptable(m)
  BY <1>3, <1>5, <1>6 DEF Acceptable, Continues, NewEpoch
<1>8. PICK g, r : g = Accepted(m) /\ r = Applied(m)
  OBVIOUS
<1>9. g = [ingress EXCEPT !.next = ingress.next + 1] /\ r = Put(raw, m.values)
  BY <1>8, DeltaAccepted
<1>10. /\ g.epoch = ingress.epoch /\ g.aircraft = ingress.aircraft
       /\ g.next = ingress.next + 1 /\ g.ready = ingress.ready
       /\ g.catalogs = ingress.catalogs /\ g.catalogCount = ingress.catalogCount
       /\ g.catalog = ingress.catalog /\ g.snapshots = ingress.snapshots
       /\ g.snapshotCount = ingress.snapshotCount /\ g.snapshot = ingress.snapshot
  BY <1>9 DEF IngressType
<1>11. /\ g.catalogs = IF g.next <= K THEN g.next ELSE K
       /\ g.snapshotCount = IF g.next <= K THEN 0 ELSE N
       /\ g.snapshots = IF g.next <= K THEN 0
                        ELSE IF g.next <= K + N THEN g.next - K ELSE N
       /\ g.ready <=> g.next >= K + N
       /\ g.next # 0
  <2>1. /\ ~(g.next <= K) /\ ~(g.next <= K + N) /\ g.next >= K + N /\ g.next # 0
        /\ ~(ingress.next <= K) /\ (ingress.next <= K + N => ingress.next - K = N)
    BY <1>2, <1>4, <1>10
  <2>2. ingress.snapshots = N /\ ingress.snapshotCount = N
    BY <1>3, <2>1
  <2>. QED
    BY <1>5, <1>10, <2>1, <2>2
<1>12. /\ \A c \in Controls : c \in g.catalog <=> \E j \in 1..g.catalogs : c \in C[j]
       /\ \A c \in Controls :
             c \in DOMAIN g.snapshot <=> \E j \in 1..g.snapshots : c \in S[j]
  BY <1>3, <1>10
<1>13. DOMAIN r = DOMAIN raw \cup DOMAIN m.values
  BY <1>9, PutShown
<1>14. DOMAIN r \subseteq Definitions[o.aircraft] /\ g.ready
  BY <1>3, <1>5, <1>10, <1>13
<1>15. Assembled(g, r, o)
  BY <1>1, <1>3, <1>10, <1>11, <1>12, <1>14 DEF Assembled
<1>. QED
  BY <1>7, <1>8, <1>10, <1>15

\* The next message of the epoch is accepted, whatever its kind.
LEMMA NextAssembled ==
    ASSUME NEW n, ingress \in IngressType(n), raw \in Shown, NEW o \in Origins,
           Assembled(ingress, raw, o), NEW m \in Messages, Legit(m, o),
           m.epoch = ingress.epoch, m.sequence = ingress.next
    PROVE  /\ Acceptable(m) /\ Assembled(Accepted(m), Applied(m), o)
           /\ Accepted(m).epoch = m.epoch /\ Accepted(m).next = m.sequence + 1
<1>1. m.values \in Shown
  BY DEF Messages
<1>2. CASE \E i \in 1..Len(Catalogs(o.aircraft)) : m = CatalogMessage(m.epoch, o.aircraft, i)
  BY <1>2, CatalogAssembled
<1>3. CASE \E i \in 1..Len(Snapshots(o.values)) :
              m = SnapshotMessage(m.epoch, o.aircraft, o.values, i)
  BY <1>3, SnapshotAssembled
<1>4. CASE /\ m.kind = "delta" /\ m.aircraft = o.aircraft /\ m.sequence >= Opening(o)
           /\ DOMAIN m.values \subseteq Definitions[o.aircraft]
  BY <1>1, <1>4, DeltaAssembled
<1>. QED
  BY <1>2, <1>3, <1>4 DEF Legit

-----------------------------------------------------------------------------
(* The stream between publisher and gateway.  In `origin` are the slots and *)
(* the snapshots of the epochs: what is on its way, together with what has  *)
(* been assembled, is for each of them its first messages and its deltas.   *)

Streamed(origin) ==
    /\ Sound(Pipe, ingress.epoch, ingress.next, origin)
    /\ IF ingress.epoch = 0 THEN ingress = NewIngress /\ raw = Empty
       ELSE Assembled(ingress, raw, origin[ingress.epoch])
    /\ publisher.epoch # 0 =>
          /\ EpochAfter(Pipe, ingress.epoch) = publisher.epoch
          /\ NextAfter(Pipe, ingress.next) = publisher.sequence
          /\ origin[publisher.epoch].aircraft = publisher.aircraft
          /\ publisher.sequence >= Opening(origin[publisher.epoch])

StreamOK == \E origin \in [1..epochs -> Origins] : link = "up" => Streamed(origin)

LEMMA PipeMessages ==
    ASSUME Base
    PROVE  /\ epochs \in Nat /\ Pipe \in Seq(SentBy(epochs)) /\ Pipe \in Seq(Messages)
           /\ wire \o queue \in Seq(Messages) /\ publisher.initial \in Seq(Messages)
           /\ ingress \in IngressType(epochs) /\ raw \in Shown
           /\ publisher.epoch \in 0..epochs /\ publisher.sequence \in Nat
           /\ publisher.epoch # 0 => publisher.aircraft \in Aircraft
<1>1. /\ epochs \in Nat /\ ingress \in IngressType(epochs) /\ raw \in Shown
      /\ publisher.epoch \in 0..epochs /\ publisher.sequence \in Nat
      /\ publisher.epoch # 0 => publisher.aircraft \in Aircraft
  BY DEF Base, LinkOK, PublisherOK, PublisherType
<1>2. /\ publisher.initial \in Seq(SentBy(epochs)) /\ wire \o queue \in Seq(SentBy(epochs))
      /\ Pipe \in Seq(SentBy(epochs))
  BY PipeTyped
<1>3. \A s \in Seq(SentBy(epochs)) : s \in Seq(Messages)
  BY <1>1, SentMonotonic
<1>. QED
  BY <1>1, <1>2, <1>3

LEMMA HeadOfConcat ==
    ASSUME NEW S, NEW s \in Seq(S), NEW t \in Seq(S), s # <<>>
    PROVE  /\ s \o t # <<>> /\ Head(s \o t) = Head(s) /\ Head(s) \in S
           /\ Tail(s \o t) = Tail(s) \o t
<1>1. PICK h \in S, r \in Seq(S) : h = Head(s) /\ r = Tail(s)
  BY HeadTailProperties
<1>2. s = <<h>> \o r
  BY ONLY <1>1, s \in Seq(S), s # <<>>
<1>3. <<h>> \in Seq(S) /\ r \o t \in Seq(S)
  <2>1. <<h>> \in Seq(S)
    OBVIOUS
  <2>2. r \o t \in Seq(S)
    BY ONLY r \in Seq(S), t \in Seq(S), ConcatProperties
  <2>. QED
    BY <2>1, <2>2
<1>4. s \o t = <<h>> \o (r \o t)
  BY ONLY <1>2, <1>3, r \in Seq(S), t \in Seq(S), ConcatAssociative
<1>5. /\ <<h>> \o (r \o t) # <<>> /\ Head(<<h>> \o (r \o t)) = h
      /\ Tail(<<h>> \o (r \o t)) = r \o t
  BY ONLY <1>3, h \in S
<1>. QED
  BY ONLY <1>1, <1>4, <1>5, h \in S

LEMMA PipeHead ==
    ASSUME Base, wire # <<>>
    PROVE  /\ Pipe # <<>> /\ Head(Pipe) = Head(wire) /\ Head(wire) \in SentBy(epochs)
           /\ Tail(Pipe) = Tail(wire) \o queue \o publisher.initial
<1>1. PICK S, w, q, r : S = SentBy(epochs) /\ w = wire /\ q = queue /\ r = publisher.initial
  OBVIOUS
<1>2. /\ w \in Seq(S) /\ q \in Seq(S) /\ r \in Seq(S) /\ w # <<>>
      /\ Pipe = w \o q \o r
  BY <1>1, PipeTyped DEF Pipe
<1>3. w \o q # <<>> /\ Head(w \o q) = Head(w) /\ Head(w) \in S /\ Tail(w \o q) = Tail(w) \o q
  BY <1>2, HeadOfConcat
<1>4. w \o q \in Seq(S)
  BY ONLY <1>2, ConcatProperties
<1>5. /\ w \o q \o r # <<>> /\ Head(w \o q \o r) = Head(w \o q)
      /\ Tail(w \o q \o r) = Tail(w \o q) \o r
  BY ONLY <1>2, <1>3, <1>4, HeadOfConcat
<1>. QED
  BY ONLY <1>1, <1>2, <1>3, <1>5

\* What reaches the gateway is accepted, and the assembly goes on.
LEMMA HeadAccepted ==
    ASSUME Base, NEW origin \in [1..epochs -> Origins], Streamed(origin), wire # <<>>,
           NEW m, m = Head(wire)
    PROVE  /\ m \in SentBy(epochs) /\ Legit(m, origin[m.epoch])
           /\ m.epoch \in 1..epochs /\ Follows(m, ingress.epoch, ingress.next)
           /\ Acceptable(m) /\ Assembled(Accepted(m), Applied(m), origin[m.epoch])
           /\ Accepted(m).epoch = m.epoch /\ Accepted(m).next = m.sequence + 1
<1>1. m = Head(Pipe) /\ Pipe # <<>> /\ m \in SentBy(epochs)
  BY PipeHead
<1>2. /\ Pipe \in Seq(Messages) /\ epochs \in Nat
      /\ ingress \in IngressType(epochs) /\ raw \in Shown
  BY PipeMessages
<1>3. Legit(m, origin[m.epoch]) /\ Follows(m, ingress.epoch, ingress.next)
  <2>1. Sound(Pipe, ingress.epoch, ingress.next, origin)
    BY DEF Streamed
  <2>. QED
    BY ONLY <1>1, <1>2, <2>1, SoundTail
<1>4. m \in Messages /\ m.epoch \in 1..epochs
  BY <1>1 DEF SentBy
<1>5. PICK o \in Origins : o = origin[m.epoch]
  BY <1>4
<1>6. CASE m.epoch = ingress.epoch /\ m.sequence = ingress.next
  <2>1. Assembled(ingress, raw, o)
    BY <1>2, <1>4, <1>5, <1>6 DEF Streamed
  <2>. QED
    BY <1>1, <1>2, <1>3, <1>4, <1>5, <1>6, <2>1, NextAssembled
<1>7. CASE m.epoch > ingress.epoch /\ m.sequence = 0
  <2>1. m.epoch # ingress.epoch
    BY <1>2, <1>4, <1>7 DEF IngressType
  <2>. QED
    BY <1>1, <1>3, <1>4, <1>5, <1>7, <2>1, FirstAssembled
<1>. QED
  BY <1>3, <1>6, <1>7 DEF Follows

LEMMA ReceiveStep ==
    ASSUME Base, NEW origin \in [1..epochs -> Origins], Streamed(origin), Receive,
           NEW m, m = Head(wire)
    PROVE  /\ wire # <<>> /\ m = Head(Pipe) /\ Pipe # <<>> /\ Pipe' = Tail(Pipe)
           /\ ingress' = Accepted(m) /\ raw' = Applied(m)
           /\ UNCHANGED <<biosVars, publisher, epochs, link, sessions, queue, refreshes>>
<1>1. /\ wire # <<>> /\ wire' = Tail(wire)
      /\ ingress' = IF Acceptable(m) THEN Accepted(m) ELSE ingress
      /\ raw' = IF Acceptable(m) THEN Applied(m) ELSE raw
      /\ UNCHANGED <<biosVars, publisher, epochs, link, sessions, queue, refreshes>>
  BY DEF Receive
<1>2. Acceptable(m)
  BY <1>1, HeadAccepted
<1>3. m = Head(Pipe) /\ Pipe # <<>> /\ Tail(Pipe) = Tail(wire) \o queue \o publisher.initial
  BY <1>1, PipeHead
<1>4. Pipe' = Tail(wire) \o queue \o publisher.initial
  BY <1>1 DEF Pipe
<1>. QED
  BY <1>1, <1>2, <1>3, <1>4

LEMMA ReceiveStream ==
    ASSUME Base, NEW origin \in [1..epochs -> Origins], Streamed(origin), Receive
    PROVE  Streamed(origin)'
<1>1. PICK m : m = Head(wire)
  OBVIOUS
<1>2. /\ wire # <<>> /\ m = Head(Pipe) /\ Pipe # <<>> /\ Pipe' = Tail(Pipe)
      /\ ingress' = Accepted(m) /\ raw' = Applied(m)
      /\ UNCHANGED publisher
  BY <1>1, ReceiveStep
<1>3. /\ m.epoch \in 1..epochs
      /\ Assembled(ingress', raw', origin[m.epoch])
      /\ ingress'.epoch = m.epoch /\ ingress'.next = m.sequence + 1
  BY <1>1, <1>2, HeadAccepted
<1>4. /\ Sound(Pipe', ingress'.epoch, ingress'.next, origin)
      /\ EpochAfter(Pipe', ingress'.epoch) = EpochAfter(Pipe, ingress.epoch)
      /\ NextAfter(Pipe', ingress'.next) = NextAfter(Pipe, ingress.next)
  <2>1. Sound(Pipe, ingress.epoch, ingress.next, origin) /\ Pipe \in Seq(Messages)
    BY PipeMessages DEF Streamed
  <2>2. /\ Sound(Tail(Pipe), m.epoch, m.sequence + 1, origin)
        /\ EpochAfter(Tail(Pipe), m.epoch) = EpochAfter(Pipe, ingress.epoch)
        /\ NextAfter(Tail(Pipe), m.sequence + 1) = NextAfter(Pipe, ingress.next)
    BY ONLY <1>2, <2>1, SoundTail
  <2>. QED
    BY <1>2, <1>3, <2>2
<1>5. ingress'.epoch # 0
  BY <1>3
<1>. QED
  BY <1>2, <1>3, <1>4, <1>5 DEF Streamed

LEMMA TransmitPipe ==
    ASSUME Base, Transmit
    PROVE  Pipe' = Pipe
<1>1. PICK S, w, q, r : S = SentBy(epochs) /\ w = wire /\ q = queue /\ r = publisher.initial
  OBVIOUS
<1>2. w \in Seq(S) /\ q \in Seq(S) /\ Pipe = w \o q \o r
  BY <1>1, PipeTyped DEF Pipe
<1>3. q # <<>> /\ wire' = Append(w, Head(q)) /\ queue' = Tail(q) /\ publisher' = publisher
  BY <1>1, TransmitStep
<1>4. Append(w, Head(q)) \o Tail(q) = w \o q
  BY ONLY <1>2, <1>3, Moved
<1>5. Pipe' = Append(w, Head(q)) \o Tail(q) \o r
  BY <1>1, <1>3 DEF Pipe
<1>. QED
  BY <1>2, <1>4, <1>5

LEMMA FlushInitialPipe ==
    ASSUME Base, FlushInitial
    PROVE  Pipe' = Pipe
<1>1. PICK S, w, q, r, n : /\ S = SentBy(epochs) /\ w = wire /\ q = queue
                           /\ r = publisher.initial /\ n = Room
  OBVIOUS
<1>2. PICK s, t : s = SubSeq(r, 1, n) /\ t = SubSeq(r, n + 1, Len(r))
  OBVIOUS
<1>3. /\ w \in Seq(S) /\ q \in Seq(S) /\ r \in Seq(S) /\ Pipe = w \o (q \o r)
      /\ w \o q \in Seq(S)
  BY <1>1, PipeTyped
<1>4. /\ n \in Nat /\ n < Len(r) /\ s \in Seq(S) /\ t \in Seq(S)
      /\ queue' = q \o s /\ publisher'.initial = t
      /\ wire' = w
  <2>1. PICK i, j : i = SubSeq(publisher.initial, 1, Room)
                    /\ j = SubSeq(publisher.initial, Room + 1, Len(publisher.initial))
    OBVIOUS
  <2>2. /\ Room \in Nat /\ Room < Len(publisher.initial)
        /\ i \in Seq(SentBy(epochs)) /\ j \in Seq(SentBy(epochs))
        /\ queue' = queue \o i
        /\ publisher' = Flushed(j, publisher.sequence, publisher.pending)
        /\ wire' = wire
    BY <2>1, FlushInitialStep DEF linkVars
  <2>3. publisher'.initial = j
    BY ONLY <2>2 DEF Flushed
  <2>4. s = i /\ t = j
    BY ONLY <1>1, <1>2, <2>1
  <2>. QED
    BY ONLY <1>1, <2>2, <2>3, <2>4
<1>5. s \o t = r
  <2>1. n <= Len(r)
    BY <1>3, <1>4
  <2>. QED
    BY ONLY <1>2, <1>3, <1>4, <2>1, Cut
<1>6. Pipe' = w \o (q \o s) \o t
  BY <1>4 DEF Pipe
<1>7. w \o (q \o s) \o t = w \o (q \o (s \o t))
  <2>1. q \o s \in Seq(S)
    BY ONLY <1>3, <1>4, ConcatProperties
  <2>2. w \o (q \o s) \o t = w \o ((q \o s) \o t)
    <3>1. PICK x : x = q \o s
      OBVIOUS
    <3>2. w \in Seq(S) /\ x \in Seq(S) /\ t \in Seq(S)
      BY ONLY <1>3, <1>4, <2>1, <3>1
    <3>3. w \o x \o t = w \o (x \o t)
      BY ONLY <3>2, ConcatAssociative
    <3>. QED
      BY ONLY <3>1, <3>3
  <2>3. (q \o s) \o t = q \o (s \o t)
    <3>1. q \in Seq(S) /\ s \in Seq(S) /\ t \in Seq(S)
      BY ONLY <1>3, <1>4
    <3>. QED
      BY ONLY <3>1, ConcatAssociative
  <2>. QED
    BY ONLY <2>2, <2>3
<1>. QED
  BY ONLY <1>3, <1>5, <1>6, <1>7

LEMMA PipeParts ==
    ASSUME Base
    PROVE  /\ wire \in Seq(Messages) /\ queue \in Seq(Messages)
           /\ publisher.initial \in Seq(Messages)
           /\ queue \o publisher.initial \in Seq(Messages)
           /\ Pipe = wire \o (queue \o publisher.initial)
<1>1. /\ wire \in Seq(SentBy(epochs)) /\ queue \in Seq(SentBy(epochs))
      /\ publisher.initial \in Seq(SentBy(epochs))
      /\ Pipe = wire \o (queue \o publisher.initial)
  BY PipeTyped
<1>2. \A s \in Seq(SentBy(epochs)) : s \in Seq(Messages)
  BY SentMonotonic DEF Base, PublisherOK
<1>3. /\ wire \in Seq(Messages) /\ queue \in Seq(Messages)
      /\ publisher.initial \in Seq(Messages)
  BY <1>1, <1>2
<1>4. queue \o publisher.initial \in Seq(Messages)
  BY ONLY <1>3, ConcatProperties
<1>. QED
  BY <1>1, <1>3, <1>4

\* All that is left goes to the queue.
LEMMA EmptiedPipe ==
    ASSUME Base, publisher'.initial = <<>>, wire' = wire,
           queue' = queue \o publisher.initial
    PROVE  Pipe' = Pipe
<1>1. PICK w, x : w = wire /\ x = queue \o publisher.initial
  OBVIOUS
<1>2. w \in Seq(Messages) /\ x \in Seq(Messages) /\ Pipe = w \o x
  BY <1>1, PipeParts
<1>3. Pipe' = w \o x \o <<>>
  BY <1>1 DEF Pipe
<1>4. w \o x \in Seq(Messages)
  BY ONLY <1>2, ConcatProperties
<1>5. w \o x \o <<>> = w \o x
  BY ONLY <1>4, ConcatEmptySeq
<1>. QED
  BY <1>2, <1>3, <1>5

\* And one message more.
LEMMA ExtendedPipe ==
    ASSUME Base, publisher'.initial = <<>>, wire' = wire, NEW m \in Messages,
           queue' = Append(queue \o publisher.initial, m)
    PROVE  Pipe' = Append(Pipe, m)
<1>1. PICK w, x : w = wire /\ x = queue \o publisher.initial
  OBVIOUS
<1>2. w \in Seq(Messages) /\ x \in Seq(Messages) /\ Pipe = w \o x
  BY <1>1, PipeParts
<1>3. Pipe' = w \o Append(x, m) \o <<>>
  BY <1>1 DEF Pipe
<1>4. w \o x \in Seq(Messages) /\ <<m>> \in Seq(Messages)
  <2>1. w \o x \in Seq(Messages)
    BY ONLY <1>2, ConcatProperties
  <2>2. <<m>> \in Seq(Messages)
    OBVIOUS
  <2>. QED
    BY <2>1, <2>2
<1>5. Append(x, m) = x \o <<m>> /\ Append(w \o x, m) = w \o x \o <<m>>
  BY ONLY <1>2, <1>4, m \in Messages, AppendIsConcat
<1>6. w \o (x \o <<m>>) = w \o x \o <<m>>
  BY ONLY <1>2, <1>4, ConcatAssociative
<1>7. w \o x \o <<m>> \in Seq(Messages)
  BY ONLY <1>4, ConcatProperties
<1>8. w \o x \o <<m>> \o <<>> = w \o x \o <<m>>
  BY ONLY <1>7, ConcatEmptySeq
<1>. QED
  BY ONLY <1>2, <1>3, <1>5, <1>6, <1>8

\* The publisher ends the epoch, or keeps its place in it.
LEMMA StreamKept ==
    ASSUME NEW origin, Streamed(origin),
           UNCHANGED <<ingress, raw>>, Pipe' = Pipe,
           \/ publisher'.epoch = 0
           \/ /\ publisher'.epoch = publisher.epoch /\ publisher'.sequence = publisher.sequence
              /\ publisher'.aircraft = publisher.aircraft
    PROVE  Streamed(origin)'
<1>1. CASE publisher'.epoch = 0
  BY <1>1 DEF Streamed
<1>2. CASE /\ publisher'.epoch = publisher.epoch /\ publisher'.sequence = publisher.sequence
           /\ publisher'.aircraft = publisher.aircraft
  BY <1>2 DEF Streamed
<1>. QED
  BY <1>1, <1>2

LEMMA StreamCut ==
    ASSUME Base, NEW origin, Streamed(origin),
           UNCHANGED <<ingress, raw>>, Pipe' = wire \o queue, publisher'.epoch = 0
    PROVE  Streamed(origin)'
<1>1. PICK P, r : P = wire \o queue /\ r = publisher.initial
  OBVIOUS
<1>2. P \in Seq(Messages) /\ r \in Seq(Messages) /\ Pipe = P \o r /\ Pipe' = P
  BY <1>1, PipeMessages DEF Pipe
<1>3. Sound(P \o r, ingress.epoch, ingress.next, origin)
  BY <1>2 DEF Streamed
<1>4. Sound(P, ingress.epoch, ingress.next, origin)
  BY ONLY <1>2, <1>3, SoundPrefix
<1>. QED
  BY <1>2, <1>4 DEF Streamed

LEMMA NothingStreamed ==
    ASSUME NEW origin, publisher = Reset, wire = <<>>, queue = <<>>,
           ingress = NewIngress, raw = Empty
    PROVE  Streamed(origin)
<1>1. Pipe = <<>>
  <2>1. Pipe = <<>> \o <<>> \o <<>>
    BY DEF Pipe, Reset
  <2>. QED
    BY <2>1
<1>2. Sound(<<>>, ingress.epoch, ingress.next, origin)
  BY DEF Sound
<1>. QED
  BY <1>1, <1>2 DEF Streamed, NewIngress, Reset

\* A new epoch adds its first messages, with an origin of its own.
LEMMA StreamEpoch ==
    ASSUME Base, NEW origin \in [1..epochs -> Origins], Streamed(origin),
           NEW a \in Slots, NEW values \in Shown,
           a # NoAircraft => DOMAIN values \subseteq Definitions[a],
           BeginEpoch(a, values), current_aircraft' = a,
           UNCHANGED <<ingress, raw, wire, queue>>
    PROVE  \E other \in [1..epochs' -> Origins] : Streamed(other)'
<1>1. /\ a = NoAircraft => publisher' = Reset /\ epochs' = epochs
      /\ a # NoAircraft =>
            /\ epochs' = epochs + 1 /\ publisher'.epoch = epochs + 1
            /\ publisher'.aircraft = a
            /\ publisher'.initial = Initial(epochs + 1, a, values)
            /\ publisher'.sequence = Len(Initial(epochs + 1, a, values))
  BY EpochBegun DEF Base
<1>2. PICK P : P = wire \o queue
  OBVIOUS
<1>3. /\ P \in Seq(Messages) /\ publisher.initial \in Seq(Messages) /\ epochs \in Nat
      /\ ingress \in IngressType(epochs)
  BY <1>2, PipeMessages
<1>4. P \in Seq(SentBy(epochs))
  BY <1>2, PipeTyped
<1>5. Pipe' = P \o publisher'.initial
  BY <1>2 DEF Pipe
<1>6. CASE a = NoAircraft
  <2>1. publisher'.epoch = 0 /\ publisher'.initial = <<>> /\ epochs' = epochs
    BY <1>1, <1>6 DEF Reset
  <2>2. P \o <<>> = P
    BY ONLY <1>3, ConcatEmptySeq
  <2>3. Streamed(origin)'
    BY <1>2, <1>5, <2>1, <2>2, StreamCut
  <2>. QED
    BY <2>1, <2>3
<1>7. CASE a # NoAircraft
  <2>1. a \in Aircraft
    BY <1>7 DEF Slots
  <2>2. PICK o \in Origins : o = [aircraft |-> a, values |-> values]
    BY <1>7, <2>1 DEF Origins
  <2>3. PICK other : other = [e \in 1..(epochs + 1) |-> IF e = epochs + 1 THEN o ELSE origin[e]]
    OBVIOUS
  <2>4. /\ other \in [1..epochs' -> Origins] /\ \A k \in 1..epochs : other[k] = origin[k]
        /\ other[epochs + 1] = o
    <3>1. epochs + 1 \in 1..(epochs + 1) /\ \A k \in 1..epochs : k \in 1..(epochs + 1) /\ k # epochs + 1
      BY <1>3
    <3>2. \A e \in 1..(epochs + 1) : e # epochs + 1 => e \in 1..epochs
      BY <1>3
    <3>. QED
      BY <1>1, <1>7, <2>3, <3>1, <3>2
  <2>5. Sound(P, ingress.epoch, ingress.next, other)
    <3>1. Sound(P \o publisher.initial, ingress.epoch, ingress.next, origin)
      BY <1>2 DEF Streamed, Pipe
    <3>2. Sound(P, ingress.epoch, ingress.next, origin)
      BY ONLY <1>3, <3>1, SoundPrefix
    <3>. QED
      BY <1>3, <1>4, <2>4, <3>2, SoundKept
  <2>6. EpochAfter(P, ingress.epoch) \in Nat /\ EpochAfter(P, ingress.epoch) < epochs + 1
    <3>1. CASE P = <<>>
      BY <1>3, <3>1 DEF EpochAfter, IngressType
    <3>2. CASE P # <<>>
      <4>1. Len(P) \in 1..Len(P)
        BY <1>3, <3>2, EmptySeq
      <4>2. P[Len(P)] \in SentBy(epochs)
        BY <1>4, <4>1
      <4>3. P[Len(P)].epoch \in 1..epochs
        BY <4>2 DEF SentBy
      <4>. QED
        BY <1>3, <3>2, <4>3 DEF EpochAfter
    <3>. QED
      BY <3>1, <3>2
  <2>7. PICK Q, before, next :
          /\ Q \in Seq(Messages) /\ before \in Nat
          /\ Q = Initial(epochs + 1, a, values) /\ before = EpochAfter(P, ingress.epoch)
          /\ next = NextAfter(P, ingress.next)
    <3>1. epochs + 1 \in Nat
      BY <1>3
    <3>. QED
      BY <2>1, <2>6, <3>1, InitialShape
  <2>8. /\ Sound(Q, before, next, other) /\ Q # <<>>
        /\ EpochAfter(Q, before) = epochs + 1 /\ NextAfter(Q, next) = Len(Q)
    <3>1. epochs + 1 \in Nat /\ before < epochs + 1 /\ other[epochs + 1] = [aircraft |-> a, values |-> values]
      BY <1>3, <2>2, <2>4, <2>6, <2>7
    <3>. QED
      BY <2>1, <2>7, <3>1, SoundInitial
  <2>9. Q[Len(Q)].epoch = epochs + 1 /\ Q[Len(Q)].sequence + 1 = Len(Q)
    BY <2>8 DEF EpochAfter, NextAfter
  <2>10. /\ Sound(P \o Q, ingress.epoch, ingress.next, other)
         /\ EpochAfter(P \o Q, ingress.epoch) = epochs + 1
         /\ NextAfter(P \o Q, ingress.next) = Len(Q)
    BY <1>3, <2>5, <2>7, <2>8, <2>9, SoundConcat
  <2>11. Pipe' = P \o Q /\ publisher'.sequence = Len(Q)
    BY <1>1, <1>5, <1>7, <2>7
  <2>12. Len(Q) = Opening(o)
    <3>1. epochs + 1 \in Nat
      BY <1>3
    <3>. QED
      BY <2>1, <2>2, <2>7, <3>1, InitialShape DEF Opening
  <2>13. Len(Q) >= Opening(o)
    BY <2>7, <2>12
  <2>14. ingress.epoch # 0 => other[ingress.epoch] = origin[ingress.epoch]
    BY <1>3, <2>4 DEF IngressType
  <2>15. o.aircraft = a
    BY <2>2
  <2>16. Streamed(other)'
    BY <1>1, <1>7, <2>4, <2>10, <2>11, <2>13, <2>14, <2>15 DEF Streamed
  <2>. QED
    BY <2>4, <2>16
<1>. QED
  BY <1>6, <1>7

LEMMA FlushDeltaStream ==
    ASSUME Base, NEW origin \in [1..epochs -> Origins], Streamed(origin),
           NEW due \in BOOLEAN, FlushDelta(due)
    PROVE  Streamed(origin)'
<1>1. PICK fresh, all : /\ fresh = IF due THEN Active(bytes, current_aircraft) ELSE Empty
                        /\ all = QueueAll(publisher.pending, fresh)
  OBVIOUS
<1>2. /\ publisher.epoch # 0 /\ Orderly(all)
      /\ \A i \in 1..Len(all) : all[i].control \in Definitions[current_aircraft]
      /\ \/ /\ queue' = queue \o publisher.initial
            /\ publisher' = Flushed(<<>>, publisher.sequence, all)
         \/ /\ queue' = Append(queue \o publisher.initial, Delta(all))
            /\ publisher' = Flushed(<<>>, publisher.sequence + 1, Behead(all))
      /\ UNCHANGED <<epochs, linkVars, cloudVars>>
  BY <1>1, FlushDeltaStep
<1>3. UNCHANGED <<wire, ingress, raw, epochs>>
  BY <1>2 DEF linkVars, cloudVars
<1>4. CASE /\ queue' = queue \o publisher.initial
           /\ publisher' = Flushed(<<>>, publisher.sequence, all)
  <2>1. /\ publisher'.epoch = publisher.epoch /\ publisher'.sequence = publisher.sequence
        /\ publisher'.aircraft = publisher.aircraft /\ publisher'.initial = <<>>
    BY <1>4 DEF Flushed
  <2>2. Pipe' = Pipe
    BY <1>3, <1>4, <2>1, EmptiedPipe
  <2>. QED
    BY <1>3, <2>1, <2>2, StreamKept
<1>5. CASE /\ queue' = Append(queue \o publisher.initial, Delta(all))
           /\ publisher' = Flushed(<<>>, publisher.sequence + 1, Behead(all))
  <2>1. /\ publisher'.epoch = publisher.epoch /\ publisher'.sequence = publisher.sequence + 1
        /\ publisher'.aircraft = publisher.aircraft /\ publisher'.initial = <<>>
    BY <1>5 DEF Flushed
  <2>2. PublisherOK
    BY DEF Base
  <2>3. PICK m \in SentBy(epochs) :
          /\ m = Delta(all) /\ m.kind = "delta" /\ m.epoch = publisher.epoch
          /\ m.sequence = publisher.sequence /\ m.aircraft = publisher.aircraft
          /\ m.values = Heads(all)
    BY <1>2, <2>2, DeltaTyped
  <2>4. m \in Messages
    BY DEF SentBy
  <2>5. Pipe' = Append(Pipe, m)
    BY <1>3, <1>5, <2>1, <2>3, <2>4, ExtendedPipe
  <2>6. DOMAIN m.values \subseteq Definitions[publisher.aircraft]
    <3>1. \A c \in DOMAIN Heads(all) : \E i \in 1..Len(all) : all[i].control = c
      BY <1>2, Beheaded
    <3>2. publisher.aircraft = current_aircraft
      BY <1>2, <2>2 DEF PublisherOK
    <3>. QED
      BY <1>2, <2>3, <3>1, <3>2
  <2>7. /\ Sound(Pipe, ingress.epoch, ingress.next, origin)
        /\ EpochAfter(Pipe, ingress.epoch) = publisher.epoch
        /\ NextAfter(Pipe, ingress.next) = publisher.sequence
        /\ origin[publisher.epoch].aircraft = publisher.aircraft
        /\ publisher.sequence >= Opening(origin[publisher.epoch])
    BY <1>2 DEF Streamed
  <2>8. Legit(m, origin[m.epoch])
    BY <2>3, <2>6, <2>7 DEF Legit
  <2>9. Follows(m, EpochAfter(Pipe, ingress.epoch), NextAfter(Pipe, ingress.next))
    BY <2>3, <2>7 DEF Follows
  <2>10. /\ Sound(Append(Pipe, m), ingress.epoch, ingress.next, origin)
         /\ EpochAfter(Append(Pipe, m), ingress.epoch) = m.epoch
         /\ NextAfter(Append(Pipe, m), ingress.next) = m.sequence + 1
    <3>1. Pipe \in Seq(Messages)
      BY PipeMessages
    <3>. QED
      BY <2>4, <2>7, <2>8, <2>9, <3>1, SoundAppend
  <2>11. publisher.sequence + 1 >= Opening(origin[publisher.epoch])
    <3>1. publisher.sequence \in Nat /\ publisher.epoch \in 1..epochs /\ epochs \in Nat
      BY <1>2, PipeMessages
    <3>2. PICK o \in Origins : o = origin[publisher.epoch]
      BY <3>1
    <3>3. Opening(o) \in Nat
      BY OriginShape DEF Opening
    <3>. QED
      BY <2>7, <3>1, <3>2, <3>3
  <2>. QED
    BY <1>3, <2>1, <2>3, <2>5, <2>7, <2>10, <2>11 DEF Streamed
<1>. QED
  BY <1>2, <1>4, <1>5

LEMMA StreamInit ==
    ASSUME Init
    PROVE  StreamOK
<1>1. epochs = 0 /\ link = "down"
  BY DEF Init
<1>2. PICK origin : origin = [e \in 1..0 |-> CHOOSE o : o \in Origins]
  OBVIOUS
<1>3. 1..0 = {}
  OBVIOUS
<1>4. origin \in [1..0 -> Origins]
  BY <1>2, <1>3
<1>. QED
  BY <1>1, <1>4 DEF StreamOK

\* A frame either begins an epoch or leaves the publisher's place alone.
LEMMA FrameStream ==
    ASSUME Base, NEW origin \in [1..epochs -> Origins], Streamed(origin), Frame
    PROVE  \E other \in [1..epochs' -> Origins] : Streamed(other)'
<1>1. PICK r : r = FrameResult(link # "down")
  OBVIOUS
<1>2. /\ current_aircraft' = name
      /\ UNCHANGED <<linkVars, queue, cloudVars, refreshes>>
      /\ \/ r.news /\ link # "down" /\ BeginEpoch(name, Active(r.bytes, name))
         \/ publisher.epoch = 0 /\ UNCHANGED <<publisher, epochs>>
         \/ /\ publisher.epoch # 0 /\ ~r.news /\ link # "down"
            /\ publisher' = [publisher EXCEPT !.pending = QueueAll(@, r.changes)]
            /\ UNCHANGED <<epochs, current_aircraft>>
            /\ r.changes \in Shown
            /\ DOMAIN r.changes \subseteq Definitions[current_aircraft]
  BY <1>1, FrameStep
<1>3. UNCHANGED <<wire, queue, ingress, raw>>
  BY <1>2 DEF linkVars, cloudVars
<1>4. BiosTypeOK /\ Decoded /\ (link # "down") \in BOOLEAN /\ PublisherOK
  BY DEF Base, CockpitOK
<1>5. r.bytes \in Shown /\ name \in Slots
  BY <1>1, <1>4, FrameOutcome DEF BiosTypeOK
<1>6. CASE r.news /\ link # "down" /\ BeginEpoch(name, Active(r.bytes, name))
  <2>1. PICK values \in Shown : values = Active(r.bytes, name)
    BY <1>5, ActiveShown
  <2>2. name # NoAircraft => DOMAIN values \subseteq Definitions[name]
    BY <1>5, <2>1, ActiveDefined DEF Slots
  <2>3. BeginEpoch(name, values)
    BY <1>6, <2>1
  <2>4. PICK a \in Slots : a = name
    BY <1>5
  <2>5. /\ a # NoAircraft => DOMAIN values \subseteq Definitions[a]
        /\ BeginEpoch(a, values) /\ current_aircraft' = a
    BY <1>2, <2>2, <2>3, <2>4
  <2>. QED
    BY <1>3, <2>5, StreamEpoch
<1>7. CASE publisher.epoch = 0 /\ UNCHANGED <<publisher, epochs>>
  <2>1. Pipe' = Pipe
    BY <1>3, <1>7 DEF Pipe
  <2>2. Streamed(origin)'
    BY <1>3, <1>7, <2>1, StreamKept
  <2>. QED
    BY <1>7, <2>2
<1>8. CASE /\ publisher.epoch # 0 /\ ~r.news /\ link # "down"
           /\ publisher' = [publisher EXCEPT !.pending = QueueAll(@, r.changes)]
           /\ UNCHANGED <<epochs, current_aircraft>>
           /\ r.changes \in Shown
           /\ DOMAIN r.changes \subseteq Definitions[current_aircraft]
  <2>1. PICK changes \in Shown : changes = r.changes
    BY <1>8
  <2>2. /\ publisher' = [publisher EXCEPT !.pending = QueueAll(@, changes)]
        /\ DOMAIN changes \subseteq Definitions[current_aircraft]
    BY <1>8, <2>1
  <2>3. /\ publisher'.epoch = publisher.epoch /\ publisher'.initial = publisher.initial
        /\ publisher'.sequence = publisher.sequence
        /\ publisher'.aircraft = publisher.aircraft
    BY <1>4, <1>8, <2>2, ChangesQueued
  <2>4. Pipe' = Pipe
    BY <1>3, <2>3 DEF Pipe
  <2>5. Streamed(origin)'
    BY <1>3, <2>3, <2>4, StreamKept
  <2>. QED
    BY <1>8, <2>5
<1>. QED
  BY <1>2, <1>6, <1>7, <1>8

LEMMA ConnectStream ==
    ASSUME Base, NEW origin \in [1..epochs -> Origins], Connect
    PROVE  \E other \in [1..epochs' -> Origins] : Streamed(other)'
<1>1. /\ publisher = Reset /\ queue = <<>> /\ wire = <<>>
      /\ ingress = NewIngress /\ raw = Empty
      /\ BeginEpoch(current_aircraft, Active(bytes, current_aircraft))
      /\ current_aircraft' = current_aircraft /\ current_aircraft \in Slots
      /\ Active(bytes, current_aircraft) \in Shown
      /\ UNCHANGED <<queue, wire, cloudVars>>
  BY ConnectStep
<1>2. PICK a \in Slots, values \in Shown :
        a = current_aircraft /\ values = Active(bytes, current_aircraft)
  BY <1>1
<1>3. a # NoAircraft => DOMAIN values \subseteq Definitions[a]
  <2>1. bytes \in Shown
    BY DEF Base, CockpitOK, BiosTypeOK
  <2>. QED
    BY <1>2, <2>1, ActiveDefined DEF Slots
<1>4. Streamed(origin)
  BY <1>1, NothingStreamed
<1>5. BeginEpoch(a, values) /\ current_aircraft' = a /\ UNCHANGED <<ingress, raw, wire, queue>>
  BY <1>1, <1>2 DEF cloudVars
<1>. QED
  BY <1>3, <1>4, <1>5, StreamEpoch

LEMMA StreamStep ==
    ASSUME Base, StreamOK, [Next]_vars
    PROVE  StreamOK'
<1>1. PICK origin \in [1..epochs -> Origins] : link = "up" => Streamed(origin)
  BY DEF StreamOK
<1>2. ASSUME UNCHANGED <<link, epochs, ingress, raw>>, Streamed(origin) => Streamed(origin)'
      PROVE  StreamOK'
  BY <1>1, <1>2 DEF StreamOK
<1>3. ASSUME \E other \in [1..epochs' -> Origins] : Streamed(other)'
      PROVE  StreamOK'
  BY <1>3 DEF StreamOK
<1>4. ASSUME link' # "up", UNCHANGED epochs
      PROVE  StreamOK'
  BY <1>1, <1>4 DEF StreamOK
<1>5. ASSUME UNCHANGED <<link, epochs, ingress, raw, wire, queue, publisher>>
      PROVE  StreamOK'
  <2>1. Pipe' = Pipe
    BY <1>5 DEF Pipe
  <2>2. Streamed(origin) => Streamed(origin)'
    BY <1>5, <2>1, StreamKept
  <2>. QED
    BY <1>2, <1>5, <2>2
<1>6. CASE UNCHANGED vars \/ Export \/ Malformed
  <2>1. UNCHANGED <<link, epochs, ingress, raw, wire, queue, publisher>>
    BY <1>6 DEF vars, Export, Malformed, linkVars, cloudVars
  <2>. QED
    BY <1>5, <2>1
<1>7. CASE Frame
  <2>1. CASE link = "up"
    BY <1>1, <1>3, <1>7, <2>1, FrameStream
  <2>2. CASE link # "up"
    <3>1. link' # "up"
      BY <1>7, <2>2, FrameStep DEF linkVars
    <3>2. \E other \in [1..epochs' -> Origins] : TRUE
      <4>1. PICK r : r = FrameResult(link # "down")
        OBVIOUS
      <4>2. /\ current_aircraft' = name
            /\ \/ r.news /\ link # "down" /\ BeginEpoch(name, Active(r.bytes, name))
               \/ UNCHANGED epochs
        BY <1>7, <4>1, FrameStep
      <4>3. CASE UNCHANGED epochs
        BY <4>3
      <4>4. CASE BeginEpoch(name, Active(r.bytes, name))
        <5>1. BiosTypeOK /\ Decoded /\ (link # "down") \in BOOLEAN /\ PublisherOK
          BY DEF Base, CockpitOK
        <5>2. r.bytes \in Shown /\ name \in Slots
          BY <4>1, <5>1, FrameOutcome DEF BiosTypeOK
        <5>3. PICK values \in Shown : values = Active(r.bytes, name)
          BY <5>2, ActiveShown
        <5>4. CASE name = NoAircraft
          BY <4>4, <5>4 DEF BeginEpoch
        <5>5. CASE name # NoAircraft
          <6>1. PICK a \in Aircraft : a = name
            BY <5>2, <5>5 DEF Slots
          <6>2. DOMAIN values \subseteq Definitions[a]
            BY <5>2, <5>3, <6>1, ActiveDefined
          <6>3. [aircraft |-> a, values |-> values] \in Origins
            BY <6>2 DEF Origins
          <6>4. [e \in 1..epochs' |-> [aircraft |-> a, values |-> values]] \in [1..epochs' -> Origins]
            BY <6>3
          <6>. QED
            BY <6>4
        <5>. QED
          BY <5>4, <5>5
      <4>. QED
        BY <4>2, <4>3, <4>4
    <3>. QED
      BY <3>1, <3>2 DEF StreamOK
  <2>. QED
    BY <2>1, <2>2
<1>8. CASE DcsLost
  <2>1. publisher' = Reset /\ UNCHANGED <<epochs, link, wire, queue, ingress, raw>>
    BY <1>8 DEF DcsLost, linkVars, cloudVars
  <2>2. publisher'.epoch = 0 /\ Pipe' = wire \o queue
    <3>1. publisher'.epoch = 0 /\ publisher'.initial = <<>>
      BY <2>1 DEF Reset
    <3>2. Pipe' = wire \o queue \o <<>>
      BY <2>1, <3>1 DEF Pipe
    <3>3. wire \o queue \in Seq(Messages)
      BY PipeMessages
    <3>4. wire \o queue \o <<>> = wire \o queue
      BY ONLY <3>3, ConcatEmptySeq
    <3>. QED
      BY <3>1, <3>2, <3>4
  <2>3. Streamed(origin) => Streamed(origin)'
    BY <2>1, <2>2, StreamCut
  <2>. QED
    BY <1>2, <2>1, <2>3
<1>9. CASE FlushInitial
  <2>1. /\ publisher'.epoch = publisher.epoch /\ publisher'.sequence = publisher.sequence
        /\ publisher'.aircraft = publisher.aircraft
        /\ UNCHANGED <<epochs, link, ingress, raw>>
    BY <1>9, FlushInitialStep DEF Flushed, linkVars, cloudVars
  <2>2. Pipe' = Pipe
    BY <1>9, FlushInitialPipe
  <2>3. Streamed(origin) => Streamed(origin)'
    BY <2>1, <2>2, StreamKept
  <2>. QED
    BY <1>2, <2>1, <2>3
<1>10. CASE \E due \in BOOLEAN : FlushDelta(due)
  <2>1. PICK due \in BOOLEAN : FlushDelta(due)
    BY <1>10
  <2>2. UNCHANGED <<epochs, link, ingress, raw>>
    BY <2>1 DEF FlushDelta, linkVars, cloudVars
  <2>3. Streamed(origin) => Streamed(origin)'
    BY <2>1, FlushDeltaStream
  <2>. QED
    BY <1>2, <2>2, <2>3
<1>11. CASE FlushLost
  <2>1. /\ publisher' = Reset /\ queue' = queue \o publisher.initial
        /\ UNCHANGED <<epochs, link, wire, ingress, raw>>
    BY <1>11, FlushLostStep DEF linkVars, cloudVars
  <2>2. publisher'.epoch = 0 /\ publisher'.initial = <<>>
    BY <2>1 DEF Reset
  <2>3. Pipe' = Pipe
    BY <2>1, <2>2, EmptiedPipe
  <2>4. Streamed(origin) => Streamed(origin)'
    BY <2>1, <2>2, <2>3, StreamKept
  <2>. QED
    BY <1>2, <2>1, <2>4
<1>12. CASE Connect
  BY <1>3, <1>12, ConnectStream
<1>13. CASE Transmit
  <2>1. UNCHANGED <<publisher, epochs, link, ingress, raw>>
    BY <1>13, TransmitStep DEF cloudVars
  <2>2. Pipe' = Pipe
    BY <1>13, TransmitPipe
  <2>3. Streamed(origin) => Streamed(origin)'
    BY <2>1, <2>2, StreamKept
  <2>. QED
    BY <1>2, <2>1, <2>3
<1>14. CASE Break \/ Disconnect
  <2>1. link' # "up" /\ UNCHANGED epochs
    BY <1>14 DEF Break, Disconnect
  <2>. QED
    BY <1>4, <2>1
<1>15. CASE Receive
  <2>1. link = "up" /\ UNCHANGED epochs
    BY <1>15 DEF Receive, Base, LinkOK
  <2>2. Streamed(origin)'
    BY <1>1, <1>15, <2>1, ReceiveStream
  <2>. QED
    BY <2>1, <2>2 DEF StreamOK
<1>. QED
  BY <1>6, <1>7, <1>8, <1>9, <1>10, <1>11, <1>12, <1>13, <1>14, <1>15 DEF Next

LEMMA StreamHolds == Spec => [](Base /\ StreamOK)
<1>1. Init => Base /\ StreamOK
  BY BaseInit, StreamInit
<1>2. Base /\ StreamOK /\ [Next]_vars => (Base /\ StreamOK)'
  BY BaseStep, StreamStep
<1>. QED
  BY <1>1, <1>2, PTL DEF Spec

\* The client sends a contiguous stream: whatever frames, flushes, refreshes,
\* new slots and reconnects do, the gateway's TelemetryIngress accepts every
\* message that reaches it.
THEOREM EverythingAccepted == Spec => []NothingRefused
<1>1. ASSUME Base, StreamOK
      PROVE  NothingRefused
  <2>1. SUFFICES ASSUME link = "up", wire # <<>>
                 PROVE  Acceptable(Head(wire))
    BY DEF NothingRefused
  <2>2. PICK origin \in [1..epochs -> Origins] : Streamed(origin)
    BY <1>1, <2>1 DEF StreamOK
  <2>. QED
    BY <1>1, <2>1, <2>2, HeadAccepted
<1>. QED
  BY <1>1, StreamHolds, PTL

\* The raw store shows nothing before the snapshot of an epoch is complete and
\* never a control outside the catalog of the slot.
THEOREM SlotsSeparate == Spec => []SlotsAreSeparate
<1>1. ASSUME Base, StreamOK
      PROVE  SlotsAreSeparate
  <2>1. CASE link # "up" \/ ingress.epoch = 0
    <3>1. raw = Empty
      <4>1. CASE link # "up"
        BY <1>1, <4>1 DEF Base, LinkOK
      <4>2. CASE link = "up" /\ ingress.epoch = 0
        BY <1>1, <4>2 DEF StreamOK, Streamed
      <4>. QED
        BY <2>1, <4>1, <4>2
    <3>. QED
      BY <3>1, EmptyShown DEF SlotsAreSeparate
  <2>2. CASE link = "up" /\ ingress.epoch # 0
    <3>1. PICK origin \in [1..epochs -> Origins] : Streamed(origin)
      BY <1>1, <2>2 DEF StreamOK
    <3>2. ingress \in IngressType(epochs) /\ epochs \in Nat
      BY <1>1, PipeMessages
    <3>3. PICK o \in Origins : o = origin[ingress.epoch]
      BY <2>2, <3>2 DEF IngressType
    <3>4. Assembled(ingress, raw, o)
      BY <2>2, <3>1, <3>3 DEF Streamed
    <3>5. PICK C, K, N : C = Catalogs(o.aircraft) /\ K = Len(C) /\ N = Len(Snapshots(o.values))
      OBVIOUS
    <3>6. /\ K \in Nat \ {0} /\ N \in Nat \ {0} /\ Definitions[o.aircraft] \in SUBSET Controls
          /\ \A c \in Definitions[o.aircraft] : \E j \in 1..K : c \in C[j]
      BY <3>5, OriginShape
    <3>7. /\ ingress.catalogs = IF ingress.next <= K THEN ingress.next ELSE K
          /\ ingress.ready <=> ingress.next >= K + N
          /\ \A c \in Controls :
                c \in ingress.catalog <=> \E j \in 1..ingress.catalogs : c \in C[j]
          /\ DOMAIN raw \subseteq Definitions[o.aircraft]
          /\ raw # Empty => ingress.ready
      BY <3>4, <3>5 DEF Assembled
    <3>8. raw # Empty => DOMAIN raw \subseteq ingress.catalog
      <4>1. SUFFICES ASSUME raw # Empty PROVE DOMAIN raw \subseteq ingress.catalog
        OBVIOUS
      <4>2. ingress.next \in Nat /\ ingress.next >= K + N
        BY <3>2, <3>7, <4>1 DEF IngressType
      <4>3. ingress.next <= K => ingress.next = K
        BY <3>6, <4>2
      <4>4. ingress.catalogs = K
        BY <3>7, <4>3
      <4>. QED
        BY <3>6, <3>7, <4>4
    <3>. QED
      BY <3>7, <3>8, EmptyShown DEF SlotsAreSeparate
  <2>. QED
    BY <2>1, <2>2
<1>. QED
  BY <1>1, StreamHolds, PTL

-----------------------------------------------------------------------------
(* What the gateway will hear of a control.                                *)

LEMMA LastOfConcat ==
    ASSUME NEW S, NEW s \in Seq(S), NEW t \in Seq(S), t # <<>>
    PROVE  s \o t # <<>> /\ Last(s \o t) = Last(t)
<1>1. PICK u \in Seq(S) : u = s \o t
  BY ConcatProperties
<1>2. Len(s) \in Nat /\ Len(t) \in Nat /\ Len(u) = Len(s) + Len(t)
  BY <1>1
<1>3. Len(t) # 0
  BY EmptySeq
<1>4. Len(t) \in 1..Len(t) /\ Len(u) # 0
  BY <1>2, <1>3
<1>5. u[Len(s) + Len(t)] = t[Len(t)]
  BY <1>1, <1>2, <1>4
<1>. QED
  BY <1>1, <1>2, <1>4, <1>5 DEF Last

LEMMA FrontOfAppend ==
    ASSUME NEW S, NEW s \in Seq(S), NEW v \in S
    PROVE  /\ Append(s, v) # <<>> /\ Front(Append(s, v)) = s /\ Last(Append(s, v)) = v
<1>1. PICK u \in Seq(S) : u = Append(s, v)
  BY AppendProperties
<1>2. /\ Len(s) \in Nat /\ Len(u) = Len(s) + 1 /\ u[Len(s) + 1] = v
      /\ \A i \in 1..Len(s) : u[i] = s[i]
  BY <1>1
<1>3. u # <<>> /\ Last(u) = v
  BY <1>2 DEF Last
<1>4. Front(u) = s
  <2>1. Front(u) = SubSeq(u, 1, Len(s))
    BY <1>2 DEF Front
  <2>2. /\ SubSeq(u, 1, Len(s)) \in Seq(S) /\ Len(SubSeq(u, 1, Len(s))) = Len(s)
        /\ \A i \in 1..Len(s) : SubSeq(u, 1, Len(s))[i] = u[i]
    BY <1>2
  <2>3. \A i \in 1..Len(s) : SubSeq(u, 1, Len(s))[i] = s[i]
    BY <1>2, <2>2
  <2>. QED
    BY <2>1, <2>2, <2>3, SeqEqual
<1>. QED
  BY <1>1, <1>3, <1>4

LEMMA SameFront ==
    ASSUME NEW S, NEW s \in Seq(S), NEW t \in Seq(S), Len(s) = Len(t), Len(s) # 0,
           \A i \in 1..(Len(s) - 1) : s[i] = t[i]
    PROVE  Front(s) = Front(t)
<1>1. Len(s) - 1 \in Nat /\ Len(s) - 1 <= Len(s)
  OBVIOUS
<1>2. PICK n : n = Len(s) - 1
  OBVIOUS
<1>3. /\ n \in Nat /\ n <= Len(s) /\ n <= Len(t)
      /\ Front(s) = SubSeq(s, 1, n) /\ Front(t) = SubSeq(t, 1, n)
  BY <1>1, <1>2 DEF Front
<1>4. /\ SubSeq(s, 1, n) \in Seq(S) /\ Len(SubSeq(s, 1, n)) = n
      /\ \A i \in 1..n : SubSeq(s, 1, n)[i] = s[i]
  BY <1>3
<1>5. /\ SubSeq(t, 1, n) \in Seq(S) /\ Len(SubSeq(t, 1, n)) = n
      /\ \A i \in 1..n : SubSeq(t, 1, n)[i] = t[i]
  BY <1>3
<1>6. \A i \in 1..n : SubSeq(s, 1, n)[i] = SubSeq(t, 1, n)[i]
  BY <1>2, <1>4, <1>5
<1>. QED
  BY <1>3, <1>4, <1>5, <1>6, SeqEqual

\* The last value that is overwritten.
LEMMA ConcatReplaced ==
    ASSUME NEW S, NEW s \in Seq(S), NEW t \in Seq(S), NEW u \in Seq(S),
           Len(t) = Len(u), Len(t) # 0, \A i \in 1..(Len(t) - 1) : t[i] = u[i]
    PROVE  Replaced(s \o t, s \o u)
<1>1. PICK p \in Seq(S), q \in Seq(S) : p = s \o t /\ q = s \o u
  BY ConcatProperties
<1>2. /\ Len(p) = Len(s) + Len(t) /\ Len(q) = Len(s) + Len(u)
      /\ Len(s) \in Nat /\ Len(t) \in Nat
      /\ \A i \in 1..(Len(s) + Len(t)) : p[i] = IF i <= Len(s) THEN s[i] ELSE t[i - Len(s)]
  <2>1. Len(s) \in Nat /\ Len(t) \in Nat
    OBVIOUS
  <2>2. /\ Len(p) = Len(s) + Len(t)
        /\ \A i \in 1..(Len(s) + Len(t)) : p[i] = IF i <= Len(s) THEN s[i] ELSE t[i - Len(s)]
    BY ONLY <1>1, s \in Seq(S), t \in Seq(S), ConcatProperties
  <2>3. Len(q) = Len(s) + Len(u)
    BY ONLY <1>1, s \in Seq(S), u \in Seq(S), ConcatProperties
  <2>. QED
    BY <2>1, <2>2, <2>3
<1>3. \A i \in 1..(Len(s) + Len(u)) : q[i] = IF i <= Len(s) THEN s[i] ELSE u[i - Len(s)]
  BY ONLY <1>1, s \in Seq(S), u \in Seq(S), ConcatProperties
<1>4. ASSUME NEW i \in 1..(Len(p) - 1)
      PROVE  p[i] = q[i]
  <2>1. i \in 1..(Len(s) + Len(t)) /\ i \in 1..(Len(s) + Len(u)) /\ i \in Nat
    BY <1>2
  <2>2. CASE i <= Len(s)
    BY <1>2, <1>3, <2>1, <2>2
  <2>3. CASE ~(i <= Len(s))
    <3>1. i - Len(s) \in 1..(Len(t) - 1)
      BY <1>2, <2>3
    <3>2. p[i] = t[i - Len(s)] /\ q[i] = u[i - Len(s)]
      BY <1>2, <1>3, <2>1, <2>3
    <3>. QED
      BY <3>1, <3>2
  <2>. QED
    BY <2>2, <2>3
<1>5. Len(p) = Len(q) /\ Len(p) # 0
  BY <1>2
<1>6. Front(p) = Front(q)
  BY <1>4, <1>5, SameFront
<1>. QED
  BY <1>1, <1>5, <1>6 DEF Replaced

\* What changes do to the end of a path: s is under way, w waited, x waits now.
Requeueing(s, w, x, changes, c) ==
    /\ w \in Seq(Values) /\ x \in Seq(Values)
    /\ c \notin DOMAIN changes => s \o x = s \o w
    /\ c \in DOMAIN changes => s \o x # <<>> /\ Last(s \o x) = changes[c]
    /\ c \in Switches =>
          \/ s \o x = s \o w
          \/ s \o x # <<>> /\ Front(s \o x) = s \o w
          \/ Len(w) = MaxTransitions /\ Replaced(s \o w, s \o x)

LEMMA Requeued ==
    ASSUME NEW s \in Seq(Values), NEW pending, Orderly(pending), NEW changes \in Shown, NEW c,
           NEW w, w = Queued(pending, c), NEW x, x = Queued(QueueAll(pending, changes), c)
    PROVE  Requeueing(s, w, x, changes, c)
<1>. SUFFICES /\ w \in Seq(Values) /\ x \in Seq(Values)
              /\ c \notin DOMAIN changes => s \o x = s \o w
              /\ c \in DOMAIN changes => s \o x # <<>> /\ Last(s \o x) = changes[c]
              /\ c \in Switches =>
                    \/ s \o x = s \o w
                    \/ s \o x # <<>> /\ Front(s \o x) = s \o w
                    \/ Len(w) = MaxTransitions /\ Replaced(s \o w, s \o x)
  BY DEF Requeueing
<1>1. /\ w \in Seq(Values) /\ Len(w) \in 0..MaxTransitions
      /\ c \notin Switches => Len(w) \in 0..1
  BY QueuedType
<1>2. /\ Orderly(QueueAll(pending, changes))
      /\ x = IF c \notin DOMAIN changes THEN w
             ELSE IF w = <<>> THEN <<changes[c]>>
             ELSE Coalesce(c, w, changes[c])
  BY QueuedAll
<1>3. x \in Seq(Values)
  BY <1>2, QueuedType
<1>4. CASE c \notin DOMAIN changes
  BY <1>1, <1>2, <1>3, <1>4
<1>5. CASE c \in DOMAIN changes
  <2>1. PICK v \in Values : v = changes[c]
    BY <1>5, ShownValues
  <2>2. CASE w = <<>>
    <3>1. x = <<v>> /\ x = Append(w, v)
      BY <1>2, <1>5, <2>1, <2>2
    <3>2. s \o w = s
      BY ONLY <2>2, s \in Seq(Values), ConcatEmptySeq
    <3>3. s \o <<v>> = Append(s, v)
      BY ONLY s \in Seq(Values), v \in Values, AppendIsConcat
    <3>4. Append(s, v) # <<>> /\ Front(Append(s, v)) = s /\ Last(Append(s, v)) = v
      BY FrontOfAppend
    <3>. QED
      BY <1>1, <1>3, <1>5, <2>1, <3>1, <3>2, <3>3, <3>4
  <2>3. CASE w # <<>>
    <3>1. Len(w) \in 1..MaxTransitions /\ Len(w) # 0 /\ (c \notin Switches => Len(w) = 1)
      <4>1. Len(w) # 0
        BY <1>1, <2>3, EmptySeq
      <4>. QED
        BY <1>1, <4>1, Sizes
    <3>2. /\ x # <<>> /\ Last(x) = v
          /\ \/ x = w
             \/ x = Append(w, v)
             \/ /\ c \in Switches => Len(w) = MaxTransitions
                /\ Len(x) = Len(w)
                /\ \A i \in 1..(Len(w) - 1) : x[i] = w[i]
      <4>1. x = Coalesce(c, w, v)
        BY <1>2, <1>5, <2>1, <2>3
      <4>2. Len(w) \in 1..MaxTransitions /\ (c \notin Switches => Len(w) = 1)
        BY ONLY <3>1
      <4>3. /\ Coalesce(c, w, v) # <<>> /\ Last(Coalesce(c, w, v)) = v
            /\ \/ Coalesce(c, w, v) = w
               \/ Coalesce(c, w, v) = Append(w, v)
               \/ /\ c \in Switches => Len(w) = MaxTransitions
                  /\ Len(Coalesce(c, w, v)) = Len(w)
                  /\ \A i \in 1..(Len(w) - 1) : Coalesce(c, w, v)[i] = w[i]
        BY ONLY <1>1, <4>2, v \in Values, Coalesced
      <4>. QED
        BY ONLY <4>1, <4>3
    <3>3. s \o x # <<>> /\ Last(s \o x) = v
      BY <1>3, <3>2, LastOfConcat
    <3>4. ASSUME x = Append(w, v)
          PROVE  s \o x # <<>> /\ Front(s \o x) = s \o w
      <4>1. <<v>> \in Seq(Values)
        OBVIOUS
      <4>2. x = w \o <<v>>
        BY ONLY <1>1, <3>4, v \in Values, AppendIsConcat
      <4>3. s \o (w \o <<v>>) = (s \o w) \o <<v>> /\ s \o w \in Seq(Values)
        <5>1. s \o (w \o <<v>>) = (s \o w) \o <<v>>
          BY ONLY <1>1, <4>1, s \in Seq(Values), ConcatAssociative
        <5>2. s \o w \in Seq(Values)
          BY ONLY <1>1, s \in Seq(Values), ConcatProperties
        <5>. QED
          BY ONLY <5>1, <5>2
      <4>4. (s \o w) \o <<v>> = Append(s \o w, v)
        BY ONLY <4>3, v \in Values, AppendIsConcat
      <4>5. Append(s \o w, v) # <<>> /\ Front(Append(s \o w, v)) = s \o w
        BY ONLY <4>3, v \in Values, FrontOfAppend
      <4>. QED
        BY ONLY <4>2, <4>3, <4>4, <4>5
    <3>5. ASSUME Len(x) = Len(w), \A i \in 1..(Len(w) - 1) : x[i] = w[i]
          PROVE  Replaced(s \o w, s \o x)
      <4>1. \A i \in 1..(Len(w) - 1) : w[i] = x[i]
        BY <3>5
      <4>. QED
        BY ONLY <1>1, <1>3, <3>1, <3>5, <4>1, s \in Seq(Values), ConcatReplaced
    <3>. QED
      BY <1>1, <1>3, <1>5, <2>1, <3>2, <3>3, <3>4, <3>5
  <2>. QED
    BY <2>2, <2>3
<1>. QED
  BY <1>4, <1>5

LEMMA PathTyped ==
    ASSUME Base, NEW c
    PROVE  /\ Held(c) \in Seq(Values) /\ (Held(c) = <<>> \/ \E v \in Values : Held(c) = <<v>>)
           /\ Underway(c) = Told(Pipe, publisher.epoch, c) /\ Underway(c) \in Seq(Values)
           /\ Waiting(c) = Queued(publisher.pending, c) /\ Waiting(c) \in Seq(Values)
           /\ Held(c) \o Underway(c) \in Seq(Values)
           /\ Path(c) = Held(c) \o Underway(c) \o Waiting(c) /\ Path(c) \in Seq(Values)
<1>1. Held(c) = <<>> \/ \E v \in Values : Held(c) = <<v>>
  <2>1. PICK has : has = IF ingress.epoch # publisher.epoch THEN Empty
                         ELSE IF ingress.ready THEN raw ELSE ingress.snapshot
    OBVIOUS
  <2>2. has \in Shown
    <3>1. raw \in Shown /\ ingress.snapshot \in Shown
      BY DEF Base, LinkOK, IngressType
    <3>. QED
      BY <2>1, <3>1, EmptyShown
  <2>3. Held(c) = IF c \in DOMAIN has THEN <<has[c]>> ELSE <<>>
    BY <2>1 DEF Held
  <2>4. c \in DOMAIN has => has[c] \in Values
    BY <2>2, ShownValues
  <2>. QED
    BY <2>3, <2>4
<1>2. Held(c) \in Seq(Values)
  <2>1. CASE Held(c) = <<>>
    BY <2>1
  <2>2. CASE \E v \in Values : Held(c) = <<v>>
    <3>1. PICK v \in Values : Held(c) = <<v>>
      BY <2>2
    <3>2. <<v>> \in Seq(Values)
      OBVIOUS
    <3>. QED
      BY ONLY <3>1, <3>2
  <2>. QED
    BY <1>1, <2>1, <2>2
<1>3. Underway(c) = Told(Pipe, publisher.epoch, c)
  BY DEF Underway, Told, Mine
<1>4. Underway(c) \in Seq(Values)
  BY <1>3, PipeMessages, ToldType
<1>5. Waiting(c) = Queued(publisher.pending, c)
  BY DEF Waiting
<1>6. Waiting(c) \in Seq(Values)
  <2>1. Orderly(publisher.pending)
    BY DEF Base, PublisherOK
  <2>. QED
    BY <1>5, <2>1, QueuedType
<1>7. Held(c) \o Underway(c) \in Seq(Values)
  BY ONLY <1>2, <1>4, ConcatProperties
<1>8. Held(c) \o Underway(c) \o Waiting(c) \in Seq(Values)
  BY ONLY <1>6, <1>7, ConcatProperties
<1>. QED
  BY <1>1, <1>2, <1>3, <1>4, <1>5, <1>6, <1>7, <1>8 DEF Path

\* Nothing moves but what waits.
LEMMA PathKept ==
    ASSUME UNCHANGED <<ingress, raw>>, Pipe' = Pipe, publisher'.epoch = publisher.epoch, NEW c
    PROVE  /\ Path(c)' = Held(c) \o Underway(c) \o Queued(publisher'.pending, c)
           /\ publisher'.pending = publisher.pending => Path(c)' = Path(c)
<1>1. Held(c)' = Held(c)
  BY DEF Held
<1>2. Underway(c)' = Underway(c)
  BY DEF Underway
<1>3. Waiting(c)' = Queued(publisher'.pending, c)
  BY DEF Waiting
<1>4. Path(c)' = Held(c)' \o Underway(c)' \o Waiting(c)'
  BY DEF Path
<1>. QED
  BY <1>1, <1>2, <1>3, <1>4 DEF Path, Waiting

\* What a delta takes from what waits, it puts at the end of what is underway.
LEMMA FlushDeltaPath ==
    ASSUME Base, NEW due \in BOOLEAN, FlushDelta(due),
           NEW fresh, fresh = IF due THEN Active(bytes, current_aircraft) ELSE Empty,
           NEW all, all = QueueAll(publisher.pending, fresh), NEW c
    PROVE  Path(c)' = Held(c) \o Underway(c) \o Queued(all, c)
<1>1. /\ publisher.epoch # 0 /\ Orderly(all)
      /\ \/ /\ queue' = queue \o publisher.initial
            /\ publisher' = Flushed(<<>>, publisher.sequence, all)
         \/ /\ queue' = Append(queue \o publisher.initial, Delta(all))
            /\ publisher' = Flushed(<<>>, publisher.sequence + 1, Behead(all))
      /\ UNCHANGED <<wire, ingress, raw>>
  BY FlushDeltaStep DEF linkVars, cloudVars
<1>2. CASE /\ queue' = queue \o publisher.initial
           /\ publisher' = Flushed(<<>>, publisher.sequence, all)
  <2>1. publisher'.epoch = publisher.epoch /\ publisher'.initial = <<>> /\ publisher'.pending = all
    BY <1>2 DEF Flushed
  <2>2. Pipe' = Pipe
    BY <1>1, <1>2, <2>1, EmptiedPipe
  <2>. QED
    BY <1>1, <2>1, <2>2, PathKept
<1>3. CASE /\ queue' = Append(queue \o publisher.initial, Delta(all))
           /\ publisher' = Flushed(<<>>, publisher.sequence + 1, Behead(all))
  <2>1. /\ publisher'.epoch = publisher.epoch /\ publisher'.initial = <<>>
        /\ publisher'.pending = Behead(all)
    BY <1>3 DEF Flushed
  <2>2. PublisherOK
    BY DEF Base
  <2>3. PICK m \in SentBy(epochs) :
          m = Delta(all) /\ m.epoch = publisher.epoch /\ m.values = Heads(all)
    BY <1>1, <2>2, DeltaTyped
  <2>4. m \in Messages
    BY DEF SentBy
  <2>5. Pipe' = Append(Pipe, m)
    BY <1>1, <1>3, <2>1, <2>3, <2>4, ExtendedPipe
  <2>6. PICK h, u, q, t, p :
          /\ h = Held(c) /\ u = Underway(c) /\ q = Queued(all, c) /\ t = Queued(Behead(all), c)
          /\ p = Underway(c)'
    OBVIOUS
  <2>7. h \in Seq(Values) /\ u \in Seq(Values) /\ h \o u \in Seq(Values) /\ q \in Seq(Values)
    BY <1>1, <2>6, PathTyped, QueuedType
  <2>8. p = IF c \in DOMAIN Heads(all) THEN Append(u, Heads(all)[c]) ELSE u
    <3>1. Pipe \in Seq(Messages) /\ u = Told(Pipe, publisher.epoch, c)
      BY <2>6, PipeMessages, PathTyped
    <3>2. p = Told(Append(Pipe, m), publisher.epoch, c)
      BY <2>1, <2>5, <2>6 DEF Underway, Told, Mine
    <3>3. Told(Append(Pipe, m), publisher.epoch, c) =
             IF Matches(m, publisher.epoch, c) THEN Append(u, m.values[c]) ELSE u
      BY <2>4, <3>1, ToldAppend
    <3>. QED
      BY <2>3, <3>2, <3>3 DEF Matches
  <2>9. IF c \in DOMAIN Heads(all)
        THEN q # <<>> /\ Heads(all)[c] = Head(q) /\ t = Tail(q)
        ELSE t = q
    BY <1>1, <2>6, Beheaded
  <2>10. Path(c)' = h \o p \o t
    <3>1. Held(c)' = h /\ Waiting(c)' = t
      BY <1>1, <2>1, <2>6 DEF Held, Waiting
    <3>. QED
      BY <2>6, <3>1 DEF Path
  <2>11. CASE c \in DOMAIN Heads(all)
    <3>1. p = Append(u, Head(q)) /\ t = Tail(q) /\ q # <<>>
      BY <2>8, <2>9, <2>11
    <3>2. Head(q) \in Values
      BY ONLY <2>7, <3>1, HeadTailProperties
    <3>3. h \o Append(u, Head(q)) = Append(h \o u, Head(q))
      <4>1. PICK v \in Values : v = Head(q)
        BY <3>2
      <4>2. <<v>> \in Seq(Values)
        OBVIOUS
      <4>3. Append(u, v) = u \o <<v>> /\ Append(h \o u, v) = (h \o u) \o <<v>>
        BY ONLY <2>7, v \in Values, AppendIsConcat
      <4>4. (h \o u) \o <<v>> = h \o (u \o <<v>>)
        BY ONLY <2>7, <4>2, ConcatAssociative
      <4>. QED
        BY ONLY <4>1, <4>3, <4>4
    <3>4. Append(h \o u, Head(q)) \o Tail(q) = (h \o u) \o q
      BY ONLY <2>7, <3>1, Moved
    <3>. QED
      BY <2>6, <2>10, <3>1, <3>3, <3>4
  <2>12. CASE c \notin DOMAIN Heads(all)
    BY <2>6, <2>8, <2>9, <2>10, <2>12
  <2>. QED
    BY <2>11, <2>12
<1>. QED
  BY <1>1, <1>2, <1>3

\* What the gateway shows in an epoch, or will once its snapshot is complete.
Heard(g, r, epoch) ==
    IF g.epoch # epoch THEN Empty ELSE IF g.ready THEN r ELSE g.snapshot

LEMMA HeldHeard ==
    ASSUME NEW c
    PROVE  /\ Held(c) = IF c \in DOMAIN Heard(ingress, raw, publisher.epoch)
                        THEN <<Heard(ingress, raw, publisher.epoch)[c]>> ELSE <<>>
           /\ Held(c)' = IF c \in DOMAIN Heard(ingress', raw', publisher'.epoch)
                         THEN <<Heard(ingress', raw', publisher'.epoch)[c]>> ELSE <<>>
  BY DEF Held, Heard

\* A message of the publisher's epoch adds its values, any other adds nothing.
LEMMA HeardReceived ==
    ASSUME Base, NEW origin \in [1..epochs -> Origins], Streamed(origin), wire # <<>>,
           publisher.epoch # 0, NEW m, m = Head(wire), NEW c,
           NEW f, f = Heard(ingress, raw, publisher.epoch),
           NEW h, h = Heard(Accepted(m), Applied(m), publisher.epoch)
    PROVE  IF Matches(m, publisher.epoch, c) THEN c \in DOMAIN h /\ h[c] = m.values[c]
           ELSE /\ c \in DOMAIN h <=> c \in DOMAIN f
                /\ c \in DOMAIN f => h[c] = f[c]
<1>1. /\ m \in SentBy(epochs) /\ Legit(m, origin[m.epoch])
      /\ m.epoch \in 1..epochs /\ Follows(m, ingress.epoch, ingress.next)
      /\ Acceptable(m) /\ Accepted(m).epoch = m.epoch
  BY HeadAccepted
<1>2. /\ epochs \in Nat /\ ingress \in IngressType(epochs) /\ raw \in Shown
      /\ publisher.epoch = epochs /\ ingress.epoch \in 0..epochs
  BY PipeMessages DEF IngressType, Base, PublisherOK
<1>3. CASE m.epoch # publisher.epoch
  <2>1. ingress.epoch # publisher.epoch
    BY <1>1, <1>2, <1>3 DEF Follows
  <2>2. f = Empty /\ h = Empty
    BY <1>1, <1>3, <2>1 DEF Heard
  <2>3. ~Matches(m, publisher.epoch, c)
    BY <1>3 DEF Matches
  <2>. QED
    BY <2>2, <2>3
<1>4. CASE m.epoch = publisher.epoch
  <2>1. Matches(m, publisher.epoch, c) <=> c \in DOMAIN m.values
    BY <1>4 DEF Matches
  <2>2. h = IF Accepted(m).ready THEN Applied(m) ELSE Accepted(m).snapshot
    BY <1>1, <1>4 DEF Heard
  <2>3. m.kind \in Kinds /\ m.values \in Shown
    BY <1>1 DEF SentBy, Messages
  <2>4. m.epoch # 0
    BY <1>1
  <2>5. CASE m.kind = "catalog"
    <3>1. m.values = Empty
      <4>1. PICK o : o = origin[m.epoch]
        OBVIOUS
      <4>2. \A i : SnapshotMessage(m.epoch, o.aircraft, o.values, i).kind = "snapshot"
        BY SnapshotFields
      <4>3. PICK i \in 1..Len(Catalogs(o.aircraft)) : m = CatalogMessage(m.epoch, o.aircraft, i)
        <5>1. Legit(m, o)
          BY <1>1, <4>1
        <5>2. \/ \E i \in 1..Len(Catalogs(o.aircraft)) : m = CatalogMessage(m.epoch, o.aircraft, i)
              \/ \E i \in 1..Len(Snapshots(o.values)) :
                    m = SnapshotMessage(m.epoch, o.aircraft, o.values, i)
              \/ m.kind = "delta"
          BY <5>1 DEF Legit
        <5>3. "catalog" # "snapshot" /\ "catalog" # "delta"
          OBVIOUS
        <5>. QED
          BY <2>5, <4>2, <5>2, <5>3
      <4>. QED
        BY <4>3, CatalogFields
    <3>2. ~Matches(m, publisher.epoch, c)
      BY <2>1, <3>1, EmptyShown
    <3>3. h = f
      <4>1. CASE NewEpoch(m)
        <5>1. Accepted(m).ready = FALSE /\ Accepted(m).snapshot = Empty
          BY <2>5, <4>1, FirstAccepted
        <5>2. ingress.epoch # publisher.epoch
          BY <1>4, <4>1 DEF NewEpoch
        <5>. QED
          BY <2>2, <5>1, <5>2 DEF Heard
      <4>2. CASE ~NewEpoch(m)
        <5>1. ~ingress.ready /\ m.epoch = ingress.epoch
          BY <1>1, <2>5, <4>2 DEF Acceptable, NewEpoch
        <5>2. Accepted(m).ready = ingress.ready /\ Accepted(m).snapshot = ingress.snapshot
          BY <1>2, <2>5, <4>2, CatalogAccepted
        <5>. QED
          BY <1>4, <2>2, <5>1, <5>2 DEF Heard
      <4>. QED
        BY <4>1, <4>2
    <3>. QED
      BY <3>2, <3>3
  <2>6. CASE m.kind = "snapshot"
    <3>1. m.epoch = ingress.epoch /\ ~ingress.ready
      BY <1>1, <2>6 DEF Acceptable, Continues, NewEpoch
    <3>2. raw = Empty
      <4>1. ingress.epoch # 0
        BY <2>4, <3>1
      <4>. QED
        BY <3>1, <4>1 DEF Streamed, Assembled
    <3>3. PICK s \in Shown : s = ingress.snapshot
      BY <1>2 DEF IngressType
    <3>4. PICK p \in Shown : /\ p = Put(s, m.values) /\ DOMAIN p = DOMAIN s \cup DOMAIN m.values
                             /\ \A d \in DOMAIN m.values : p[d] = m.values[d]
                             /\ \A d \in DOMAIN s \ DOMAIN m.values : p[d] = s[d]
      <4>1. /\ Put(s, m.values) \in Shown
            /\ DOMAIN Put(s, m.values) = DOMAIN s \cup DOMAIN m.values
            /\ \A d \in DOMAIN m.values : Put(s, m.values)[d] = m.values[d]
            /\ \A d \in DOMAIN s \ DOMAIN m.values : Put(s, m.values)[d] = s[d]
        BY ONLY <2>3, s \in Shown, PutShown
      <4>. QED
        BY <4>1
    <3>5. /\ Accepted(m).snapshot = p /\ Accepted(m).ready = (m.chunk + 1 = m.count)
          /\ Applied(m) = IF m.chunk + 1 = m.count THEN Put(raw, p) ELSE raw
      BY <1>2, <2>6, <3>3, <3>4, SnapshotAccepted
    <3>6. f = s
      BY <1>4, <3>1, <3>3 DEF Heard
    <3>7. DOMAIN h = DOMAIN p /\ \A d \in DOMAIN p : h[d] = p[d]
      <4>1. CASE m.chunk + 1 = m.count
        <5>1. h = Put(Empty, p)
          BY <2>2, <3>2, <3>5, <4>1
        <5>. QED
          <6>1. /\ DOMAIN Put(Empty, p) = DOMAIN Empty \cup DOMAIN p
                /\ \A d \in DOMAIN p : Put(Empty, p)[d] = p[d]
            BY ONLY EmptyShown, p \in Shown, PutShown
          <6>. QED
            BY ONLY <5>1, <6>1, EmptyShown
      <4>2. CASE m.chunk + 1 # m.count
        BY <2>2, <3>5, <4>2
      <4>. QED
        BY <4>1, <4>2
    <3>. QED
      BY <2>1, <3>4, <3>6, <3>7
  <2>7. CASE m.kind = "delta"
    <3>1. m.epoch = ingress.epoch /\ ingress.ready
      BY <1>1, <2>7 DEF Acceptable, Continues, NewEpoch
    <3>2. /\ Accepted(m) = [ingress EXCEPT !.next = ingress.next + 1]
          /\ Applied(m) = Put(raw, m.values)
      BY <1>2, <2>7, DeltaAccepted
    <3>3. Accepted(m).ready = ingress.ready
      BY <1>2, <3>2 DEF IngressType
    <3>4. h = Put(raw, m.values)
      BY <2>2, <3>1, <3>2, <3>3
    <3>5. f = raw
      BY <1>4, <3>1 DEF Heard
    <3>6. /\ DOMAIN h = DOMAIN raw \cup DOMAIN m.values
          /\ \A d \in DOMAIN m.values : h[d] = m.values[d]
          /\ \A d \in DOMAIN raw \ DOMAIN m.values : h[d] = raw[d]
      <4>1. /\ DOMAIN Put(raw, m.values) = DOMAIN raw \cup DOMAIN m.values
            /\ \A d \in DOMAIN m.values : Put(raw, m.values)[d] = m.values[d]
            /\ \A d \in DOMAIN raw \ DOMAIN m.values : Put(raw, m.values)[d] = raw[d]
        BY ONLY <1>2, <2>3, PutShown
      <4>. QED
        BY <3>4, <4>1
    <3>. QED
      BY <2>1, <3>5, <3>6
  <2>. QED
    BY <2>3, <2>5, <2>6, <2>7 DEF Kinds
<1>. QED
  BY <1>3, <1>4

LEMMA Shifted ==
    ASSUME NEW S, NEW x \in S, NEW s \in Seq(S), s # <<>>
    PROVE  /\ <<x>> \o s # <<>> /\ Tail(<<x>> \o s) = s /\ Last(<<x>> \o s) = Last(s)
<1>1. <<x>> \in Seq(S)
  OBVIOUS
<1>2. <<x>> \o s # <<>> /\ Tail(<<x>> \o s) = s
  BY ONLY <1>1, x \in S, s \in Seq(S)
<1>3. Last(<<x>> \o s) = Last(s)
  BY <1>1, LastOfConcat
<1>. QED
  BY <1>2, <1>3

\* What arrives goes from what is underway to what is held; a value it takes
\* the place of was heard.
LEMMA ReceivePath ==
    ASSUME Base, NEW origin \in [1..epochs -> Origins], Streamed(origin), Receive,
           publisher.epoch # 0, NEW c
    PROVE  \/ Path(c)' = Path(c)
           \/ /\ Path(c) # <<>> /\ Path(c)' = Tail(Path(c))
              /\ Path(c)' # <<>> /\ Last(Path(c)') = Last(Path(c))
<1>1. PICK m : m = Head(wire)
  OBVIOUS
<1>2. /\ wire # <<>> /\ m = Head(Pipe) /\ Pipe # <<>> /\ Pipe' = Tail(Pipe)
      /\ ingress' = Accepted(m) /\ raw' = Applied(m)
      /\ publisher' = publisher
  BY <1>1, ReceiveStep
<1>3. Pipe \in Seq(Messages) /\ m \in Messages
  BY <1>1, <1>2, PipeMessages, PipeHead DEF SentBy
<1>4. PICK epoch, f, h, u, n, w :
        /\ epoch = publisher.epoch
        /\ f = Heard(ingress, raw, epoch) /\ h = Heard(Accepted(m), Applied(m), epoch)
        /\ u = Underway(c) /\ n = Told(Tail(Pipe), epoch, c) /\ w = Waiting(c)
  OBVIOUS
<1>5. /\ u \in Seq(Values) /\ w \in Seq(Values) /\ n \in Seq(Values)
      /\ Held(c) = <<>> \/ \E v \in Values : Held(c) = <<v>>
      /\ u = Told(Pipe, epoch, c)
  <2>1. Tail(Pipe) \in Seq(Messages)
    BY ONLY <1>2, <1>3, HeadTailProperties
  <2>2. Told(Tail(Pipe), epoch, c) \in Seq(Values)
    BY <2>1, ToldType
  <2>. QED
    BY <1>4, <2>2, PathTyped
<1>6. u = IF Matches(m, epoch, c) THEN <<m.values[c]>> \o n ELSE n
  <2>1. Told(Pipe, epoch, c) = IF Matches(Head(Pipe), epoch, c)
                               THEN <<Head(Pipe).values[c]>> \o Told(Tail(Pipe), epoch, c)
                               ELSE Told(Tail(Pipe), epoch, c)
    BY ONLY <1>2, <1>3, ToldTail
  <2>. QED
    BY <1>2, <1>4, <1>5, <2>1
<1>7. IF Matches(m, epoch, c) THEN c \in DOMAIN h /\ h[c] = m.values[c]
      ELSE /\ c \in DOMAIN h <=> c \in DOMAIN f
           /\ c \in DOMAIN f => h[c] = f[c]
  BY <1>1, <1>2, <1>4, HeardReceived
<1>8. /\ Held(c) = IF c \in DOMAIN f THEN <<f[c]>> ELSE <<>>
      /\ Held(c)' = IF c \in DOMAIN h THEN <<h[c]>> ELSE <<>>
  BY <1>2, <1>4, HeldHeard
<1>9. /\ Path(c) = Held(c) \o u \o w
      /\ Path(c)' = Held(c)' \o n \o w
  <2>1. Underway(c)' = n
    BY <1>2, <1>4 DEF Underway, Told, Mine
  <2>2. Waiting(c)' = w
    BY <1>2, <1>4 DEF Waiting
  <2>. QED
    BY <1>4, <2>1, <2>2 DEF Path
<1>10. CASE ~Matches(m, epoch, c)
  <2>1. u = n /\ Held(c)' = Held(c)
    BY <1>6, <1>7, <1>8, <1>10
  <2>. QED
    BY <1>9, <2>1
<1>11. CASE Matches(m, epoch, c)
  <2>1. PICK v \in Values : v = m.values[c]
    <3>1. m.values \in Shown /\ c \in DOMAIN m.values
      BY <1>3, <1>11 DEF Messages, Matches
    <3>. QED
      BY <3>1, ShownValues
  <2>2. u = <<v>> \o n /\ Held(c)' = <<v>>
    BY <1>6, <1>7, <1>8, <1>11, <2>1
  <2>3. <<v>> \in Seq(Values)
    OBVIOUS
  <2>4. PICK q \in Seq(Values) : q = n \o w
    BY <1>5, ConcatProperties
  <2>5. PICK t \in Seq(Values) : t = <<v>> \o q
    BY <2>3, <2>4, ConcatProperties
  <2>6. <<v>> \o n \o w = t
    BY ONLY <1>5, <2>3, <2>4, <2>5, ConcatAssociative
  <2>7. t # <<>>
    BY ONLY <2>5, q \in Seq(Values), v \in Values
  <2>8. Path(c)' = t
    BY <1>9, <2>2, <2>6
  <2>9. CASE Held(c) = <<>>
    <3>1. <<>> \o u = u
      BY ONLY <1>5, ConcatEmptySeq
    <3>2. Path(c) = t
      BY <1>9, <2>2, <2>6, <2>9, <3>1
    <3>. QED
      BY <2>8, <3>2
  <2>10. CASE \E x \in Values : Held(c) = <<x>>
    <3>1. PICK x \in Values : Held(c) = <<x>>
      BY <2>10
    <3>2. <<x>> \in Seq(Values)
      OBVIOUS
    <3>3. <<x>> \o u \o w = <<x>> \o (u \o w)
      BY ONLY <1>5, <3>2, ConcatAssociative
    <3>4. u \o w = t
      BY <2>2, <2>6
    <3>5. Path(c) = <<x>> \o t
      BY <1>9, <3>1, <3>3, <3>4
    <3>6. <<x>> \o t # <<>> /\ Tail(<<x>> \o t) = t /\ Last(<<x>> \o t) = Last(t)
      BY <2>7, Shifted
    <3>. QED
      BY <2>7, <2>8, <3>5, <3>6
  <2>. QED
    BY <1>5, <2>9, <2>10
<1>. QED
  BY <1>10, <1>11

\* A new epoch tells what the snapshot shows, and nothing else.
LEMMA EpochPath ==
    ASSUME Base, NEW a \in Aircraft, NEW values \in Shown, BeginEpoch(a, values),
           current_aircraft' = a, UNCHANGED <<wire, queue, ingress, raw>>,
           NEW c \in DOMAIN values
    PROVE  Path(c)' # <<>> /\ Last(Path(c)') = values[c]
<1>1. PICK e : e = epochs + 1
  OBVIOUS
<1>2. /\ publisher'.epoch = e /\ publisher'.pending = <<>>
      /\ publisher'.initial = Initial(e, a, values)
  BY <1>1, EpochBegun, BiosAssumption DEF Base, Slots
<1>3. PICK P \in Seq(Messages) : P = wire \o queue
  BY PipeMessages
<1>4. e \in Nat /\ epochs \in Nat /\ P \in Seq(SentBy(epochs)) /\ ingress.epoch # e
  <2>1. epochs \in Nat /\ ingress.epoch \in 0..epochs /\ P \in Seq(SentBy(epochs))
    BY <1>3, PipeMessages, PipeTyped DEF IngressType
  <2>. QED
    BY <1>1, <2>1
<1>5. PICK Q \in Seq(Messages) : Q = Initial(e, a, values)
  BY <1>4, InitialShape
<1>6. Pipe' = P \o Q
  BY <1>2, <1>3, <1>5 DEF Pipe
<1>7. PICK R \in Seq(Messages) : R = P \o Q
  BY <1>3, <1>5, ConcatProperties
<1>8. /\ Len(P) \in Nat /\ Len(Q) \in Nat /\ Len(R) = Len(P) + Len(Q)
      /\ \A i \in 1..Len(P) : R[i] = P[i]
      /\ \A i \in 1..Len(Q) : R[Len(P) + i] = Q[i]
  BY <1>7
<1>9. PICK K, N : K = Len(Catalogs(a)) /\ N = Len(Snapshots(values))
  OBVIOUS
<1>10. K \in Nat \ {0} /\ N \in Nat \ {0}
  BY <1>9, CatalogsShape, SnapshotsShape
<1>11. /\ Len(Q) = K + N
       /\ \A i \in 1..K : Q[i] = CatalogMessage(e, a, i)
       /\ \A i \in 1..N : Q[K + i] = SnapshotMessage(e, a, values, i)
  BY ONLY <1>4, <1>5, <1>9, InitialShape, a \in Aircraft, values \in Shown
<1>12. \A i \in 1..Len(P) : ~Matches(R[i], e, c)
  <2>1. \A i \in 1..Len(P) : P[i] \in SentBy(epochs)
    BY <1>4
  <2>2. \A i \in 1..Len(P) : P[i].epoch \in 1..epochs
    BY <2>1 DEF SentBy
  <2>3. \A i \in 1..Len(P) : R[i].epoch # e
    BY <1>1, <1>4, <1>8, <2>2
  <2>. QED
    BY <2>3 DEF Matches
<1>13. ASSUME NEW i \in 1..K
       PROVE  ~Matches(Q[i], e, c)
  <2>1. Q[i].values = Empty
    BY <1>11, CatalogFields
  <2>. QED
    BY <2>1, EmptyShown DEF Matches
<1>14. ASSUME NEW i \in 1..N
       PROVE  /\ Matches(Q[K + i], e, c) <=> c \in Snapshots(values)[i]
              /\ Matches(Q[K + i], e, c) => Q[K + i].values[c] = values[c]
  <2>1. PICK m : m = SnapshotMessage(e, a, values, i)
    OBVIOUS
  <2>2. m.epoch = e /\ m.values = Restrict(values, Snapshots(values)[i])
    BY <2>1, SnapshotFields
  <2>3. /\ DOMAIN Restrict(values, Snapshots(values)[i]) = Snapshots(values)[i]
        /\ \A d \in Snapshots(values)[i] : Restrict(values, Snapshots(values)[i])[d] = values[d]
    BY <1>4, <1>9, SnapshotTyped
  <2>4. Q[K + i] = m
    BY <1>11, <2>1
  <2>. QED
    BY <2>2, <2>3, <2>4 DEF Matches
<1>15. \E i \in 1..Len(R) : Matches(R[i], e, c)
  <2>1. PICK j \in 1..N : c \in Snapshots(values)[j]
    BY <1>9, SnapshotsShape
  <2>2. K + j \in 1..Len(Q) /\ Len(P) + (K + j) \in 1..Len(R)
    BY <1>8, <1>10, <1>11
  <2>3. Matches(Q[K + j], e, c)
    BY <1>14, <2>1
  <2>4. R[Len(P) + (K + j)] = Q[K + j]
    BY <1>8, <2>2
  <2>. QED
    BY <2>2, <2>3, <2>4
<1>16. ASSUME NEW i \in 1..Len(R), Matches(R[i], e, c)
       PROVE  R[i].values[c] = values[c]
  <2>1. PICK j : j = i - Len(P)
    OBVIOUS
  <2>2. i > Len(P)
    BY <1>8, <1>12, <1>16
  <2>3. j \in 1..Len(Q) /\ i = Len(P) + j
    <3>1. i \in Nat /\ i <= Len(P) + Len(Q) /\ Len(P) \in Nat /\ Len(Q) \in Nat
      BY <1>8
    <3>. QED
      BY ONLY <2>1, <2>2, <3>1
  <2>4. R[i] = Q[j]
    BY <1>8, <2>3
  <2>5. j > K
    BY <1>10, <1>11, <1>13, <1>16, <2>3, <2>4
  <2>6. PICK k : k = j - K
    OBVIOUS
  <2>7. k \in 1..N /\ j = K + k
    BY <1>10, <1>11, <2>3, <2>5, <2>6
  <2>. QED
    BY <1>14, <1>16, <2>4, <2>7
<1>17. Told(R, e, c) # <<>> /\ Last(Told(R, e, c)) = values[c] /\ Told(R, e, c) \in Seq(Values)
  <2>1. \A i \in 1..Len(R) : Matches(R[i], e, c) => R[i].values[c] = values[c]
    BY <1>16
  <2>2. PICK v : v = values[c]
    OBVIOUS
  <2>3. \A i \in 1..Len(R) : Matches(R[i], e, c) => R[i].values[c] = v
    BY <2>1, <2>2
  <2>4. Told(R, e, c) # <<>> /\ Last(Told(R, e, c)) = v
    <3>1. TellsOnly(R, e, c, v)
      BY ONLY <1>15, <2>3 DEF TellsOnly
    <3>. QED
      BY ONLY <3>1, R \in Seq(Messages), ToldOneValue
  <2>5. Told(R, e, c) \in Seq(Values)
    BY ToldType
  <2>. QED
    BY <2>2, <2>4, <2>5
<1>18. Held(c)' = <<>>
  BY <1>2, <1>4 DEF Held, Empty
<1>19. Waiting(c)' = <<>>
  <2>1. <<>> \in Seq(Pendings) /\ \A i \in 1..Len(<<>>) : <<>>[i].control # c
    OBVIOUS
  <2>. QED
    BY <1>2, <2>1, QueuedNothing DEF Waiting
<1>20. Underway(c)' = Told(R, e, c)
  BY <1>2, <1>6, <1>7 DEF Underway, Told, Mine
<1>21. Path(c)' = <<>> \o Told(R, e, c) \o <<>>
  BY <1>18, <1>19, <1>20 DEF Path
<1>22. <<>> \o Told(R, e, c) \o <<>> = Told(R, e, c)
  BY ONLY <1>17, ConcatEmptySeq
<1>. QED
  BY <1>17, <1>21, <1>22

\* A step within an epoch: what is decoded is what was, or a change that waits.
Noted(changes) ==
    \A d \in DOMAIN decoded' :
        IF d \in DOMAIN changes THEN decoded'[d] = changes[d]
        ELSE d \in DOMAIN decoded /\ decoded'[d] = decoded[d]

Continued(c) ==
    /\ Streaming /\ publisher'.epoch = publisher.epoch
    /\ \/ decoded' = decoded /\ Path(c)' = Path(c)
       \/ /\ decoded' = decoded
          /\ Path(c) # <<>> /\ Path(c)' = Tail(Path(c))
          /\ Path(c)' # <<>> /\ Last(Path(c)') = Last(Path(c))
       \/ \E changes \in Shown :
             /\ Noted(changes)
             /\ Path(c)' = Held(c) \o Underway(c)
                                   \o Queued(QueueAll(publisher.pending, changes), c)

\* A step that begins an epoch.
Restarted(c) ==
    /\ publisher'.epoch # publisher.epoch
    /\ c \in DOMAIN decoded' => Path(c)' # <<>> /\ Last(Path(c)') = decoded'[c]

LEMMA FramePath ==
    ASSUME Base, Frame, Streaming', NEW c
    PROVE  Continued(c) \/ Restarted(c)
<1>1. PICK r : r = FrameResult(link # "down")
  OBVIOUS
<1>2. /\ decoded' = r.decoded /\ current_aircraft' = name
      /\ UNCHANGED <<linkVars, queue, cloudVars>>
      /\ \/ r.news /\ link # "down" /\ BeginEpoch(name, Active(r.bytes, name))
         \/ publisher.epoch = 0 /\ UNCHANGED <<publisher, epochs>>
         \/ /\ publisher.epoch # 0 /\ ~r.news /\ link # "down"
            /\ publisher' = [publisher EXCEPT !.pending = QueueAll(@, r.changes)]
            /\ UNCHANGED <<epochs, current_aircraft>>
            /\ r.changes \in Shown
            /\ DOMAIN r.changes \subseteq Definitions[current_aircraft]
  BY <1>1, FrameStep
<1>3. UNCHANGED <<link, wire, queue, ingress, raw>>
  BY <1>2 DEF linkVars, cloudVars
<1>4. link = "up" /\ publisher'.epoch # 0
  BY <1>3 DEF Streaming
<1>5. BiosTypeOK /\ Decoded /\ (link # "down") \in BOOLEAN /\ PublisherOK /\ name \in Slots
  BY DEF Base, CockpitOK, BiosTypeOK
<1>6. /\ r.bytes \in Shown
      /\ DOMAIN r.decoded \subseteq DOMAIN Active(r.bytes, name)
      /\ \A d \in DOMAIN r.changes : d \in DOMAIN r.decoded /\ r.decoded[d] = r.changes[d]
      /\ ~r.news => /\ DOMAIN r.decoded = DOMAIN decoded \cup DOMAIN r.changes
                    /\ \A d \in DOMAIN decoded \ DOMAIN r.changes : r.decoded[d] = decoded[d]
      /\ r.news /\ link # "down" =>
            \A d \in DOMAIN Active(r.bytes, name) : r.decoded[d] = r.bytes[d]
  BY <1>1, <1>5, FrameOutcome
<1>7. CASE r.news /\ link # "down" /\ BeginEpoch(name, Active(r.bytes, name))
  <2>1. PICK a \in Slots, values \in Shown : a = name /\ values = Active(r.bytes, name)
    BY <1>5, <1>6, ActiveShown
  <2>2. BeginEpoch(a, values) /\ current_aircraft' = a
    BY <1>2, <1>7, <2>1
  <2>3. a # NoAircraft
    BY <1>4, <2>2 DEF BeginEpoch, Reset
  <2>4. a \in Aircraft
    BY <2>3 DEF Slots
  <2>5. publisher'.epoch = epochs + 1 /\ publisher.epoch \in 0..epochs /\ epochs \in Nat
    BY <1>5, <2>2, <2>3, EpochBegun, PipeMessages
  <2>6. publisher'.epoch # publisher.epoch
    BY <2>5
  <2>7. ASSUME c \in DOMAIN decoded'
        PROVE  Path(c)' # <<>> /\ Last(Path(c)') = decoded'[c]
    <3>1. c \in DOMAIN values
      BY <1>2, <1>6, <2>1, <2>7
    <3>2. values[c] = r.bytes[c]
      <4>1. PICK b \in Shown : b = r.bytes
        BY <1>6
      <4>2. \A d \in DOMAIN Active(b, a) : Active(b, a)[d] = b[d]
        BY ONLY b \in Shown, a \in Slots, ActiveShown
      <4>. QED
        BY <2>1, <3>1, <4>1, <4>2
    <3>3. decoded'[c] = values[c]
      BY <1>2, <1>6, <1>7, <2>1, <3>1, <3>2
    <3>4. Path(c)' # <<>> /\ Last(Path(c)') = values[c]
      BY <1>3, <2>2, <2>4, <3>1, EpochPath
    <3>. QED
      BY <3>3, <3>4
  <2>. QED
    BY <2>6, <2>7 DEF Restarted
<1>8. CASE publisher.epoch = 0 /\ UNCHANGED <<publisher, epochs>>
  BY <1>4, <1>8
<1>9. CASE /\ publisher.epoch # 0 /\ ~r.news /\ link # "down"
           /\ publisher' = [publisher EXCEPT !.pending = QueueAll(@, r.changes)]
           /\ UNCHANGED <<epochs, current_aircraft>>
           /\ r.changes \in Shown
           /\ DOMAIN r.changes \subseteq Definitions[current_aircraft]
  <2>1. PICK changes \in Shown : changes = r.changes
    BY <1>9
  <2>2. /\ publisher' = [publisher EXCEPT !.pending = QueueAll(@, changes)]
        /\ DOMAIN changes \subseteq Definitions[current_aircraft]
    BY <1>9, <2>1
  <2>3. /\ publisher'.epoch = publisher.epoch /\ publisher'.initial = publisher.initial
        /\ publisher'.pending = QueueAll(publisher.pending, changes)
    BY <1>5, <1>9, <2>2, ChangesQueued
  <2>4. Pipe' = Pipe
    BY <1>3, <2>3 DEF Pipe
  <2>5. Path(c)' = Held(c) \o Underway(c) \o Queued(publisher'.pending, c)
    BY <1>3, <2>3, <2>4, PathKept
  <2>6. Noted(changes)
    BY <1>2, <1>6, <1>9, <2>1 DEF Noted
  <2>. QED
    BY <1>4, <1>9, <2>3, <2>5, <2>6 DEF Continued, Streaming
<1>. QED
  BY <1>2, <1>7, <1>8, <1>9

LEMMA ConnectPath ==
    ASSUME Base, Connect, Streaming', NEW c
    PROVE  Restarted(c)
<1>1. /\ publisher = Reset /\ TakeSnapshot
      /\ BeginEpoch(current_aircraft, Active(bytes, current_aircraft))
      /\ current_aircraft' = current_aircraft /\ current_aircraft \in Slots
      /\ Active(bytes, current_aircraft) \in Shown
      /\ UNCHANGED <<queue, wire, cloudVars>>
  BY ConnectStep
<1>2. PICK a \in Slots, values \in Shown :
        a = current_aircraft /\ values = Active(bytes, current_aircraft)
  BY <1>1
<1>3. /\ BeginEpoch(a, values) /\ current_aircraft' = a
      /\ UNCHANGED <<queue, wire, ingress, raw>>
  BY <1>1, <1>2 DEF cloudVars
<1>4. publisher'.epoch # 0 /\ publisher.epoch = 0
  BY <1>1 DEF Streaming, Reset
<1>5. a \in Aircraft
  <2>1. a # NoAircraft
    BY <1>3, <1>4 DEF BeginEpoch, Reset
  <2>. QED
    BY <2>1 DEF Slots
<1>6. ASSUME c \in DOMAIN decoded'
      PROVE  Path(c)' # <<>> /\ Last(Path(c)') = decoded'[c]
  <2>1. BiosTypeOK /\ Decoded /\ bytes \in Shown
    BY DEF Base, CockpitOK, BiosTypeOK
  <2>2. /\ DOMAIN decoded' = DOMAIN Active(bytes, current_aircraft)
        /\ \A d \in DOMAIN decoded' : decoded'[d] = bytes[d]
    BY <1>1, <2>1, SnapshotTaken
  <2>3. \A d \in DOMAIN Active(bytes, current_aircraft) :
           Active(bytes, current_aircraft)[d] = bytes[d]
    BY ONLY <1>1, <2>1, ActiveShown
  <2>4. c \in DOMAIN values /\ decoded'[c] = values[c]
    BY <1>2, <1>6, <2>2, <2>3
  <2>5. Path(c)' # <<>> /\ Last(Path(c)') = values[c]
    BY <1>3, <1>5, <2>4, EpochPath
  <2>. QED
    BY <2>4, <2>5
<1>. QED
  BY <1>4, <1>6 DEF Restarted

LEMMA FlushDeltaContinues ==
    ASSUME Base, NEW due \in BOOLEAN, FlushDelta(due), Streaming', NEW c
    PROVE  Continued(c)
<1>1. PICK fresh, all : /\ fresh = IF due THEN Active(bytes, current_aircraft) ELSE Empty
                        /\ all = QueueAll(publisher.pending, fresh)
  OBVIOUS
<1>2. /\ publisher.epoch # 0 /\ fresh \in Shown
      /\ \/ publisher' = Flushed(<<>>, publisher.sequence, all)
         \/ publisher' = Flushed(<<>>, publisher.sequence + 1, Behead(all))
      /\ IF due THEN TakeSnapshot ELSE UNCHANGED biosVars
      /\ UNCHANGED linkVars
  BY <1>1, FlushDeltaStep
<1>3. Path(c)' = Held(c) \o Underway(c) \o Queued(all, c)
  BY <1>1, FlushDeltaPath
<1>4. Noted(fresh)
  <2>1. CASE due
    <3>1. BiosTypeOK /\ Decoded /\ TakeSnapshot
      BY <1>2, <2>1 DEF Base, CockpitOK
    <3>2. /\ DOMAIN decoded' = DOMAIN Active(bytes, current_aircraft)
          /\ \A d \in DOMAIN decoded' : decoded'[d] = bytes[d]
      BY <3>1, SnapshotTaken
    <3>3. bytes \in Shown /\ current_aircraft \in Slots
      BY <3>1 DEF BiosTypeOK
    <3>4. \A d \in DOMAIN Active(bytes, current_aircraft) :
             Active(bytes, current_aircraft)[d] = bytes[d]
      BY ONLY <3>3, ActiveShown
    <3>. QED
      BY <1>1, <2>1, <3>2, <3>4 DEF Noted
  <2>2. CASE ~due
    <3>1. fresh = Empty /\ decoded' = decoded
      BY <1>1, <1>2, <2>2 DEF biosVars
    <3>. QED
      BY <3>1, EmptyShown DEF Noted
  <2>. QED
    BY <2>1, <2>2
<1>5. publisher'.epoch = publisher.epoch
  BY <1>2 DEF Flushed
<1>6. Streaming
  BY <1>2, <1>5 DEF Streaming, linkVars
<1>. QED
  BY <1>1, <1>2, <1>3, <1>4, <1>5, <1>6 DEF Continued

LEMMA PathStep ==
    ASSUME Base, StreamOK, [Next]_vars, Streaming', NEW c
    PROVE  Continued(c) \/ Restarted(c)
<1>1. link' = "up" /\ publisher'.epoch # 0
  BY DEF Streaming
<1>2. ASSUME UNCHANGED <<link, ingress, raw, decoded>>, Pipe' = Pipe,
             publisher'.epoch = publisher.epoch, publisher'.pending = publisher.pending
      PROVE  Continued(c)
  <2>1. Path(c)' = Path(c)
    BY <1>2, PathKept
  <2>. QED
    BY <1>1, <1>2, <2>1 DEF Continued, Streaming
<1>3. CASE UNCHANGED vars \/ Export \/ Malformed
  <2>1. UNCHANGED <<link, ingress, raw, wire, queue, publisher, decoded>>
    BY <1>3 DEF vars, biosVars, Export, Malformed, ExportValue, ExportName, FrameMalformed,
                linkVars, cloudVars
  <2>2. Pipe' = Pipe
    BY <2>1 DEF Pipe
  <2>. QED
    BY <1>2, <2>1, <2>2
<1>4. CASE Frame
  BY <1>4, FramePath
<1>5. CASE DcsLost \/ FlushLost \/ Disconnect
  <2>1. publisher' = Reset
    BY <1>5 DEF DcsLost, FlushLost, Disconnect
  <2>. QED
    BY <1>1, <2>1 DEF Reset
<1>6. CASE FlushInitial
  <2>1. /\ publisher'.epoch = publisher.epoch /\ publisher'.pending = publisher.pending
        /\ UNCHANGED <<biosVars, link, ingress, raw>>
    BY <1>6, FlushInitialStep DEF Flushed, linkVars, cloudVars
  <2>2. Pipe' = Pipe
    BY <1>6, FlushInitialPipe
  <2>. QED
    BY <1>2, <2>1, <2>2 DEF biosVars
<1>7. CASE \E due \in BOOLEAN : FlushDelta(due)
  BY <1>7, FlushDeltaContinues
<1>8. CASE Connect
  BY <1>8, ConnectPath
<1>9. CASE Transmit
  <2>1. UNCHANGED <<biosVars, publisher, link, ingress, raw>>
    BY <1>9, TransmitStep DEF cloudVars
  <2>2. Pipe' = Pipe
    BY <1>9, TransmitPipe
  <2>. QED
    BY <1>2, <2>1, <2>2 DEF biosVars
<1>10. CASE Break
  BY <1>1, <1>10 DEF Break
<1>11. CASE Receive
  <2>1. UNCHANGED <<biosVars, publisher, link>> /\ link = "up"
    BY <1>1, <1>11 DEF Receive
  <2>2. Streaming /\ publisher'.epoch = publisher.epoch /\ decoded' = decoded
    BY <1>1, <2>1 DEF Streaming, biosVars
  <2>3. PICK origin \in [1..epochs -> Origins] : Streamed(origin)
    BY <2>1 DEF StreamOK
  <2>4. \/ Path(c)' = Path(c)
        \/ /\ Path(c) # <<>> /\ Path(c)' = Tail(Path(c))
           /\ Path(c)' # <<>> /\ Last(Path(c)') = Last(Path(c))
    BY <1>11, <2>2, <2>3, ReceivePath DEF Streaming
  <2>. QED
    BY <2>2, <2>4 DEF Continued
<1>. QED
  BY <1>3, <1>4, <1>5, <1>6, <1>7, <1>8, <1>9, <1>10, <1>11 DEF Next

-----------------------------------------------------------------------------

LatestOK ==
    Streaming => \A c \in DOMAIN decoded : Path(c) # <<>> /\ Last(Path(c)) = decoded[c]

LEMMA LatestStep ==
    ASSUME Base, StreamOK, LatestOK, [Next]_vars
    PROVE  LatestOK'
<1>1. SUFFICES ASSUME Streaming', NEW c \in DOMAIN decoded'
               PROVE  Path(c)' # <<>> /\ Last(Path(c)') = decoded'[c]
  BY DEF LatestOK
<1>2. CASE Restarted(c)
  BY <1>1, <1>2 DEF Restarted
<1>3. CASE Continued(c)
  <2>1. Streaming
    BY <1>3 DEF Continued
  <2>2. CASE /\ decoded' = decoded
             /\ Path(c)' # <<>> /\ Last(Path(c)') = Last(Path(c))
    BY <1>1, <2>1, <2>2 DEF LatestOK
  <2>3. CASE decoded' = decoded /\ Path(c)' = Path(c)
    BY <1>1, <2>1, <2>3 DEF LatestOK
  <2>4. CASE \E changes \in Shown :
                /\ Noted(changes)
                /\ Path(c)' = Held(c) \o Underway(c)
                                      \o Queued(QueueAll(publisher.pending, changes), c)
    <3>1. PICK changes \in Shown :
                /\ Noted(changes)
                /\ Path(c)' = Held(c) \o Underway(c)
                                      \o Queued(QueueAll(publisher.pending, changes), c)
      BY <2>4
    <3>2. PICK s \in Seq(Values) : s = Held(c) \o Underway(c)
      BY PathTyped
    <3>3. PICK pending, w, x :
            /\ pending = publisher.pending
            /\ w = Queued(pending, c) /\ x = Queued(QueueAll(pending, changes), c)
      OBVIOUS
    <3>4. Orderly(pending)
      BY <3>3 DEF Base, PublisherOK
    <3>5. /\ c \notin DOMAIN changes => s \o x = s \o w
          /\ c \in DOMAIN changes => s \o x # <<>> /\ Last(s \o x) = changes[c]
      <4>1. Requeueing(s, w, x, changes, c)
        BY ONLY s \in Seq(Values), changes \in Shown, <3>4, <3>3, Requeued
      <4>. QED
        BY ONLY <4>1 DEF Requeueing
    <3>6. Path(c)' = s \o x /\ Path(c) = s \o w
      BY <3>1, <3>2, <3>3 DEF Path, Waiting
    <3>7. IF c \in DOMAIN changes THEN decoded'[c] = changes[c]
          ELSE c \in DOMAIN decoded /\ decoded'[c] = decoded[c]
      BY <1>1, <3>1 DEF Noted
    <3>. QED
      BY <2>1, <3>5, <3>6, <3>7 DEF LatestOK
  <2>. QED
    BY <1>3, <2>2, <2>3, <2>4 DEF Continued
<1>. QED
  BY <1>1, <1>2, <1>3, PathStep

LEMMA LatestHolds == Spec => [](Base /\ StreamOK /\ LatestOK)
<1>1. Init => LatestOK
  BY DEF Init, LatestOK, Streaming
<1>2. Base /\ StreamOK /\ LatestOK /\ [Next]_vars => LatestOK'
  BY LatestStep
<1>. QED
  BY <1>1, <1>2, StreamHolds, PTL DEF Spec

\* Coalescing, refreshing, a full queue, a snapshot taken inside a frame or a
\* new slot never lose the newest value of a control.
THEOREM NewestSurvives == Spec => []LatestSurvives
<1>1. ASSUME Base, LatestOK
      PROVE  LatestSurvives
  <2>1. SUFFICES ASSUME Streaming, NEW c \in DOMAIN Active(bytes, current_aircraft) \ dirty
                 PROVE  Path(c) # <<>> /\ Last(Path(c)) = bytes[c]
    BY DEF LatestSurvives
  <2>2. c \in DOMAIN decoded /\ decoded[c] = bytes[c]
    BY <1>1, <2>1 DEF Base, CockpitOK, Known, Streaming
  <2>. QED
    BY <1>1, <2>1, <2>2 DEF LatestOK
<1>. QED
  BY <1>1, LatestHolds, PTL

\* The positions of a switch go through in order, one by one: only when
\* MaxTransitions of them wait is the last of these overwritten.
THEOREM EveryTransition == Spec => TransitionsSurvive
<1>1. ASSUME Base, StreamOK, [Next]_vars
      PROVE  [\A c \in Switches :
                 Streaming /\ Streaming' /\ publisher'.epoch = publisher.epoch =>
                     \/ Path(c)' = Path(c)
                     \/ Path(c) # <<>> /\ Path(c)' = Tail(Path(c))
                     \/ Path(c)' # <<>> /\ Front(Path(c)') = Path(c)
                     \/ /\ Len(Waiting(c)) = MaxTransitions
                        /\ Replaced(Path(c), Path(c)')]_vars
  <2>1. SUFFICES ASSUME NEW c \in Switches, Streaming', publisher'.epoch = publisher.epoch
                 PROVE  \/ Path(c)' = Path(c)
                        \/ Path(c) # <<>> /\ Path(c)' = Tail(Path(c))
                        \/ Path(c)' # <<>> /\ Front(Path(c)') = Path(c)
                        \/ /\ Len(Waiting(c)) = MaxTransitions
                           /\ Replaced(Path(c), Path(c)')
    OBVIOUS
  <2>2. Continued(c)
    BY <1>1, <2>1, PathStep DEF Restarted
  <2>3. CASE \E changes \in Shown :
                Path(c)' = Held(c) \o Underway(c)
                                   \o Queued(QueueAll(publisher.pending, changes), c)
    <3>1. PICK changes \in Shown :
                Path(c)' = Held(c) \o Underway(c)
                                   \o Queued(QueueAll(publisher.pending, changes), c)
      BY <2>3
    <3>2. PICK s \in Seq(Values) : s = Held(c) \o Underway(c)
      BY <1>1, PathTyped
    <3>3. PICK pending, w, x :
            /\ pending = publisher.pending
            /\ w = Queued(pending, c) /\ x = Queued(QueueAll(pending, changes), c)
      OBVIOUS
    <3>4. Orderly(pending)
      BY <1>1, <3>3 DEF Base, PublisherOK
    <3>5. \/ s \o x = s \o w
          \/ s \o x # <<>> /\ Front(s \o x) = s \o w
          \/ Len(w) = MaxTransitions /\ Replaced(s \o w, s \o x)
      <4>1. Requeueing(s, w, x, changes, c)
        BY ONLY s \in Seq(Values), changes \in Shown, <3>4, <3>3, Requeued
      <4>. QED
        BY ONLY <4>1, c \in Switches DEF Requeueing
    <3>6. Path(c)' = s \o x /\ Path(c) = s \o w /\ Waiting(c) = w
      BY <3>1, <3>2, <3>3 DEF Path, Waiting
    <3>. QED
      BY <3>5, <3>6
  <2>. QED
    BY <2>2, <2>3 DEF Continued
<1>. QED
  BY <1>1, StreamHolds, PTL DEF Spec, TransitionsSurvive

-----------------------------------------------------------------------------
(* What CockpitIsMirrored asks for comes with the last message.            *)

\* Nothing the publisher knows has still to reach the gateway.
Quiet == Pipe = <<>> /\ publisher.pending = <<>>

\* A session that sends nothing has no aircraft to send about.
Flown == link # "down" /\ publisher.epoch = 0 => current_aircraft = NoAircraft

LEMMA BeginFlown ==
    ASSUME Base, NEW a \in Slots, NEW values, BeginEpoch(a, values), current_aircraft' = a
    PROVE  Flown'
<1>1. epochs + 1 # 0
  BY DEF Base, PublisherOK
<1>2. CASE a = NoAircraft
  BY <1>2 DEF Flown
<1>3. CASE a # NoAircraft
  <2>1. publisher'.epoch = epochs + 1
    BY <1>3 DEF BeginEpoch, Begun
  <2>. QED
    BY <1>1, <2>1 DEF Flown
<1>. QED
  BY <1>2, <1>3

LEMMA FrameFlown ==
    ASSUME Base, Flown, Frame
    PROVE  Flown'
<1>1. PICK r : r = FrameResult(link # "down")
  OBVIOUS
<1>2. /\ r.news = (name # current_aircraft)
      /\ IF r.news /\ link # "down" THEN BeginEpoch(name, Active(r.bytes, name))
         ELSE publisher' = IF publisher.epoch = 0 THEN publisher
                           ELSE [publisher EXCEPT !.pending = QueueAll(@, r.changes)]
  BY <1>1, Zenon DEF Frame, FrameResult
<1>3. current_aircraft' = name /\ link' = link /\ name \in Slots
  BY <1>1, FrameStep DEF linkVars, Base, CockpitOK, BiosTypeOK
<1>4. CASE r.news /\ link # "down"
  <2>1. BeginEpoch(name, Active(r.bytes, name))
    BY <1>2, <1>4
  <2>. QED
    BY <1>3, <2>1, BeginFlown
<1>5. CASE link = "down"
  BY <1>3, <1>5 DEF Flown
<1>6. CASE ~r.news /\ link # "down"
  <2>1. publisher \in PublisherType(epochs)
    BY DEF Base, PublisherOK
  <2>2. publisher'.epoch = publisher.epoch
    BY <1>2, <1>6, <2>1 DEF PublisherType
  <2>. QED
    BY <1>2, <1>3, <1>6, <2>2 DEF Flown
<1>. QED
  BY <1>4, <1>5, <1>6

LEMMA FlownStep ==
    ASSUME Base, Flown, [Next]_vars
    PROVE  Flown'
<1>0. publisher \in PublisherType(epochs)
  BY DEF Base, PublisherOK
<1>1. CASE UNCHANGED vars
  BY <1>1 DEF vars, biosVars, linkVars, Flown
<1>2. CASE Export
  BY <1>2 DEF Export, ExportValue, ExportName, linkVars, Flown
<1>3. CASE Malformed
  BY <1>3 DEF Malformed, FrameMalformed, linkVars, Flown
<1>4. CASE Frame
  BY <1>4, FrameFlown
<1>5. CASE DcsLost \/ FlushLost
  BY <1>5 DEF DcsLost, FlushLost, Expire, Flown
<1>6. CASE FlushInitial
  <2>1. publisher'.epoch = publisher.epoch
    BY <1>0, <1>6 DEF FlushInitial, PublisherType
  <2>. QED
    BY <1>6, <2>1 DEF FlushInitial, biosVars, linkVars, Flown
<1>7. CASE \E due \in BOOLEAN : FlushDelta(due)
  <2>1. publisher.epoch # 0 /\ publisher'.epoch = publisher.epoch
    BY <1>0, <1>7, Zenon DEF FlushDelta, PublisherType
  <2>. QED
    BY <2>1 DEF Flown
<1>8. CASE Connect
  <2>1. /\ BeginEpoch(current_aircraft, Active(bytes, current_aircraft))
        /\ current_aircraft' = current_aircraft /\ current_aircraft \in Slots
    BY <1>8 DEF Connect, TakeSnapshot, Base, CockpitOK, BiosTypeOK
  <2>. QED
    BY <2>1, BeginFlown
<1>9. CASE Transmit
  BY <1>9 DEF Transmit, biosVars, Flown
<1>10. CASE Break
  BY <1>10 DEF Break, biosVars, Flown
<1>11. CASE Disconnect
  BY <1>11 DEF Disconnect, Flown
<1>12. CASE Receive
  BY <1>12 DEF Receive, biosVars, Flown
<1>. QED
  BY <1>1, <1>2, <1>3, <1>4, <1>5, <1>6, <1>7, <1>8, <1>9, <1>10, <1>11, <1>12 DEF Next

LEMMA QuietShows ==
    ASSUME Base, StreamOK, LatestOK, Flown, Quiet
    PROVE  Mirrored
<1>1. SUFFICES ASSUME link = "up", current_aircraft # NoAircraft
               PROVE  /\ ingress.ready /\ ingress.aircraft = current_aircraft
                      /\ \A c \in DOMAIN Active(bytes, current_aircraft) \ dirty :
                            c \in DOMAIN raw /\ raw[c] = bytes[c]
  BY DEF Mirrored
<1>2. publisher.epoch # 0 /\ Streaming
  BY <1>1 DEF Flown, Streaming
<1>3. PICK origin \in [1..epochs -> Origins] : Streamed(origin)
  BY <1>1 DEF StreamOK
<1>4. publisher.epoch \in 1..epochs /\ publisher.aircraft = current_aircraft
      /\ ingress \in IngressType(epochs) /\ publisher.sequence \in Nat
  BY <1>2, PipeMessages DEF Base, PublisherOK
<1>5. PICK o \in Origins : o = origin[publisher.epoch]
  BY <1>3, <1>4
<1>6. /\ ingress.epoch = publisher.epoch /\ ingress.next = publisher.sequence
      /\ o.aircraft = publisher.aircraft /\ ingress.next >= Opening(o)
  BY <1>2, <1>3, <1>5 DEF Quiet, Streamed, EpochAfter, NextAfter
<1>7. Assembled(ingress, raw, o)
  BY <1>2, <1>3, <1>5, <1>6 DEF Streamed
<1>8. ingress.ready /\ ingress.aircraft = current_aircraft
  BY <1>4, <1>6, <1>7 DEF Assembled, Opening
<1>9. ASSUME NEW c \in DOMAIN Active(bytes, current_aircraft) \ dirty
      PROVE  c \in DOMAIN raw /\ raw[c] = bytes[c]
  <2>1. c \in DOMAIN decoded /\ decoded[c] = bytes[c]
    BY <1>1, <1>9 DEF Base, CockpitOK, Known
  <2>2. Path(c) # <<>> /\ Last(Path(c)) = bytes[c]
    BY <1>2, <2>1 DEF LatestOK
  <2>3. Underway(c) = <<>>
    <3>1. Underway(c) = Told(<<>>, publisher.epoch, c)
      BY PathTyped DEF Quiet
    <3>2. <<>> \in Seq(Messages) /\ \A i \in 1..Len(<<>>) : ~Matches(<<>>[i], publisher.epoch, c)
      OBVIOUS
    <3>. QED
      BY <3>1, <3>2, ToldNothing
  <2>4. Waiting(c) = <<>>
    BY DEF Quiet, Waiting, Queued
  <2>5. PICK h \in Seq(Values) : h = Held(c)
    BY PathTyped
  <2>6. Path(c) = h
    BY <2>3, <2>4, <2>5 DEF Path
  <2>7. Held(c) = IF c \in DOMAIN raw THEN <<raw[c]>> ELSE <<>>
    BY <1>6, <1>8 DEF Held
  <2>8. c \in DOMAIN raw /\ Path(c) = <<raw[c]>>
    BY <2>2, <2>5, <2>6, <2>7
  <2>. QED
    BY <2>2, <2>8 DEF Last
<1>. QED
  BY <1>8, <1>9

\* Once nothing is on its way or waits, the gateway shows the aircraft flown and
\* of every control what the cockpit shows: for CockpitIsMirrored it is enough
\* that the messages get through.
THEOREM QuietIsMirrored == Spec => [](Quiet => Mirrored)
<1>1. Init => Flown
  BY DEF Init, Flown
<1>2. Base /\ Flown /\ [Next]_vars => Flown'
  BY FlownStep
<1>3. Base /\ StreamOK /\ LatestOK /\ Flown => (Quiet => Mirrored)
  BY QuietShows
<1>. QED
  BY <1>1, <1>2, <1>3, LatestHolds, PTL DEF Spec

==============================================================================
