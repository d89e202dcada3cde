-------------------------- MODULE FlightRecordsProofs --------------------------
(***************************************************************************)
(* Theorems about FlightRecords, for every set of tool calls, every limit  *)
(* of the deque and every number of flights and client sessions.           *)
(*                                                                         *)
(* Deque, Loop and Table state what IInv says of the deque, of a           *)
(* coroutine's copy and of the table as facts about sequences; the lemmas  *)
(* on what the operations do to them mention no variable.                  *)
(***************************************************************************)
EXTENDS FlightRecords, SequenceTheorems, TLAPS

\* Of n flights, s has left the full deque.
Left(s, n) == s + PendingLimit =< n

Deque(p, n) ==
    /\ p \in Seq(1..n) /\ Len(p) =< PendingLimit
    /\ Increasing(p)
    /\ \A i \in DOMAIN p : p[i] + (Len(p) - i) =< n

Loop(todo, known, n) ==
    /\ todo \in Seq(1..n)
    /\ Increasing(todo)
    /\ \A i \in DOMAIN todo : \A s \in 1..(todo[i] - 1) :
          Left(s, n) \/ s \in known \/ \E j \in 1..(i - 1) : todo[j] = s

Table(rows, n) ==
    /\ rows \in Seq(1..n)
    /\ \A i, j \in DOMAIN rows :
          i < j => rows[i] < rows[j] \/ (rows[i] # rows[j] /\ Left(rows[j], n))
    /\ \A i \in DOMAIN rows : \A s \in 1..(rows[i] - 1) :
          Left(s, n) \/ s \in ToSet(rows)

------------------------------------------------------------------------------
(* Sequences.                                                              *)

\* A sequence of flights is one of more flights.
LEMMA SeqWider ==
    ASSUME NEW m \in Nat, NEW n \in Nat, m =< n, NEW s \in Seq(1..m)
    PROVE  s \in Seq(1..n)
  OBVIOUS

\* What appending does to the elements.
LEMMA AppendSet ==
    ASSUME NEW S, NEW p \in Seq(S), NEW e \in S
    PROVE  ToSet(Append(p, e)) = ToSet(p) \cup {e}
<1>1. /\ DOMAIN p = 1..Len(p) /\ Len(p) \in Nat
      /\ DOMAIN Append(p, e) = 1..(Len(p) + 1)
  BY LenProperties, AppendProperties
<1>2. /\ \A i \in 1..Len(p) : Append(p, e)[i] = p[i]
      /\ Append(p, e)[Len(p) + 1] = e
  BY AppendProperties
<1>. QED
  BY <1>1, <1>2 DEF ToSet

\* deque.append gives a deque that holds the new flight and whatever the old
\* one held, but what now has left it.
LEMMA DequeAppends ==
    ASSUME NEW n \in Nat, NEW p, Deque(p, n)
    PROVE  LET q == AppendBounded(p, n + 1)
           IN  /\ Deque(q, n + 1)
               /\ n + 1 \in ToSet(q)
               /\ \A s \in ToSet(p) : s \in ToSet(q) \/ Left(s, n + 1)
<1>0. PendingLimit \in Nat /\ PendingLimit > 0
  BY RecordsAssumption
<1>. USE <1>0
<1>1. /\ p \in Seq(1..n) /\ Len(p) \in Nat /\ Len(p) =< PendingLimit
      /\ \A i \in 1..Len(p) : p[i] \in 1..n
  BY LenProperties, ElementOfSeq DEF Deque
<1>01. PICK k : k = IF Len(p) = PendingLimit THEN Tail(p) ELSE p
  OBVIOUS
<1>2. /\ k \in Seq(1..n) /\ Len(k) \in Nat /\ Len(k) < PendingLimit
      /\ \/ /\ Len(p) = PendingLimit /\ Len(k) = Len(p) - 1
            /\ \A i \in 1..Len(k) : k[i] = p[i + 1]
         \/ Len(p) # PendingLimit /\ k = p
  <2>1. CASE Len(p) = PendingLimit
    <3>1. p # <<>>
      BY <2>1, <1>1
    <3>2. /\ k \in Seq(1..n) /\ Len(k) = Len(p) - 1
          /\ \A i \in 1..Len(k) : k[i] = p[i + 1]
      BY <3>1, <2>1, <1>01, <1>1, HeadTailProperties
    <3>. QED
      BY <3>2, <2>1, <1>1, LenProperties
  <2>2. CASE Len(p) # PendingLimit
    <3>1. k = p
      BY <2>2, <1>01
    <3>2. Len(p) < PendingLimit
      BY <2>2, <1>1
    <3>. QED
      BY <3>1, <3>2, <2>2, <1>1
  <2>. QED
    BY <2>1, <2>2
<1>3. \A i \in 1..Len(k) : k[i] \in 1..n /\ k[i] + (Len(k) - i) =< n
  <2>1. \A i \in 1..Len(p) : p[i] + (Len(p) - i) =< n
    BY <1>1 DEF Deque
  <2>2. CASE Len(p) = PendingLimit
    <3>. SUFFICES ASSUME NEW i \in 1..Len(k)
                  PROVE  k[i] \in 1..n /\ k[i] + (Len(k) - i) =< n
      OBVIOUS
    <3>1. i + 1 \in 1..Len(p) /\ k[i] = p[i + 1] /\ Len(k) = Len(p) - 1
      BY <2>2, <1>1, <1>2
    <3>2. p[i + 1] \in 1..n /\ p[i + 1] + (Len(p) - (i + 1)) =< n
      BY <3>1, <2>1, <1>1
    <3>. QED
      BY <3>1, <3>2, <1>1
  <2>. QED
    BY <2>1, <2>2, <1>1, <1>2
<1>4. Increasing(k)
  <2>1. \A i, j \in 1..Len(p) : i < j => p[i] < p[j]
    <3>1. DOMAIN p = 1..Len(p)
      BY <1>1, LenProperties
    <3>. QED
      BY <3>1 DEF Deque, Increasing
  <2>2. CASE Len(p) = PendingLimit
    <3>. SUFFICES ASSUME NEW i \in 1..Len(k), NEW j \in 1..Len(k), i < j
                  PROVE  k[i] < k[j]
      BY <1>2 DEF Increasing
    <3>1. /\ i + 1 \in 1..Len(p) /\ j + 1 \in 1..Len(p) /\ i + 1 < j + 1
          /\ k[i] = p[i + 1] /\ k[j] = p[j + 1]
      BY <2>2, <1>1, <1>2
    <3>. QED
      BY <3>1, <2>1
  <2>. QED
    BY <2>1, <2>2, <1>1, <1>2, SMTT(30) DEF Increasing
<1>5. \A s \in ToSet(p) : s \in ToSet(k) \/ Left(s, n + 1)
  <2>. SUFFICES ASSUME NEW i \in 1..Len(p)
                PROVE  p[i] \in ToSet(k) \/ Left(p[i], n + 1)
    BY <1>1 DEF ToSet
  <2>1. CASE Len(p) # PendingLimit
    BY <2>1, <1>1, <1>2 DEF ToSet
  <2>2. CASE Len(p) = PendingLimit /\ i = 1
    BY <2>2, <1>1 DEF Left, Deque
  <2>3. CASE Len(p) = PendingLimit /\ i # 1
    <3>1. i - 1 \in 1..Len(k) /\ (i - 1) + 1 = i
      BY <2>3, <1>1, <1>2
    <3>2. k[i - 1] = p[i]
      BY <3>1, <2>3, <1>2
    <3>. QED
      BY <3>1, <3>2, <1>2 DEF ToSet
  <2>. QED
    BY <2>1, <2>2, <2>3
<1>6. k \in Seq(1..(n + 1))
  BY <1>2, SeqWider
<1>. DEFINE q == Append(k, n + 1)
<1>7. /\ q \in Seq(1..(n + 1)) /\ Len(q) = Len(k) + 1
      /\ \A i \in 1..Len(k) : q[i] = k[i]
      /\ q[Len(k) + 1] = n + 1
  BY <1>6, AppendProperties, LenProperties
<1>8. ToSet(q) = ToSet(k) \cup {n + 1}
  BY <1>6, AppendSet
<1>. HIDE DEF q
<1>9. Deque(q, n + 1)
  <2>1. Increasing(q)
    <3>. SUFFICES ASSUME NEW i \in 1..(Len(k) + 1), NEW j \in 1..(Len(k) + 1),
                         i < j
                  PROVE  q[i] < q[j]
      BY <1>7 DEF Increasing
    <3>1. i \in 1..Len(k) /\ q[i] = k[i] /\ k[i] \in 1..n
      BY <1>2, <1>3, <1>7, SMTT(30)
    <3>2. CASE j = Len(k) + 1
      BY <3>1, <3>2, <1>7
    <3>3. CASE j # Len(k) + 1
      <4>0. j \in 1..Len(k)
        <5>1. Len(k) \in Nat
          BY <1>2
        <5>. QED
          BY <5>1, <3>3
      <4>1. q[j] = k[j]
        BY <4>0, <1>7
      <4>. QED
        BY <4>0, <4>1, <3>1, <1>2, <1>4 DEF Increasing
    <3>. QED
      BY <3>2, <3>3
  <2>2. ASSUME NEW i \in 1..(Len(k) + 1)
        PROVE  q[i] + (Len(q) - i) =< n + 1
    <3>1. CASE i = Len(k) + 1
      BY <3>1, <1>2, <1>7
    <3>2. CASE i # Len(k) + 1
      <4>1. /\ i \in 1..Len(k) /\ q[i] = k[i] /\ k[i] \in Nat
            /\ k[i] + (Len(k) - i) =< n
        BY <3>2, <1>2, <1>3, <1>7
      <4>2. Len(k) \in Nat /\ Len(q) = Len(k) + 1
        BY <1>2, <1>7
      <4>3. (Len(k) + 1) - i = (Len(k) - i) + 1
        BY <4>2
      <4>. QED
        BY <4>1, <4>2, <4>3
    <3>. QED
      BY <3>1, <3>2
  <2>3. Len(q) =< PendingLimit
    BY <1>2, <1>7
  <2>4. DOMAIN q = 1..(Len(k) + 1)
    BY <1>7, LenProperties
  <2>. QED
    BY <2>1, <2>2, <2>3, <2>4, <1>7 DEF Deque
<1>10. AppendBounded(p, n + 1) = q
  BY <1>01 DEF AppendBounded, q
<1>. QED
  BY <1>5, <1>8, <1>9, <1>10

\* _persisted takes one flight out of a deque and leaves the rest as it is.
LEMMA DequeLoses ==
    ASSUME NEW n \in Nat, NEW p, Deque(p, n), NEW e
    PROVE  LET q == Acknowledge(p, e)
           IN  /\ Deque(q, n)
               /\ \A s \in ToSet(p) : s = e \/ s \in ToSet(q)
<1>1. CASE e \notin ToSet(p)
  BY <1>1 DEF Acknowledge
<1>2. CASE e \in ToSet(p)
  <2>1. PICK k \in DOMAIN p : /\ p[k] = e
                              /\ Acknowledge(p, e) = RemoveAt(p, k)
    <3>1. \E i \in DOMAIN p : p[i] = e
      BY <1>2 DEF ToSet
    <3>. QED
      BY <3>1, <1>2 DEF Acknowledge
  <2>2. /\ p \in Seq(1..n) /\ Len(p) \in Nat /\ Len(p) =< PendingLimit
        /\ k \in 1..Len(p)
        /\ \A i \in 1..Len(p) : p[i] \in 1..n /\ p[i] + (Len(p) - i) =< n
        /\ \A i, j \in 1..Len(p) : i < j => p[i] < p[j]
    BY <2>1, LenProperties, ElementOfSeq DEF Deque, Increasing
  <2>3. PICK a : a = SubSeq(p, 1, k - 1)
    OBVIOUS
  <2>4. PICK b : b = SubSeq(p, k + 1, Len(p))
    OBVIOUS
  <2>5. /\ a \in Seq(1..n) /\ Len(a) = k - 1
        /\ \A i \in 1..(k - 1) : a[i] = p[i]
    <3>1. \A i \in 1..(k - 1) : p[i] \in 1..n
      BY <2>2
    <3>. QED
      BY <3>1, <2>2, <2>3, SubSeqProperties
  <2>6. /\ b \in Seq(1..n) /\ Len(b) = Len(p) - k
        /\ \A i \in 1..(Len(p) - k) : b[i] = p[k + i]
    <3>1. k + 1 \in Int /\ Len(p) \in Int /\ \A i \in (k + 1)..Len(p) : p[i] \in 1..n
      BY <2>2
    <3>2. /\ b \in Seq(1..n)
          /\ Len(b) = IF k + 1 =< Len(p) THEN Len(p) - (k + 1) + 1 ELSE 0
          /\ \A i \in 1..(Len(p) - (k + 1) + 1) : b[i] = p[(k + 1) + i - 1]
      BY <3>1, <2>4, SubSeqProperties
    <3>3. Len(p) - (k + 1) + 1 = Len(p) - k
      BY <2>2
    <3>4. Len(b) = Len(p) - k
      BY <3>2, <2>2
    <3>5. ASSUME NEW i \in 1..(Len(p) - k)
          PROVE  b[i] = p[k + i]
      <4>1. (k + 1) + i - 1 = k + i
        BY <2>2
      <4>2. b[i] = p[(k + 1) + i - 1]
        BY <3>2, <3>3
      <4>. QED
        BY <4>1, <4>2
    <3>. QED
      BY <3>2, <3>4, <3>5
  <2>7. PICK q : q = Acknowledge(p, e)
    OBVIOUS
  <2>8. /\ q \in Seq(1..n) /\ Len(q) = Len(p) - 1
        /\ \A i \in 1..(Len(p) - 1) : q[i] = IF i < k THEN p[i] ELSE p[i + 1]
    <3>1. q = a \o b
      BY <2>1, <2>3, <2>4, <2>7 DEF RemoveAt
    <3>2. /\ q \in Seq(1..n) /\ Len(q) = Len(a) + Len(b)
          /\ \A i \in 1..(Len(a) + Len(b)) :
                q[i] = IF i =< Len(a) THEN a[i] ELSE b[i - Len(a)]
      BY <3>1, <2>5, <2>6, ConcatProperties
    <3>3. Len(a) + Len(b) = Len(p) - 1
      BY <2>2, <2>5, <2>6
    <3>4. ASSUME NEW i \in 1..(Len(p) - 1)
          PROVE  q[i] = IF i < k THEN p[i] ELSE p[i + 1]
      <4>0. q[i] = IF i =< k - 1 THEN a[i] ELSE b[i - (k - 1)]
        BY <3>2, <3>3, <2>5
      <4>1. CASE i < k
        <5>1. i \in 1..(k - 1)
          BY <4>1, <2>2
        <5>. QED
          BY <5>1, <4>0, <4>1, <2>5
      <4>2. CASE ~(i < k)
        <5>1. i - (k - 1) \in 1..(Len(p) - k) /\ k + (i - (k - 1)) = i + 1
          <6>1. Len(p) \in Nat /\ k \in 1..Len(p)
            BY <2>2
          <6>. QED
            BY <6>1, <4>2
        <5>2. q[i] = b[i - (k - 1)]
          <6>1. ~(i =< k - 1)
            BY <4>2, <2>2
          <6>. QED
            BY <6>1, <4>0
        <5>. QED
          BY <5>1, <5>2, <4>2, <2>6
      <4>. QED
        BY <4>1, <4>2
    <3>. QED
      BY <3>2, <3>3, <3>4
  <2>9. \A i \in 1..(Len(p) - 1) : /\ i \in 1..Len(p) /\ i + 1 \in 1..Len(p)
                                   /\ q[i] \in 1..n
                                   /\ q[i] + ((Len(p) - 1) - i) =< n
    <3>. SUFFICES ASSUME NEW i \in 1..(Len(p) - 1)
                  PROVE  /\ i \in 1..Len(p) /\ i + 1 \in 1..Len(p)
                         /\ q[i] \in 1..n
                         /\ q[i] + ((Len(p) - 1) - i) =< n
      OBVIOUS
    <3>1. i \in 1..Len(p) /\ i + 1 \in 1..Len(p)
      BY <2>2
    <3>2. /\ p[i] \in 1..n /\ p[i] + (Len(p) - i) =< n
          /\ p[i + 1] \in 1..n /\ p[i + 1] + (Len(p) - (i + 1)) =< n
      BY <3>1, <2>2
    <3>3. q[i] = p[i] \/ q[i] = p[i + 1]
      BY <2>8
    <3>4. Len(p) - (i + 1) = (Len(p) - 1) - i
      BY <2>2
    <3>5. p[i] + ((Len(p) - 1) - i) =< n
      <4>1. \A x, l, j \in Nat : x + (l - j) =< n => x + ((l - 1) - j) =< n
        OBVIOUS
      <4>2. p[i] \in Nat
        BY <3>2
      <4>3. Len(p) \in Nat /\ i \in Nat
        BY <2>2
      <4>. QED
        BY <4>1, <4>2, <4>3, <3>2
    <3>. QED
      BY <3>1, <3>2, <3>3, <3>4, <3>5
  <2>10. Increasing(q)
    <3>. SUFFICES ASSUME NEW i \in 1..(Len(p) - 1), NEW j \in 1..(Len(p) - 1),
                         i < j
                  PROVE  q[i] < q[j]
      BY <2>8, SMTT(30) DEF Increasing
    <3>1. /\ i \in 1..Len(p) /\ i + 1 \in 1..Len(p)
          /\ j \in 1..Len(p) /\ j + 1 \in 1..Len(p)
      BY <2>9
    <3>2. p[i] < p[j] /\ p[i] < p[j + 1] /\ p[i + 1] < p[j + 1]
      BY <3>1, <2>2
    <3>3. q[i] = (IF i < k THEN p[i] ELSE p[i + 1])
      BY <2>8
    <3>4. q[j] = (IF j < k THEN p[j] ELSE p[j + 1])
      BY <2>8
    <3>5. j < k => i < k
      BY <2>2
    <3>. QED
      BY <3>2, <3>3, <3>4, <3>5
  <2>11. Deque(q, n)
    <3>1. Len(q) =< PendingLimit
      <4>. PendingLimit \in Nat
        BY RecordsAssumption
      <4>. QED
        BY <2>2, <2>8
    <3>2. DOMAIN q = 1..(Len(p) - 1)
      BY <2>8, LenProperties
    <3>. QED
      BY <3>1, <3>2, <2>8, <2>9, <2>10 DEF Deque
  <2>12. ASSUME NEW i \in 1..Len(p), p[i] # e
         PROVE  p[i] \in ToSet(q)
    <3>1. i # k
      BY <2>1, <2>12
    <3>2. CASE i < k
      <4>1. i \in 1..(Len(p) - 1)
        BY <3>2, <2>2
      <4>2. q[i] = p[i]
        BY <4>1, <3>2, <2>8
      <4>. QED
        BY <4>1, <4>2, <2>8 DEF ToSet
    <3>3. CASE k < i
      <4>1. i - 1 \in 1..(Len(p) - 1) /\ ~(i - 1 < k) /\ (i - 1) + 1 = i
        BY <3>3, <2>2
      <4>2. q[i - 1] = p[i]
        BY <4>1, <2>8
      <4>. QED
        BY <4>1, <4>2, <2>8 DEF ToSet
    <3>. QED
      BY <3>1, <3>2, <3>3, <2>2
  <2>13. ASSUME NEW s \in ToSet(p)
         PROVE  s = e \/ s \in ToSet(q)
    <3>1. PICK i \in DOMAIN p : s = p[i]
      BY DEF ToSet
    <3>2. i \in 1..Len(p)
      BY <2>2, LenProperties
    <3>. QED
      BY <3>1, <3>2, <2>12
  <2>. QED
    BY <2>7, <2>11, <2>13
<1>. QED
  BY <1>1, <1>2

\* Going on with the next summary once the first is stored.
LEMMA LoopGoesOn ==
    ASSUME NEW n \in Nat, NEW known, NEW todo, Loop(todo, known, n),
           todo # <<>>, Head(todo) \in known
    PROVE  Loop(Tail(todo), known, n)
<1>1. /\ todo \in Seq(1..n) /\ Len(todo) \in Nat /\ Len(todo) > 0
      /\ \A i \in 1..Len(todo) : todo[i] \in 1..n
  BY LenProperties, ElementOfSeq, EmptySeq DEF Loop
<1>2. PICK left : left = Tail(todo)
  OBVIOUS
<1>3. /\ left \in Seq(1..n) /\ Len(left) = Len(todo) - 1
      /\ \A i \in 1..(Len(todo) - 1) : left[i] = todo[i + 1]
  BY <1>1, <1>2, HeadTailProperties
<1>4. todo[1] \in known
  BY <1>1
<1>5. \A i \in 1..(Len(todo) - 1) : i + 1 \in 1..Len(todo)
  BY <1>1
<1>6. DOMAIN left = 1..(Len(todo) - 1)
  BY <1>3, LenProperties
<1>7. DOMAIN todo = 1..Len(todo)
  BY <1>1, LenProperties
<1>8. Increasing(left)
  <2>. SUFFICES ASSUME NEW i \in 1..(Len(todo) - 1), NEW j \in 1..(Len(todo) - 1),
                       i < j
                PROVE  left[i] < left[j]
    BY <1>6 DEF Increasing
  <2>1. i + 1 < j + 1
    OBVIOUS
  <2>2. todo[i + 1] < todo[j + 1]
    BY <1>5, <1>7, <2>1 DEF Loop, Increasing
  <2>. QED
    BY <2>2, <1>3
<1>9. ASSUME NEW i \in 1..(Len(todo) - 1), NEW s \in 1..(left[i] - 1)
      PROVE  Left(s, n) \/ s \in known \/ \E j \in 1..(i - 1) : left[j] = s
  <2>1. s \in 1..(todo[i + 1] - 1) /\ i + 1 \in DOMAIN todo
    BY <1>3, <1>5, <1>7
  <2>2. CASE Left(s, n) \/ s \in known
    BY <2>2
  <2>3. CASE ~(Left(s, n) \/ s \in known)
    <3>1. PICK j \in 1..((i + 1) - 1) : todo[j] = s
      BY <2>1, <2>3 DEF Loop
    <3>2. j # 1
      BY <3>1, <2>3, <1>4
    <3>3. j - 1 \in 1..(i - 1) /\ (j - 1) + 1 = j /\ j - 1 \in 1..(Len(todo) - 1)
      BY <3>1, <3>2, <1>1
    <3>4. left[j - 1] = s
      BY <3>1, <3>3, <1>3
    <3>. QED
      BY <3>3, <3>4
  <2>. QED
    BY <2>2, <2>3
<1>. QED
  BY <1>2, <1>3, <1>6, <1>8, <1>9 DEF Loop

\* More flights and more rows do not disturb a copy.
LEMMA LoopWider ==
    ASSUME NEW m \in Nat, NEW n \in Nat, m =< n,
           NEW known, NEW more, known \subseteq more,
           NEW todo, Loop(todo, known, m)
    PROVE  Loop(todo, more, n)
<1>. PendingLimit \in Nat
  BY RecordsAssumption
<1>1. todo \in Seq(1..n)
  BY SeqWider DEF Loop
<1>2. \A i \in DOMAIN todo : todo[i] \in Nat
  BY <1>1, LenProperties, ElementOfSeq
<1>3. \A i \in DOMAIN todo : \A s \in 1..(todo[i] - 1) : Left(s, m) => Left(s, n)
  BY <1>2 DEF Left
<1>. QED
  BY <1>1, <1>3 DEF Loop

\* A copy of the deque: whatever precedes a summary has left the deque, is
\* stored or waits before it.
LEMMA LoopBegins ==
    ASSUME NEW n \in Nat, NEW known, NEW p, Deque(p, n),
           \A s \in 1..n : Left(s, n) \/ s \in ToSet(p) \/ s \in known
    PROVE  Loop(p, known, n)
<1>1. /\ p \in Seq(1..n) /\ Len(p) \in Nat /\ Increasing(p)
      /\ \A i \in 1..Len(p) : p[i] \in 1..n
  BY LenProperties, ElementOfSeq DEF Deque
<1>2. DOMAIN p = 1..Len(p)
  BY <1>1, LenProperties
<1>3. ASSUME NEW i \in 1..Len(p), NEW s \in 1..(p[i] - 1),
             ~(Left(s, n) \/ s \in known)
      PROVE  \E j \in 1..(i - 1) : p[j] = s
  <2>1. s \in 1..n /\ s < p[i]
    BY <1>1
  <2>2. PICK j \in 1..Len(p) : p[j] = s
    BY <2>1, <1>2, <1>3 DEF ToSet
  <2>3. ~(i < j)
    <3>1. i < j => p[i] < p[j]
      BY <1>1, <1>2 DEF Increasing
    <3>. QED
      BY <3>1, <2>1, <2>2, <1>1
  <2>4. j \in 1..(i - 1)
    <3>1. i # j
      BY <2>1, <2>2, <1>1
    <3>. QED
      BY <3>1, <2>3, <1>1
  <2>. QED
    BY <2>2, <2>4
<1>. QED
  BY <1>1, <1>2, <1>3 DEF Loop

\* More flights do not disturb the table.
LEMMA TableWider ==
    ASSUME NEW m \in Nat, NEW n \in Nat, m =< n, NEW rows, Table(rows, m)
    PROVE  Table(rows, n)
<1>. PendingLimit \in Nat
  BY RecordsAssumption
<1>1. rows \in Seq(1..n)
  BY SeqWider DEF Table
<1>2. \A i \in DOMAIN rows : rows[i] \in Nat
  BY <1>1, LenProperties, ElementOfSeq
<1>3. \A s \in Nat : Left(s, m) => Left(s, n)
  BY DEF Left
<1>4. \A i \in DOMAIN rows : \A s \in 1..(rows[i] - 1) : s \in Nat
  BY <1>2
<1>. QED
  BY <1>1, <1>2, <1>3, <1>4 DEF Table

\* A row is added whose predecessors are stored or have left the deque.
LEMMA TableInserts ==
    ASSUME NEW n \in Nat, NEW rows, Table(rows, n),
           NEW t \in 1..n, t \notin ToSet(rows),
           \A s \in 1..(t - 1) : Left(s, n) \/ s \in ToSet(rows)
    PROVE  LET new == Append(rows, t)
           IN  /\ Table(new, n)
               /\ t \in ToSet(new)
               /\ \A s \in ToSet(rows) : s \in ToSet(new)
<1>1. /\ rows \in Seq(1..n) /\ Len(rows) \in Nat
      /\ \A i \in 1..Len(rows) : rows[i] \in 1..n
  BY LenProperties, ElementOfSeq DEF Table
<1>2. DOMAIN rows = 1..Len(rows)
  BY <1>1, LenProperties
<1>3. PICK new : new = Append(rows, t)
  OBVIOUS
<1>4. /\ new \in Seq(1..n) /\ Len(new) = Len(rows) + 1
      /\ \A i \in 1..Len(rows) : new[i] = rows[i]
      /\ new[Len(rows) + 1] = t
  BY <1>1, <1>3, AppendProperties
<1>5. ToSet(new) = ToSet(rows) \cup {t}
  BY <1>1, <1>3, AppendSet, SMTT(30)
<1>6. DOMAIN new = 1..(Len(rows) + 1)
  BY <1>4, LenProperties
<1>7. ASSUME NEW i \in 1..(Len(rows) + 1), NEW j \in 1..(Len(rows) + 1), i < j
      PROVE  new[i] < new[j] \/ (new[i] # new[j] /\ Left(new[j], n))
  <2>1. i \in 1..Len(rows)
    BY <1>1, <1>7
  <2>2. CASE j = Len(rows) + 1
    <3>1. rows[i] \in ToSet(rows) /\ rows[i] # t
      BY <2>1, <1>2 DEF ToSet
    <3>2. CASE t < rows[i]
      <4>1. t \in 1..(rows[i] - 1)
        BY <3>2, <2>1, <1>1
      <4>2. Left(t, n)
        BY <4>1, <2>1, <1>2 DEF Table
      <4>. QED
        BY <4>2, <3>1, <2>1, <2>2, <1>4
    <3>3. CASE rows[i] < t
      BY <3>3, <2>1, <2>2, <1>4
    <3>. QED
      BY <3>1, <3>2, <3>3, <2>1, <1>1
  <2>3. CASE j # Len(rows) + 1
    <3>1. j \in 1..Len(rows)
      BY <2>3, <1>1
    <3>. QED
      BY <3>1, <2>1, <1>2, <1>4, <1>7 DEF Table
  <2>. QED
    BY <2>2, <2>3
<1>8. ASSUME NEW i \in 1..(Len(rows) + 1), NEW s \in 1..(new[i] - 1)
      PROVE  Left(s, n) \/ s \in ToSet(new)
  <2>1. CASE i = Len(rows) + 1
    BY <2>1, <1>4, <1>5
  <2>2. CASE i # Len(rows) + 1
    <3>1. i \in 1..Len(rows)
      BY <2>2, <1>1
    <3>. QED
      BY <3>1, <1>2, <1>4, <1>5 DEF Table
  <2>. QED
    BY <2>1, <2>2
<1>9. Table(new, n)
  BY <1>4, <1>6, <1>7, <1>8 DEF Table
<1>. QED
  BY <1>3, <1>5, <1>9

------------------------------------------------------------------------------
(* The state.  IInv in two parts: what the summaries go through, and the   *)
(* rest, which only has types.                                             *)

Outer ==
    /\ ready \in BOOLEAN /\ flying \in BOOLEAN
    /\ connection \in {"open", "closing", "closed"}
    /\ session \in 0..Len(flights)
    /\ flights \in Seq({"none", "open", "ended"})
    /\ unended \subseteq 1..Len(flights)
    /\ cleanup \in 0..Len(flights)

Copies == [at : {"idle", "events", "select", "insert"}, todo : Seq(1..summaries)]

Inner ==
    /\ user \in BOOLEAN
    /\ summaries \in 0..MaxSummaries
    /\ Deque(pending, summaries)
    /\ Table(stored, summaries)
    /\ persist \in [Handlers -> Copies]
    /\ \A h \in Handlers : /\ persist[h].at \in {"select", "insert"} <=> persist[h].todo # <<>>
                           /\ Loop(persist[h].todo, ToSet(stored), summaries)
    /\ SummariesKept

\* The invariant is the two parts together.
LEMMA Parts == IInv <=> Inner /\ Outer
<1>1. ASSUME IInv PROVE Inner /\ Outer
  <2>1. /\ Deque(pending, summaries)
        /\ Table(stored, summaries)
    BY <1>1 DEF IInv, TypeOK, PendingOrdered, StoredInOrder, StoredClosed, Known,
                Overflown, Left, Deque, Table
  <2>2. ASSUME NEW h \in Handlers
        PROVE  Loop(persist[h].todo, ToSet(stored), summaries)
    BY <1>1 DEF IInv, TypeOK, LoopsOrdered, Known, Overflown, Left, Loop
  <2>. QED
    BY <1>1, <2>1, <2>2 DEF IInv, TypeOK, Inner, Outer, Copies, Persisting
<1>2. ASSUME Inner, Outer PROVE IInv
  <2>1. TypeOK
    BY <1>2 DEF TypeOK, Inner, Outer, Copies, Persisting, Deque, Table
  <2>2. SummariesKept /\ PendingOrdered /\ StoredInOrder /\ StoredClosed
    BY <1>2 DEF Inner, PendingOrdered, StoredInOrder, StoredClosed, Known,
                Overflown, Left, Deque, Table
  <2>3. LoopsOrdered
    BY <1>2 DEF Inner, LoopsOrdered, Known, Overflown, Left, Loop
  <2>. QED
    BY <2>1, <2>2, <2>3 DEF IInv
<1>. QED
  BY <1>1, <1>2

\* An empty deque, copy or table.
LEMMA Nothing ==
    ASSUME NEW n \in Nat, NEW known
    PROVE  Deque(<<>>, n) /\ Loop(<<>>, known, n) /\ Table(<<>>, n)
  BY RecordsAssumption DEF Deque, Loop, Table, Increasing, ToSet

\* A connection begins with nothing finished, waiting or stored.
LEMMA InitParts == Init => Inner /\ Outer
<1>. SUFFICES ASSUME Init PROVE Inner /\ Outer
  OBVIOUS
<1>1. 0 \in Nat /\ MaxSummaries \in Nat
  BY RecordsAssumption
<1>2. Inner
  BY <1>1, Nothing DEF Init, Inner, Copies, Idle, SummariesKept
<1>3. Outer
  <2>1. flights = <<>> /\ Len(flights) = 0
    BY EmptySeq DEF Init
  <2>2. flights \in Seq({"none", "open", "ended"})
    BY <2>1, EmptySeq
  <2>3. 0 \in 0..Len(flights)
    BY <2>1
  <2>. QED
    BY <2>2, <2>3 DEF Init, Outer
<1>. QED
  BY <1>2, <1>3

\* A coroutine begins its loop over what waits.
LEMMA PersistStep ==
    ASSUME Inner, user' = user, stored' = stored,
           summaries' \in 0..MaxSummaries, summaries =< summaries',
           NEW h \in Handlers, NEW waiting, Persist(h, waiting),
           Deque(waiting, summaries'),
           user => \A s \in 1..summaries' :
                      Left(s, summaries') \/ s \in ToSet(waiting) \/ Known(s)
    PROVE  Inner'
<1>1. summaries \in Nat /\ summaries' \in Nat
  BY RecordsAssumption DEF Inner
<1>2. Table(stored', summaries')
  BY <1>1, TableWider DEF Inner
<1>3. Deque(pending', summaries')
  BY <1>1, Nothing DEF Persist
<1>4. PICK copy : /\ copy = IF user /\ waiting # <<>>
                            THEN [at |-> "select", todo |-> waiting] ELSE Idle
                  /\ persist' = [persist EXCEPT ![h] = copy]
  BY DEF Persist
<1>5. /\ copy \in Copies' /\ (copy.at \in {"select", "insert"} <=> copy.todo # <<>>)
      /\ Loop(copy.todo, ToSet(stored'), summaries')
  <2>1. CASE user /\ waiting # <<>>
    <3>1. Loop(waiting, ToSet(stored'), summaries')
      BY <2>1, <1>1, LoopBegins DEF Known
    <3>. QED
      BY <2>1, <3>1, <1>4 DEF Copies, Deque
  <2>2. CASE ~(user /\ waiting # <<>>)
    BY <2>2, <1>1, <1>4, Nothing DEF Copies, Idle
  <2>. QED
    BY <2>1, <2>2
<1>6. ASSUME NEW g \in Handlers, g # h
      PROVE  /\ persist[g] \in Copies'
             /\ Loop(persist[g].todo, ToSet(stored'), summaries')
  <2>1. Loop(persist[g].todo, ToSet(stored), summaries)
    BY DEF Inner
  <2>2. Loop(persist[g].todo, ToSet(stored'), summaries')
    BY <2>1, <1>1, LoopWider
  <2>3. persist[g] \in Copies
    BY DEF Inner
  <2>. QED
    BY <2>2, <2>3 DEF Loop, Copies
<1>7. persist' \in [Handlers -> Copies']
  BY <1>4, <1>5, <1>6 DEF Inner
<1>8. ASSUME NEW g \in Handlers
      PROVE  /\ persist'[g].at \in {"select", "insert"} <=> persist'[g].todo # <<>>
             /\ Loop(persist'[g].todo, ToSet(stored'), summaries')
  <2>1. CASE g = h
    BY <2>1, <1>4, <1>5 DEF Inner
  <2>2. CASE g # h
    BY <2>2, <1>4, <1>6 DEF Inner
  <2>. QED
    BY <2>1, <2>2
<1>9. SummariesKept'
  BY DEF SummariesKept, Persist, Overflown, Left, Known
<1>. QED
  BY <1>2, <1>3, <1>7, <1>8, <1>9 DEF Inner

\* Another row: the head of a copy that is not yet stored.
LEMMA InsertedStep ==
    ASSUME Inner, NEW h \in Handlers, persist[h].todo # <<>>,
           stored' = Inserted(Head(persist[h].todo))
    PROVE  /\ Table(stored', summaries)
           /\ Head(persist[h].todo) \in ToSet(stored')
           /\ ToSet(stored) \subseteq ToSet(stored')
<1>1. PICK todo : todo = persist[h].todo
  OBVIOUS
<1>2. Loop(todo, ToSet(stored), summaries) /\ todo # <<>>
  BY <1>1 DEF Inner
<1>3. summaries \in Nat
  BY RecordsAssumption DEF Inner
<1>4. PICK t : t = Head(todo)
  OBVIOUS
<1>5. /\ t \in 1..summaries
      /\ \A s \in 1..(t - 1) : Left(s, summaries) \/ s \in ToSet(stored)
  <2>1. todo \in Seq(1..summaries) /\ 1 \in DOMAIN todo /\ t = todo[1]
    BY <1>2, <1>4, LenProperties, EmptySeq DEF Loop
  <2>2. t \in 1..summaries
    BY <2>1, <1>2, <1>4, HeadTailProperties
  <2>3. \A j \in 1..(1 - 1) : FALSE
    OBVIOUS
  <2>. QED
    BY <1>2, <2>1, <2>2, <2>3 DEF Loop
<1>6. CASE Known(t)
  BY <1>1, <1>4, <1>6 DEF Inserted, Inner, Known
<1>7. CASE ~Known(t)
  <2>1. stored' = Append(stored, t)
    BY <1>1, <1>4, <1>7 DEF Inserted
  <2>2. Table(stored, summaries) /\ stored \in Seq(1..summaries)
    BY DEF Inner, Table
  <2>3. /\ Table(stored', summaries)
        /\ t \in ToSet(stored')
        /\ \A s \in ToSet(stored) : s \in ToSet(stored')
    BY <2>1, <2>2, <1>3, <1>5, <1>7, TableInserts DEF Known
  <2>. QED
    BY <2>3, <1>1, <1>4
<1>. QED
  BY <1>6, <1>7

\* ingest_flight_summary has answered, and the row is there.
LEMMA IngestedStep ==
    ASSUME Inner, user' = user, summaries' = summaries,
           NEW h \in Handlers, persist[h].todo # <<>>, Ingested(h),
           Table(stored', summaries), ToSet(stored) \subseteq ToSet(stored'),
           Head(persist[h].todo) \in ToSet(stored')
    PROVE  Inner'
<1>1. summaries \in Nat
  BY RecordsAssumption DEF Inner
<1>2. PICK todo : todo = persist[h].todo
  OBVIOUS
<1>3. PICK t : t = Head(todo)
  OBVIOUS
<1>4. PICK left : left = Tail(todo)
  OBVIOUS
<1>5. pending' = Acknowledge(pending, t)
  BY <1>2, <1>3 DEF Ingested
<1>6. /\ Deque(pending', summaries)
      /\ \A s \in ToSet(pending) : s = t \/ s \in ToSet(pending')
  <2>1. Deque(pending, summaries)
    BY DEF Inner
  <2>. QED
    BY <2>1, <1>1, <1>5, DequeLoses
<1>7. ASSUME NEW g \in Handlers
      PROVE  Loop(persist[g].todo, ToSet(stored'), summaries)
  <2>1. Loop(persist[g].todo, ToSet(stored), summaries)
    BY DEF Inner
  <2>. QED
    BY <2>1, <1>1, LoopWider
<1>8. PICK copy : /\ copy = IF left = <<>> THEN Idle
                            ELSE [at |-> "select", todo |-> left]
                  /\ persist' = [persist EXCEPT ![h] = copy]
  BY <1>2, <1>4 DEF Ingested
<1>9. /\ copy \in Copies /\ (copy.at \in {"select", "insert"} <=> copy.todo # <<>>)
      /\ Loop(copy.todo, ToSet(stored'), summaries)
  <2>1. Loop(left, ToSet(stored'), summaries)
    <3>1. Loop(todo, ToSet(stored'), summaries)
      BY <1>2, <1>7
    <3>2. todo # <<>> /\ Head(todo) \in ToSet(stored')
      BY <1>2
    <3>. QED
      BY <3>1, <3>2, <1>1, <1>4, LoopGoesOn
  <2>2. CASE left = <<>>
    BY <2>2, <1>1, <1>8, Nothing DEF Copies, Idle
  <2>3. CASE left # <<>>
    BY <2>1, <2>3, <1>8 DEF Copies, Loop
  <2>. QED
    BY <2>2, <2>3
<1>10. persist' \in [Handlers -> Copies]
  BY <1>8, <1>9 DEF Inner
<1>11. ASSUME NEW g \in Handlers
       PROVE  /\ persist'[g].at \in {"select", "insert"} <=> persist'[g].todo # <<>>
              /\ Loop(persist'[g].todo, ToSet(stored'), summaries)
  BY <1>7, <1>8, <1>9 DEF Inner
<1>12. SummariesKept'
  BY <1>2, <1>3, <1>6 DEF Inner, SummariesKept, Overflown, Known
<1>. QED
  BY <1>6, <1>10, <1>11, <1>12 DEF Inner, Copies

\* A row that is there is acknowledged; one that is not is to be inserted.
LEMMA SelectStep == ASSUME Inner, NEW h \in Handlers, Select(h) PROVE Inner'
<1>1. persist[h].todo # <<>>
  BY DEF Select, Inner
<1>2. user' = user /\ summaries' = summaries /\ stored' = stored
  BY DEF Select, connectionVars
<1>3. CASE Known(Head(persist[h].todo))
  <2>1. Ingested(h)
    BY <1>3 DEF Select
  <2>2. /\ Table(stored', summaries) /\ ToSet(stored) \subseteq ToSet(stored')
        /\ Head(persist[h].todo) \in ToSet(stored')
    BY <1>2, <1>3 DEF Inner, Known
  <2>. QED
    BY <2>1, <2>2, <1>1, <1>2, IngestedStep
<1>4. CASE ~Known(Head(persist[h].todo))
  <2>1. /\ persist' = [persist EXCEPT ![h].at = "insert"]
        /\ pending' = pending
    BY <1>4 DEF Select
  <2>2. persist' \in [Handlers -> Copies']
    BY <2>1, <1>2 DEF Inner, Copies
  <2>3. ASSUME NEW g \in Handlers
        PROVE  /\ persist'[g].at \in {"select", "insert"} <=> persist'[g].todo # <<>>
               /\ persist'[g].todo = persist[g].todo
    BY <2>1, <1>1 DEF Inner, Copies
  <2>4. SummariesKept'
    BY <2>1, <1>2 DEF Inner, SummariesKept, Overflown, Known
  <2>. QED
    BY <2>1, <2>2, <2>3, <2>4, <1>2 DEF Inner
<1>. QED
  BY <1>3, <1>4

\* A commit that succeeds.
LEMMA InsertStep == ASSUME Inner, NEW h \in Handlers, Insert(h) PROVE Inner'
<1>1. persist[h].todo # <<>>
  BY DEF Insert, Inner
<1>2. /\ user' = user /\ summaries' = summaries /\ Ingested(h)
      /\ stored' = Inserted(Head(persist[h].todo))
  BY DEF Insert, connectionVars
<1>3. /\ Table(stored', summaries) /\ ToSet(stored) \subseteq ToSet(stored')
      /\ Head(persist[h].todo) \in ToSet(stored')
  BY <1>1, <1>2, InsertedStep
<1>. QED
  BY <1>1, <1>2, <1>3, IngestedStep

\* A failure or a cancellation, with or without a row committed.
LEMMA BreaksStep == ASSUME Inner, NEW h \in Handlers, Breaks(h) PROVE Inner'
<1>2. /\ user' = user /\ summaries' = summaries /\ pending' = pending
      /\ persist' = [persist EXCEPT ![h] = Idle]
  BY DEF Breaks, GivenUp, connectionVars, statsVars
<1>3. summaries \in Nat
  BY RecordsAssumption DEF Inner
<1>4. Table(stored', summaries) /\ ToSet(stored) \subseteq ToSet(stored')
  <2>1. CASE stored' = stored
    BY <2>1 DEF Inner
  <2>2. CASE /\ persist[h].at = "insert"
             /\ stored' = Inserted(Head(persist[h].todo))
    <3>1. persist[h].todo # <<>>
      BY <2>2 DEF Inner
    <3>. QED
      BY <2>2, <3>1, InsertedStep
  <2>. QED
    BY <2>1, <2>2 DEF Breaks
<1>5. persist' \in [Handlers -> Copies]
  <2>1. Idle \in Copies
    BY DEF Idle, Copies
  <2>. QED
    BY <2>1, <1>2 DEF Inner
<1>6. ASSUME NEW g \in Handlers
      PROVE  /\ persist'[g].at \in {"select", "insert"} <=> persist'[g].todo # <<>>
             /\ Loop(persist'[g].todo, ToSet(stored'), summaries)
  <2>1. CASE g = h
    BY <2>1, <1>2, <1>3, Nothing DEF Inner, Idle
  <2>2. CASE g # h
    <3>1. persist'[g] = persist[g]
      BY <2>2, <1>2 DEF Inner
    <3>2. Loop(persist[g].todo, ToSet(stored), summaries)
      BY DEF Inner
    <3>3. Loop(persist[g].todo, ToSet(stored'), summaries)
      BY <3>2, <1>3, <1>4, LoopWider
    <3>. QED
      BY <3>1, <3>3 DEF Inner
  <2>. QED
    BY <2>1, <2>2
<1>7. SummariesKept'
  BY <1>2, <1>4 DEF Inner, SummariesKept, Overflown, Known
<1>. QED
  BY <1>2, <1>4, <1>5, <1>6, <1>7 DEF Inner, Copies

\* finish in front of the loop: a flight more, and the deque with it.
LEMMA FinishStep ==
    ASSUME Inner, user' = user, stored' = stored,
           NEW h \in Handlers, FinishAndPersist(h)
    PROVE  Inner'
<1>1. summaries \in Nat
  BY RecordsAssumption DEF Inner
<1>2. Deque(pending, summaries)
  BY DEF Inner
<1>3. CASE flying
  <2>1. PICK waiting : waiting = AppendBounded(pending, summaries + 1)
    OBVIOUS
  <2>2. summaries' = summaries + 1 /\ Persist(h, waiting)
    BY <1>3, <2>1 DEF FinishAndPersist
  <2>3. summaries' \in 0..MaxSummaries /\ summaries =< summaries'
    BY <2>2, <1>1, <1>3, RecordsAssumption DEF FinishAndPersist, Inner
  <2>4. /\ Deque(waiting, summaries') /\ summaries' \in ToSet(waiting)
        /\ \A s \in ToSet(pending) : s \in ToSet(waiting) \/ Left(s, summaries')
    BY <2>1, <2>2, <1>1, <1>2, DequeAppends
  <2>5. ASSUME user, NEW s \in 1..summaries'
        PROVE  Left(s, summaries') \/ s \in ToSet(waiting) \/ Known(s)
    <3>1. CASE s = summaries'
      BY <3>1, <2>4
    <3>2. CASE s # summaries'
      <4>1. s \in 1..summaries
        BY <3>2, <2>2, <1>1
      <4>2. Left(s, summaries) \/ s \in ToSet(pending) \/ Known(s)
        BY <4>1, <2>5 DEF Inner, SummariesKept, Overflown, Left
      <4>3. Left(s, summaries) => Left(s, summaries')
        BY <4>1, <2>2, <1>1, RecordsAssumption DEF Left
      <4>. QED
        BY <4>2, <4>3, <2>4
    <3>. QED
      BY <3>1, <3>2
  <2>. QED
    BY <2>2, <2>3, <2>4, <2>5, PersistStep
<1>4. CASE ~flying
  <2>1. summaries' = summaries /\ Persist(h, pending)
    BY <1>4 DEF FinishAndPersist
  <2>2. user => \A s \in 1..summaries' :
                   Left(s, summaries') \/ s \in ToSet(pending) \/ Known(s)
    BY <2>1 DEF Inner, SummariesKept, Overflown, Left
  <2>3. summaries' \in 0..MaxSummaries /\ summaries =< summaries'
    BY <2>1, <1>1 DEF Inner
  <2>4. Deque(pending, summaries')
    BY <2>1, <1>2
  <2>. QED
    BY <2>1, <2>2, <2>3, <2>4, PersistStep
<1>. QED
  BY <1>3, <1>4

\* The loop alone.
LEMMA RefreshStep ==
    ASSUME Inner, user' = user, stored' = stored, summaries' = summaries,
           NEW h \in Handlers, Persist(h, pending)
    PROVE  Inner'
<1>1. summaries \in Nat
  BY RecordsAssumption DEF Inner
<1>2. Deque(pending, summaries')
  BY DEF Inner
<1>3. user => \A s \in 1..summaries' :
                 Left(s, summaries') \/ s \in ToSet(pending) \/ Known(s)
  BY DEF Inner, SummariesKept, Overflown, Left
<1>4. summaries' \in 0..MaxSummaries /\ summaries =< summaries'
  BY <1>1 DEF Inner
<1>. QED
  BY <1>2, <1>3, <1>4, PersistStep

\* A coroutine that was idle has events to handle.
LEMMA HandlingStep ==
    ASSUME Inner, UNCHANGED <<user, summaries, pending, stored>>,
           NEW h \in Handlers, persist[h].at = "idle", Handling(h)
    PROVE  Inner'
<1>1. persist' = [persist EXCEPT ![h].at = "events"]
  BY DEF Handling
<1>2. persist' \in [Handlers -> Copies']
  BY <1>1 DEF Inner, Copies
<1>3. ASSUME NEW g \in Handlers
      PROVE  /\ persist'[g].at \in {"select", "insert"} <=> persist'[g].todo # <<>>
             /\ persist'[g].todo = persist[g].todo
  BY <1>1 DEF Inner, Copies
<1>4. SummariesKept'
  BY DEF Inner, SummariesKept, Overflown, Known
<1>. QED
  BY <1>2, <1>3, <1>4 DEF Inner

\* Steps of the sessions and of the cleanup.
LEMMA UnchangedStep ==
    ASSUME Inner, UNCHANGED <<user, summaries, pending, stored, persist>>
    PROVE  Inner'
  BY DEF Inner, Copies, SummariesKept, Overflown, Known

------------------------------------------------------------------------------

\* The summaries through every step.
LEMMA InnerStep == ASSUME Inner, [Next]_vars PROVE Inner'
<1>. USE DEF connectionVars, statsVars, flightVars
<1>1. ASSUME NEW h \in Handlers, Select(h) PROVE Inner'
  BY <1>1, SelectStep
<1>2. ASSUME NEW h \in Handlers, Insert(h) PROVE Inner'
  BY <1>2, InsertStep
<1>3. ASSUME NEW h \in Handlers, Breaks(h) PROVE Inner'
  BY <1>3, BreaksStep
<1>4. ASSUME NEW h \in Handlers, Refresh(h) PROVE Inner'
  BY <1>4, HandlingStep DEF Refresh
<1>41. ASSUME NEW h \in Handlers, Begin(h) PROVE Inner'
  BY <1>41, RefreshStep DEF Begin
<1>5. Main \in Handlers
  BY DEF Handlers
<1>6. CASE Snapshot
  BY <1>5, <1>6, HandlingStep DEF Snapshot, MainIsFree
<1>7. CASE NewEpoch
  BY <1>5, <1>7, FinishStep DEF NewEpoch
<1>8. CASE SessionStart
  BY <1>5, <1>8, FinishStep, UnchangedStep DEF SessionStart, Close
<1>9. CASE SessionEnd
  BY <1>5, <1>9, FinishStep, UnchangedStep DEF SessionEnd, Close
<1>10. CASE Disconnect
  BY <1>5, <1>10, FinishStep DEF Disconnect, Close
<1>11. CASE Cleanup
  BY <1>11, UnchangedStep DEF Cleanup
<1>12. CASE EndFlight
  BY <1>12, UnchangedStep DEF EndFlight
<1>13. CASE UNCHANGED vars
  BY <1>13, UnchangedStep DEF vars
<1>. QED
  BY <1>1, <1>2, <1>3, <1>4, <1>41, <1>6, <1>7, <1>8, <1>9, <1>10, <1>11, <1>12, <1>13
  DEF Next

\* Ending a flight leaves the rows what they are.
LEMMA EndedRows ==
    ASSUME Outer, NEW n \in 1..Len(flights)
    PROVE  /\ Ended(n) \in Seq({"none", "open", "ended"})
           /\ Len(Ended(n)) = Len(flights)
  BY ExceptSeq DEF Outer, Ended

\* The types of everything else through every step.
LEMMA OuterStep == ASSUME Inner, Outer, [Next]_vars PROVE Outer'
<1>. USE DEF connectionVars, statsVars, flightVars
<1>1. Len(flights) \in Nat /\ 0 \in 0..Len(flights)
  BY LenProperties DEF Outer
<1>2. ASSUME NEW h \in Handlers,
             Begin(h) \/ Select(h) \/ Insert(h) \/ Breaks(h)
      PROVE  Outer'
  BY <1>2 DEF Outer, Begin, Select, Insert, Breaks
<1>3. ASSUME NEW h \in Handlers, Refresh(h) PROVE Outer'
  BY <1>3 DEF Outer, Refresh
<1>4. CASE Snapshot
  BY <1>4 DEF Outer, Snapshot
<1>5. CASE NewEpoch
  BY <1>5 DEF Outer, NewEpoch, FinishAndPersist
<1>6. CASE SessionStart
  <2>1. PICK row \in {"none", "open", "ended"} : flights' = Append(flights, row)
    BY <1>6 DEF SessionStart
  <2>2. /\ flights' \in Seq({"none", "open", "ended"})
        /\ Len(flights') = Len(flights) + 1
    BY <2>1, AppendProperties DEF Outer
  <2>3. 0..Len(flights) \subseteq 0..Len(flights') /\ session' \in 0..Len(flights')
    BY <1>1, <1>6, <2>2 DEF SessionStart
  <2>4. 1..Len(flights) \subseteq 1..Len(flights')
    BY <1>1, <2>2
  <2>5. /\ ready' \in BOOLEAN /\ flying' \in BOOLEAN
        /\ connection' \in {"open", "closing", "closed"}
        /\ UNCHANGED <<unended, cleanup>>
    BY <1>6 DEF Outer, SessionStart, Close, FinishAndPersist
  <2>. QED
    BY <2>2, <2>3, <2>4, <2>5 DEF Outer
<1>7. CASE SessionEnd
  <2>1. session \in 1..Len(flights)
    BY <1>1, <1>7 DEF Outer, SessionEnd
  <2>2. flights' = flights \/ flights' = Ended(session)
    BY <1>7 DEF SessionEnd
  <2>3. /\ flights' \in Seq({"none", "open", "ended"})
        /\ Len(flights') = Len(flights)
    BY <2>1, <2>2, EndedRows DEF Outer
  <2>4. session' \in 0..Len(flights) /\ unended' \subseteq 1..Len(flights)
    <3>1. session' = 0 /\ unended' \in {unended, unended \cup {session}}
      BY <1>7 DEF SessionEnd
    <3>. QED
      BY <3>1, <2>1, <1>1 DEF Outer
  <2>5. /\ ready' \in BOOLEAN /\ flying' \in BOOLEAN
        /\ connection' \in {"open", "closing", "closed"}
        /\ UNCHANGED cleanup
    BY <1>7 DEF Outer, SessionEnd, Close, FinishAndPersist
  <2>. QED
    BY <2>3, <2>4, <2>5 DEF Outer
<1>8. CASE Disconnect
  BY <1>8 DEF Outer, Disconnect, Close, FinishAndPersist
<1>9. CASE Cleanup
  <2>1. cleanup' \in 0..Len(flights) /\ flights' = flights
    BY <1>1, <1>9 DEF Outer, Cleanup
  <2>. QED
    BY <2>1, <1>9 DEF Outer, Cleanup
<1>10. CASE EndFlight
  <2>1. cleanup \in 1..Len(flights)
    BY <1>1, <1>10 DEF Outer, EndFlight
  <2>2. flights' = flights \/ flights' = Ended(cleanup)
    BY <1>10 DEF EndFlight
  <2>3. /\ flights' \in Seq({"none", "open", "ended"})
        /\ Len(flights') = Len(flights)
    BY <2>1, <2>2, EndedRows DEF Outer
  <2>4. cleanup' \in 0..Len(flights) /\ unended' \subseteq 1..Len(flights)
    <3>1. cleanup' = 0 /\ unended' \in {unended, unended \cup {cleanup}}
      BY <1>10 DEF EndFlight
    <3>. QED
      BY <3>1, <2>1, <1>1 DEF Outer
  <2>5. UNCHANGED <<ready, flying, connection, session>>
    BY <1>10 DEF EndFlight
  <2>. QED
    BY <2>3, <2>4, <2>5 DEF Outer
<1>11. CASE UNCHANGED vars
  BY <1>11 DEF Outer, vars
<1>. QED
  BY <1>2, <1>3, <1>4, <1>5, <1>6, <1>7, <1>8, <1>9, <1>10, <1>11 DEF Next

\* The inductive invariant: what the deque, the copies and the table owe each
\* other while coroutines persist side by side, fail and are cancelled.
THEOREM RecordsInvariant == Spec => []IInv
<1>1. Init => IInv
  BY InitParts, Parts
<1>2. IInv /\ [Next]_vars => IInv'
  <2>. SUFFICES ASSUME IInv, [Next]_vars PROVE IInv'
    OBVIOUS
  <2>1. Inner /\ Outer
    BY Parts
  <2>2. Inner' /\ Outer'
    BY <2>1, InnerStep, OuterStep
  <2>3. (IInv <=> Inner /\ Outer)'
    BY Parts, PTL
  <2>. QED
    BY <2>2, <2>3
<1>. QED
  BY <1>1, <1>2, PTL DEF Spec

\* Every variable keeps its type, and the deque its limit.
THEOREM RecordsTyped == Spec => []TypeOK
  BY RecordsInvariant, PTL DEF IInv

\* However the main loop and the tool calls interleave in
\* persist_pending_summaries, no summary is lost but by overflow.
THEOREM NoSummaryLost == Spec => []SummariesKept
  BY RecordsInvariant, PTL DEF IInv

\* The table holds each summary once and in the order of the flights.
THEOREM SummariesInOrder == Spec => []StoredInOrder
  BY RecordsInvariant, PTL DEF IInv
==============================================================================
