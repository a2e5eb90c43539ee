------------------------------ MODULE QueueFacts ------------------------------
(***************************************************************************)
(* Facts about sequences that are worked on as queues: an order that holds *)
(* in one survives what the queues of the program do.                      *)
(***************************************************************************)
EXTENDS Queues, SequencesExt, FiniteSetTheorems, SequenceTheorems, TLAPS

Sorted(s) == \A i \in 1..Len(s) : \A j \in 1..Len(s) : i < j => s[i] < s[j]
NoDups(s) == \A i \in 1..Len(s) : \A j \in 1..Len(s) : i < j => s[i] # s[j]

\* Every nonempty set of natural numbers has a least one.
LEMMA LeastNatural ==
  ASSUME NEW S, S \subseteq Nat, S # {}
  PROVE  \E m \in S : \A k \in S : m <= k
<1> DEFINE T == {1 .. n : n \in S}
<1>1. T \subseteq FiniteSubsetsOf(Nat)
  <2>1. \A n \in Nat : IsFiniteSet(1..n) /\ 1..n \subseteq Nat
    BY FS_Interval
  <2>. QED BY <2>1 DEF FiniteSubsetsOf
<1>2. T # {}
  OBVIOUS
<1>3. IsWellFoundedOn(StrictSubsetOrdering(Nat), FiniteSubsetsOf(Nat))
  BY FS_StrictSubsetOrderingWellFounded
<1> HIDE DEF T
<1>4. PICK X \in T : \A Y \in T : ~(<<Y, X>> \in StrictSubsetOrdering(Nat))
  BY <1>1, <1>2, <1>3, WFMin
<1>5. PICK m \in S : X = 1 .. m
  BY <1>4 DEF T
<1>6. ASSUME NEW k \in S, k < m PROVE FALSE
  <2>1. 1..k \subseteq 1..m /\ m \in 1..m /\ m \notin 1..k
    BY <1>6
  <2>2. <<1..k, 1..m>> \in StrictSubsetOrdering(Nat)
    BY <2>1 DEF StrictSubsetOrdering
  <2>. QED BY <2>2, <1>4, <1>5 DEF T
<1>. QED BY <1>6

\* A set with 0 in it that every step upwards keeps holds all numbers up to n.
LEMMA Upwards ==
  ASSUME NEW n \in Nat, NEW Good, 0 \in Good,
         \A k \in 1..n : k - 1 \in Good => k \in Good
  PROVE  \A k \in 0..n : k \in Good
<1> DEFINE Bad == {k \in 0..n : k \notin Good}
<1>1. ASSUME Bad # {} PROVE FALSE
  <2>0. Bad \subseteq Nat
    OBVIOUS
  <2>1. PICK m \in Bad : \A k \in Bad : m <= k
    <3> HIDE DEF Bad
    <3>. QED BY <1>1, <2>0, LeastNatural
  <2>2. m \in 1..n /\ m - 1 \in 0..n /\ m - 1 \notin Bad
    BY <2>1
  <2>. QED BY <2>1, <2>2
<1>. QED BY <1>1

-----------------------------------------------------------------------------
(* Something goes to the end of a queue.                                   *)

LEMMA SetOf ==
  ASSUME NEW T, NEW s \in Seq(T)
  PROVE  /\ \A y : y \in ToSet(s) <=> \E i \in 1..Len(s) : y = s[i]
         /\ ToSet(s) \subseteq T
         /\ Len(s) \in Nat
         /\ \A i \in 1..Len(s) : s[i] \in ToSet(s) /\ s[i] \in T
         /\ s = <<>> <=> Len(s) = 0
         /\ s = <<>> <=> ToSet(s) = {}
         /\ s # <<>> => Head(s) = s[1] /\ Head(s) \in ToSet(s)
<1>1. Len(s) \in Nat /\ DOMAIN s = 1..Len(s)
  OBVIOUS
<1>2. ToSet(s) = {s[i] : i \in 1..Len(s)}
  BY <1>1 DEF ToSet
<1>3. s = <<>> <=> Len(s) = 0
  BY EmptySeq
<1>4. s # <<>> => 1 \in 1..Len(s) /\ Head(s) = s[1]
  BY <1>1, <1>3
<1>5. s = <<>> => 1..Len(s) = {}
  BY <1>3
<1>. QED BY <1>1, <1>2, <1>3, <1>4, <1>5

LEMMA AppendFacts ==
  ASSUME NEW T, NEW s \in Seq(T), NEW x \in T
  PROVE  /\ Append(s, x) \in Seq(T) /\ Len(Append(s, x)) = Len(s) + 1 /\ Append(s, x) # <<>>
         /\ \A i \in 1..Len(s) : Append(s, x)[i] = s[i]
         /\ Append(s, x)[Len(s) + 1] = x
         /\ ToSet(Append(s, x)) = ToSet(s) \cup {x}
<1> DEFINE r == Append(s, x)
<1>1. r \in Seq(T) /\ Len(r) = Len(s) + 1 /\ Len(s) \in Nat /\ r # <<>>
  BY AppendProperties
<1>2. (\A i \in 1..Len(s) : r[i] = s[i]) /\ r[Len(s) + 1] = x
  BY AppendProperties
<1>3. 1..Len(r) = 1..Len(s) \cup {Len(s) + 1}
  BY <1>1
<1> HIDE DEF r
<1>4. ToSet(r) = ToSet(s) \cup {x}
  <2>0. r \in Seq(T)
    BY <1>1
  <2>1. \A y : y \in ToSet(r) <=> \E i \in 1..Len(r) : y = r[i]
    BY <2>0, SetOf
  <2>2. \A y : y \in ToSet(s) <=> \E i \in 1..Len(s) : y = s[i]
    BY SetOf
  <2>. QED BY <1>2, <1>3, <2>1, <2>2
<1>. QED BY <1>1, <1>2, <1>4 DEF r

LEMMA AppendSorted ==
  ASSUME NEW s \in Seq(Nat), NEW x \in Nat, Sorted(s), \A y \in ToSet(s) : y < x
  PROVE  Sorted(Append(s, x))
<1> DEFINE r == Append(s, x)
<1>1. /\ Len(r) = Len(s) + 1 /\ Len(s) \in Nat /\ r[Len(s) + 1] = x
      /\ \A i \in 1..Len(s) : r[i] = s[i] /\ s[i] \in ToSet(s)
  BY AppendFacts, SetOf
<1> HIDE DEF r
<1>2. ASSUME NEW i \in 1..Len(r), NEW j \in 1..Len(r), i < j PROVE r[i] < r[j]
  <2>1. i \in 1..Len(s) /\ (j \in 1..Len(s) \/ j = Len(s) + 1)
    BY <1>1, <1>2
  <2>2. CASE j \in 1..Len(s)
    BY <1>1, <1>2, <2>1, <2>2 DEF Sorted
  <2>3. CASE j = Len(s) + 1
    BY <1>1, <2>1, <2>3
  <2>. QED BY <2>1, <2>2, <2>3
<1>. QED BY <1>2 DEF Sorted, r

LEMMA AppendNoDups ==
  ASSUME NEW T, NEW s \in Seq(T), NEW x \in T, NoDups(s), x \notin ToSet(s)
  PROVE  NoDups(Append(s, x))
<1> DEFINE r == Append(s, x)
<1>1. /\ Len(r) = Len(s) + 1 /\ Len(s) \in Nat /\ r[Len(s) + 1] = x
      /\ \A i \in 1..Len(s) : r[i] = s[i] /\ s[i] \in ToSet(s)
  BY AppendFacts, SetOf
<1> HIDE DEF r
<1>2. ASSUME NEW i \in 1..Len(r), NEW j \in 1..Len(r), i < j PROVE r[i] # r[j]
  <2>1. i \in 1..Len(s) /\ (j \in 1..Len(s) \/ j = Len(s) + 1)
    BY <1>1, <1>2
  <2>2. CASE j \in 1..Len(s)
    BY <1>1, <1>2, <2>1, <2>2 DEF NoDups
  <2>3. CASE j = Len(s) + 1
    BY <1>1, <2>1, <2>3
  <2>. QED BY <2>1, <2>2, <2>3
<1>. QED BY <1>2 DEF NoDups, r

\* What is left of a queue once its first k elements are gone.
LEMMA SuffixFacts ==
  ASSUME NEW T, NEW s \in Seq(T), NEW k \in 0..Len(s)
  PROVE  LET r == SubSeq(s, k + 1, Len(s)) IN
         /\ r \in Seq(T) /\ Len(r) = Len(s) - k
         /\ \A i \in 1..Len(r) : r[i] = s[i + k] /\ i + k \in 1..Len(s)
         /\ \A i \in 1..Len(s) : i <= k \/ s[i] \in ToSet(r)
         /\ ToSet(r) \subseteq ToSet(s)
         /\ NoDups(s) => NoDups(r)
<1> DEFINE r == SubSeq(s, k + 1, Len(s))
<1>0. Len(s) \in Nat
  OBVIOUS
<1>1. r \in Seq(T) /\ Len(r) = Len(s) - k
  BY <1>0, SubSeqProperties
<1>2. \A i \in 1..Len(r) : r[i] = s[i + k] /\ i + k \in 1..Len(s)
  BY <1>0, <1>1, SubSeqProperties
<1> HIDE DEF r
<1>3. ASSUME NEW i \in 1..Len(s), i > k PROVE s[i] \in ToSet(r)
  <2>1. i - k \in 1..Len(r) /\ (i - k) + k = i
    BY <1>0, <1>1, <1>3
  <2>2. r[i - k] = s[i]
    BY <1>2, <2>1
  <2>3. \A j \in 1..Len(r) : r[j] \in ToSet(r)
    <3>1. r \in Seq(T)
      BY <1>1
    <3>. QED BY <3>1, SetOf
  <2>. QED BY <2>1, <2>2, <2>3
<1>4. ToSet(r) \subseteq ToSet(s)
  <2>0. r \in Seq(T)
    BY <1>1
  <2>1. \A y : y \in ToSet(r) <=> \E i \in 1..Len(r) : y = r[i]
    BY <2>0, SetOf
  <2>2. \A i \in 1..Len(s) : s[i] \in ToSet(s)
    BY SetOf
  <2>. QED BY <1>2, <2>1, <2>2
<1>5. NoDups(s) => NoDups(r)
  <2> SUFFICES ASSUME NoDups(s), NEW i \in 1..Len(r), NEW j \in 1..Len(r), i < j
               PROVE  r[i] # r[j]
    BY DEF NoDups
  <2>1. i + k < j + k /\ i + k \in 1..Len(s) /\ j + k \in 1..Len(s)
    BY <1>2
  <2>. QED BY <1>2, <2>1 DEF NoDups
<1>. QED BY <1>0, <1>1, <1>2, <1>3, <1>4, <1>5 DEF r

LEMMA SuffixSorted ==
  ASSUME NEW s \in Seq(Nat), NEW k \in 0..Len(s), Sorted(s)
  PROVE  /\ Sorted(SubSeq(s, k + 1, Len(s)))
         /\ \A i \in 1..k : \A y \in ToSet(SubSeq(s, k + 1, Len(s))) : s[i] < y
<1> DEFINE r == SubSeq(s, k + 1, Len(s))
<1>1. /\ r \in Seq(Nat) /\ Len(r) = Len(s) - k /\ Len(s) \in Nat
      /\ \A i \in 1..Len(r) : r[i] = s[i + k] /\ i + k \in 1..Len(s)
  BY SuffixFacts
<1> HIDE DEF r
<1>2. Sorted(r)
  <2> SUFFICES ASSUME NEW i \in 1..Len(r), NEW j \in 1..Len(r), i < j
               PROVE  r[i] < r[j]
    BY DEF Sorted
  <2>1. i + k < j + k /\ i + k \in 1..Len(s) /\ j + k \in 1..Len(s)
    BY <1>1
  <2>. QED BY <1>1, <2>1 DEF Sorted
<1>3. ASSUME NEW i \in 1..k, NEW y \in ToSet(r) PROVE s[i] < y
  <2>1. PICK j \in 1..Len(r) : y = r[j]
    BY <1>1, SetOf
  <2>2. i \in 1..Len(s) /\ j + k \in 1..Len(s) /\ i < j + k
    BY <1>1
  <2>. QED BY <1>1, <2>1, <2>2 DEF Sorted
<1>. QED BY <1>2, <1>3 DEF r

-----------------------------------------------------------------------------
(* Keeping.                                                                *)

\* The function that Keeping is defined by exists.
LEMMA KeepingExists ==
  ASSUME NEW T, NEW s \in Seq(T), NEW S
  PROVE  \E k : /\ k = [i \in 0..Len(s) |->
                      IF i = 0 THEN <<>>
                      ELSE IF s[i] \in S THEN Append(k[i - 1], s[i]) ELSE k[i - 1]]
                /\ Keeping(s, S) = k[Len(s)]
<1> DEFINE After(k, i) == IF i = 0 THEN <<>>
                          ELSE IF s[i] \in S THEN Append(k[i - 1], s[i]) ELSE k[i - 1]
<1> DEFINE Exists(n) == \E k : k = [i \in 0..n |-> After(k, i)]
<1> DEFINE Good == {n \in 0..Len(s) : Exists(n)}
<1>1. Len(s) \in Nat
  OBVIOUS
<1>2. 0 \in Good
  <2> DEFINE k == [i \in 0..0 |-> <<>>]
  <2>1. k = [i \in 0..0 |-> After(k, i)]
    OBVIOUS
  <2>2. Exists(0)
    <3> HIDE DEF k, After
    <3>. QED BY <2>1
  <2> HIDE DEF Exists
  <2>. QED BY <1>1, <2>2
<1>3. ASSUME NEW n \in 1..Len(s), n - 1 \in Good PROVE n \in Good
  <2>1. PICK k : k = [i \in 0..(n - 1) |-> After(k, i)]
    <3>1. Exists(n - 1)
      <4> HIDE DEF Exists
      <4>. QED BY <1>3
    <3>. QED BY <3>1
  <2> DEFINE k2 == [i \in 0..n |-> IF i = n THEN After(k, n) ELSE k[i]]
  <2>2. ASSUME NEW i \in 0..n PROVE k2[i] = After(k2, i)
    <3>1. CASE i = n
      <4>1. n - 1 \in 0..n /\ n - 1 # n /\ n # 0
        OBVIOUS
      <4>2. k2[n - 1] = k[n - 1] /\ k2[n] = After(k, n)
        BY <4>1
      <4>. QED BY <3>1, <4>1, <4>2
    <3>2. CASE i # n /\ i # 0
      <4>1. i \in 0..(n - 1) /\ i - 1 \in 0..n /\ i - 1 # n
        BY <3>2
      <4>2. k2[i - 1] = k[i - 1] /\ k2[i] = k[i]
        BY <3>2, <4>1
      <4>3. k[i] = After(k, i)
        BY <2>1, <4>1
      <4>. QED BY <4>2, <4>3
    <3>3. CASE i # n /\ i = 0
      <4>1. i \in 0..(n - 1)
        BY <3>3
      <4>. QED BY <2>1, <3>3, <4>1
    <3>. QED BY <3>1, <3>2, <3>3
  <2>3. k2 = [i \in 0..n |-> After(k2, i)]
    <3>1. k2 = [i \in 0..n |-> k2[i]]
      OBVIOUS
    <3> HIDE DEF k2, After
    <3>. QED BY <2>2, <3>1
  <2>4. Exists(n)
    <3> HIDE DEF k2, After
    <3>. QED BY <2>3
  <2> HIDE DEF Exists
  <2>. QED BY <1>1, <2>4
<1>4. Exists(Len(s))
  <2> HIDE DEF Exists
  <2>1. \A n \in 1..Len(s) : n - 1 \in Good => n \in Good
    BY <1>3
  <2>2. \A n \in 0..Len(s) : n \in Good
    <3> HIDE DEF Good
    <3>. QED BY <1>1, <1>2, <2>1, Upwards
  <2>. QED BY <1>1, <2>2
<1>. QED BY <1>4 DEF Keeping

LEMMA KeepingFacts ==
  ASSUME NEW T, NEW s \in Seq(T), NEW S
  PROVE  /\ Keeping(s, S) \in Seq(T) /\ Len(Keeping(s, S)) <= Len(s)
         /\ ToSet(Keeping(s, S)) = ToSet(s) \cap S
         /\ NoDups(s) => NoDups(Keeping(s, S))
<1>1. PICK k : /\ k = [i \in 0..Len(s) |->
                      IF i = 0 THEN <<>>
                      ELSE IF s[i] \in S THEN Append(k[i - 1], s[i]) ELSE k[i - 1]]
               /\ Keeping(s, S) = k[Len(s)]
  BY KeepingExists
<1>2. Len(s) \in Nat /\ \A i \in 1..Len(s) : s[i] \in T
  BY SetOf
<1> DEFINE Foremost(n) == {s[i] : i \in 1..n}
<1> DEFINE OK(n) == /\ k[n] \in Seq(T) /\ Len(k[n]) <= n
                    /\ ToSet(k[n]) = Foremost(n) \cap S
                    /\ NoDups(s) => NoDups(k[n])
<1> DEFINE Good == {n \in 0..Len(s) : OK(n)}
<1>3. OK(0)
  <2>1. k[0] = <<>>
    BY <1>1, <1>2
  <2>2. <<>> \in Seq(T) /\ Len(<<>>) = 0 /\ ToSet(<<>>) = {} /\ Foremost(0) = {}
    BY DEF ToSet
  <2>. QED BY <2>1, <2>2 DEF NoDups
<1>4. ASSUME NEW n \in 1..Len(s), OK(n - 1) PROVE OK(n)
  <2>1. n - 1 \in 0..Len(s) /\ n \in 0..Len(s) /\ n # 0 /\ n - 1 \in Nat /\ s[n] \in T
    BY <1>2
  <2>2. Foremost(n) = Foremost(n - 1) \cup {s[n]}
    <3>1. 1..n = 1..(n - 1) \cup {n}
      OBVIOUS
    <3>. QED BY <3>1
  <2>3. k[n] = IF s[n] \in S THEN Append(k[n - 1], s[n]) ELSE k[n - 1]
    BY <1>1, <2>1
  <2>4. CASE s[n] \notin S
    <3>1. k[n] = k[n - 1]
      BY <2>3, <2>4
    <3>2. Foremost(n) \cap S = Foremost(n - 1) \cap S
      BY <2>2, <2>4
    <3> HIDE DEF Foremost
    <3>3. Len(k[n]) <= n
      <4>1. Len(k[n - 1]) <= n - 1 /\ Len(k[n - 1]) \in Nat
        BY <1>4
      <4>. QED BY <2>1, <3>1, <4>1
    <3>. QED BY <1>4, <3>1, <3>2, <3>3
  <2>5. CASE s[n] \in S
    <3>1. k[n] = Append(k[n - 1], s[n])
      BY <2>3, <2>5
    <3>2. /\ k[n] \in Seq(T) /\ Len(k[n]) = Len(k[n - 1]) + 1
          /\ ToSet(k[n]) = ToSet(k[n - 1]) \cup {s[n]}
      <4> DEFINE a == k[n - 1]
      <4>1. a \in Seq(T) /\ s[n] \in T
        BY <1>4, <2>1
      <4> HIDE DEF a
      <4>2. /\ Append(a, s[n]) \in Seq(T) /\ Len(Append(a, s[n])) = Len(a) + 1
            /\ ToSet(Append(a, s[n])) = ToSet(a) \cup {s[n]}
        BY <4>1, AppendFacts
      <4>. QED BY <4>2, <3>1 DEF a
    <3>3. Len(k[n]) <= n
      <4>1. Len(k[n - 1]) <= n - 1 /\ Len(k[n - 1]) \in Nat
        BY <1>4
      <4>. QED BY <2>1, <3>2, <4>1
    <3>4. ToSet(k[n]) = Foremost(n) \cap S
      BY <1>4, <2>2, <2>5, <3>2
    <3>5. ASSUME NoDups(s) PROVE NoDups(k[n])
      <4>1. s[n] \notin Foremost(n - 1)
        <5> SUFFICES ASSUME NEW i \in 1..(n - 1) PROVE s[i] # s[n]
          OBVIOUS
        <5>1. i \in 1..Len(s) /\ i < n
          BY <1>2
        <5>. QED BY <3>5, <5>1 DEF NoDups
      <4>2. s[n] \notin ToSet(k[n - 1])
        BY <1>4, <4>1
      <4>. QED BY <1>4, <2>1, <3>1, <3>5, <4>2, AppendNoDups
    <3>. QED BY <3>2, <3>3, <3>4, <3>5
  <2>. QED BY <2>4, <2>5
<1>5. OK(Len(s))
  <2> HIDE DEF OK
  <2>1. 0 \in Good /\ \A n \in 1..Len(s) : n - 1 \in Good => n \in Good
    BY <1>2, <1>3, <1>4
  <2>2. \A n \in 0..Len(s) : n \in Good
    <3> HIDE DEF Good
    <3>. QED BY <1>2, <2>1, Upwards
  <2>. QED BY <1>2, <2>2
<1>6. ToSet(s) = Foremost(Len(s))
  BY SetOf
<1>. QED BY <1>1, <1>5, <1>6

\* When what is kept are the foremost ones, they stay where they are.
LEMMA KeepingFront ==
  ASSUME NEW T, NEW s \in Seq(T), NEW S, NEW m \in 0..Len(s),
         \A i \in 1..Len(s) : s[i] \in S <=> i <= m
  PROVE  /\ Keeping(s, S) \in Seq(T) /\ Len(Keeping(s, S)) = m
         /\ \A i \in 1..m : Keeping(s, S)[i] = s[i]
<1>1. PICK k : /\ k = [i \in 0..Len(s) |->
                      IF i = 0 THEN <<>>
                      ELSE IF s[i] \in S THEN Append(k[i - 1], s[i]) ELSE k[i - 1]]
               /\ Keeping(s, S) = k[Len(s)]
  BY KeepingExists
<1>2. Len(s) \in Nat /\ \A i \in 1..Len(s) : s[i] \in T
  BY SetOf
<1> DEFINE Upto(n) == IF n <= m THEN n ELSE m
           OK(n) == k[n] \in Seq(T) /\ Len(k[n]) = Upto(n) /\ \A i \in 1..Upto(n) : k[n][i] = s[i]
           Good == {n \in 0..Len(s) : OK(n)}
<1>3. OK(0)
  <2>1. k[0] = <<>> /\ Upto(0) = 0
    BY <1>1, <1>2
  <2>. QED BY <2>1
<1>4. ASSUME NEW n \in 1..Len(s), OK(n - 1) PROVE OK(n)
  <2>1. n - 1 \in 0..Len(s) /\ n \in 0..Len(s) /\ n # 0 /\ s[n] \in T
    BY <1>2
  <2>2. k[n] = IF s[n] \in S THEN Append(k[n - 1], s[n]) ELSE k[n - 1]
    BY <1>1, <2>1
  <2>3. CASE n > m
    <3>1. k[n] = k[n - 1] /\ Upto(n) = Upto(n - 1)
      BY <1>2, <2>2, <2>3
    <3> HIDE DEF Upto
    <3>. QED BY <1>4, <3>1
  <2>4. CASE n <= m
    <3>1. k[n] = Append(k[n - 1], s[n]) /\ Upto(n - 1) = n - 1 /\ Upto(n) = n
      BY <1>2, <2>2, <2>4
    <3> DEFINE a == k[n - 1]
    <3>2. a \in Seq(T) /\ Len(a) = n - 1 /\ \A i \in 1..(n - 1) : a[i] = s[i]
      BY <1>4, <3>1
    <3> HIDE DEF a
    <3>3. /\ Append(a, s[n]) \in Seq(T) /\ Len(Append(a, s[n])) = n
          /\ \A i \in 1..(n - 1) : Append(a, s[n])[i] = a[i]
          /\ Append(a, s[n])[n] = s[n]
      BY <2>1, <3>2, AppendFacts
    <3>4. \A i \in 1..n : Append(a, s[n])[i] = s[i]
      BY <3>2, <3>3
    <3>5. k[n] = Append(a, s[n]) /\ Upto(n) = n
      BY <3>1 DEF a
    <3> HIDE DEF Upto
    <3>. QED BY <3>3, <3>4, <3>5
  <2>. QED BY <1>2, <2>3, <2>4
<1>5. OK(Len(s))
  <2> HIDE DEF OK
  <2>1. 0 \in Good /\ \A n \in 1..Len(s) : n - 1 \in Good => n \in Good
    BY <1>2, <1>3, <1>4
  <2>2. \A n \in 0..Len(s) : n \in Good
    <3> HIDE DEF Good
    <3>. QED BY <1>2, <2>1, Upwards
  <2>. QED BY <1>2, <2>2
<1>6. Upto(Len(s)) = m
  BY <1>2
<1> HIDE DEF Upto
<1>. QED BY <1>1, <1>5, <1>6

LEMMA KeepingSorted ==
  ASSUME NEW s \in Seq(Nat), NEW S, Sorted(s)
  PROVE  Sorted(Keeping(s, S))
<1>1. PICK k : /\ k = [i \in 0..Len(s) |->
                      IF i = 0 THEN <<>>
                      ELSE IF s[i] \in S THEN Append(k[i - 1], s[i]) ELSE k[i - 1]]
               /\ Keeping(s, S) = k[Len(s)]
  BY KeepingExists
<1>2. Len(s) \in Nat /\ \A i \in 1..Len(s) : s[i] \in Nat
  BY SetOf
<1> DEFINE Foremost(n) == {s[i] : i \in 1..n}
<1> DEFINE OK(n) == k[n] \in Seq(Nat) /\ ToSet(k[n]) \subseteq Foremost(n) /\ Sorted(k[n])
<1> DEFINE Good == {n \in 0..Len(s) : OK(n)}
<1>3. OK(0)
  <2>1. k[0] = <<>>
    BY <1>1, <1>2
  <2>2. <<>> \in Seq(Nat) /\ Len(<<>>) = 0 /\ ToSet(<<>>) = {}
    BY DEF ToSet
  <2>. QED BY <2>1, <2>2 DEF Sorted
<1>4. ASSUME NEW n \in 1..Len(s), OK(n - 1) PROVE OK(n)
  <2>1. n - 1 \in 0..Len(s) /\ n \in 0..Len(s) /\ n # 0 /\ n - 1 \in Nat /\ s[n] \in Nat
    BY <1>2
  <2>2. Foremost(n) = Foremost(n - 1) \cup {s[n]}
    <3>1. 1..n = 1..(n - 1) \cup {n}
      OBVIOUS
    <3>. QED BY <3>1
  <2>3. k[n] = IF s[n] \in S THEN Append(k[n - 1], s[n]) ELSE k[n - 1]
    BY <1>1, <2>1
  <2>4. CASE s[n] \notin S
    <3>1. k[n] = k[n - 1]
      BY <2>3, <2>4
    <3> HIDE DEF Foremost
    <3>. QED BY <1>4, <2>2, <3>1
  <2>5. CASE s[n] \in S
    <3>1. k[n] = Append(k[n - 1], s[n])
      BY <2>3, <2>5
    <3>2. k[n] \in Seq(Nat) /\ ToSet(k[n]) = ToSet(k[n - 1]) \cup {s[n]}
      <4> DEFINE a == k[n - 1]
      <4>1. a \in Seq(Nat) /\ s[n] \in Nat
        BY <1>4, <2>1
      <4> HIDE DEF a
      <4>2. /\ Append(a, s[n]) \in Seq(Nat) /\ Len(Append(a, s[n])) = Len(a) + 1
            /\ ToSet(Append(a, s[n])) = ToSet(a) \cup {s[n]}
        BY <4>1, AppendFacts
      <4>. QED BY <4>2, <3>1 DEF a
    <3>3. \A y \in Foremost(n - 1) : y < s[n]
      <4> SUFFICES ASSUME NEW i \in 1..(n - 1) PROVE s[i] < s[n]
        OBVIOUS
      <4>1. i \in 1..Len(s) /\ i < n
        BY <1>2
      <4>. QED BY <4>1 DEF Sorted
    <3>4. Sorted(k[n])
      BY <1>4, <2>1, <3>1, <3>3, AppendSorted
    <3> HIDE DEF Foremost
    <3>. QED BY <1>4, <2>2, <3>2, <3>4
  <2>. QED BY <2>4, <2>5
<1>5. OK(Len(s))
  <2> HIDE DEF OK
  <2>1. 0 \in Good /\ \A n \in 1..Len(s) : n - 1 \in Good => n \in Good
    BY <1>2, <1>3, <1>4
  <2>2. \A n \in 0..Len(s) : n \in Good
    <3> HIDE DEF Good
    <3>. QED BY <1>2, <2>1, Upwards
  <2>. QED BY <1>2, <2>2
<1>. QED BY <1>1, <1>5
-----------------------------------------------------------------------------
(* What holds of every two elements, the earlier one first.                *)

Pairwise(s, R) ==
  \A i \in 1..Len(s) : \A j \in 1..Len(s) : i < j => <<s[i], s[j]>> \in R

LEMMA AppendPairs ==
  ASSUME NEW T, NEW s \in Seq(T), NEW x \in T, NEW R, Pairwise(s, R),
         \A y \in ToSet(s) : <<y, x>> \in R
  PROVE  Pairwise(Append(s, x), R)
<1> DEFINE r == Append(s, x)
<1>1. /\ Len(r) = Len(s) + 1 /\ Len(s) \in Nat /\ r[Len(s) + 1] = x
      /\ \A i \in 1..Len(s) : r[i] = s[i] /\ s[i] \in ToSet(s)
  BY AppendFacts, SetOf
<1> HIDE DEF r
<1>2. ASSUME NEW i \in 1..Len(r), NEW j \in 1..Len(r), i < j PROVE <<r[i], r[j]>> \in R
  <2>1. i \in 1..Len(s)
    BY <1>1, <1>2
  <2>2. CASE j \in 1..Len(s)
    BY <1>1, <1>2, <2>1, <2>2 DEF Pairwise
  <2>3. CASE j = Len(s) + 1
    BY <1>1, <2>1, <2>3
  <2>. QED BY <1>1, <2>2, <2>3
<1>. QED BY <1>2 DEF Pairwise, r

LEMMA TailFacts ==
  ASSUME NEW T, NEW s \in Seq(T), s # <<>>
  PROVE  /\ Tail(s) \in Seq(T) /\ Len(Tail(s)) = Len(s) - 1
         /\ \A i \in 1..Len(Tail(s)) : Tail(s)[i] = s[i + 1] /\ i + 1 \in 1..Len(s)
         /\ ToSet(Tail(s)) \subseteq ToSet(s)
<1> DEFINE r == Tail(s)
<1>1. /\ r \in Seq(T) /\ Len(r) = Len(s) - 1 /\ Len(s) \in Nat /\ Len(s) > 0
      /\ \A i \in 1..Len(r) : r[i] = s[i + 1]
  BY HeadTailProperties, SetOf
<1> HIDE DEF r
<1>2. \A i \in 1..Len(r) : r[i] = s[i + 1] /\ i + 1 \in 1..Len(s)
  BY <1>1
<1>3. ASSUME NEW y \in ToSet(r) PROVE y \in ToSet(s)
  <2>1. PICK i \in 1..Len(r) : y = r[i]
    BY <1>1, SetOf
  <2>. QED BY <1>2, <2>1, SetOf
<1>4. ToSet(r) \subseteq ToSet(s)
  BY <1>3
<1>. QED BY <1>1, <1>2, <1>4 DEF r

LEMMA TailPairs ==
  ASSUME NEW T, NEW s \in Seq(T), s # <<>>, NEW R, Pairwise(s, R)
  PROVE  /\ Pairwise(Tail(s), R)
         /\ \A y \in ToSet(Tail(s)) : <<Head(s), y>> \in R
<1> DEFINE r == Tail(s)
<1>1. /\ r \in Seq(T) /\ Len(r) \in Nat /\ Len(s) \in Nat /\ Len(s) >= 1
      /\ \A i \in 1..Len(r) : r[i] = s[i + 1] /\ i + 1 \in 1..Len(s)
      /\ Head(s) = s[1]
  <2>1. Len(s) \in Nat /\ Len(s) # 0 /\ Head(s) = s[1]
    BY SetOf
  <2>2. r \in Seq(T) /\ \A i \in 1..Len(r) : r[i] = s[i + 1] /\ i + 1 \in 1..Len(s)
    BY TailFacts
  <2>3. Len(r) \in Nat
    BY <2>2, SetOf
  <2>. QED BY <2>1, <2>2, <2>3
<1> HIDE DEF r
<1>2. ASSUME NEW i \in 1..Len(r), NEW j \in 1..Len(r), i < j PROVE <<r[i], r[j]>> \in R
  <2>1. i + 1 < j + 1
    BY <1>1, <1>2
  <2>. QED BY <1>1, <2>1 DEF Pairwise
<1>3. ASSUME NEW y \in ToSet(r) PROVE <<Head(s), y>> \in R
  <2>1. PICK i \in 1..Len(r) : y = r[i]
    BY <1>1, SetOf
  <2>2. 1 < i + 1 /\ 1 \in 1..Len(s)
    BY <1>1
  <2>. QED BY <1>1, <2>1, <2>2 DEF Pairwise
<1>. QED BY <1>2, <1>3 DEF Pairwise, r

LEMMA KeepingPairs ==
  ASSUME NEW T, NEW s \in Seq(T), NEW S, NEW R, Pairwise(s, R)
  PROVE  Pairwise(Keeping(s, S), R)
<1>1. PICK k : /\ k = [i \in 0..Len(s) |->
                      IF i = 0 THEN <<>>
                      ELSE IF s[i] \in S THEN Append(k[i - 1], s[i]) ELSE k[i - 1]]
               /\ Keeping(s, S) = k[Len(s)]
  BY KeepingExists
<1>2. Len(s) \in Nat /\ \A i \in 1..Len(s) : s[i] \in T
  BY SetOf
<1> DEFINE Foremost(n) == {s[i] : i \in 1..n}
<1> DEFINE OK(n) == k[n] \in Seq(T) /\ ToSet(k[n]) \subseteq Foremost(n) /\ Pairwise(k[n], R)
<1> DEFINE Good == {n \in 0..Len(s) : OK(n)}
<1>3. OK(0)
  <2>1. k[0] = <<>>
    BY <1>1, <1>2
  <2>2. <<>> \in Seq(T) /\ Len(<<>>) = 0 /\ ToSet(<<>>) = {}
    BY DEF ToSet
  <2>. QED BY <2>1, <2>2 DEF Pairwise
<1>4. ASSUME NEW n \in 1..Len(s), OK(n - 1) PROVE OK(n)
  <2>1. n - 1 \in 0..Len(s) /\ n \in 0..Len(s) /\ n # 0 /\ n - 1 \in Nat /\ s[n] \in T
    BY <1>2
  <2>2. Foremost(n) = Foremost(n - 1) \cup {s[n]}
    <3>1. 1..n = 1..(n - 1) \cup {n}
      OBVIOUS
    <3>. QED BY <3>1
  <2>3. k[n] = IF s[n] \in S THEN Append(k[n - 1], s[n]) ELSE k[n - 1]
    BY <1>1, <2>1
  <2>4. CASE s[n] \notin S
    <3>1. k[n] = k[n - 1]
      BY <2>3, <2>4
    <3> HIDE DEF Foremost
    <3>. QED BY <1>4, <2>2, <3>1
  <2>5. CASE s[n] \in S
    <3>1. k[n] = Append(k[n - 1], s[n])
      BY <2>3, <2>5
    <3>2. k[n] \in Seq(T) /\ ToSet(k[n]) = ToSet(k[n - 1]) \cup {s[n]}
      <4> DEFINE a == k[n - 1]
      <4>1. a \in Seq(T) /\ s[n] \in T
        BY <1>4, <2>1
      <4> HIDE DEF a
      <4>2. /\ Append(a, s[n]) \in Seq(T)
            /\ ToSet(Append(a, s[n])) = ToSet(a) \cup {s[n]}
        BY <4>1, AppendFacts
      <4>. QED BY <4>2, <3>1 DEF a
    <3>3. \A y \in Foremost(n - 1) : <<y, s[n]>> \in R
      <4> SUFFICES ASSUME NEW i \in 1..(n - 1) PROVE <<s[i], s[n]>> \in R
        OBVIOUS
      <4>1. i \in 1..Len(s) /\ i < n
        BY <1>2
      <4>. QED BY <4>1 DEF Pairwise
    <3>4. Pairwise(k[n], R)
      <4> DEFINE a == k[n - 1]
      <4>1. a \in Seq(T) /\ s[n] \in T /\ Pairwise(a, R) /\ \A y \in ToSet(a) : <<y, s[n]>> \in R
        BY <1>4, <2>1, <3>3
      <4> HIDE DEF a
      <4>2. Pairwise(Append(a, s[n]), R)
        BY <4>1, AppendPairs
      <4>. QED BY <4>2, <3>1 DEF a
    <3> HIDE DEF Foremost
    <3>. QED BY <1>4, <2>2, <3>2, <3>4
  <2>. QED BY <2>4, <2>5
<1>5. OK(Len(s))
  <2> HIDE DEF OK
  <2>1. 0 \in Good /\ \A n \in 1..Len(s) : n - 1 \in Good => n \in Good
    BY <1>2, <1>3, <1>4
  <2>2. \A n \in 0..Len(s) : n \in Good
    <3> HIDE DEF Good
    <3>. QED BY <1>2, <2>1, Upwards
  <2>. QED BY <1>2, <2>2
<1>. QED BY <1>1, <1>5
=============================================================================
