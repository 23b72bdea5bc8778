------------------------------- MODULE Lists --------------------------------
(***************************************************************************)
(* What the proofs know of lists: lines of waiting tasks, counting in a    *)
(* list that is put together, and what a fold and FlattenSeq return.  The  *)
(* last two take induction, which NatInduct states of a set of numbers and *)
(* proves from WFMin and NatLessThanWellFounded.                           *)
(***************************************************************************)
EXTENDS Integers, SequencesExt, SequenceTheorems, FiniteSetTheorems, WellFoundedInduction, TLAPS

-----------------------------------------------------------------------------
(***************************************************************************)
(* Lines of waiting tasks, as asyncio's Lock and Semaphore keep them: a    *)
(* task joins at the end, leaves at the front when it is served, or from   *)
(* where it stands when it is cancelled.  Each task is in line once.       *)
(***************************************************************************)

Distinct(s) == \A i, j \in DOMAIN s : s[i] = s[j] => i = j

LEMMA EmptyLine == Distinct(<<>>) /\ Range(<<>>) = {}
BY DEF Distinct, Range

\* A task that is not in line joins it.
LEMMA LineJoined ==
  ASSUME NEW S, NEW s \in Seq(S), NEW x \in S, Distinct(s), x \notin Range(s)
  PROVE  /\ Append(s, x) \in Seq(S)
         /\ Distinct(Append(s, x))
         /\ Range(Append(s, x)) = Range(s) \cup {x}
<1> DEFINE t == Append(s, x)
<1>1. Len(s) \in Nat /\ DOMAIN s = 1 .. Len(s)
  OBVIOUS
<1>2. /\ t \in Seq(S) /\ DOMAIN t = 1 .. Len(s) + 1
      /\ \A i \in DOMAIN s : t[i] = s[i]
      /\ t[Len(s) + 1] = x
  BY <1>1
<1> HIDE DEF t
<1>3. DOMAIN t = DOMAIN s \cup {Len(s) + 1} /\ Len(s) + 1 \notin DOMAIN s
  BY <1>1, <1>2
<1>4. \A i \in DOMAIN s : s[i] \in Range(s)
  BY DEF Range
<1>5. Distinct(t)
  BY <1>2, <1>3, <1>4 DEF Distinct
<1>6. Range(t) = Range(s) \cup {x}
  BY <1>2, <1>3 DEF Range
<1> QED
  BY <1>2, <1>5, <1>6 DEF t

\* What is left of a sequence when its i-th element is removed.
LEMMA Removed ==
  ASSUME NEW S, NEW s \in Seq(S), NEW i \in DOMAIN s
  PROVE  /\ RemoveAt(s, i) \in Seq(S) /\ Len(RemoveAt(s, i)) = Len(s) - 1
         /\ \A j \in 1 .. Len(s) - 1 : RemoveAt(s, i)[j] = IF j < i THEN s[j] ELSE s[j + 1]
<1> DEFINE a == SubSeq(s, 1, i - 1)
           b == SubSeq(s, i + 1, Len(s))
<1>1. Len(s) \in Nat /\ i \in Nat /\ 1 <= i /\ i <= Len(s)
  OBVIOUS
<1>2. a \in Seq(S) /\ Len(a) = i - 1 /\ \A j \in 1 .. i - 1 : a[j] = s[j]
  BY <1>1
<1>3. b \in Seq(S) /\ Len(b) = Len(s) - i /\ \A j \in 1 .. Len(s) - i : b[j] = s[i + j]
  BY <1>1
<1>4. RemoveAt(s, i) = a \o b
  BY DEF RemoveAt
<1> HIDE DEF a, b
<1>5. /\ a \o b \in Seq(S) /\ Len(a \o b) = Len(a) + Len(b)
      /\ \A j \in 1 .. Len(a) + Len(b) : (a \o b)[j] = IF j <= Len(a) THEN a[j] ELSE b[j - Len(a)]
  BY <1>2, <1>3, ConcatProperties
<1>6. Len(a) + Len(b) = Len(s) - 1
  BY <1>1, <1>2, <1>3
<1>7. ASSUME NEW j \in 1 .. Len(s) - 1
      PROVE  (a \o b)[j] = IF j < i THEN s[j] ELSE s[j + 1]
  <2>1. CASE j < i
    BY <1>1, <1>2, <1>3, <1>5, <1>6, <2>1
  <2>2. CASE ~ (j < i)
    <3>1. j - (i - 1) \in 1 .. Len(s) - i /\ i + (j - (i - 1)) = j + 1 /\ ~ (j <= i - 1)
      BY <1>1, <2>2
    <3>2. b[j - (i - 1)] = s[i + (j - (i - 1))]
      BY <1>3, <3>1
    <3>3. (a \o b)[j] = b[j - (i - 1)]
      BY <1>2, <1>5, <1>6, <3>1
    <3> QED
      BY <2>2, <3>1, <3>2, <3>3
  <2> QED
    BY <2>1, <2>2
<1> QED
  BY <1>4, <1>5, <1>6, <1>7

\* A sequence t that is s without its i-th element.
LEMMA WithoutOne ==
  ASSUME NEW S, NEW s \in Seq(S), NEW t \in Seq(S), NEW i \in DOMAIN s, Distinct(s),
         Len(t) = Len(s) - 1,
         \A j \in 1 .. Len(s) - 1 : t[j] = IF j < i THEN s[j] ELSE s[j + 1]
  PROVE  Distinct(t) /\ Range(t) = Range(s) \ {s[i]}
<1>1. /\ Len(s) \in Nat /\ DOMAIN s = 1 .. Len(s) /\ i \in 1 .. Len(s)
      /\ DOMAIN t = 1 .. Len(s) - 1
  OBVIOUS
<1> DEFINE old(j) == IF j < i THEN j ELSE j + 1
<1>2. \A j \in DOMAIN t : old(j) \in DOMAIN s /\ old(j) # i /\ t[j] = s[old(j)]
  BY <1>1
<1>3. \A j, k \in DOMAIN t : old(j) = old(k) => j = k
  BY <1>1
<1>4. \A n \in DOMAIN s : n # i => \E j \in DOMAIN t : old(j) = n
  <2> TAKE n \in DOMAIN s
  <2> HAVE n # i
  <2>1. CASE n < i
    BY <1>1, <2>1
  <2>2. CASE n > i
    <3>1. n - 1 \in DOMAIN t /\ old(n - 1) = n
      BY <1>1, <2>2
    <3> QED
      BY <3>1
  <2> QED
    BY <1>1, <2>1, <2>2
<1> HIDE DEF old
<1>5. Distinct(t)
  BY <1>2, <1>3 DEF Distinct
<1>6. \A j \in DOMAIN t : t[j] \in Range(s) \ {s[i]}
  BY <1>2 DEF Distinct, Range
<1>7. \A x \in Range(s) \ {s[i]} : \E j \in DOMAIN t : t[j] = x
  BY <1>2, <1>4 DEF Range
<1> QED
  BY <1>5, <1>6, <1>7 DEF Range

\* A cancelled task leaves the line from where it stands.
LEMMA LineLeft ==
  ASSUME NEW S, NEW s \in Seq(S), Distinct(s), NEW i \in DOMAIN s
  PROVE  /\ RemoveAt(s, i) \in Seq(S)
         /\ Distinct(RemoveAt(s, i))
         /\ Range(RemoveAt(s, i)) = Range(s) \ {s[i]}
<1>1. /\ RemoveAt(s, i) \in Seq(S) /\ Len(RemoveAt(s, i)) = Len(s) - 1
      /\ \A j \in 1 .. Len(s) - 1 : RemoveAt(s, i)[j] = IF j < i THEN s[j] ELSE s[j + 1]
  BY Removed
<1> QED
  BY <1>1, WithoutOne

\* The first in line is served.
LEMMA LineServed ==
  ASSUME NEW S, NEW s \in Seq(S), Distinct(s), s # <<>>
  PROVE  /\ Head(s) \in Range(s)
         /\ Tail(s) \in Seq(S)
         /\ Distinct(Tail(s))
         /\ Range(Tail(s)) = Range(s) \ {Head(s)}
<1>1. Len(s) \in Nat /\ 1 \in DOMAIN s /\ Head(s) = s[1]
  OBVIOUS
<1> DEFINE t == Tail(s)
<1>2. t \in Seq(S) /\ Len(t) = Len(s) - 1 /\ \A j \in 1 .. Len(s) - 1 : t[j] = s[j + 1]
  BY HeadTailProperties
<1> HIDE DEF t
<1>3. \A j \in 1 .. Len(s) - 1 : t[j] = IF j < 1 THEN s[j] ELSE s[j + 1]
  BY <1>1, <1>2
<1>4. Distinct(t) /\ Range(t) = Range(s) \ {s[1]}
  BY <1>1, <1>2, <1>3, WithoutOne
<1> QED
  BY <1>1, <1>2, <1>4 DEF Range, t

-----------------------------------------------------------------------------
(***************************************************************************)
(* Induction, and what a fold makes of a list.                             *)
(***************************************************************************)

\* Induction over the naturals, on a set.
LEMMA NatInduct ==
  ASSUME NEW T, 0 \in T, \A n \in Nat : n \in T => n + 1 \in T
  PROVE  Nat \subseteq T
<1> DEFINE R == OpToRel(<, Nat)
          U == Nat \ T
<1>1. SUFFICES ASSUME U # {} PROVE FALSE
  OBVIOUS
<1>2. \A x, y \in Nat : x < y => <<x, y>> \in R
  BY DEF OpToRel
<1>3. IsWellFoundedOn(R, Nat)
  BY NatLessThanWellFounded, Zenon
<1> HIDE DEF R
<1>4. U \subseteq Nat
  OBVIOUS
<1> HIDE DEF U
<1>5. PICK x \in U : \A y \in U : ~ (<<y, x>> \in R)
  BY <1>1, <1>3, <1>4, WFMin
<1>6. x \in Nat /\ x \notin T
  BY DEF U
<1>7. x # 0 /\ x - 1 \in Nat /\ x - 1 < x
  BY <1>6
<1>8. x - 1 \notin U
  BY <1>2, <1>5, <1>6, <1>7
<1> QED
  BY <1>6, <1>7, <1>8 DEF U

\* Up to a bound.
LEMMA UpTo ==
  ASSUME NEW n \in Nat, NEW T, 0 \in T, \A i \in 1..n : i - 1 \in T => i \in T
  PROVE  0..n \subseteq T
<1> DEFINE V == { i \in Nat : i <= n => i \in T }
<1>1. 0 \in V
  OBVIOUS
<1>2. \A i \in Nat : i \in V => i + 1 \in V
  <2> TAKE i \in Nat
  <2> HAVE i \in V
  <2>1. CASE i + 1 <= n
    <3>1. i + 1 \in 1..n /\ (i + 1) - 1 = i /\ i <= n
      BY <2>1
    <3> QED
      BY <3>1
  <2> QED
    BY <2>1
<1> HIDE DEF V
<1>3. Nat \subseteq V
  BY <1>1, <1>2, NatInduct
<1> QED
  BY <1>3 DEF V

LEMMA MaxOf ==
  /\ \A n \in Nat : \A s \in SUBSET (1..n + 1) : n + 1 \in s => Max(s) = n + 1
  /\ \A n \in Nat : \A s \in SUBSET (1..n) : s # {} => Max(s) \in s
<1>1. ASSUME NEW n \in Nat, NEW s \in SUBSET (1..n + 1), n + 1 \in s
      PROVE  Max(s) = n + 1
  <2>1. n + 1 \in s /\ \A y \in s : n + 1 >= y
    BY <1>1
  <2>2. \A x \in s : (\A y \in s : x >= y) => x = n + 1
    BY <1>1
  <2> QED
    BY <2>1, <2>2 DEF Max
<1> DEFINE T == { n \in Nat : \A s \in SUBSET (1..n) : s # {} => Max(s) \in s }
<1>2. 0 \in T
  <2>1. 1..0 = {}
    OBVIOUS
  <2> QED
    BY <2>1
<1>3. ASSUME NEW n \in Nat, n \in T
      PROVE  n + 1 \in T
  <2>1. ASSUME NEW s \in SUBSET (1..n + 1), s # {}
        PROVE  Max(s) \in s
    <3>1. CASE n + 1 \in s
      BY <1>1, <3>1
    <3>2. CASE n + 1 \notin s
      <4>1. \A x \in s : x \in 1..n
        BY <3>2
      <4>2. s \in SUBSET (1..n)
        BY <4>1
      <4> QED
        BY <1>3, <2>1, <4>2
    <3> QED
      BY <3>1, <3>2
  <2> QED
    BY <2>1
<1> HIDE DEF T
<1>4. Nat \subseteq T
  BY <1>2, <1>3, NatInduct
<1> QED
  BY <1>1, <1>4 DEF T

\* What a fold makes of 1..n, taking the largest element last.
Chain(n, A, base, step, it) ==
  /\ it \in [SUBSET (1..n) -> A]
  /\ \A s \in SUBSET (1..n) :
       it[s] = IF s = {} THEN base ELSE step[<<it[s \ {Max(s)}], Max(s)>>]

LEMMA ChainExists ==
  ASSUME NEW n \in Nat, NEW A, NEW base \in A, NEW step \in [A \X (1..n) -> A]
  PROVE  \E it : Chain(n, A, base, step, it)
<1> DEFINE T == { m \in Nat : m <= n => \E it : Chain(m, A, base, step, it) }
<1>1. 0 \in T
  <2> DEFINE it == [s \in SUBSET (1..0) |-> base]
  <2>1. 1..0 = {}
    OBVIOUS
  <2>2. Chain(0, A, base, step, it)
    BY <2>1 DEF Chain
  <2> QED
    BY <2>2
<1>2. ASSUME NEW m \in Nat, m \in T
      PROVE  m + 1 \in T
  <2>1. CASE m + 1 <= n
    <3>1. PICK it : Chain(m, A, base, step, it)
      BY <1>2, <2>1
    <3> DEFINE new == [s \in SUBSET (1..m + 1) |->
                         IF m + 1 \in s THEN step[<<it[s \ {m + 1}], m + 1>>] ELSE it[s]]
    <3>2. \A s \in SUBSET (1..m + 1) : s \ {m + 1} \in SUBSET (1..m)
      OBVIOUS
    <3>3. \A s \in SUBSET (1..m) : it[s] \in A /\ m + 1 \notin s /\ s \in SUBSET (1..m + 1)
      BY <3>1 DEF Chain
    <3>4. m + 1 \in 1..n
      BY <2>1
    <3>5. ASSUME NEW s \in SUBSET (1..m + 1)
          PROVE  /\ new[s] \in A
                 /\ new[s] = IF s = {} THEN base ELSE step[<<new[s \ {Max(s)}], Max(s)>>]
      <4>1. CASE m + 1 \in s
        <5>1. Max(s) = m + 1
          BY <4>1, MaxOf
        <5>2. s \ {m + 1} \in SUBSET (1..m) /\ new[s \ {m + 1}] = it[s \ {m + 1}]
          BY <3>2, <3>3
        <5>3. new[s] = step[<<it[s \ {m + 1}], m + 1>>] /\ new[s] \in A
          BY <3>3, <3>4, <4>1, <5>2
        <5> QED
          BY <4>1, <5>1, <5>2, <5>3
      <4>2. CASE m + 1 \notin s
        <5>1. s \in SUBSET (1..m) /\ new[s] = it[s] /\ new[s] \in A
          BY <3>3, <4>2
        <5>2. CASE s = {}
          BY <3>1, <5>1, <5>2 DEF Chain
        <5>3. CASE s # {}
          <6>1. Max(s) \in s /\ s \ {Max(s)} \in SUBSET (1..m)
            BY <5>1, <5>3, MaxOf
          <6>2. new[s \ {Max(s)}] = it[s \ {Max(s)}]
            BY <3>3, <6>1
          <6>3. it[s] = step[<<it[s \ {Max(s)}], Max(s)>>]
            BY <3>1, <5>1, <5>3 DEF Chain
          <6> HIDE DEF new
          <6> QED
            BY <5>1, <5>3, <6>2, <6>3
        <5> QED
          BY <5>2, <5>3
      <4> QED
        BY <4>1, <4>2
    <3>6. new \in [SUBSET (1..m + 1) -> A]
      <4>1. \A s \in SUBSET (1..m + 1) : new[s] \in A
        BY <3>5
      <4> QED
        BY <4>1
    <3> HIDE DEF new
    <3>7. Chain(m + 1, A, base, step, new)
      BY <3>5, <3>6 DEF Chain
    <3> QED
      BY <3>7
  <2>2. CASE ~ (m + 1 <= n)
    BY <2>2
  <2> QED
    BY <2>1, <2>2
<1> HIDE DEF T
<1>3. Nat \subseteq T
  BY <1>1, <1>2, NatInduct
<1> QED
  BY <1>3 DEF T

\* The chain, prefix by prefix.
LEMMA ChainSteps ==
  ASSUME NEW n \in Nat, NEW i \in 1..n
  PROVE  /\ 1..i \in SUBSET (1..n) /\ 1..i # {} /\ Max(1..i) = i
         /\ (1..i) \ {i} = 1..(i - 1) /\ 1..(i - 1) \in SUBSET (1..n)
<1>1. i - 1 \in Nat /\ (i - 1) + 1 = i /\ i \in 1..i
  OBVIOUS
<1>2. Max(1..i) = i
  BY <1>1, MaxOf
<1> QED
  BY <1>1, <1>2

-----------------------------------------------------------------------------
(***************************************************************************)
(* Counting in a list that is put together.                                *)
(***************************************************************************)

\* The places P of a part of length n and the places Q of the part after it.
Spliced(P, Q, n) == P \cup { i + n : i \in Q }

LEMMA CountJoined ==
  ASSUME NEW n \in Nat, NEW m \in Nat, NEW P \in SUBSET (1..n), NEW Q \in SUBSET (1..m)
  PROVE  /\ IsFiniteSet(P) /\ IsFiniteSet(Q)
         /\ IsFiniteSet(Spliced(P, Q, n))
         /\ Cardinality(Spliced(P, Q, n)) = Cardinality(P) + Cardinality(Q)
         /\ Cardinality(P) \in Nat /\ Cardinality(Q) \in Nat
<1>1. IsFiniteSet(1..n) /\ IsFiniteSet(1..m)
  BY FS_Interval
<1>2. IsFiniteSet(P) /\ IsFiniteSet(Q)
  BY <1>1, FS_Subset
<1> DEFINE R == { i + n : i \in Q }
          f == [i \in Q |-> i + n]
<1>3. f \in Bijection(Q, R)
  <2>1. f \in [Q -> R]
    OBVIOUS
  <2>2. \A x, y \in Q : f[x] = f[y] => x = y
    OBVIOUS
  <2>3. \A t \in R : \E x \in Q : f[x] = t
    OBVIOUS
  <2> QED
    BY <2>1, <2>2, <2>3 DEF Bijection, Injection, Surjection, IsInjective
<1> HIDE DEF f
<1>4. ExistsBijection(Q, R)
  BY <1>3 DEF ExistsBijection
<1>5. IsFiniteSet(R) /\ Cardinality(R) = Cardinality(Q)
  BY <1>2, <1>3, <1>4, FS_Bijection
<1>6. P \cap R = {}
  OBVIOUS
<1> HIDE DEF R
<1>7. /\ IsFiniteSet(P \cup R)
      /\ Cardinality(P \cup R) = Cardinality(P) + Cardinality(R) - Cardinality(P \cap R)
  BY <1>2, <1>5, FS_Union
<1>8. Cardinality(P \cap R) = 0 /\ Cardinality(P) \in Nat /\ Cardinality(Q) \in Nat
  BY <1>2, <1>6, FS_EmptySet, FS_CardinalityType
<1> QED
  BY <1>2, <1>5, <1>7, <1>8 DEF R, Spliced

-----------------------------------------------------------------------------
(***************************************************************************)
(* A list of lists, put together.                                          *)
(***************************************************************************)

\* The list f[i] is what the first i of n lists make.
Joins(ls, f) ==
  /\ DOMAIN f = DOMAIN ls
  /\ \A i \in DOMAIN ls : f[i] = IF i = 1 THEN ls[1] ELSE f[i - 1] \o ls[i]

LEMMA JoinsExist ==
  ASSUME NEW S, NEW ls \in Seq(Seq(S))
  PROVE  \E f \in [1..Len(ls) -> Seq(S)] : Joins(ls, f)
<1> DEFINE Follows(m, f) == \A i \in 1..m : f[i] = IF i = 1 THEN ls[1] ELSE f[i - 1] \o ls[i]
          T == { m \in Nat : m <= Len(ls) => \E f \in [1..m -> Seq(S)] : Follows(m, f) }
<1>1. 0 \in T
  <2>1. 1..0 = {}
    OBVIOUS
  <2>2. [i \in 1..0 |-> <<>>] \in [1..0 -> Seq(S)]
    BY <2>1
  <2> QED
    BY <2>1, <2>2
<1>2. ASSUME NEW m \in Nat, m \in T
      PROVE  m + 1 \in T
  <2>1. CASE m + 1 <= Len(ls)
    <3>1. PICK f \in [1..m -> Seq(S)] : Follows(m, f)
      BY <1>2, <2>1
    <3>2. m + 1 \in DOMAIN ls /\ ls[m + 1] \in Seq(S)
      BY <2>1
    <3> DEFINE new == IF m = 0 THEN ls[m + 1] ELSE f[m] \o ls[m + 1]
               g == [i \in 1..m + 1 |-> IF i = m + 1 THEN new ELSE f[i]]
    <3>3. new \in Seq(S)
      <4>1. CASE m = 0
        BY <3>2, <4>1
      <4>2. CASE m # 0
        <5>1. f[m] \in Seq(S)
          BY <4>2
        <5> QED
          BY <3>2, <4>2, <5>1
      <4> QED
        BY <4>1, <4>2
    <3> HIDE DEF new
    <3>4. g \in [1..m + 1 -> Seq(S)]
      BY <3>3
    <3>5. g[m + 1] = new /\ \A i \in 1..m : g[i] = f[i]
      OBVIOUS
    <3> HIDE DEF g
    <3>6. ASSUME NEW i \in 1..m + 1
          PROVE  g[i] = IF i = 1 THEN ls[1] ELSE g[i - 1] \o ls[i]
      <4>1. CASE i = m + 1 /\ m = 0
        BY <3>5, <4>1 DEF new
      <4>2. CASE i = m + 1 /\ m # 0
        <5>1. m \in 1..m /\ i # 1 /\ i - 1 = m
          BY <4>2
        <5>2. g[i - 1] = f[m] /\ g[i] = f[m] \o ls[i]
          BY <3>5, <4>2, <5>1 DEF new
        <5> QED
          BY <5>1, <5>2
      <4>3. CASE i \in 1..m
        <5>1. g[i] = f[i] /\ (i # 1 => i - 1 \in 1..m)
          BY <3>5, <4>3
        <5>2. i # 1 => g[i - 1] = f[i - 1]
          BY <3>5, <5>1
        <5> QED
          BY <3>1, <4>3, <5>1, <5>2
      <4> QED
        BY <4>1, <4>2, <4>3
    <3>7. \E h \in [1..m + 1 -> Seq(S)] : Follows(m + 1, h)
      BY <3>4, <3>6
    <3> HIDE DEF Follows
    <3> QED
      BY <3>7
  <2>2. CASE ~ (m + 1 <= Len(ls))
    <3> HIDE DEF Follows
    <3> QED
      BY <2>2
  <2> QED
    BY <2>1, <2>2
<1> HIDE DEF T
<1>3. Nat \subseteq T
  BY <1>1, <1>2, NatInduct
<1>4. Len(ls) \in Nat /\ DOMAIN ls = 1..Len(ls)
  OBVIOUS
<1>5. \E f \in [1..Len(ls) -> Seq(S)] : Follows(Len(ls), f)
  <2> HIDE DEF Follows
  <2>1. Len(ls) \in T
    BY <1>3, <1>4
  <2> QED
    BY <1>4, <2>1 DEF T
<1> QED
  BY <1>4, <1>5 DEF Joins

LEMMA Flattened ==
  ASSUME NEW S, NEW ls \in Seq(Seq(S)), ls # <<>>
  PROVE  \E f \in [1..Len(ls) -> Seq(S)] : Joins(ls, f) /\ FlattenSeq(ls) = f[Len(ls)]
<1> DEFINE G(f) == [i \in 1..Len(ls) |-> IF i = 1 THEN ls[i] ELSE f[i - 1] \o ls[i]]
          c == CHOOSE f : f = G(f)
<1>1. FlattenSeq(ls) = c[Len(ls)]
  BY DEF FlattenSeq
<1>2. DOMAIN ls = 1..Len(ls) /\ Len(ls) \in Nat /\ Len(ls) \in DOMAIN ls
  OBVIOUS
<1>3. PICK p \in [1..Len(ls) -> Seq(S)] : Joins(ls, p)
  BY JoinsExist
<1>4. p = G(p)
  BY <1>2, <1>3 DEF Joins
<1>5. c = G(c)
  BY <1>4, Zenon
<1>6. \A i \in 1..Len(ls) : c[i] = IF i = 1 THEN ls[1] ELSE c[i - 1] \o ls[i]
  BY <1>5
<1>7. DOMAIN c = 1..Len(ls)
  BY <1>5
<1> HIDE DEF c
<1> DEFINE T == { i \in 0..Len(ls) : i = 0 \/ c[i] = p[i] }
<1>8. 0 \in T
  BY <1>2
<1>9. ASSUME NEW i \in 1..Len(ls), i - 1 \in T
      PROVE  i \in T
  <2>1. p[i] = IF i = 1 THEN ls[1] ELSE p[i - 1] \o ls[i]
    BY <1>2, <1>3 DEF Joins
  <2>2. c[i] = IF i = 1 THEN ls[1] ELSE c[i - 1] \o ls[i]
    BY <1>6
  <2>3. i # 1 => c[i - 1] = p[i - 1]
    BY <1>9
  <2>4. c[i] = p[i]
    BY <2>1, <2>2, <2>3
  <2> QED
    BY <1>2, <2>4
<1> HIDE DEF T
<1>10. 0..Len(ls) \subseteq T
  BY <1>2, <1>8, <1>9, UpTo
<1>11. c[Len(ls)] = p[Len(ls)]
  BY <1>2, <1>10 DEF T
<1> QED
  BY <1>1, <1>3, <1>11

\* One list more is put at the end.
LEMMA FlattenedMore ==
  ASSUME NEW S, NEW ls \in Seq(Seq(S)), NEW l \in Seq(S)
  PROVE  /\ FlattenSeq(ls) \in Seq(S)
         /\ FlattenSeq(Append(ls, l)) = FlattenSeq(ls) \o l
         /\ FlattenSeq(<<>>) = <<>>
<1>1. FlattenSeq(<<>>) = <<>>
  BY DEF FlattenSeq
<1> DEFINE n == Len(ls)
          more == Append(ls, l)
<1>2. n \in Nat /\ DOMAIN ls = 1..n
  OBVIOUS
<1>3. /\ more \in Seq(Seq(S)) /\ more # <<>> /\ Len(more) = n + 1 /\ DOMAIN more = 1..n + 1
      /\ more[n + 1] = l /\ \A i \in 1..n : more[i] = ls[i]
  <2> DEFINE Q == Seq(S)
  <2>1. ls \in Seq(Q) /\ l \in Q
    OBVIOUS
  <2> HIDE DEF Q
  <2>2. /\ more \in Seq(Q) /\ Len(more) = n + 1 /\ more[n + 1] = l
        /\ \A i \in 1..n : more[i] = ls[i]
    BY <1>2, <2>1
  <2> HIDE DEF more
  <2> QED
    BY <1>2, <2>2 DEF Q
<1> HIDE DEF more
<1>4. PICK g \in [1..n + 1 -> Seq(S)] : Joins(more, g) /\ FlattenSeq(more) = g[n + 1]
  BY <1>3, Flattened
<1>5. \A i \in 1..n + 1 : g[i] = IF i = 1 THEN more[1] ELSE g[i - 1] \o more[i]
  BY <1>3, <1>4 DEF Joins
<1>6. CASE ls = <<>>
  <2>1. n = 0 /\ FlattenSeq(ls) = <<>>
    BY <1>1, <1>6
  <2>2. g[1] = l
    BY <1>3, <1>5, <2>1
  <2>3. <<>> \o l = l /\ <<>> \in Seq(S)
    OBVIOUS
  <2> QED
    BY <1>1, <1>4, <2>1, <2>2, <2>3 DEF more
<1>7. CASE ls # <<>>
  <2>1. PICK f \in [1..n -> Seq(S)] : Joins(ls, f) /\ FlattenSeq(ls) = f[n]
    BY <1>7, Flattened
  <2>2. \A i \in 1..n : f[i] = IF i = 1 THEN ls[1] ELSE f[i - 1] \o ls[i]
    BY <1>2, <2>1 DEF Joins
  <2>3. n >= 1
    BY <1>2, <1>7
  <2> HIDE DEF n
  <2> DEFINE T == { i \in 0..n : i = 0 \/ f[i] = g[i] }
  <2>4. 0 \in T
    BY <1>2
  <2>5. ASSUME NEW i \in 1..n, i - 1 \in T
        PROVE  i \in T
    <3>1. f[i] = IF i = 1 THEN ls[1] ELSE f[i - 1] \o ls[i]
      BY <2>2
    <3>2. i \in 1..n + 1 /\ 1 \in 1..n
      BY <1>2, <2>3
    <3>3. g[i] = IF i = 1 THEN ls[1] ELSE g[i - 1] \o ls[i]
      BY <1>3, <1>5, <3>2
    <3>4. i # 1 => f[i - 1] = g[i - 1]
      BY <2>5
    <3>5. f[i] = g[i]
      BY <3>1, <3>3, <3>4
    <3> QED
      BY <1>2, <3>5
  <2> HIDE DEF T
  <2>6. 0..n \subseteq T
    BY <1>2, <2>4, <2>5, UpTo
  <2>7. n \in 0..n /\ n # 0 /\ n + 1 \in 1..n + 1 /\ n + 1 # 1 /\ (n + 1) - 1 = n /\ n \in 1..n
    BY <1>2, <2>3
  <2>8. f[n] = g[n]
    BY <2>6, <2>7 DEF T
  <2>9. g[n + 1] = g[n] \o l
    BY <1>3, <1>5, <2>7
  <2>10. f[n] \in Seq(S)
    BY <2>7
  <2> QED
    BY <1>1, <1>4, <2>1, <2>8, <2>9, <2>10 DEF more
<1> QED
  BY <1>6, <1>7
=============================================================================
