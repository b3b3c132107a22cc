----------------------------- MODULE Induction ------------------------------
(***************************************************************************)
(* Induction without an operator parameter: a set of counterexamples has a *)
(* least one.  From it, what the operators of the community modules come   *)
(* to that the specifications use: Min and Max, SetToSeq and SetToSeqs,    *)
(* and FlattenSeq.                                                         *)
(***************************************************************************)
EXTENDS Integers, Sequences, Iteration, FiniteSetTheorems, TLAPS

\* Any set of subsets of a finite set has a minimal element.
LEMMA SubsetInduction ==
    ASSUME NEW A, IsFiniteSet(A), NEW T, T \subseteq SUBSET A, T # {}
    PROVE  \E s \in T : \A t \in SUBSET s : t # s => t \notin T
<1>1. IsWellFoundedOn(StrictSubsetOrdering(A), SUBSET A)
  BY FS_StrictSubsetOrderingWellFounded, FS_FiniteSubsetsOfFinite, Zenon
<1>2. PICK s \in T : \A t \in T : <<t, s>> \notin StrictSubsetOrdering(A)
  BY <1>1, WFMin, Zenon
<1> QED BY <1>2, Zenon DEF StrictSubsetOrdering

\* A nonempty set of numbers up to a bound has a least element.
LEMMA LeastNumber ==
    ASSUME NEW n \in Nat, NEW T, T \subseteq 0..n, T # {}
    PROVE  \E x \in T : \A y \in T : x <= y
<1> DEFINE U == {0..d : d \in T}
<1>1. U \subseteq SUBSET (0..n) /\ U # {} /\ IsFiniteSet(0..n)
  <2>1. IsFiniteSet(0..n)
    BY FS_Interval
  <2>2. ASSUME NEW d \in T PROVE 0..d \subseteq 0..n
    OBVIOUS
  <2>3. U # {}
    BY Zenon
  <2> QED BY <2>1, <2>2, <2>3, Zenon
<1>2. PICK s \in U : \A t \in SUBSET s : t # s => t \notin U
  <2> HIDE DEF U
  <2> QED BY <1>1, SubsetInduction, Zenon
<1>3. PICK x \in T : s = 0..x
  BY <1>2, Zenon
<1>4. ASSUME NEW y \in T PROVE x <= y
  <2> SUFFICES ASSUME y < x PROVE FALSE
    OBVIOUS
  <2>1. 0..y \in SUBSET s /\ x \in s /\ x \notin 0..y
    BY <1>3
  <2>2. 0..y \in U
    BY Zenon
  <2> QED BY <1>2, <2>1, <2>2, Zenon
<1> QED BY <1>4, Zenon

-----------------------------------------------------------------------------
(* Sequences *)

LEMMA LenProperties ==
    ASSUME NEW S, NEW s \in Seq(S)
    PROVE  Len(s) \in Nat /\ s \in [1..Len(s) -> S] /\ DOMAIN s = 1..Len(s)
  OBVIOUS

LEMMA EmptySeq ==
    ASSUME NEW S
    PROVE  <<>> \in Seq(S) /\ Len(<<>>) = 0 /\ \A s \in Seq(S) : s # <<>> => Len(s) \in Nat \ {0}
  OBVIOUS

LEMMA AppendProperties ==
    ASSUME NEW S, NEW s \in Seq(S), NEW e \in S
    PROVE  /\ Append(s, e) \in Seq(S) /\ Append(s, e) # <<>> /\ Len(Append(s, e)) = Len(s) + 1
           /\ \A i \in 1..Len(s) : Append(s, e)[i] = s[i]
           /\ Append(s, e)[Len(s) + 1] = e
  OBVIOUS

LEMMA ConcatProperties ==
    ASSUME NEW S, NEW s \in Seq(S), NEW t \in Seq(S)
    PROVE  /\ s \o t \in Seq(S) /\ Len(s \o t) = Len(s) + Len(t)
           /\ \A i \in 1..Len(s) + Len(t) : (s \o t)[i] = IF i <= Len(s) THEN s[i] ELSE t[i - Len(s)]
  OBVIOUS

-----------------------------------------------------------------------------
(* Joining the sequences of a sequence *)

\* g holds, for each i up to k, the first i sequences of ss joined.
Joined(ss, k, g) == g = [i \in 1..k |-> IF i = 1 THEN ss[i] ELSE g[i - 1] \o ss[i]]

LEMMA JoinedExists ==
    ASSUME NEW ss, NEW n \in Nat PROVE \E g : Joined(ss, n, g)
<1> DEFINE T == {k \in 0..n : ~\E g : Joined(ss, k, g)}
<1> SUFFICES ASSUME T # {} PROVE FALSE
  <2>1. n \in 0..n
    OBVIOUS
  <2> QED BY <2>1, Zenon
<1>1. PICK k \in T : \A y \in T : k <= y
  <2>1. T \subseteq 0..n
    BY Zenon
  <2> HIDE DEF T
  <2> QED BY <2>1, LeastNumber, Zenon
<1>2. k # 0
  <2> DEFINE e == [i \in 1..0 |-> IF i = 1 THEN ss[i] ELSE ss[i]]
  <2>1. 1..0 = {}
    OBVIOUS
  <2>2. e = [i \in 1..0 |-> IF i = 1 THEN ss[i] ELSE e[i - 1] \o ss[i]]
    BY <2>1, Zenon
  <2> HIDE DEF e
  <2>3. Joined(ss, 0, e)
    BY <2>2, Zenon DEF Joined
  <2> QED BY <1>1, <2>3, Zenon
<1>3. k \in 1..n /\ k - 1 \in 0..n /\ ~(k <= k - 1)
  BY <1>1, <1>2
<1>4. PICK g : Joined(ss, k - 1, g)
  BY <1>1, <1>3, Zenon
<1>5. \A i \in 1..(k - 1) : g[i] = IF i = 1 THEN ss[i] ELSE g[i - 1] \o ss[i]
  BY <1>4, Zenon DEF Joined
<1> DEFINE h == [i \in 1..k |-> IF i = k THEN (IF k = 1 THEN ss[k] ELSE g[k - 1] \o ss[k]) ELSE g[i]]
<1>6. ASSUME NEW i \in 1..k PROVE h[i] = IF i = 1 THEN ss[i] ELSE h[i - 1] \o ss[i]
  <2>1. CASE i = 1
    <3>1. CASE k = 1
      BY <2>1, <3>1, Zenon
    <3>2. CASE k # 1
      <4>1. i \in 1..(k - 1) /\ i # k
        BY <1>3, <2>1, <3>2
      <4>2. h[i] = g[i]
        BY <4>1, Zenon
      <4> HIDE DEF h
      <4> QED BY <1>5, <2>1, <4>1, <4>2, Zenon
    <3> QED BY <3>1, <3>2, Zenon
  <2>2. CASE i # 1
    <3>1. i - 1 \in 1..k /\ i - 1 # k
      BY <1>3, <2>2
    <3>2. h[i - 1] = g[i - 1]
      BY <3>1, Zenon
    <3>3. CASE i = k
      <4>1. h[i] = g[i - 1] \o ss[i]
        BY <2>2, <3>3, Zenon
      <4> HIDE DEF h
      <4> QED BY <2>2, <3>2, <4>1, Zenon
    <3>4. CASE i # k
      <4>1. i \in 1..(k - 1)
        BY <1>3, <3>4
      <4>2. h[i] = g[i]
        BY <3>4, Zenon
      <4> HIDE DEF h
      <4> QED BY <1>5, <2>2, <3>2, <4>1, <4>2, Zenon
    <3> QED BY <3>3, <3>4, Zenon
  <2> HIDE DEF h
  <2> QED BY <2>1, <2>2, Zenon
<1>7. h = [i \in 1..k |-> h[i]]
  BY Zenon
<1> HIDE DEF h
<1>8. Joined(ss, k, h)
  BY <1>6, <1>7, Zenon DEF Joined
<1> QED BY <1>1, <1>8, Zenon

\* Joining sequences over a set makes a sequence over it.
THEOREM FlattenType ==
    ASSUME NEW S, NEW ss \in Seq(Seq(S)) PROVE FlattenSeq(ss) \in Seq(S)
<1>1. CASE Len(ss) = 0
  <2>1. ss = <<>>
    BY <1>1
  <2>2. FlattenSeq(ss) = <<>>
    BY <2>1, Zenon DEF FlattenSeq
  <2>3. <<>> \in Seq(S)
    OBVIOUS
  <2> QED BY <2>2, <2>3, Zenon
<1>2. CASE Len(ss) # 0
  <2> DEFINE n == Len(ss)
  <2>1. n \in Nat /\ n # 0 /\ \A i \in 1..n : ss[i] \in Seq(S)
    BY <1>2
  <2>2. FlattenSeq(ss) = (CHOOSE g : Joined(ss, n, g))[n]
    <3>1. ss # <<>>
      BY <1>2
    <3> QED BY <3>1, Zenon DEF FlattenSeq, Joined
  <2> HIDE DEF n
  <2>3. PICK g : Joined(ss, n, g) /\ FlattenSeq(ss) = g[n]
    BY <2>1, <2>2, JoinedExists, Zenon
  <2>4. \A i \in 1..n : g[i] = IF i = 1 THEN ss[i] ELSE g[i - 1] \o ss[i]
    BY <2>3, Zenon DEF Joined
  <2> DEFINE T == {i \in 0..n : i # 0 /\ g[i] \notin Seq(S)}
  <2> SUFFICES ASSUME T # {} PROVE FALSE
    <3>1. n \in 0..n
      BY <2>1
    <3>2. g[n] \in Seq(S)
      BY <2>1, <3>1, Zenon
    <3> QED BY <2>3, <3>2, Zenon
  <2>5. PICK k \in T : \A y \in T : k <= y
    <3>1. T \subseteq 0..n
      BY Zenon
    <3> HIDE DEF T
    <3> QED BY <2>1, <3>1, LeastNumber, Zenon
  <2>6. k \in 1..n /\ k - 1 \in 0..n /\ ~(k <= k - 1)
    BY <2>1, <2>5
  <2>7. CASE k = 1
    BY <2>1, <2>4, <2>5, <2>6, <2>7, Zenon
  <2>8. CASE k # 1
    <3>1. k - 1 # 0
      BY <2>6, <2>8
    <3>2. g[k - 1] \in Seq(S)
      BY <2>5, <2>6, <3>1, Zenon
    <3>3. g[k] = g[k - 1] \o ss[k] /\ ss[k] \in Seq(S)
      BY <2>1, <2>4, <2>6, <2>8, Zenon
    <3>4. g[k] \in Seq(S)
      BY <3>2, <3>3
    <3> QED BY <2>5, <3>4, Zenon
  <2> QED BY <2>7, <2>8, Zenon
<1> QED BY <1>1, <1>2, Zenon

-----------------------------------------------------------------------------
(* Greatest and least, orders, and joined sequences *)

\* A finite nonempty set of numbers has a greatest element.
LEMMA GreatestNumber ==
    ASSUME NEW T, IsFiniteSet(T), T \subseteq Nat, T # {}
    PROVE  \E x \in T : \A y \in T : y <= x
<1> DEFINE U == {{z \in T : z >= x} : x \in T}
<1>1. U \subseteq SUBSET T /\ U # {}
  BY Zenon
<1>2. PICK s \in U : \A t \in SUBSET s : t # s => t \notin U
  <2> HIDE DEF U
  <2> QED BY <1>1, SubsetInduction, Zenon
<1>3. PICK x \in T : s = {z \in T : z >= x}
  BY <1>2, Zenon
<1>4. ASSUME NEW y \in T, ~(y <= x) PROVE FALSE
  <2> DEFINE t == {z \in T : z >= y}
  <2>0. x \in Nat /\ y \in Nat /\ x < y
    BY <1>4
  <2>1. t \in SUBSET s /\ x \in s /\ x \notin t
    <3>1. ASSUME NEW z \in t PROVE z \in s
      <4>1. z \in T /\ z \in Nat /\ z >= y
        BY Zenon
      <4>2. z >= x
        BY <2>0, <4>1
      <4> QED BY <1>3, <4>1, <4>2, Zenon
    <3>2. x >= x /\ ~(x >= y)
      BY <2>0
    <3> QED BY <1>3, <3>1, <3>2, Zenon
  <2>2. t \in U
    BY Zenon
  <2> HIDE DEF t, U
  <2> QED BY <1>2, <2>1, <2>2, Zenon
<1> QED BY <1>4, Zenon

LEMMA GreatestIs ==
    ASSUME NEW T, IsFiniteSet(T), T \subseteq Nat, T # {}
    PROVE  Max(T) \in T /\ \A y \in T : y <= Max(T)
<1>1. PICK x \in T : \A y \in T : x >= y
  BY GreatestNumber, Zenon
<1>2. Max(T) \in T /\ \A y \in T : Max(T) >= y
  BY <1>1, Zenon DEF Max
<1> QED BY <1>2, Zenon

LEMMA LeastIs ==
    ASSUME NEW T, IsFiniteSet(T), T \subseteq Nat, T # {}
    PROVE  Min(T) \in T /\ \A y \in T : Min(T) <= y
<1>1. PICK n \in T : \A y \in T : y <= n
  BY GreatestNumber, Zenon
<1>2. n \in Nat /\ T \subseteq 0..n
  BY <1>1
<1>3. PICK x \in T : \A y \in T : x <= y
  BY <1>2, LeastNumber, Zenon
<1> QED BY <1>3, Zenon DEF Min

\* The sequences of SetToSeqs name every element.
LEMMA OrderIsPermutation ==
    ASSUME NEW S, IsFiniteSet(S), NEW o \in SetToSeqs(S)
    PROVE  o \in Seq(S) /\ \A x \in S : \E i \in DOMAIN o : o[i] = x
<1> DEFINE n == Cardinality(S)
<1>1. n \in Nat /\ o \in [1..n -> S] /\ \A i, j \in 1..n : i # j => o[i] # o[j]
  BY FS_CardinalityType, Zenon DEF SetToSeqs, IsInjective
<1>2. o \in Injection(1..n, S)
  BY <1>1, Zenon DEF Injection, IsInjective
<1>3. Cardinality(1..n) = n
  <2>1. Cardinality(1..n) = IF 1 > n THEN 0 ELSE n - 1 + 1
    BY <1>1, FS_Interval
  <2> QED BY <1>1, <2>1
<1> HIDE DEF n
<1>4. o \in Surjection(1..n, S)
  BY <1>2, <1>3, FS_Injection, Zenon DEF n
<1> QED BY <1>1, <1>4 DEF Surjection

LEMMA SetToSeqType ==
    ASSUME NEW S, IsFiniteSet(S)
    PROVE  SetToSeq(S) \in Seq(S)
<1>1. PICK n \in Nat : ExistsBijection(1..n, S)
  BY FS_NatBijection, Zenon
<1>2. PICK f : f \in Bijection(1..n, S)
  BY <1>1, Zenon DEF ExistsBijection
<1>3. Cardinality(1..n) = n /\ IsFiniteSet(1..n)
  <2>1. IsFiniteSet(1..n) /\ Cardinality(1..n) = IF 1 > n THEN 0 ELSE n - 1 + 1
    BY FS_Interval
  <2> QED BY <2>1
<1>4. Cardinality(S) = n
  BY <1>1, <1>3, FS_Bijection, Zenon
<1>5. f \in [1..Cardinality(S) -> S] /\ IsInjective(f)
  BY <1>2, <1>4, Zenon DEF Bijection, Injection, IsInjective
<1>6. SetToSeq(S) \in [1..Cardinality(S) -> S]
  BY <1>5, Zenon DEF SetToSeq, SetToSeqs
<1> QED BY <1>4, <1>6

\* What the first i of the sequences ss come to when they are joined to q.
JoinedTo(ss, i, q) ==
    /\ \A n \in 1..Len(q) : \E a \in 1..i : \E b \in 1..Len(ss[a]) : q[n] = ss[a][b]
    /\ \A a \in 1..i : \A b \in 1..Len(ss[a]) : \E n \in 1..Len(q) : q[n] = ss[a][b]
    /\ \A b \in 1..Len(ss[1]) : b \in 1..Len(q) /\ q[b] = ss[1][b]

LEMMA JoinOne ==
    ASSUME NEW S, NEW ss \in Seq(Seq(S)), NEW i \in 2..Len(ss), NEW q \in Seq(S), JoinedTo(ss, i - 1, q)
    PROVE  JoinedTo(ss, i, q \o ss[i])
<1> DEFINE t == ss[i]
           p == q \o t
<1>0. Len(ss) \in Nat /\ i \in Nat /\ t \in Seq(S) /\ Len(q) \in Nat /\ Len(t) \in Nat
  OBVIOUS
<1>1. /\ p \in Seq(S) /\ Len(p) = Len(q) + Len(t)
      /\ \A n \in 1..Len(p) : p[n] = IF n <= Len(q) THEN q[n] ELSE t[n - Len(q)]
  BY <1>0, ConcatProperties, Zenon
<1>2. 1..i = 1..(i - 1) \cup {i}
  BY <1>0
<1>11. t = ss[i]
  BY Zenon
<1> HIDE DEF p, t
<1>3. \A n \in 1..Len(q) : n \in 1..Len(p) /\ p[n] = q[n]
  BY <1>0, <1>1
<1>4. ASSUME NEW b \in 1..Len(t) PROVE \E n \in 1..Len(p) : p[n] = t[b]
  <2>1. b + Len(q) \in 1..Len(p) /\ ~(b + Len(q) <= Len(q)) /\ (b + Len(q)) - Len(q) = b
    BY <1>0, <1>1
  <2>2. p[b + Len(q)] = t[b]
    BY <1>1, <2>1, Zenon
  <2> QED BY <2>1, <2>2, Zenon
<1>5. ASSUME NEW n \in 1..Len(p), n \notin 1..Len(q) PROVE \E b \in 1..Len(t) : p[n] = t[b]
  <2>1. ~(n <= Len(q)) /\ n - Len(q) \in 1..Len(t)
    BY <1>0, <1>1, <1>5
  <2>2. p[n] = t[n - Len(q)]
    BY <1>1, <2>1, Zenon
  <2> QED BY <2>1, <2>2, Zenon
<1>6. ASSUME NEW n \in 1..Len(p) PROVE \E a \in 1..i : \E b \in 1..Len(ss[a]) : p[n] = ss[a][b]
  <2>1. CASE n \in 1..Len(q)
    <3>1. \E a \in 1..(i - 1) : \E b \in 1..Len(ss[a]) : q[n] = ss[a][b]
      BY <2>1, Zenon DEF JoinedTo
    <3> QED BY <1>2, <1>3, <2>1, <3>1, Zenon
  <2>2. CASE n \notin 1..Len(q)
    <3>1. i \in 1..i
      BY <1>0
    <3> QED BY <1>5, <1>11, <2>2, <3>1, Zenon
  <2> QED BY <2>1, <2>2, Zenon
<1>7. ASSUME NEW a \in 1..i, NEW b \in 1..Len(ss[a]) PROVE \E n \in 1..Len(p) : p[n] = ss[a][b]
  <2>1. CASE a = i
    BY <1>4, <1>11, <2>1, Zenon
  <2>2. CASE a # i
    <3>1. a \in 1..(i - 1)
      BY <1>2, <2>2, Zenon
    <3>2. \E n \in 1..Len(q) : q[n] = ss[a][b]
      BY <3>1, Zenon DEF JoinedTo
    <3> QED BY <1>3, <3>2, Zenon
  <2> QED BY <2>1, <2>2, Zenon
<1>8. \A b \in 1..Len(ss[1]) : b \in 1..Len(p) /\ p[b] = ss[1][b]
  BY <1>3, Zenon DEF JoinedTo
<1>9. JoinedTo(ss, i, p)
  BY <1>6, <1>7, <1>8, Zenon DEF JoinedTo
<1> QED BY <1>9, Zenon DEF p, t

\* The loop that appends sequence after sequence, as the code builds its lists,
\* ends with the elements of each of them in its place.
THEOREM FlattenElements ==
    ASSUME NEW S, NEW ss \in Seq(Seq(S)), ss # <<>>
    PROVE  FlattenSeq(ss) \in Seq(S) /\ JoinedTo(ss, Len(ss), FlattenSeq(ss))
<1> DEFINE n == Len(ss)
<1>1. n \in Nat /\ n # 0 /\ \A i \in 1..n : ss[i] \in Seq(S)
  OBVIOUS
<1>2. FlattenSeq(ss) = (CHOOSE g : Joined(ss, n, g))[n]
  BY <1>1, Zenon DEF FlattenSeq, Joined
<1> HIDE DEF n
<1>3. PICK g : Joined(ss, n, g) /\ FlattenSeq(ss) = g[n]
  BY <1>1, <1>2, JoinedExists, Zenon
<1>4. \A i \in 1..n : g[i] = IF i = 1 THEN ss[i] ELSE g[i - 1] \o ss[i]
  BY <1>3, Zenon DEF Joined
<1> DEFINE Good(i) == g[i] \in Seq(S) /\ JoinedTo(ss, i, g[i])
           T == {i \in 0..n : i # 0 /\ ~Good(i)}
<1> SUFFICES ASSUME T # {} PROVE FALSE
  <2>1. n \in 0..n
    BY <1>1
  <2>2. Good(n)
    BY <1>1, <2>1, Zenon
  <2> QED BY <1>3, <2>2, Zenon DEF n
<1>5. PICK k \in T : \A y \in T : k <= y
  <2>1. T \subseteq 0..n
    BY Zenon
  <2> HIDE DEF T
  <2> QED BY <1>1, <2>1, LeastNumber, Zenon
<1>6. k \in 1..n /\ k - 1 \in 0..n /\ ~(k <= k - 1)
  BY <1>1, <1>5
<1>7. CASE k = 1
  <2>1. g[1] = ss[1] /\ ss[1] \in Seq(S)
    BY <1>1, <1>4, <1>6, <1>7, Zenon
  <2>2. 1..1 = {1}
    OBVIOUS
  <2>3. JoinedTo(ss, 1, ss[1])
    BY <2>1, <2>2, Zenon DEF JoinedTo
  <2> QED BY <1>5, <1>7, <2>1, <2>3, Zenon
<1>8. CASE k # 1
  <2>1. k - 1 # 0
    BY <1>6, <1>8
  <2>2. Good(k - 1)
    BY <1>5, <1>6, <2>1, Zenon
  <2>3. g[k] = g[k - 1] \o ss[k] /\ ss[k] \in Seq(S)
    BY <1>1, <1>4, <1>6, <1>8, Zenon
  <2>4. k \in 2..Len(ss)
    BY <1>1, <1>6, <1>8 DEF n
  <2> HIDE DEF T
  <2>5. JoinedTo(ss, k, g[k - 1] \o ss[k])
    BY <2>2, <2>4, JoinOne, Zenon
  <2>6. g[k] \in Seq(S)
    BY <2>2, <2>3
  <2>7. Good(k)
    BY <2>3, <2>5, <2>6, Zenon
  <2> QED BY <1>5, <2>7, Zenon DEF T
<1> QED BY <1>7, <1>8, Zenon
=============================================================================
