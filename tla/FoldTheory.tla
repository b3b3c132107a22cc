------------------------------ MODULE FoldTheory ------------------------------
(***************************************************************************)
(* What a loop over a sequence keeps.  The loops of the code are folds of  *)
(* the specifications (FoldLeft of Iteration); this module states,         *)
(* once, that an invariant of the loop holds after it.  Op and Inv are     *)
(* constants, so that a module gets the theorem for a loop of its own by   *)
(* an INSTANCE that substitutes the loop's body and its invariant.  It     *)
(* extends nothing but the integers: the least-number principle, which     *)
(* Induction proves, is a hypothesis of the theorems.                      *)
(***************************************************************************)
EXTENDS Integers

CONSTANTS
    Op(_, _, _),    \* the body: what it makes, in a context, of a result and an element
    Inv(_, _, _)    \* what holds in a context after n elements of the result

\* A nonempty set of numbers up to a bound has a least element.
LeastExists ==
    \A n \in Nat : \A T \in SUBSET (0..n) : T # {} => \E x \in T : \A y \in T : x <= y

\* Induction up to a number.
THEOREM InductionUpTo ==
    ASSUME LeastExists, NEW c, NEW a, NEW n \in Nat, Inv(c, 0, a),
           \A i \in 1..n : Inv(c, i - 1, a) => Inv(c, i, a)
    PROVE  Inv(c, n, a)
<1> DEFINE T == {i \in 0..n : ~Inv(c, i, a)}
<1> SUFFICES ASSUME T # {} PROVE FALSE
  OBVIOUS
<1>1. PICK x \in T : \A y \in T : x <= y
  <2>1. T \in SUBSET (0..n)
    OBVIOUS
  <2> HIDE DEF T
  <2> QED BY <2>1 DEF LeastExists
<1>2. x \in 1..n
  OBVIOUS
<1>3. x - 1 \in 0..n /\ ~(x <= x - 1)
  BY <1>2
<1>4. x - 1 \notin T
  BY <1>1, <1>3
<1> QED BY <1>2, <1>3, <1>4

\* The greatest element of a set, as FiniteSetsExt defines it.
Top(t) == CHOOSE x \in t : \A y \in t : x >= y

LEMMA TopIn ==
    ASSUME LeastExists, NEW n \in Nat, NEW t \in SUBSET (1..n), t # {}
    PROVE  Top(t) \in t /\ \A y \in t : Top(t) >= y
<1> DEFINE T == {d \in 0..n : n - d \in t}
<1>1. T \in SUBSET (0..n) /\ T # {}
  <2>1. PICK y \in t : TRUE
    OBVIOUS
  <2>2. n - y \in 0..n /\ n - (n - y) = y
    OBVIOUS
  <2>3. n - y \in T
    BY <2>2
  <2> QED BY <2>3
<1>2. PICK x \in T : \A y \in T : x <= y
  <2> HIDE DEF T
  <2> QED BY <1>1 DEF LeastExists
<1>3. n - x \in t
  OBVIOUS
<1>4. ASSUME NEW y \in t PROVE n - x >= y
  <2>1. n - y \in 0..n /\ n - (n - y) = y
    OBVIOUS
  <2>2. x <= n - y
    BY <1>2, <2>1
  <2> QED BY <2>2
<1> HIDE DEF T
<1> QED BY <1>3, <1>4 DEF Top

LEMMA TopOfInterval ==
    ASSUME LeastExists, NEW n \in Nat, n # 0 PROVE Top(1..n) = n /\ (1..n) \ {n} = 1..(n - 1)
<1>0. 1..n \in SUBSET (1..n) /\ 1..n # {} /\ n \in 1..n
  OBVIOUS
<1>1. Top(1..n) \in 1..n /\ \A y \in 1..n : Top(1..n) >= y
  BY <1>0, TopIn
<1>2. (1..n) \ {n} = 1..(n - 1)
  OBVIOUS
<1> QED BY <1>0, <1>1, <1>2

-----------------------------------------------------------------------------
\* The body run on the element at the greatest of the indices t.
After(c, s, g, t) == Op(c, g[t \ {Top(t)}], s[Top(t)])

\* g holds the results of the loop over the elements of s at the indices t, for the
\* subsets t of r.
Results(c, base, s, r, g) ==
    g = [t \in SUBSET r |-> IF t = {} THEN base ELSE After(c, s, g, t)]

\* What FoldLeft of Iteration is.
Folded(c, base, s) == (CHOOSE g : Results(c, base, s, DOMAIN s, g))[DOMAIN s]

LEMMA ResultsEmpty ==
    ASSUME NEW c, NEW base, NEW s, NEW r, NEW g, Results(c, base, s, r, g)
    PROVE  g[{}] = base
<1>1. {} \in SUBSET r
  OBVIOUS
<1> QED BY <1>1 DEF Results

LEMMA ResultsExist ==
    ASSUME LeastExists, NEW n \in Nat, NEW c, NEW base, NEW s
    PROVE  \E g : Results(c, base, s, 1..n, g)
<1> DEFINE T == {k \in 0..n : ~\E g : Results(c, base, s, 1..k, g)}
<1> SUFFICES ASSUME T # {} PROVE FALSE
  <2>1. n \in 0..n
    OBVIOUS
  <2> QED BY <2>1
<1>1. PICK k \in T : \A y \in T : k <= y
  <2>1. T \in SUBSET (0..n)
    OBVIOUS
  <2> HIDE DEF T
  <2> QED BY <2>1 DEF LeastExists
<1>2. k # 0
  <2> DEFINE e == [t \in SUBSET (1..0) |-> base]
  <2>1. \A t \in SUBSET (1..0) : t = {}
    OBVIOUS
  <2>2. e = [t \in SUBSET (1..0) |-> IF t = {} THEN base ELSE After(c, s, e, t)]
    BY <2>1
  <2> HIDE DEF e
  <2>3. Results(c, base, s, 1..0, e)
    BY <2>2 DEF Results
  <2> QED BY <1>1, <2>3
<1>3. k \in 1..n /\ k \in Nat /\ k - 1 \in 0..n /\ ~(k <= k - 1)
  BY <1>1, <1>2
<1>4. PICK g : Results(c, base, s, 1..(k - 1), g)
  BY <1>1, <1>3
<1> DEFINE h == [t \in SUBSET (1..k) |-> IF k \in t THEN Op(c, g[t \ {k}], s[k]) ELSE g[t]]
<1> HIDE DEF T
<1>5. ASSUME NEW t \in SUBSET (1..k), k \in t PROVE h[t] = After(c, s, h, t)
  <2>1. Top(t) = k
    <3>1. Top(t) \in t /\ \A y \in t : Top(t) >= y
      BY <1>3, <1>5, TopIn
    <3>2. Top(t) \in 1..k /\ Top(t) >= k
      BY <1>5, <3>1
    <3> QED BY <1>3, <3>2
  <2>2. t \ {k} \in SUBSET (1..k) /\ k \notin t \ {k}
    OBVIOUS
  <2>3. h[t \ {k}] = g[t \ {k}]
    BY <2>2
  <2>4. h[t] = Op(c, g[t \ {k}], s[k])
    BY <1>5
  <2> HIDE DEF h
  <2> QED BY <2>1, <2>3, <2>4 DEF After
<1>6. ASSUME NEW t \in SUBSET (1..k), k \notin t, t # {} PROVE h[t] = After(c, s, h, t)
  <2>1. t \in SUBSET (1..(k - 1))
    BY <1>3, <1>6
  <2>2. g[t] = After(c, s, g, t)
    BY <1>4, <1>6, <2>1 DEF Results
  <2>3. t \ {Top(t)} \in SUBSET (1..k) /\ k \notin t \ {Top(t)}
    BY <1>6
  <2>4. h[t] = g[t] /\ h[t \ {Top(t)}] = g[t \ {Top(t)}]
    BY <1>6, <2>3
  <2> HIDE DEF h
  <2> QED BY <2>2, <2>4 DEF After
<1>7. h[{}] = base
  <2>1. {} \in SUBSET (1..k)
    OBVIOUS
  <2>2. h[{}] = g[{}]
    BY <2>1
  <2> HIDE DEF h
  <2> QED BY <1>4, <2>2, ResultsEmpty
<1>8. h = [t \in SUBSET (1..k) |-> h[t]]
  OBVIOUS
<1> HIDE DEF h
<1>9. \A t \in SUBSET (1..k) : h[t] = IF t = {} THEN base ELSE After(c, s, h, t)
  BY <1>5, <1>6, <1>7
<1>10. Results(c, base, s, 1..k, h)
  BY <1>8, <1>9 DEF Results
<1> QED BY <1>1, <1>10 DEF T

-----------------------------------------------------------------------------
\* What holds before a loop and is kept by its body holds after it.
THEOREM LoopInvariant ==
    ASSUME LeastExists, NEW c, NEW base, NEW s, NEW n \in Nat, DOMAIN s = 1..n, Inv(c, 0, base),
           \A i \in 1..n : \A a : Inv(c, i - 1, a) => Inv(c, i, Op(c, a, s[i]))
    PROVE  Inv(c, n, Folded(c, base, s))
<1>1. PICK g : Results(c, base, s, 1..n, g) /\ Folded(c, base, s) = g[1..n]
  BY ResultsExist DEF Folded
<1> DEFINE T == {i \in 0..n : ~Inv(c, i, g[1..i])}
<1> SUFFICES ASSUME T # {} PROVE FALSE
  <2>1. n \notin T
    OBVIOUS
  <2>2. n \in 0..n
    OBVIOUS
  <2> QED BY <1>1, <2>1, <2>2
<1>2. PICK x \in T : \A y \in T : x <= y
  <2>1. T \in SUBSET (0..n)
    OBVIOUS
  <2> HIDE DEF T
  <2> QED BY <2>1 DEF LeastExists
<1>3. x # 0
  <2>1. 1..0 = {}
    OBVIOUS
  <2>2. g[{}] = base
    BY <1>1, ResultsEmpty
  <2>3. Inv(c, 0, g[1..0])
    BY <2>1, <2>2
  <2> QED BY <1>2, <2>3
<1>4. x \in 1..n
  BY <1>2, <1>3
<1>5. x - 1 \in 0..n /\ ~(x <= x - 1)
  BY <1>4
<1>6. Inv(c, x - 1, g[1..(x - 1)])
  BY <1>2, <1>5
<1>7. g[1..x] = Op(c, g[1..(x - 1)], s[x])
  <2>1. 1..x \in SUBSET (1..n) /\ 1..x # {} /\ x \in Nat
    BY <1>4
  <2>2. Top(1..x) = x /\ (1..x) \ {x} = 1..(x - 1)
    BY <1>3, <2>1, TopOfInterval
  <2>3. g[1..x] = After(c, s, g, 1..x)
    <3> DEFINE d == 1..x
    <3>1. d \in SUBSET (1..n) /\ d # {}
      BY <2>1
    <3> HIDE DEF d, T
    <3>2. g[d] = After(c, s, g, d)
      BY <1>1, <3>1 DEF Results
    <3> QED BY <3>2 DEF d
  <2> QED BY <2>2, <2>3 DEF After
<1>8. Inv(c, x, g[1..x])
  BY <1>4, <1>6, <1>7
<1> QED BY <1>2, <1>8
=============================================================================
