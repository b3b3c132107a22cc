---------------------------- MODULE ChainProofs -----------------------------
(***************************************************************************)
(* What the chain accepts: the accounts hold what was minted up to the     *)
(* fees, the verifier accepts and rejects for a reason, and a cross-region *)
(* intent changes its regions as it says.  For every set of accounts,      *)
(* actions, regions and intents and any limits, whatever fails or is       *)
(* executed again.                                                         *)
(***************************************************************************)
EXTENDS Balances, Verifier, CrossRegion, Induction

(* Balances *)

\* The element that a fold takes out of a set first.
First(t) == CHOOSE x \in t : TRUE

\* g holds the sums of b over the subsets of s.
Sums(b, s, g) ==
    g = [t \in SUBSET s |-> IF t = {} THEN 0 ELSE b[First(t)] + g[t \ {First(t)}]]

LEMMA FirstIn == ASSUME NEW t, t # {} PROVE First(t) \in t
  BY Zenon DEF First

LEMMA SumIsSums ==
    ASSUME NEW b PROVE SumFunction(b) = (CHOOSE g : Sums(b, DOMAIN b, g))[DOMAIN b]
  BY Zenon DEF SumFunction, SumFunctionOnSet, FoldFunctionOnSet, MapThenFoldSet, Sums, First

LEMMA SumsAt ==
    ASSUME NEW b, NEW s, NEW g, Sums(b, s, g), NEW t \in SUBSET s
    PROVE  g[t] = IF t = {} THEN 0 ELSE b[First(t)] + g[t \ {First(t)}]
  BY Zenon DEF Sums

\* The sums over a subset of s depend only on the values there.
LEMMA SumsUnique ==
    ASSUME NEW s, IsFiniteSet(s), NEW b, NEW c, \A x \in s : b[x] = c[x],
           NEW r, NEW g, Sums(b, r, g), s \subseteq r,
           NEW q, NEW h, Sums(c, q, h), s \subseteq q
    PROVE  \A t \in SUBSET s : g[t] = h[t]
<1> DEFINE T == {t \in SUBSET s : g[t] # h[t]}
<1> SUFFICES ASSUME T # {} PROVE FALSE
  BY Zenon
<1>1. PICK m \in T : \A t \in SUBSET m : t # m => t \notin T
  <2>1. T \subseteq SUBSET s
    BY Zenon
  <2> HIDE DEF T
  <2> QED BY <2>1, SubsetInduction, Zenon
<1>2. m # {}
  <2>1. {} \in SUBSET r /\ {} \in SUBSET q
    BY Zenon
  <2>2. g[{}] = 0 /\ h[{}] = 0
    BY <2>1, SumsAt, Zenon
  <2> QED BY <1>1, <2>2, Zenon
<1>3. First(m) \in m
  BY <1>2, FirstIn, Zenon
<1> DEFINE n == m \ {First(m)}
<1>4. n \in SUBSET s /\ n \notin T /\ m \in SUBSET s
  BY <1>1, <1>3, Zenon
<1>5. g[n] = h[n]
  BY <1>4, Zenon
<1>6. g[m] = b[First(m)] + g[n] /\ h[m] = c[First(m)] + h[n]
  BY <1>2, <1>4, SumsAt
<1> QED BY <1>1, <1>3, <1>5, <1>6, Zenon

LEMMA SumsExist ==
    ASSUME NEW A, IsFiniteSet(A), NEW b PROVE \E g : Sums(b, A, g)
<1> DEFINE T == {t \in SUBSET A : ~\E g : Sums(b, t, g)}
<1> SUFFICES ASSUME T # {} PROVE FALSE
  BY Zenon
<1>1. PICK m \in T : \A t \in SUBSET m : t # m => t \notin T
  <2>1. T \subseteq SUBSET A
    BY Zenon
  <2> HIDE DEF T
  <2> QED BY <2>1, SubsetInduction, Zenon
<1> DEFINE G(t) == CHOOSE g : Sums(b, t, g)
           N(t) == t \ {First(t)}
           h == [t \in SUBSET m |-> IF t = {} THEN 0 ELSE b[First(t)] + G(N(t))[N(t)]]
<1>2. ASSUME NEW t \in SUBSET m, t # {}
      PROVE  N(t) \in SUBSET m /\ N(t) # m /\ Sums(b, N(t), G(N(t))) /\ IsFiniteSet(N(t))
  <2>1. N(t) \in SUBSET m /\ N(t) # m
    BY <1>2, FirstIn, Zenon
  <2>2. N(t) \in SUBSET A /\ N(t) \notin T
    BY <1>1, <2>1, Zenon
  <2> QED BY <2>1, <2>2, FS_Subset, Zenon
<1>3. ASSUME NEW t \in SUBSET m, t # m PROVE h[t] = G(t)[t]
  <2>1. Sums(b, t, G(t))
    BY <1>1, <1>3, Zenon
  <2>2. CASE t = {}
    BY <2>1, <2>2, SumsAt, Zenon
  <2>3. CASE t # {}
    <3>1. /\ N(t) \in SUBSET t /\ Sums(b, N(t), G(N(t))) /\ IsFiniteSet(N(t))
      BY <1>2, <2>3, Zenon
    <3>2. G(N(t))[N(t)] = G(t)[N(t)]
      <4> HIDE DEF N, G
      <4> QED BY <2>1, <3>1, SumsUnique
    <3>3. G(t)[t] = b[First(t)] + G(t)[N(t)]
      <4> HIDE DEF G
      <4> QED BY <2>1, <2>3, SumsAt
    <3> HIDE DEF G
    <3> QED BY <2>3, <3>2, <3>3, Zenon
  <2> QED BY <2>2, <2>3, Zenon
<1>4. h = [t \in SUBSET m |-> IF t = {} THEN 0 ELSE b[First(t)] + h[N(t)]]
  <2>1. ASSUME NEW t \in SUBSET m, t # {} PROVE h[N(t)] = G(N(t))[N(t)]
    <3> HIDE DEF h, G, N
    <3> QED BY <1>2, <1>3, <2>1, Zenon
  <2> HIDE DEF G, N
  <2> QED BY <2>1, Zenon
<1>5. Sums(b, m, h)
  <2> HIDE DEF h
  <2> QED BY <1>4, Zenon DEF Sums
<1> QED BY <1>1, <1>5, Zenon

TakesOut(b, g, t) == g[t] \in Int /\ \A x \in t : g[t] = b[x] + g[t \ {x}]

\* The order in which a sum is taken does not matter.
LEMMA SumsTakeOut ==
    ASSUME NEW A, IsFiniteSet(A), NEW b \in [A -> Int], NEW g, Sums(b, A, g)
    PROVE  \A t \in SUBSET A : TakesOut(b, g, t)
<1> DEFINE P(t) == g[t] \in Int /\ \A x \in t : g[t] = b[x] + g[t \ {x}]
           T == {t \in SUBSET A : ~P(t)}
<1> SUFFICES ASSUME T # {} PROVE FALSE
  BY Zenon DEF TakesOut
<1>1. PICK m \in T : \A t \in SUBSET m : t # m => t \notin T
  <2>1. T \subseteq SUBSET A
    BY Zenon
  <2> HIDE DEF T
  <2> QED BY <2>1, SubsetInduction, Zenon
<1>2. ASSUME NEW t \in SUBSET m, t # m PROVE P(t)
  BY <1>1, <1>2, Zenon
<1>3. m # {}
  <2>1. {} \in SUBSET A
    BY Zenon
  <2>2. g[{}] = 0
    BY <2>1, SumsAt, Zenon
  <2>3. P({})
    BY <2>2
  <2>4. ~P(m)
    BY <1>1, Zenon
  <2> HIDE DEF P
  <2> QED BY <2>3, <2>4, Zenon
<1> DEFINE f == First(m)
           n == m \ {f}
<1>4. f \in m /\ n \in SUBSET m /\ n # m
  BY <1>3, FirstIn, Zenon
<1>5. g[m] = b[f] + g[n]
  BY <1>3, SumsAt
<1>6. P(n)
  BY <1>2, <1>4, Zenon
<1> HIDE DEF f
<1>7. g[m] \in Int
  BY <1>4, <1>5, <1>6
<1>8. ASSUME NEW x \in m, x # f PROVE g[m] = b[x] + g[m \ {x}]
  <2> DEFINE k == m \ {x}
  <2>1. x \in n /\ k \in SUBSET m /\ k # m /\ f \in k
    BY <1>4, <1>8, Zenon
  <2>2. n \ {x} = k \ {f}
    BY Zenon
  <2>3. P(k)
    BY <1>2, <2>1, Zenon
  <2>4. g[n] = b[x] + g[n \ {x}]
    BY <1>6, <2>1, Zenon
  <2>5. g[k] = b[f] + g[k \ {f}]
    BY <2>1, <2>3, Zenon
  <2>6. k \ {f} \in SUBSET m /\ k \ {f} # m
    BY <1>4, <2>1, Zenon
  <2>7. g[k \ {f}] \in Int
    BY <1>2, <2>6, Zenon
  <2>8. b[x] \in Int /\ b[f] \in Int
    BY <1>4, Zenon
  <2>9. g[m] = b[x] + g[k]
    <3> DEFINE j == k \ {f}
    <3>1. g[n] = b[x] + g[j] /\ g[k] = b[f] + g[j] /\ g[j] \in Int
      BY <2>2, <2>4, <2>5, <2>7, Zenon
    <3> HIDE DEF j, n, k, P, T
    <3> QED BY <1>5, <2>8, <3>1
  <2> QED BY <2>9, Zenon
<1>9. P(m)
  BY <1>5, <1>7, <1>8, Zenon
<1> QED BY <1>1, <1>9, Zenon

\* What changing one value does to a sum.
LEMMA SumExcept ==
    ASSUME NEW A, IsFiniteSet(A), NEW b \in [A -> Int], NEW a \in A, NEW v \in Int
    PROVE  /\ SumFunction(b) \in Int
           /\ SumFunction([b EXCEPT ![a] = v]) = SumFunction(b) - b[a] + v
<1> DEFINE c == [b EXCEPT ![a] = v]
           g == CHOOSE f : Sums(b, A, f)
           h == CHOOSE f : Sums(c, A, f)
           r == A \ {a}
<1>1. Sums(b, A, g) /\ Sums(c, A, h)
  BY SumsExist, Zenon
<1>2. c \in [A -> Int] /\ DOMAIN b = A /\ DOMAIN c = A
  BY Zenon
<1>3. SumFunction(b) = g[A] /\ SumFunction(c) = h[A]
  BY <1>2, SumIsSums, Zenon
<1>4. IsFiniteSet(r) /\ r \subseteq A /\ \A x \in r : b[x] = c[x]
  BY FS_Subset, Zenon
<1> HIDE DEF g, h
<1>5. g[r] = h[r]
  <2> HIDE DEF c, r
  <2> QED BY <1>1, <1>4, SumsUnique
<1>6. g[A] \in Int /\ g[A] = b[a] + g[r] /\ g[r] \in Int
  <2>1. Sums(b, A, g) /\ A \in SUBSET A /\ r \in SUBSET A
    BY <1>1, Zenon
  <2> HIDE DEF c
  <2>2. TakesOut(b, g, A) /\ TakesOut(b, g, r)
    <3> HIDE DEF r
    <3> QED BY <2>1, SumsTakeOut, Zenon
  <2> QED BY <2>2, Zenon DEF TakesOut
<1>7. h[A] = c[a] + h[r]
  <2> HIDE DEF c
  <2>1. A \in SUBSET A
    BY Zenon
  <2>2. TakesOut(c, h, A)
    BY <1>1, <1>2, <2>1, SumsTakeOut, Zenon
  <2> QED BY <2>2, Zenon DEF TakesOut
<1> QED BY <1>3, <1>5, <1>6, <1>7

LEMMA SumOfZeros ==
    ASSUME NEW A, IsFiniteSet(A) PROVE SumFunction([x \in A |-> 0]) = 0
<1> DEFINE b == [x \in A |-> 0]
           g == CHOOSE f : Sums(b, A, f)
           T == {t \in SUBSET A : g[t] # 0}
<1>1. Sums(b, A, g)
  BY SumsExist, Zenon
<1>2. SumFunction(b) = g[A]
  BY SumIsSums, Zenon
<1> SUFFICES ASSUME T # {} PROVE FALSE
  BY <1>2, Zenon
<1> HIDE DEF g
<1>3. PICK m \in T : \A t \in SUBSET m : t # m => t \notin T
  <2>1. T \subseteq SUBSET A
    BY Zenon
  <2> HIDE DEF T
  <2> QED BY <2>1, SubsetInduction, Zenon
<1> DEFINE n == m \ {First(m)}
<1>4. m \in SUBSET A /\ g[m] # 0
  BY <1>3, Zenon
<1>5. g[m] = IF m = {} THEN 0 ELSE b[First(m)] + g[n]
  <2> HIDE DEF b, T
  <2> QED BY <1>1, <1>4, SumsAt
<1>6. m # {} => First(m) \in m
  BY FirstIn, Zenon
<1>7. m # {} => n \notin T /\ n \in SUBSET A
  BY <1>3, <1>4, <1>6, Zenon
<1>8. m # {} => g[n] = 0 /\ b[First(m)] = 0
  BY <1>4, <1>6, <1>7, Zenon
<1> QED BY <1>4, <1>5, <1>8

-----------------------------------------------------------------------------
\* A sum that is not below its first term has not wrapped around.
LEMMA PlusAddsUp ==
    ASSUME NEW x \in Uint, NEW v \in Uint, Plus(x, v) >= x
    PROVE  Plus(x, v) = x + v /\ x + v \in Uint
<1>1. MaxUint \in Nat
  BY BalancesAssumption, Zenon
<1>2. CASE x + v <= MaxUint
  BY <1>1, <1>2 DEF Plus, Uint
<1>3. CASE x + v > MaxUint
  <2> DEFINE M == MaxUint + 1
             d == x + v - M
  <2>1. d \in Nat /\ d < M /\ d < x /\ M \in Nat \ {0}
    BY <1>1, <1>3 DEF Uint
  <2>2. (d + M) % M = d
    <3> HIDE DEF d, M
    <3> QED BY <2>1
  <2>3. Plus(x, v) = d
    BY <1>1, <2>2 DEF Plus, Uint
  <2> QED BY <1>1, <2>1, <2>3 DEF Uint
<1> QED BY <1>1, <1>2, <1>3 DEF Uint

\* c is b but for a: the supplies differ by what the values at a do.
Shifted(b, c, a) ==
    SumFunction(b) \in Int /\ SumFunction(c) = SumFunction(b) - b[a] + c[a]

LEMMA SupplyShifted ==
    ASSUME NEW b \in [Addrs -> Uint], NEW c \in [Addrs -> Uint], NEW a \in Addrs,
           \A x \in Addrs : x # a => b[x] = c[x]
    PROVE  Shifted(b, c, a)
<1>1. b \in [Addrs -> Int] /\ c[a] \in Int /\ IsFiniteSet(Addrs)
  BY BalancesAssumption DEF Uint
<1>2. c = [b EXCEPT ![a] = c[a]]
  BY Zenon
<1>3. /\ SumFunction(b) \in Int
      /\ SumFunction([b EXCEPT ![a] = c[a]]) = SumFunction(b) - b[a] + c[a]
  <2> DEFINE v == c[a]
  <2>1. v \in Int
    BY <1>1, Zenon
  <2> HIDE DEF v
  <2>2. /\ SumFunction(b) \in Int
        /\ SumFunction([b EXCEPT ![a] = v]) = SumFunction(b) - b[a] + v
    BY <1>1, <2>1, SumExcept, Zenon
  <2> QED BY <2>2, Zenon DEF v
<1> QED BY <1>2, <1>3, Zenon DEF Shifted

LEMMA SupplyInit == BalInit => SupplyAccounted
<1> SUFFICES ASSUME BalInit PROVE SupplyAccounted
  BY Zenon
<1>1. Supply = 0
  BY SumOfZeros, BalancesAssumption, Zenon DEF BalInit, Supply
<1> QED BY <1>1, BalancesAssumption DEF BalInit, SupplyAccounted, BalTypeOK, Uint

LEMMA SupplyMint ==
    ASSUME SupplyAccounted, NEW a \in Addrs, NEW v \in Uint, NEW create \in BOOLEAN,
           Mint(a, v, create)
    PROVE  SupplyAccounted'
<1>1. bal \in [Addrs -> Uint] /\ minted \in 0..MaxMinted /\ charged \in 0..MaxCharged
  BY Zenon DEF SupplyAccounted, BalTypeOK
<1>2. Plus(bal[a], v) = bal[a] + v /\ bal[a] + v \in Uint
  BY <1>1, PlusAddsUp, Zenon DEF Mint, AddsUp
<1>3. bal' = [bal EXCEPT ![a] = bal[a] + v]
  BY <1>2, Zenon DEF Mint, AddBalance
<1>4. bal' \in [Addrs -> Uint] /\ bal'[a] = bal[a] + v /\ \A x \in Addrs : x # a => bal[x] = bal'[x]
  BY <1>1, <1>2, <1>3, Zenon
<1>5. Supply \in Int /\ Supply' = Supply + v
  <2>1. Shifted(bal, bal', a)
    BY <1>1, <1>4, SupplyShifted, Zenon
  <2> QED BY <1>1, <1>4, <2>1 DEF Supply, Shifted, Uint
<1>6. minted' = minted + v /\ minted' <= MaxMinted /\ charged' = charged
  BY Zenon DEF Mint
<1> QED BY <1>1, <1>4, <1>5, <1>6, BalancesAssumption DEF SupplyAccounted, BalTypeOK, Uint

LEMMA SupplyTransfer ==
    ASSUME SupplyAccounted, NEW from \in Addrs, NEW to \in Addrs, NEW v \in Uint,
           Transfer(from, to, v)
    PROVE  SupplyAccounted'
<1> DEFINE sent == SubBalance(bal, from, v)
<1>1. bal \in [Addrs -> Uint] /\ bal[from] >= v
  BY Zenon DEF SupplyAccounted, BalTypeOK, Transfer
<1>2. bal[from] - v \in Uint /\ bal[from] \in Int /\ v \in Int
  BY <1>1, BalancesAssumption DEF Uint
<1>3. sent = [bal EXCEPT ![from] = bal[from] - v]
  BY Zenon DEF SubBalance
<1>4. /\ sent \in [Addrs -> Uint] /\ sent[from] = bal[from] - v
      /\ \A x \in Addrs : x # from => bal[x] = sent[x]
  BY <1>1, <1>2, <1>3, Zenon
<1>5. Supply \in Int /\ SumFunction(sent) = Supply - v
  <2> HIDE DEF sent
  <2>1. Shifted(bal, sent, from)
    BY <1>1, <1>4, SupplyShifted, Zenon
  <2> QED BY <1>2, <1>4, <2>1 DEF Supply, Shifted
<1>6. bal' = AddBalance(sent, to, v) /\ AddsUp(sent, to, v) /\ UNCHANGED <<minted, charged>>
  BY Zenon DEF Transfer
<1> HIDE DEF sent
<1>7. Plus(sent[to], v) = sent[to] + v /\ sent[to] + v \in Uint
  BY <1>4, <1>6, PlusAddsUp, Zenon DEF AddsUp
<1>8. bal' = [sent EXCEPT ![to] = sent[to] + v]
  BY <1>6, <1>7, Zenon DEF AddBalance
<1>9. /\ bal' \in [Addrs -> Uint] /\ bal'[to] = sent[to] + v
      /\ \A x \in Addrs : x # to => sent[x] = bal'[x]
  BY <1>4, <1>7, <1>8, Zenon
<1>10. Shifted(sent, bal', to)
  BY <1>4, <1>9, SupplyShifted, Zenon
<1>11. sent[to] \in Int
  BY <1>4 DEF Uint
<1>12. Supply' = Supply
  BY <1>2, <1>5, <1>9, <1>10, <1>11 DEF Supply, Shifted
<1> QED BY <1>6, <1>9, <1>12, Zenon DEF SupplyAccounted, BalTypeOK

LEMMA SupplyDeduct ==
    ASSUME SupplyAccounted, NEW a \in Addrs, NEW fee \in Uint, Deduct(a, fee)
    PROVE  SupplyAccounted'
<1>1. /\ bal \in [Addrs -> Uint] /\ minted \in 0..MaxMinted /\ charged \in 0..MaxCharged
      /\ minted - charged <= Supply /\ Supply <= minted
  BY Zenon DEF SupplyAccounted, BalTypeOK
<1>2. fee \in Nat /\ bal[a] \in Nat /\ bal[a] >= fee /\ bal[a] - fee \in Uint
  BY <1>1, BalancesAssumption DEF Deduct, Uint
<1>3. charged' = charged + fee /\ charged' <= MaxCharged /\ minted' = minted
  BY Zenon DEF Deduct
<1> DEFINE paid == [bal EXCEPT ![a] = bal[a] - fee]
<1>4. /\ paid \in [Addrs -> Uint] /\ paid[a] = bal[a] - fee
      /\ \A x \in Addrs : x # a => bal[x] = paid[x]
  BY <1>1, <1>2, Zenon
<1>5. bal' = bal \/ bal' = paid
  BY Zenon DEF Deduct
<1> HIDE DEF paid
<1>6. Supply \in Int /\ SumFunction(paid) = Supply - fee
  <2>1. Shifted(bal, paid, a)
    BY <1>1, <1>4, SupplyShifted, Zenon
  <2> QED BY <1>2, <1>4, <2>1 DEF Supply, Shifted
<1>7. bal' \in [Addrs -> Uint] /\ (Supply' = Supply \/ Supply' = Supply - fee)
  BY <1>1, <1>4, <1>5, <1>6, Zenon DEF Supply
<1>8. minted' - charged' <= Supply' /\ Supply' <= minted'
  BY <1>1, <1>2, <1>3, <1>6, <1>7
<1>9. minted' \in 0..MaxMinted /\ charged' \in 0..MaxCharged
  BY <1>1, <1>2, <1>3, BalancesAssumption
<1> QED BY <1>7, <1>8, <1>9, Zenon DEF SupplyAccounted, BalTypeOK

\* SupplyAccounted is inductive as it stands: whatever Transfer, Deduct and the
\* chain's AddBalance do to the stored balances, in any order and for any number
\* of accounts, the accounts hold what was minted up to the fees charged.
THEOREM SupplyAlwaysAccounted == BalSpec => []SupplyAccounted
<1>1. BalInit => SupplyAccounted
  BY SupplyInit, Zenon
<1>2. SupplyAccounted /\ [BalNext]_balVars => SupplyAccounted'
  <2> SUFFICES ASSUME SupplyAccounted, [BalNext]_balVars PROVE SupplyAccounted'
    BY Zenon
  <2>1. CASE UNCHANGED balVars
    BY <2>1, Zenon DEF balVars, SupplyAccounted, BalTypeOK, Supply
  <2>2. ASSUME NEW a \in Addrs, NEW v \in Uint, NEW create \in BOOLEAN, Mint(a, v, create)
        PROVE  SupplyAccounted'
    BY <2>2, SupplyMint, Zenon
  <2>3. ASSUME NEW from \in Addrs, NEW to \in Addrs, NEW v \in Uint, Transfer(from, to, v)
        PROVE  SupplyAccounted'
    BY <2>3, SupplyTransfer, Zenon
  <2>4. ASSUME NEW a \in Addrs, NEW fee \in Uint, Deduct(a, fee) PROVE SupplyAccounted'
    BY <2>4, SupplyDeduct, Zenon
  <2> QED BY <2>1, <2>2, <2>3, <2>4, Zenon DEF BalNext
<1> QED BY <1>1, <1>2, PTL DEF BalSpec

-----------------------------------------------------------------------------
(* The verifier *)

\* A sequence of numbers in which each is at most the next is in order.
LEMMA AdjacentInOrder ==
    ASSUME NEW q \in Seq(Nat), \A i \in 2..Len(q) : q[i - 1] <= q[i],
           NEW i \in 1..Len(q), NEW j \in 1..Len(q), i <= j
    PROVE  q[i] <= q[j]
<1>1. \A x \in 1..Len(q) : q[x] \in Nat
  OBVIOUS
<1>2. Len(q) \in Nat
  OBVIOUS
<1> DEFINE T == {d \in 0..(Len(q) - i) : q[i + d] < q[i]}
<1> SUFFICES ASSUME T # {} PROVE FALSE
  <2>1. j - i \in 0..(Len(q) - i) /\ i + (j - i) = j
    OBVIOUS
  <2>2. ~(q[j] < q[i])
    BY <2>1, Zenon
  <2> QED BY <1>1, <2>2
<1>3. PICK d \in T : \A e \in T : d <= e
  <2>1. T \subseteq 0..(Len(q) - i) /\ Len(q) - i \in Nat
    OBVIOUS
  <2> HIDE DEF T
  <2> QED BY <2>1, LeastNumber, Zenon
<1>4. d \in 0..(Len(q) - i) /\ q[i + d] < q[i]
  BY Zenon
<1>5. d # 0
  BY <1>1, <1>4
<1>6. d - 1 \in 0..(Len(q) - i) /\ ~(d <= d - 1)
  BY <1>2, <1>4, <1>5
<1>7. ~(q[i + (d - 1)] < q[i])
  BY <1>3, <1>6, Zenon
<1>8. i + d \in 2..Len(q) /\ (i + d) - 1 = i + (d - 1) /\ i + (d - 1) \in 1..Len(q) /\ i + d \in 1..Len(q)
  BY <1>2, <1>4, <1>5
<1>9. q[(i + d) - 1] <= q[i + d]
  BY <1>8, Zenon
<1>10. q[i] \in Nat /\ q[i + d] \in Nat /\ q[i + (d - 1)] \in Nat
  BY <1>1, <1>8, Zenon
<1>11. q[i + (d - 1)] <= q[i + d]
  BY <1>8, <1>9, Zenon
<1> DEFINE u == q[i]
           v == q[i + d]
           w == q[i + (d - 1)]
<1>12. u \in Nat /\ v \in Nat /\ w \in Nat /\ v < u /\ ~(w < u) /\ w <= v
  BY <1>4, <1>7, <1>10, <1>11, Zenon
<1> HIDE DEF u, v, w
<1> QED BY <1>12

-----------------------------------------------------------------------------
(* What the maps of the batch verifier hold of the first n actions of b.   *)

Sent(b, n) == {i \in 1..n : b[i].kind = "send"}
AttOf(b, i, m) == AttIDs(b[i])[m]

CreatedBy(b, n, cr) ==
    /\ \A i \in 1..n : b[i].kind = "create" => b[i].id \in cr
    /\ \A id \in cr : \E i \in 1..n : b[i].kind = "create" /\ b[i].id = id
MarkedBy(b, n, rm) ==
    \A r \in VRegions :
        /\ rm[r] = "created" => \E i \in 1..n : b[i].kind = "createRegion" /\ b[i].region = r
        /\ rm[r] = "teeUpdated" => \E i \in 1..n : b[i].kind = "updateRegion" /\ b[i].region = r
SeenBy(b, n, se) ==
    /\ \A i \in Sent(b, n), m \in {1, 2} : AttOf(b, i, m) \in se
    /\ \A x \in se : \E i \in Sent(b, n), m \in {1, 2} : x = AttOf(b, i, m)
RepeatedBy(b, n) ==
    \E i, j \in Sent(b, n), m, l \in {1, 2} : (i # j \/ m # l) /\ AttOf(b, i, m) = AttOf(b, j, l)

\* The entries of a queue are the events of its object, in the order of the batch.
Follows(b, n, id, q, f) ==
    /\ f \in [1..Len(q) -> 1..n]
    /\ \A x, y \in 1..Len(q) : x < y => f[x] < f[y]
    /\ \A x \in 1..Len(q) : b[f[x]].kind = "send" /\ b[f[x]].id = id /\ q[x] = b[f[x]].atts[1].time
    /\ \A i \in Sent(b, n) : b[i].id = id => \E x \in 1..Len(q) : f[x] = i
QueueBy(b, n, id, q) == \E f : Follows(b, n, id, q, f)

Tracks(b, n, cr, rm, qu, se) ==
    /\ CreatedBy(b, n, cr) /\ MarkedBy(b, n, rm) /\ SeenBy(b, n, se) /\ ~RepeatedBy(b, n)
    /\ \A id \in VIDs : QueueBy(b, n, id, qu[id])

LEMMA TracksNone ==
    ASSUME NEW b
    PROVE  Tracks(b, 0, {}, [r \in VRegions |-> "absent"], [id \in VIDs |-> <<>>], {})
<1>1. 1..0 = {} /\ Sent(b, 0) = {}
  BY DEF Sent
<1>2. ASSUME NEW id PROVE QueueBy(b, 0, id, <<>>)
  <2> DEFINE f == [x \in 1..0 |-> x]
  <2>1. Follows(b, 0, id, <<>>, f)
    BY <1>1, Zenon DEF Follows
  <2> QED BY <2>1, Zenon DEF QueueBy
<1>3. CreatedBy(b, 0, {}) /\ SeenBy(b, 0, {}) /\ ~RepeatedBy(b, 0)
  BY <1>1, Zenon DEF CreatedBy, SeenBy, RepeatedBy
<1>4. MarkedBy(b, 0, [r \in VRegions |-> "absent"])
  BY Zenon DEF MarkedBy
<1> QED BY <1>2, <1>3, <1>4, Zenon DEF Tracks

LEMMA SendsNext ==
    ASSUME NEW b, NEW n \in Nat
    PROVE  Sent(b, n + 1) = Sent(b, n) \cup (IF b[n + 1].kind = "send" THEN {n + 1} ELSE {})
<1>1. 1..(n + 1) = (1..n) \cup {n + 1}
  OBVIOUS
<1> QED BY <1>1, Zenon DEF Sent

LEMMA CreatedNext ==
    ASSUME NEW b, NEW n \in Nat, NEW cr, CreatedBy(b, n, cr), NEW cr2, cr \subseteq cr2,
           b[n + 1].kind = "create" => b[n + 1].id \in cr2,
           \A id \in cr2 : id \in cr \/ (b[n + 1].kind = "create" /\ b[n + 1].id = id)
    PROVE  CreatedBy(b, n + 1, cr2)
<1>1. /\ \A i \in 1..(n + 1) : i \in 1..n \/ i = n + 1
      /\ n + 1 \in 1..(n + 1) /\ \A i \in 1..n : i \in 1..(n + 1)
  OBVIOUS
<1> QED BY <1>1, Zenon DEF CreatedBy

LEMMA MarkedNext ==
    ASSUME NEW b, NEW n \in Nat, NEW rm, MarkedBy(b, n, rm), NEW rm2,
           \A r \in VRegions :
              /\ rm2[r] = "created" =>
                   rm[r] = "created" \/ (b[n + 1].kind = "createRegion" /\ b[n + 1].region = r)
              /\ rm2[r] = "teeUpdated" =>
                   rm[r] = "teeUpdated" \/ (b[n + 1].kind = "updateRegion" /\ b[n + 1].region = r)
    PROVE  MarkedBy(b, n + 1, rm2)
<1>1. n + 1 \in 1..(n + 1) /\ \A i \in 1..n : i \in 1..(n + 1)
  OBVIOUS
<1>2. ASSUME NEW r \in VRegions, rm2[r] = "created"
      PROVE  \E i \in 1..(n + 1) : b[i].kind = "createRegion" /\ b[i].region = r
  BY <1>1, <1>2 DEF MarkedBy
<1>3. ASSUME NEW r \in VRegions, rm2[r] = "teeUpdated"
      PROVE  \E i \in 1..(n + 1) : b[i].kind = "updateRegion" /\ b[i].region = r
  BY <1>1, <1>3 DEF MarkedBy
<1> QED BY <1>2, <1>3, Zenon DEF MarkedBy

LEMMA SeenNext ==
    ASSUME NEW b, NEW n \in Nat, NEW se, SeenBy(b, n, se), NEW se2,
           se2 = IF b[n + 1].kind = "send" THEN se \cup {AttOf(b, n + 1, 1), AttOf(b, n + 1, 2)} ELSE se
    PROVE  SeenBy(b, n + 1, se2)
<1>1. CASE b[n + 1].kind # "send"
  BY <1>1, SendsNext DEF SeenBy
<1>2. CASE b[n + 1].kind = "send"
  <2>1. Sent(b, n + 1) = Sent(b, n) \cup {n + 1}
    BY <1>2, SendsNext, Zenon
  <2>2. ASSUME NEW i \in Sent(b, n + 1), NEW m \in {1, 2} PROVE AttOf(b, i, m) \in se2
    BY <1>2, <2>1, <2>2, Zenon DEF SeenBy
  <2>3. ASSUME NEW x \in se2 PROVE \E i \in Sent(b, n + 1), m \in {1, 2} : x = AttOf(b, i, m)
    <3>1. CASE x \in se
      BY <2>1, <3>1, Zenon DEF SeenBy
    <3>2. CASE x \in {AttOf(b, n + 1, 1), AttOf(b, n + 1, 2)}
      BY <2>1, <3>2, Zenon
    <3> QED BY <1>2, <3>1, <3>2, Zenon
  <2> QED BY <2>2, <2>3, Zenon DEF SeenBy
<1> QED BY <1>1, <1>2, Zenon

LEMMA RepeatedNext ==
    ASSUME NEW b, NEW n \in Nat, NEW se, SeenBy(b, n, se), ~RepeatedBy(b, n),
           b[n + 1].kind = "send" => /\ AttOf(b, n + 1, 1) \notin se
                                     /\ AttOf(b, n + 1, 2) \notin se \cup {AttOf(b, n + 1, 1)}
    PROVE  ~RepeatedBy(b, n + 1)
<1>1. CASE b[n + 1].kind # "send"
  BY <1>1, SendsNext DEF RepeatedBy
<1>2. CASE b[n + 1].kind = "send"
  <2>1. Sent(b, n + 1) = Sent(b, n) \cup {n + 1}
    BY <1>2, SendsNext, Zenon
  <2>2. \A i \in Sent(b, n), m, l \in {1, 2} : AttOf(b, i, m) # AttOf(b, n + 1, l)
    BY <1>2, Zenon DEF SeenBy
  <2>3. AttOf(b, n + 1, 1) # AttOf(b, n + 1, 2)
    BY <1>2, Zenon
  <2> SUFFICES ASSUME NEW i \in Sent(b, n + 1), NEW j \in Sent(b, n + 1), NEW m \in {1, 2}, NEW l \in {1, 2},
                      i # j \/ m # l, AttOf(b, i, m) = AttOf(b, j, l)
               PROVE  FALSE
    BY Zenon DEF RepeatedBy
  <2>4. CASE i \in Sent(b, n) /\ j \in Sent(b, n)
    BY <2>4, Zenon DEF RepeatedBy
  <2>5. CASE i = n + 1 /\ j = n + 1
    BY <2>3, <2>5, Zenon
  <2>6. CASE i \in Sent(b, n) /\ j = n + 1
    BY <2>2, <2>6, Zenon
  <2>7. CASE i = n + 1 /\ j \in Sent(b, n)
    BY <2>2, <2>7, Zenon
  <2> QED BY <2>1, <2>4, <2>5, <2>6, <2>7, Zenon
<1> QED BY <1>1, <1>2, Zenon

\* An attestation met before makes the batch a repeated one.
LEMMA RepeatedFound ==
    ASSUME NEW b, NEW n \in Nat, NEW se, SeenBy(b, n, se), b[n + 1].kind = "send",
           AttOf(b, n + 1, 1) \in se \/ AttOf(b, n + 1, 2) \in se \cup {AttOf(b, n + 1, 1)}
    PROVE  RepeatedBy(b, n + 1)
<1>1. Sent(b, n + 1) = Sent(b, n) \cup {n + 1}
  BY SendsNext, Zenon
<1>2. \A i \in Sent(b, n) : i # n + 1
  BY DEF Sent
<1>3. CASE \E m \in {1, 2} : AttOf(b, n + 1, m) \in se
  <2>1. PICK m \in {1, 2} : AttOf(b, n + 1, m) \in se
    BY <1>3, Zenon
  <2>2. PICK i \in Sent(b, n), l \in {1, 2} : AttOf(b, n + 1, m) = AttOf(b, i, l)
    BY <2>1, Zenon DEF SeenBy
  <2> QED BY <1>1, <1>2, <2>2, Zenon DEF RepeatedBy
<1>4. CASE AttOf(b, n + 1, 2) = AttOf(b, n + 1, 1)
  <2>1. n + 1 \in Sent(b, n + 1) /\ 2 # 1
    BY <1>1
  <2> QED BY <1>4, <2>1, Zenon DEF RepeatedBy
<1> QED BY <1>3, <1>4, Zenon

\* An action that is no event of the object leaves its queue.
LEMMA QueueKept ==
    ASSUME NEW b, NEW n \in Nat, NEW id, NEW q, QueueBy(b, n, id, q),
           ~(b[n + 1].kind = "send" /\ b[n + 1].id = id)
    PROVE  QueueBy(b, n + 1, id, q)
<1>1. PICK f : Follows(b, n, id, q, f)
  BY Zenon DEF QueueBy
<1>2. f \in [1..Len(q) -> 1..(n + 1)]
  <2>1. 1..n \subseteq 1..(n + 1)
    OBVIOUS
  <2> QED BY <1>1, <2>1, Zenon DEF Follows
<1>3. \A i \in Sent(b, n + 1) : b[i].id = id => i \in Sent(b, n)
  <2> SUFFICES ASSUME NEW i \in Sent(b, n + 1), b[i].id = id PROVE i \in Sent(b, n)
    BY Zenon
  <2>1. CASE b[n + 1].kind = "send"
    <3>1. i \in Sent(b, n) \cup {n + 1}
      BY <2>1, SendsNext
    <3>2. i # n + 1
      BY <2>1, Zenon
    <3> QED BY <3>1, <3>2, Zenon
  <2>2. CASE b[n + 1].kind # "send"
    BY <2>2, SendsNext
  <2> QED BY <2>1, <2>2, Zenon
<1>4. Follows(b, n + 1, id, q, f)
  BY <1>1, <1>2, <1>3, Zenon DEF Follows
<1> QED BY <1>4, Zenon DEF QueueBy

\* An event is put at the end of its object's queue.
LEMMA QueueNext ==
    ASSUME NEW b, NEW n \in Nat, NEW id, NEW q \in Seq(Now), QueueBy(b, n, id, q),
           b[n + 1].kind = "send", b[n + 1].id = id, b[n + 1].atts[1].time \in Now
    PROVE  QueueBy(b, n + 1, id, Append(q, b[n + 1].atts[1].time))
<1> DEFINE t == b[n + 1].atts[1].time
           q2 == Append(q, t)
           k == Len(q)
<1>1. PICK f : Follows(b, n, id, q, f)
  BY Zenon DEF QueueBy
<1> DEFINE g == [x \in 1..(k + 1) |-> IF x = k + 1 THEN n + 1 ELSE f[x]]
<1>2. Len(q2) = k + 1 /\ q2[k + 1] = t /\ \A x \in 1..k : q2[x] = q[x]
  OBVIOUS
<1>3. k \in Nat /\ 1..(k + 1) = (1..k) \cup {k + 1} /\ \A x \in 1..k : x # k + 1
  OBVIOUS
<1>4. g[k + 1] = n + 1 /\ \A x \in 1..k : g[x] = f[x] /\ f[x] \in 1..n
  BY <1>1, <1>3, Zenon DEF Follows
<1>5. DOMAIN g = 1..(k + 1) /\ g = [x \in DOMAIN g |-> g[x]]
  BY Zenon
<1> HIDE DEF g, q2, k, t
<1>6. g \in [1..(k + 1) -> 1..(n + 1)]
  <2>1. n + 1 \in 1..(n + 1) /\ 1..n \subseteq 1..(n + 1)
    OBVIOUS
  <2>2. \A x \in 1..(k + 1) : g[x] \in 1..(n + 1)
    BY <1>3, <1>4, <2>1, Zenon
  <2> QED BY <1>5, <2>2, Zenon
<1>7. ASSUME NEW x \in 1..(k + 1), NEW y \in 1..(k + 1), x < y PROVE g[x] < g[y]
  <2>1. x \in 1..k
    BY <1>3, <1>7
  <2>2. CASE y = k + 1
    <3>1. g[x] \in 1..n /\ g[y] = n + 1
      BY <1>4, <2>1, <2>2, Zenon
    <3> QED BY <3>1
  <2>3. CASE y \in 1..k
    <3>1. f[x] < f[y]
      BY <1>1, <1>7, <2>1, <2>3, Zenon DEF Follows, k
    <3> QED BY <1>4, <2>1, <2>3, <3>1, Zenon
  <2> QED BY <1>3, <2>2, <2>3, Zenon
<1>8. ASSUME NEW x \in 1..(k + 1)
      PROVE  b[g[x]].kind = "send" /\ b[g[x]].id = id /\ q2[x] = b[g[x]].atts[1].time
  <2>1. CASE x = k + 1
    BY <1>2, <1>4, <2>1, Zenon DEF t
  <2>2. CASE x \in 1..k
    BY <1>1, <1>2, <1>4, <2>2, Zenon DEF Follows, k
  <2> QED BY <1>3, <2>1, <2>2, Zenon
<1>9. ASSUME NEW i \in Sent(b, n + 1), b[i].id = id PROVE \E x \in 1..(k + 1) : g[x] = i
  <2>1. CASE i = n + 1
    BY <1>3, <1>4, <2>1, Zenon
  <2>2. CASE i \in Sent(b, n)
    <3>1. PICK x \in 1..k : f[x] = i
      BY <1>1, <1>9, <2>2, Zenon DEF Follows, k
    <3> QED BY <1>3, <1>4, <3>1, Zenon
  <2> QED BY <2>1, <2>2, SendsNext, Zenon
<1>10. Follows(b, n + 1, id, q2, g)
  BY <1>2, <1>6, <1>7, <1>8, <1>9, Zenon DEF Follows
<1> QED BY <1>10, Zenon DEF QueueBy, q2, t

\* Two events of an object are out of order in the batch iff two neighbours are
\* in the object's queue.
LEMMA OrderedQueue ==
    ASSUME NEW b, NEW n \in Nat, NEW id, NEW q \in Seq(Nat), QueueBy(b, n, id, q),
           \A x \in 2..Len(q) : q[x - 1] <= q[x],
           NEW i \in Sent(b, n), NEW j \in Sent(b, n), i < j, b[i].id = id, b[j].id = id
    PROVE  ~(b[i].atts[1].time > b[j].atts[1].time)
<1>1. PICK f : Follows(b, n, id, q, f)
  BY Zenon DEF QueueBy
<1>2. PICK x \in 1..Len(q) : f[x] = i
  BY <1>1, Zenon DEF Follows
<1>3. PICK y \in 1..Len(q) : f[y] = j
  BY <1>1, Zenon DEF Follows
<1>4. x <= y
  <2> SUFFICES ASSUME y < x PROVE FALSE
    OBVIOUS
  <2>1. f[y] < f[x]
    BY <1>1, Zenon DEF Follows
  <2>2. i \in 1..n /\ j \in 1..n
    BY Zenon DEF Sent
  <2> QED BY <1>2, <1>3, <2>1, <2>2
<1>5. q[x] <= q[y]
  BY <1>4, AdjacentInOrder, Zenon
<1>6. q[x] = b[i].atts[1].time /\ q[y] = b[j].atts[1].time
  BY <1>1, <1>2, <1>3, Zenon DEF Follows
<1>7. q[x] \in Nat /\ q[y] \in Nat
  OBVIOUS
<1>8. ~(q[x] > q[y])
  BY <1>5, <1>7
<1> QED BY <1>6, <1>8, Zenon

LEMMA UnorderedQueue ==
    ASSUME NEW b, NEW n \in Nat, NEW id, NEW q \in Seq(Nat), QueueBy(b, n, id, q),
           NEW x \in 2..Len(q), ~(q[x - 1] <= q[x])
    PROVE  \E i, j \in Sent(b, n) : i < j /\ b[i].id = b[j].id /\ b[i].atts[1].time > b[j].atts[1].time
<1>1. PICK f : Follows(b, n, id, q, f)
  BY Zenon DEF QueueBy
<1>2. x - 1 \in 1..Len(q) /\ x \in 1..Len(q) /\ x - 1 < x
  OBVIOUS
<1>3. q[x - 1] \in Nat /\ q[x] \in Nat
  BY <1>2
<1>4. q[x - 1] > q[x]
  BY <1>3
<1> DEFINE i == f[x - 1]
           j == f[x]
<1>5. /\ i < j /\ i \in 1..n /\ j \in 1..n
      /\ b[i].kind = "send" /\ b[i].id = id /\ q[x - 1] = b[i].atts[1].time
      /\ b[j].kind = "send" /\ b[j].id = id /\ q[x] = b[j].atts[1].time
  BY <1>1, <1>2, Zenon DEF Follows
<1> HIDE DEF i, j
<1>6. i \in Sent(b, n) /\ j \in Sent(b, n)
  BY <1>5, Zenon DEF Sent
<1>7. b[i].atts[1].time > b[j].atts[1].time
  BY <1>4, <1>5, Zenon
<1> QED BY <1>5, <1>6, <1>7, Zenon

-----------------------------------------------------------------------------
(* The invariant: the maps are those of the batch, and the actions passed  *)
(* so far have what they need, which they keep.                            *)

Passed(b, n, objs, regs) ==
    \A i \in 1..n : /\ b[i].kind \in {"send", "input"} /\ <<b[i].region, b[i].id>> \in objs
                    /\ b[i].kind = "send" => b[i].region \in regs

Admissible(b, n, objs, regs) ==
    \A i \in 1..n : /\ b[i].kind \in {"send", "input"} => <<b[i].region, b[i].id>> \in objs
                    /\ b[i].kind = "send" => /\ b[i].region \in regs
                                             /\ b[i].atts[1].time = b[i].atts[2].time
                                             /\ b[i].atts[1].data = b[i].atts[2].data

Progress ==
    /\ vPc # "idle" => verdict = ""
    /\ vPc = "analyze" => Tracks(batch, pos - 1, created, regMods, queue, seen)
    /\ vPc \in {"verify", "constraints"} => Tracks(batch, Len(batch), created, regMods, queue, seen)
    /\ vPc = "verify" => Passed(batch, pos - 1, vObjects, vRegions)
    /\ vPc = "constraints" => Passed(batch, Len(batch), vObjects, vRegions)
    /\ vPc = "validate" => Admissible(batch, pos - 1, vObjects, vRegions)

Justified == AcceptedBatch /\ RejectionJustified /\ AdmittedTransaction

VerInv == VerTypeOK /\ Progress /\ Justified

LEMMA NowFacts == MaxNow \in Nat /\ 0 \in Now /\ Now \subseteq Nat /\ <<>> \in Seq(Now) /\ Seq(Now) \subseteq Seq(Nat)
<1>1. MaxNow \in Nat
  BY VerifierAssumption, Zenon
<1>2. 0 \in Now /\ Now \subseteq Nat
  BY <1>1 DEF Now
<1>3. ASSUME NEW q \in Seq(Now) PROVE q \in Seq(Nat)
  <2>1. q \in [1..Len(q) -> Now] /\ Len(q) \in Nat
    OBVIOUS
  <2>2. q \in [1..Len(q) -> Nat]
    BY <1>2, <2>1, Zenon
  <2> QED BY <2>1, <2>2
<1> QED BY <1>1, <1>2, <1>3

LEMMA Predecessor == ASSUME NEW k \in Nat, NEW p \in 1..k PROVE p - 1 \in Nat /\ (p - 1) + 1 = p
  OBVIOUS

LEMMA BatchFacts ==
    ASSUME VerTypeOK
    PROVE  batch \in Seq(VAction) /\ Len(batch) \in Nat /\ DOMAIN batch = 1..Len(batch) /\ pos \in Nat
<1>1. batch \in Batches \cup {<<>>} /\ pos \in 1..(Len(batch) + 1)
  BY Zenon DEF VerTypeOK
<1>2. Batches \subseteq Seq(VAction) /\ <<>> \in Seq(VAction)
  BY VerifierAssumption
<1>3. batch \in Seq(VAction)
  BY <1>1, <1>2, Zenon
<1>4. Len(batch) \in Nat /\ DOMAIN batch = 1..Len(batch)
  BY <1>3
<1> QED BY <1>1, <1>3, <1>4

LEMMA ActionFacts ==
    ASSUME NEW a \in VAction
    PROVE  /\ a.kind \in ActionKinds /\ a.region \in VRegions /\ a.id \in VIDs
           /\ a.atts[1].time \in Now /\ a.atts[2].time \in Now
           /\ AttIDs(a)[1] \in Enclaves \X Now /\ AttIDs(a)[2] \in Enclaves \X Now
  BY Zenon DEF VAction, Attestation, AttIDs

LEMMA CurrentAction ==
    ASSUME VerTypeOK, pos <= Len(batch)
    PROVE  batch[pos] \in VAction /\ pos \in 1..Len(batch)
<1>1. pos \in 1..(Len(batch) + 1)
  BY Zenon DEF VerTypeOK
<1>2. pos \in 1..Len(batch)
  BY <1>1, BatchFacts
<1> QED BY <1>2, BatchFacts

LEMMA TypeReturn ==
    ASSUME VerTypeOK, NEW v, v \in {"ok", "admitted"} \cup Errors, Return(v), UNCHANGED <<Written, Tracked>>
    PROVE  VerTypeOK'
  BY Zenon DEF VerTypeOK, Return, Written, Tracked

LEMMA TypeStep ==
    ASSUME VerTypeOK, NEW pc \in {"analyze", "verify", "constraints", "validate"}, Step(pc),
           pos' \in 1..(Len(batch) + 1), UNCHANGED <<Written, Tracked>>
    PROVE  VerTypeOK'
  BY Zenon DEF VerTypeOK, Step, Written, Tracked

\* The writers only add to the state.
LEMMA WritersKeep ==
    ASSUME VerInv, VerTypeOK', UNCHANGED jobVars, vObjects \subseteq vObjects', vRegions \subseteq vRegions'
    PROVE  VerInv'
<1> USE DEF jobVars
<1>1. Progress'
  BY Zenon DEF VerInv, Progress, Passed, Admissible
<1>2. AcceptedBatch' /\ AdmittedTransaction'
  BY DEF VerInv, Justified, AcceptedBatch, AdmittedTransaction, TargetsExist, Repeated, OutOfOrder,
     SendsOf
<1>3. RejectionJustified'
  BY DEF VerInv, Justified, RejectionJustified, Repeated, OutOfOrder, SendsOf, SameChange
<1> QED BY <1>1, <1>2, <1>3, Zenon DEF VerInv, Justified

LEMMA WriterSteps ==
    ASSUME VerInv,
           \/ \E r \in VRegions, id \in VIDs : WriteObject(r, id)
           \/ \E r \in VRegions : SetRegionRecord(r)
           \/ Tick
    PROVE  VerInv'
<1>1. ASSUME NEW r \in VRegions, NEW id \in VIDs, WriteObject(r, id) PROVE VerInv'
  <2>1. VerTypeOK'
    <3>1. vObjects' \subseteq VRegions \X VIDs
      <4>1. vObjects \subseteq VRegions \X VIDs /\ vObjects' = vObjects \cup {<<r, id>>}
        BY <1>1, Zenon DEF VerInv, VerTypeOK, WriteObject
      <4> QED BY <4>1
    <3> QED BY <1>1, <3>1, Zenon DEF VerInv, VerTypeOK, WriteObject, jobVars
  <2> QED BY <1>1, <2>1, WritersKeep, Zenon DEF WriteObject
<1>2. ASSUME NEW r \in VRegions, SetRegionRecord(r) PROVE VerInv'
  <2>1. VerTypeOK'
    BY <1>2, Zenon DEF VerInv, VerTypeOK, SetRegionRecord, jobVars
  <2> QED BY <1>2, <2>1, WritersKeep, Zenon DEF SetRegionRecord
<1>3. CASE Tick
  <2>1. vNow' \in Now
    <3>1. MaxNow \in Nat /\ vNow \in 0..MaxNow /\ vNow < MaxNow /\ vNow' = vNow + 1
      BY <1>3, VerifierAssumption, Zenon DEF VerInv, VerTypeOK, Tick, Now
    <3> QED BY <3>1 DEF Now
  <2>2. VerTypeOK'
    BY <1>3, <2>1, Zenon DEF VerInv, VerTypeOK, Tick, jobVars
  <2> QED BY <1>3, <2>2, WritersKeep, Zenon DEF Tick
<1> QED BY <1>1, <1>2, <1>3, Zenon

\* A verification that is under way, or returns an error that claims nothing of
\* the batch, owes no justification.
LEMMA NothingClaimed ==
    ASSUME verdict' \in {"", "limit", "state", "attestation"} PROVE Justified'
  BY Zenon DEF Justified, AcceptedBatch, RejectionJustified, AdmittedTransaction

LEMMA IdleProgress == ASSUME vPc' = "idle" PROVE Progress'
  BY Zenon DEF Progress

LEMMA StartSteps ==
    ASSUME VerInv, NEW b \in Batches, StartBatch(b) \/ StartValidate(b)
    PROVE  VerInv'
<1>1. b \in Seq(VAction) /\ Len(b) \in Nat /\ 1 \in 1..(Len(b) + 1) /\ 1 - 1 = 0
  BY VerifierAssumption
<1>2. CASE StartBatch(b) /\ Len(b) > MaxBatch
  <2>1. Return("limit") /\ UNCHANGED <<Written, Tracked>>
    BY <1>2, Zenon DEF StartBatch, Written, Tracked
  <2>2. VerTypeOK'
    BY <2>1, TypeReturn, Zenon DEF VerInv, Errors
  <2> QED BY <2>1, <2>2, NothingClaimed, IdleProgress, Zenon DEF VerInv, Return
<1>3. CASE StartBatch(b) /\ ~(Len(b) > MaxBatch)
  <2>1. vPc' = "analyze" /\ batch' = b /\ pos' = 1 /\ verdict' = "" /\ NoTracking /\ UNCHANGED Written
    BY <1>3, Zenon DEF StartBatch
  <2>2. VerTypeOK'
    <3>1. /\ created' \subseteq VIDs /\ regMods' \in [VRegions -> {"absent", "created", "teeUpdated"}]
          /\ queue' \in [VIDs -> Seq(Now)] /\ seen' \subseteq Enclaves \X Now
      <4>1. /\ created' = {} /\ regMods' = [r \in VRegions |-> "absent"]
            /\ queue' = [id \in VIDs |-> <<>>] /\ seen' = {}
        BY <2>1, Zenon DEF NoTracking
      <4>2. <<>> \in Seq(Now)
        OBVIOUS
      <4>3. queue' \in [VIDs -> Seq(Now)]
        BY <4>1, <4>2, Zenon
      <4>4. regMods' \in [VRegions -> {"absent", "created", "teeUpdated"}]
        BY <4>1, Zenon
      <4> QED BY <4>1, <4>3, <4>4, Zenon
    <3> QED BY <1>1, <2>1, <3>1, Zenon DEF VerInv, VerTypeOK, Written
  <2>3. Progress'
    BY <1>1, <2>1, TracksNone, Zenon DEF Progress, NoTracking
  <2> QED BY <2>1, <2>2, <2>3, NothingClaimed, Zenon DEF VerInv
<1>4. CASE StartValidate(b)
  <2>1. vPc' = "validate" /\ batch' = b /\ pos' = 1 /\ verdict' = "" /\ UNCHANGED <<Written, Tracked>>
    BY <1>4, Zenon DEF StartValidate
  <2>2. VerTypeOK'
    BY <1>1, <2>1, Zenon DEF VerInv, VerTypeOK, Tracked, Written
  <2>3. Progress'
    <3>0. pos' = 1
      BY <2>1, Zenon
    <3>1. pos' - 1 = 0 /\ 1..0 = {}
      BY <3>0
    <3>2. Admissible(batch', pos' - 1, vObjects', vRegions')
      BY <3>1, Zenon DEF Admissible
    <3> QED BY <2>1, <3>2, Zenon DEF Progress
  <2> QED BY <2>1, <2>2, <2>3, NothingClaimed, Zenon DEF VerInv
<1> QED BY <1>2, <1>3, <1>4, Zenon

-----------------------------------------------------------------------------
(* The repetition and the order that the maps find are those of the batch. *)

LEMMA RepeatedIs ==
    ASSUME NEW b \in Seq(VAction)
    PROVE  Repeated(b) <=> RepeatedBy(b, Len(b))
<1>1. SendsOf(b) = Sent(b, Len(b))
  BY DEF SendsOf, Sent
<1>2. \A i, j, m, n : <<i, m>> # <<j, n>> <=> (i # j \/ m # n)
  BY Zenon
<1> QED BY <1>1, <1>2 DEF Repeated, RepeatedBy, AttOf

LEMMA RepeatedGrows ==
    ASSUME NEW b, NEW n \in Nat, NEW m \in Nat, n <= m, RepeatedBy(b, n)
    PROVE  RepeatedBy(b, m)
<1>1. Sent(b, n) \subseteq Sent(b, m)
  BY DEF Sent
<1> QED BY <1>1, Zenon DEF RepeatedBy

LEMMA AnalysisPasses ==
    ASSUME VerInv, vPc = "analyze", pos <= Len(batch), Analysis(batch[pos]) = "", Track(batch[pos])
    PROVE  Tracks(batch, pos, created', regMods', queue', seen')
<1> DEFINE n == pos - 1
           a == batch[pos]
<1>1. n \in Nat /\ n + 1 = pos
  <2>1. pos \in 1..Len(batch) /\ Len(batch) \in Nat
    BY CurrentAction, BatchFacts, Zenon DEF VerInv
  <2> QED BY <2>1, Predecessor, Zenon
<1>2. Tracks(batch, n, created, regMods, queue, seen)
  BY Zenon DEF VerInv, Progress
<1>3. a \in VAction /\ a = batch[n + 1]
  BY <1>1, CurrentAction, Zenon DEF VerInv
<1>4. /\ queue \in [VIDs -> Seq(Now)] /\ regMods \in [VRegions -> {"absent", "created", "teeUpdated"}]
  BY Zenon DEF VerInv, VerTypeOK
<1> HIDE DEF n
<1>5. a.region \in VRegions /\ a.id \in VIDs /\ a.atts[1].time \in Now
  BY <1>3, ActionFacts, Zenon
<1>6. CreatedBy(batch, n + 1, created')
  <2>1. /\ created \subseteq created' /\ (batch[n + 1].kind = "create" => batch[n + 1].id \in created')
        /\ \A id \in created' : id \in created \/ (batch[n + 1].kind = "create" /\ batch[n + 1].id = id)
    BY <1>3, Zenon DEF Track
  <2> QED BY <1>1, <1>2, <2>1, CreatedNext, Zenon DEF Tracks
<1>7. MarkedBy(batch, n + 1, regMods')
  <2>1. regMods' = regMods \/ (a.kind = "createRegion" /\ regMods' = [regMods EXCEPT ![a.region] = "created"])
                           \/ (a.kind = "updateRegion" /\ regMods' = [regMods EXCEPT ![a.region] = "teeUpdated"])
    BY Zenon DEF Track
  <2>2. \A r \in VRegions :
           /\ regMods'[r] = "created" =>
                regMods[r] = "created" \/ (batch[n + 1].kind = "createRegion" /\ batch[n + 1].region = r)
           /\ regMods'[r] = "teeUpdated" =>
                regMods[r] = "teeUpdated" \/ (batch[n + 1].kind = "updateRegion" /\ batch[n + 1].region = r)
    BY <1>3, <1>4, <1>5, <2>1, Zenon
  <2> QED BY <1>1, <1>2, <2>2, MarkedNext, Zenon DEF Tracks
<1>8. seen' = IF batch[n + 1].kind = "send" THEN seen \cup {AttOf(batch, n + 1, 1), AttOf(batch, n + 1, 2)} ELSE seen
  BY <1>3, Zenon DEF Track, AttOf
<1>9. SeenBy(batch, n + 1, seen')
  BY <1>1, <1>2, <1>8, SeenNext, Zenon DEF Tracks
<1>10. ~RepeatedBy(batch, n + 1)
  <2>1. batch[n + 1].kind = "send" => /\ AttOf(batch, n + 1, 1) \notin seen
                                      /\ AttOf(batch, n + 1, 2) \notin seen \cup {AttOf(batch, n + 1, 1)}
    BY <1>3, Zenon DEF Analysis, AttOf
  <2> QED BY <1>1, <1>2, <2>1, RepeatedNext, Zenon DEF Tracks
<1>11. ASSUME NEW id \in VIDs PROVE QueueBy(batch, n + 1, id, queue'[id])
  <2>1. QueueBy(batch, n, id, queue[id]) /\ queue[id] \in Seq(Now)
    BY <1>2, <1>4, Zenon DEF Tracks
  <2>2. CASE a.kind = "send" /\ a.id = id
    <3>1. queue'[id] = Append(queue[id], a.atts[1].time)
      BY <1>4, <2>2, Zenon DEF Track
    <3>2. QueueBy(batch, n + 1, id, Append(queue[id], batch[n + 1].atts[1].time))
      BY <1>1, <1>3, <1>5, <2>1, <2>2, QueueNext, Zenon
    <3> QED BY <1>3, <3>1, <3>2, Zenon
  <2>3. CASE ~(a.kind = "send" /\ a.id = id)
    <3>1. queue'[id] = queue[id]
      BY <1>4, <1>5, <2>3, Zenon DEF Track
    <3> QED BY <1>1, <1>3, <2>1, <2>3, <3>1, QueueKept, Zenon
  <2> QED BY <2>2, <2>3, Zenon
<1>12. Tracks(batch, n + 1, created', regMods', queue', seen')
  BY <1>6, <1>7, <1>9, <1>10, <1>11, Zenon DEF Tracks
<1> QED BY <1>1, <1>12, Zenon

LEMMA TypeTrack ==
    ASSUME VerInv, pos <= Len(batch), Track(batch[pos])
    PROVE  /\ created' \subseteq VIDs /\ regMods' \in [VRegions -> {"absent", "created", "teeUpdated"}]
           /\ queue' \in [VIDs -> Seq(Now)] /\ seen' \subseteq Enclaves \X Now
<1> DEFINE a == batch[pos]
<1>1. a \in VAction
  BY CurrentAction, Zenon DEF VerInv
<1>2. /\ created \subseteq VIDs /\ regMods \in [VRegions -> {"absent", "created", "teeUpdated"}]
      /\ queue \in [VIDs -> Seq(Now)] /\ seen \subseteq Enclaves \X Now
  BY Zenon DEF VerInv, VerTypeOK
<1>3. /\ a.id \in VIDs /\ a.region \in VRegions /\ a.atts[1].time \in Now
      /\ AttIDs(a)[1] \in Enclaves \X Now /\ AttIDs(a)[2] \in Enclaves \X Now
  BY <1>1, ActionFacts, Zenon
<1>4. created' = created \/ created' = created \cup {a.id}
  BY Zenon DEF Track
<1>5. \/ regMods' = regMods \/ regMods' = [regMods EXCEPT ![a.region] = "created"]
      \/ regMods' = [regMods EXCEPT ![a.region] = "teeUpdated"]
  BY Zenon DEF Track
<1>6. queue' = queue \/ queue' = [queue EXCEPT ![a.id] = Append(@, a.atts[1].time)]
  BY Zenon DEF Track
<1>7. seen' = seen \/ seen' = seen \cup {AttIDs(a)[1], AttIDs(a)[2]}
  BY Zenon DEF Track
<1> HIDE DEF a
<1>8. created' \subseteq VIDs /\ seen' \subseteq Enclaves \X Now
  BY <1>2, <1>3, <1>4, <1>7, Zenon
<1>9. regMods' \in [VRegions -> {"absent", "created", "teeUpdated"}]
  BY <1>2, <1>3, <1>5, Zenon
<1>10. queue' \in [VIDs -> Seq(Now)]
  <2>1. Append(queue[a.id], a.atts[1].time) \in Seq(Now)
    BY <1>2, <1>3
  <2> QED BY <1>2, <1>3, <1>6, <2>1, Zenon
<1> QED BY <1>8, <1>9, <1>10, Zenon

LEMMA AnalyzeStep == ASSUME VerInv, Analyze PROVE VerInv'
<1> DEFINE a == batch[pos]
           n == pos - 1
<1>1. vPc = "analyze" /\ pos <= Len(batch) /\ UNCHANGED Written
  BY Zenon DEF Analyze
<1>2. a \in VAction /\ pos \in 1..Len(batch) /\ batch \in Seq(VAction) /\ Len(batch) \in Nat
  BY <1>1, CurrentAction, BatchFacts, Zenon DEF VerInv
<1>3. Tracks(batch, n, created, regMods, queue, seen)
  BY <1>1, Zenon DEF VerInv, Progress
<1>4. n \in Nat /\ n + 1 = pos /\ pos + 1 \in 1..(Len(batch) + 1) /\ (pos + 1) - 1 = pos
  BY <1>2
<1>5. CASE Analysis(a) = ""
  <2>1. Track(a) /\ pos' = pos + 1 /\ Step("analyze")
    BY <1>5, Zenon DEF Analyze
  <2>2. Tracks(batch, pos, created', regMods', queue', seen')
    BY <1>1, <1>5, <2>1, AnalysisPasses, Zenon
  <2>3. VerTypeOK'
    <3>1. /\ created' \subseteq VIDs /\ regMods' \in [VRegions -> {"absent", "created", "teeUpdated"}]
          /\ queue' \in [VIDs -> Seq(Now)] /\ seen' \subseteq Enclaves \X Now
      BY <1>1, <2>1, TypeTrack, Zenon
    <3> QED BY <1>1, <1>4, <2>1, <3>1, Zenon DEF VerInv, VerTypeOK, Step, Written
  <2>4. verdict' = "" /\ vPc' = "analyze" /\ batch' = batch
    BY <1>1, <2>1, Zenon DEF VerInv, Progress, Step
  <2>5. Progress'
    <3>1. Tracks(batch', pos' - 1, created', regMods', queue', seen')
      BY <1>4, <2>1, <2>2, <2>4, Zenon
    <3> QED BY <2>4, <3>1, Zenon DEF Progress
  <2> QED BY <2>3, <2>4, <2>5, NothingClaimed, Zenon DEF VerInv
<1>6. CASE Analysis(a) # ""
  <2>1. Return(Analysis(a)) /\ UNCHANGED Tracked
    BY <1>6, Zenon DEF Analyze
  <2>2. Analysis(a) \in {"duplicateAction", "duplicateAttestation", "conflict"}
    BY <1>6, Zenon DEF Analysis
  <2>3. VerTypeOK'
    BY <1>1, <2>1, <2>2, TypeReturn, Zenon DEF VerInv, Errors
  <2>4. vPc' = "idle" /\ verdict' = Analysis(a) /\ batch' = batch
    BY <2>1, Zenon DEF Return
  <2>5. Justified'
    <3>1. CASE Analysis(a) = "duplicateAction"
      <4>1. \/ a.kind = "create" /\ a.id \in created
            \/ a.kind = "createRegion" /\ regMods[a.region] = "created"
            \/ a.kind = "updateRegion" /\ regMods[a.region] = "teeUpdated"
        BY <3>1, Zenon DEF Analysis
      <4>2. a.region \in VRegions
        BY <1>2, ActionFacts, Zenon
      <4>3. PICK i \in 1..n :
              /\ batch[i].kind = a.kind
              /\ \/ a.kind = "create" /\ batch[i].id = a.id
                 \/ a.kind \in {"createRegion", "updateRegion"} /\ batch[i].region = a.region
        <5>1. CASE a.kind = "create" /\ a.id \in created
          BY <1>3, <5>1, Zenon DEF Tracks, CreatedBy
        <5>2. CASE a.kind = "createRegion" /\ regMods[a.region] = "created"
          BY <1>3, <4>2, <5>2 DEF Tracks, MarkedBy
        <5>3. CASE a.kind = "updateRegion" /\ regMods[a.region] = "teeUpdated"
          BY <1>3, <4>2, <5>3 DEF Tracks, MarkedBy
        <5> QED BY <4>1, <5>1, <5>2, <5>3, Zenon
      <4>4. i \in DOMAIN batch /\ pos \in DOMAIN batch /\ i < pos
        BY <1>2, <1>4
      <4>5. SameChange(batch)
        BY <4>3, <4>4, Zenon DEF SameChange
      <4> QED BY <2>4, <3>1, <4>5, Zenon
                 DEF Justified, AcceptedBatch, RejectionJustified, AdmittedTransaction, SameChange
    <3>2. CASE Analysis(a) = "duplicateAttestation"
      <4>1. batch[n + 1].kind = "send"
            /\ (AttOf(batch, n + 1, 1) \in seen \/ AttOf(batch, n + 1, 2) \in seen \cup {AttOf(batch, n + 1, 1)})
        BY <1>4, <3>2, Zenon DEF Analysis, AttOf
      <4>2. RepeatedBy(batch, n + 1)
        BY <1>3, <1>4, <4>1, RepeatedFound, Zenon DEF Tracks
      <4>3. Repeated(batch)
        BY <1>1, <1>2, <1>4, <4>2, RepeatedGrows, RepeatedIs
      <4>4. Repeated(batch')
        BY <2>4, <4>3, Zenon
      <4> QED BY <2>4, <3>2, <4>4, Zenon
                 DEF Justified, AcceptedBatch, RejectionJustified, AdmittedTransaction
    <3>3. CASE Analysis(a) = "conflict"
      <4>1. a.kind = "updateRegion" /\ regMods[a.region] = "created"
        BY <3>3, Zenon DEF Analysis
      <4>2. a.region \in VRegions
        BY <1>2, ActionFacts, Zenon
      <4>3. PICK i \in 1..n : batch[i].kind = "createRegion" /\ batch[i].region = a.region
        BY <1>3, <4>1, <4>2, Zenon DEF Tracks, MarkedBy
      <4>4. i \in DOMAIN batch /\ pos \in DOMAIN batch
        BY <1>2, <1>4
      <4> QED BY <2>4, <3>3, <4>1, <4>3, <4>4, Zenon
                 DEF Justified, AcceptedBatch, RejectionJustified, AdmittedTransaction
    <3> QED BY <2>2, <3>1, <3>2, <3>3, Zenon
  <2> QED BY <2>3, <2>4, <2>5, IdleProgress, Zenon DEF VerInv
<1> QED BY <1>5, <1>6, Zenon

LEMMA AnalyzedStep == ASSUME VerInv, Analyzed PROVE VerInv'
<1>1. vPc = "analyze" /\ ~(pos <= Len(batch)) /\ pos' = 1 /\ Step("verify") /\ UNCHANGED <<Written, Tracked>>
  <2>1. pos > Len(batch)
    BY Zenon DEF Analyzed
  <2>2. ~(pos <= Len(batch))
    BY <2>1, BatchFacts DEF VerInv
  <2> QED BY <2>2, Zenon DEF Analyzed
<1>2. pos \in 1..(Len(batch) + 1) /\ Len(batch) \in Nat
  BY BatchFacts, Zenon DEF VerInv, VerTypeOK
<1>3. pos - 1 = Len(batch) /\ 1 \in 1..(Len(batch) + 1)
  BY <1>1, <1>2
<1>4. pos' \in 1..(Len(batch) + 1) /\ pos' - 1 = 0 /\ 1..0 = {}
  BY <1>1, <1>3
<1>5. VerTypeOK'
  BY <1>1, <1>4, TypeStep, Zenon DEF VerInv
<1>6. vPc' = "verify" /\ verdict' = "" /\ batch' = batch
  BY <1>1, Zenon DEF VerInv, Progress, Step
<1>7. Tracks(batch, Len(batch), created, regMods, queue, seen)
  BY <1>1, <1>3, Zenon DEF VerInv, Progress
<1>8. Passed(batch', pos' - 1, vObjects', vRegions')
  BY <1>4, Zenon DEF Passed
<1>9. Progress'
  BY <1>1, <1>6, <1>7, <1>8, Zenon DEF Progress, Tracked
<1> QED BY <1>5, <1>6, <1>9, NothingClaimed, Zenon DEF VerInv

\* What passes VerifyStateTransition and is no creation has its targets.
LEMMA TransitionPasses ==
    ASSUME NEW a, VerifyStateTransition(a)
    PROVE  /\ a.kind \in {"create", "send", "input"}
           /\ a.kind \in {"send", "input"} => <<a.region, a.id>> \in vObjects
           /\ a.kind = "send" => a.region \in vRegions
  BY Zenon DEF VerifyStateTransition, verifyEvent, verifySetInputObject, HasObject, HasRegion

LEMMA VerifyStep == ASSUME VerInv, VerifyAction PROVE VerInv'
<1> DEFINE a == batch[pos]
           n == pos - 1
<1>1. vPc = "verify" /\ pos <= Len(batch) /\ UNCHANGED <<Written, Tracked>>
  BY Zenon DEF VerifyAction
<1>2. pos \in 1..Len(batch) /\ Len(batch) \in Nat
  BY <1>1, CurrentAction, BatchFacts, Zenon DEF VerInv
<1>3. Tracks(batch, Len(batch), created, regMods, queue, seen) /\ Passed(batch, n, vObjects, vRegions)
  BY <1>1, Zenon DEF VerInv, Progress
<1>4. pos + 1 \in 1..(Len(batch) + 1) /\ (pos + 1) - 1 = pos /\ \A i \in 1..pos : i \in 1..n \/ i = pos
  BY <1>2
<1>5. a.kind = "create" => ~verifyCreateInBatch(a)
  BY <1>2, <1>3, Zenon DEF Tracks, CreatedBy, verifyCreateInBatch
<1>6. CASE Return("state") \/ (a.kind = "create" /\ Return("duplicateAction"))
  <2>1. /\ vPc' = "idle" /\ batch' = batch
        /\ verdict' = "state" \/ (a.kind = "create" /\ verdict' = "duplicateAction")
    BY <1>6, Zenon DEF Return
  <2>2. VerTypeOK'
    BY <1>1, <1>6, TypeReturn, Zenon DEF VerInv, Errors
  <2>3. pos \in DOMAIN batch
    BY <1>2, BatchFacts, Zenon DEF VerInv
  <2>4. Justified'
    BY <2>1, <2>3, Zenon DEF Justified, AcceptedBatch, RejectionJustified, AdmittedTransaction
  <2> QED BY <2>1, <2>2, <2>4, IdleProgress, Zenon DEF VerInv
<1>7. CASE VerifyStateTransition(a) /\ a.kind # "create" /\ pos' = pos + 1 /\ Step("verify")
  <2>1. VerTypeOK'
    BY <1>1, <1>4, <1>7, TypeStep, Zenon DEF VerInv
  <2>2. vPc' = "verify" /\ verdict' = "" /\ batch' = batch
    BY <1>1, <1>7, Zenon DEF VerInv, Progress, Step
  <2>3. Passed(batch, pos, vObjects, vRegions)
    BY <1>3, <1>4, <1>7, TransitionPasses, Zenon DEF Passed
  <2>4. Passed(batch', pos' - 1, vObjects', vRegions')
    BY <1>1, <1>4, <1>7, <2>2, <2>3, Zenon DEF Written
  <2>5. Progress'
    BY <1>1, <1>3, <2>2, <2>4, Zenon DEF Progress, Tracked
  <2> QED BY <2>1, <2>2, <2>5, NothingClaimed, Zenon DEF VerInv
<1> QED BY <1>5, <1>6, <1>7, Zenon DEF VerifyAction

LEMMA VerifiedStep == ASSUME VerInv, Verified PROVE VerInv'
<1>1. vPc = "verify" /\ Step("constraints") /\ UNCHANGED <<pos, Written, Tracked>>
  BY Zenon DEF Verified
<1>2. pos - 1 = Len(batch) /\ pos \in 1..(Len(batch) + 1)
  <2>1. pos > Len(batch) /\ pos \in 1..(Len(batch) + 1) /\ Len(batch) \in Nat
    BY BatchFacts, Zenon DEF Verified, VerInv, VerTypeOK
  <2> QED BY <2>1
<1>3. Tracks(batch, Len(batch), created, regMods, queue, seen) /\ Passed(batch, Len(batch), vObjects, vRegions)
  BY <1>1, <1>2, Zenon DEF VerInv, Progress
<1>4. VerTypeOK'
  BY <1>1, <1>2, TypeStep, Zenon DEF VerInv
<1>5. vPc' = "constraints" /\ verdict' = "" /\ batch' = batch
  BY <1>1, Zenon DEF VerInv, Progress, Step
<1>6. Progress'
  BY <1>1, <1>3, <1>5, Zenon DEF Progress, Tracked, Written
<1> QED BY <1>4, <1>5, <1>6, NothingClaimed, Zenon DEF VerInv

\* With the queues of the whole batch, InOrder is the order of the batch.
LEMMA InOrderIs ==
    ASSUME VerInv, Tracks(batch, Len(batch), created, regMods, queue, seen)
    PROVE  InOrder <=> ~OutOfOrder(batch)
<1> DEFINE n == Len(batch)
<1>1. n \in Nat /\ SendsOf(batch) = Sent(batch, n) /\ batch \in Seq(VAction)
  BY BatchFacts, Zenon DEF VerInv, SendsOf, Sent
<1>2. ASSUME NEW id \in VIDs PROVE queue[id] \in Seq(Nat) /\ QueueBy(batch, n, id, queue[id])
  <2>1. queue[id] \in Seq(Now)
    BY Zenon DEF VerInv, VerTypeOK
  <2>2. queue[id] \in Seq(Nat)
    BY <2>1, NowFacts, Zenon
  <2> QED BY <2>2, Zenon DEF Tracks
<1> HIDE DEF n
<1>3. ASSUME InOrder, OutOfOrder(batch) PROVE FALSE
  <2>1. PICK i \in Sent(batch, n), j \in Sent(batch, n) :
          i < j /\ batch[i].id = batch[j].id /\ batch[i].atts[1].time > batch[j].atts[1].time
    BY <1>1, <1>3, Zenon DEF OutOfOrder
  <2> DEFINE id == batch[i].id
  <2>2. id \in VIDs
    <3>1. batch[i] \in VAction
      BY <1>1 DEF Sent, n
    <3> QED BY <3>1, ActionFacts, Zenon
  <2>3. \A x \in 2..Len(queue[id]) : queue[id][x - 1] <= queue[id][x]
    BY <1>3, <2>2, Zenon DEF InOrder
  <2>4. id = batch[i].id /\ id = batch[j].id
    BY <2>1, Zenon
  <2> HIDE DEF id
  <2> QED BY <1>1, <1>2, <2>1, <2>2, <2>3, <2>4, OrderedQueue, Zenon
<1>4. ASSUME ~InOrder PROVE OutOfOrder(batch)
  <2>0. PICK id \in VIDs : \E x \in 2..Len(queue[id]) : ~(queue[id][x - 1] <= queue[id][x])
    BY <1>4, Zenon DEF InOrder
  <2>1. PICK x \in 2..Len(queue[id]) : ~(queue[id][x - 1] <= queue[id][x])
    BY <2>0, Zenon
  <2>2. \E i, j \in Sent(batch, n) : i < j /\ batch[i].id = batch[j].id /\ batch[i].atts[1].time > batch[j].atts[1].time
    BY <1>1, <1>2, <2>1, UnorderedQueue, Zenon
  <2> QED BY <1>1, <2>2, Zenon DEF OutOfOrder
<1> QED BY <1>3, <1>4, Zenon

LEMMA ConstraintsStep == ASSUME VerInv, BatchConstraints PROVE VerInv'
<1>1. vPc = "constraints" /\ Return(IF InOrder THEN "ok" ELSE "timestamp") /\ UNCHANGED <<Written, Tracked>>
  BY Zenon DEF BatchConstraints
<1>2. Tracks(batch, Len(batch), created, regMods, queue, seen) /\ Passed(batch, Len(batch), vObjects, vRegions)
  BY <1>1, Zenon DEF VerInv, Progress
<1>3. VerTypeOK'
  BY <1>1, TypeReturn, Zenon DEF VerInv, Errors
<1>4. vPc' = "idle" /\ batch' = batch /\ verdict' = IF InOrder THEN "ok" ELSE "timestamp"
  BY <1>1, Zenon DEF Return
<1>5. InOrder <=> ~OutOfOrder(batch)
  BY <1>2, InOrderIs, Zenon
<1>6. ~Repeated(batch)
  BY <1>2, BatchFacts, RepeatedIs, Zenon DEF Tracks, VerInv
<1>7. TargetsExist(batch) /\ \A i \in DOMAIN batch : batch[i].kind \in {"send", "input"}
  BY <1>2, BatchFacts, Zenon DEF Passed, TargetsExist, VerInv
<1>8. TargetsExist(batch)' /\ (Repeated(batch)' <=> Repeated(batch)) /\ (OutOfOrder(batch)' <=> OutOfOrder(batch))
  BY <1>1, <1>4, <1>7 DEF TargetsExist, Repeated, OutOfOrder, SendsOf, Written
<1>9. Justified'
  BY <1>4, <1>5, <1>6, <1>7, <1>8, Zenon
     DEF Justified, AcceptedBatch, RejectionJustified, AdmittedTransaction
<1> QED BY <1>3, <1>4, <1>9, IdleProgress, Zenon DEF VerInv

LEMMA ValidateStep == ASSUME VerInv, ValidateAction PROVE VerInv'
<1> DEFINE a == batch[pos]
           n == pos - 1
<1>1. vPc = "validate" /\ pos <= Len(batch) /\ UNCHANGED <<Written, Tracked>>
  BY Zenon DEF ValidateAction
<1>2. pos \in 1..Len(batch) /\ Len(batch) \in Nat
  BY <1>1, CurrentAction, BatchFacts, Zenon DEF VerInv
<1>3. Admissible(batch, n, vObjects, vRegions)
  BY <1>1, Zenon DEF VerInv, Progress
<1>4. pos + 1 \in 1..(Len(batch) + 1) /\ (pos + 1) - 1 = pos /\ \A i \in 1..pos : i \in 1..n \/ i = pos
  BY <1>2
<1>5. CASE Return("attestation") \/ Return("state")
  <2>1. vPc' = "idle" /\ verdict' \in {"attestation", "state"}
    BY <1>5, Zenon DEF Return
  <2>2. VerTypeOK'
    BY <1>1, <1>5, TypeReturn, Zenon DEF VerInv, Errors
  <2> QED BY <2>1, <2>2, IdleProgress, NothingClaimed, Zenon DEF VerInv
<1>6. CASE /\ VerifyStateTransition(a) /\ (a.kind = "send" => verifyTEEExecution(a))
           /\ pos' = pos + 1 /\ Step("validate")
  <2>1. VerTypeOK'
    BY <1>1, <1>4, <1>6, TypeStep, Zenon DEF VerInv
  <2>2. vPc' = "validate" /\ verdict' = "" /\ batch' = batch
    BY <1>1, <1>6, Zenon DEF VerInv, Progress, Step
  <2>3. a.kind = "send" => a.atts[1].time = a.atts[2].time /\ a.atts[1].data = a.atts[2].data
    BY <1>6, Zenon DEF verifyTEEExecution
  <2>4. Admissible(batch, pos, vObjects, vRegions)
    BY <1>3, <1>4, <1>6, <2>3, TransitionPasses, Zenon DEF Admissible
  <2>5. Admissible(batch', pos' - 1, vObjects', vRegions')
    BY <1>1, <1>4, <1>6, <2>2, <2>4, Zenon DEF Written
  <2>6. Progress'
    BY <2>2, <2>5, Zenon DEF Progress
  <2> QED BY <2>1, <2>2, <2>6, NothingClaimed, Zenon DEF VerInv
<1> QED BY <1>5, <1>6, Zenon DEF ValidateAction

LEMMA ValidatedStep == ASSUME VerInv, Validated PROVE VerInv'
<1>1. vPc = "validate" /\ Return("admitted") /\ UNCHANGED <<Written, Tracked>>
  BY Zenon DEF Validated
<1>2. pos - 1 = Len(batch)
  <2>1. pos > Len(batch) /\ pos \in 1..(Len(batch) + 1) /\ Len(batch) \in Nat
    BY BatchFacts, Zenon DEF Validated, VerInv, VerTypeOK
  <2> QED BY <2>1
<1>3. Admissible(batch, Len(batch), vObjects, vRegions)
  BY <1>1, <1>2, Zenon DEF VerInv, Progress
<1>4. VerTypeOK'
  BY <1>1, TypeReturn, Zenon DEF VerInv
<1>5. vPc' = "idle" /\ batch' = batch /\ verdict' = "admitted" /\ vObjects' = vObjects /\ vRegions' = vRegions
  BY <1>1, Zenon DEF Return, Written
<1>6. AdmittedTransaction'
  BY <1>3, <1>5, BatchFacts, Zenon DEF AdmittedTransaction, TargetsExist, SendsOf, Admissible, VerInv
<1>7. Justified'
  BY <1>5, <1>6, Zenon DEF Justified, AcceptedBatch, RejectionJustified
<1> QED BY <1>4, <1>5, <1>7, IdleProgress, Zenon DEF VerInv

LEMMA VerInvInit == VerInit => VerInv
<1> SUFFICES ASSUME VerInit PROVE VerInv
  BY Zenon
<1>1. VerTypeOK
  <2>1. vNow \in Now
    BY NowFacts, Zenon DEF VerInit
  <2>2. queue \in [VIDs -> Seq(Now)]
    BY NowFacts, Zenon DEF VerInit
  <2>3. pos \in 1..(Len(batch) + 1)
    <3>1. pos = 1 /\ batch = <<>>
      BY Zenon DEF VerInit
    <3>2. 1 \in 1..(Len(<<>>) + 1)
      OBVIOUS
    <3> QED BY <3>1, <3>2, Zenon
  <2> QED BY <2>1, <2>2, <2>3, Zenon DEF VerTypeOK, VerInit
<1>2. Progress /\ Justified
  BY Zenon DEF VerInit, Progress, Justified, AcceptedBatch, RejectionJustified, AdmittedTransaction
<1> QED BY <1>1, <1>2, Zenon DEF VerInv

\* Whatever is submitted for verification, and whatever the state's writers do
\* while it runs, for any limits: what is accepted is sound, and what is rejected
\* is rejected for what the batch itself holds.
THEOREM VerdictsJustified == VerSpec => []VerdictJustified
<1>1. VerInv /\ [VerNext]_verVars => VerInv'
  <2> SUFFICES ASSUME VerInv, [VerNext]_verVars PROVE VerInv'
    BY Zenon
  <2>1. CASE UNCHANGED verVars
    <3>1. VerTypeOK'
      BY <2>1, Zenon DEF verVars, jobVars, VerInv, VerTypeOK
    <3> QED BY <2>1, <3>1, WritersKeep, Zenon DEF verVars
  <2>2. CASE JobStep
    BY <2>2, StartSteps, AnalyzeStep, AnalyzedStep, VerifyStep, VerifiedStep, ConstraintsStep,
       ValidateStep,
       ValidatedStep, Zenon DEF JobStep
  <2> QED BY <2>1, <2>2, WriterSteps, Zenon DEF VerNext
<1>2. VerInv => VerdictJustified
  BY Zenon DEF VerInv, Justified, VerdictJustified
<1> QED BY <1>1, <1>2, VerInvInit, PTL DEF VerSpec

-----------------------------------------------------------------------------
(* Cross-region intents: ProcessRegions *)

\* Where the loop is, which goroutines there are, what those that ended were
\* given, and that a refusal was reported.
LoopInv ==
    /\ at \in Nat /\ 1 <= at /\ at <= Len(XRegions) + 1
    /\ DOMAIN task = {XRegions[i] : i \in 1..(at - 1)}
    /\ phase = "none" => at = 1
    /\ phase = "loop" => at <= Len(XRegions)
    /\ phase = "wait" => at = Len(XRegions) + 1
    /\ IsFiniteSet(DOMAIN task) /\ Cardinality(Held) <= XLimit

TasksInv ==
    /\ \A r \in DOMAIN task : task[r] \in {"confirmed", "ended"} => signed
    /\ \A r \in DOMAIN task : task[r] = "refused" => xErr
    /\ phase = "ok" => at = Len(XRegions) + 1 /\ \A r \in DOMAIN task : task[r] = "ended"

XInv == NeverApplied /\ LoopInv /\ TasksInv

LEMMA HeldFinite ==
    ASSUME LoopInv PROVE IsFiniteSet(Held) /\ Cardinality(Held) \in Nat
<1>1. Held \subseteq DOMAIN task
  BY Zenon DEF Held
<1> QED BY <1>1, FS_Subset, FS_CardinalityType, Zenon DEF LoopInv

LEMMA HeldShrinks ==
    ASSUME LoopInv, NEW held, held \subseteq Held
    PROVE  Cardinality(held) <= XLimit
<1>1. Cardinality(held) <= Cardinality(Held) /\ Cardinality(held) \in Nat
  BY HeldFinite, FS_Subset, FS_CardinalityType, Zenon
<1> QED BY <1>1, HeldFinite, XAssumption DEF LoopInv

LEMMA StepStartRegion ==
    ASSUME XInv, StartRegion PROVE XInv'
<1> DEFINE new == XRegions[at]
<1>1. /\ phase = "loop" /\ Cardinality(Held) < XLimit
      /\ task' = [r \in DOMAIN task \cup {new} |-> IF r = new THEN "started" ELSE task[r]]
      /\ at' = at + 1 /\ phase' = IF at = Len(XRegions) THEN "wait" ELSE "loop"
      /\ UNCHANGED <<cancelled, xErr, input, tried, chainKeys, xOutcome, signed>>
  BY Zenon DEF StartRegion, Acquires, Unprocessed
<1>2. at \in Nat /\ 1 <= at /\ at <= Len(XRegions) /\ Len(XRegions) \in Nat
  BY <1>1, XAssumption DEF XInv, LoopInv
<1>3. DOMAIN task' = {XRegions[i] : i \in 1..(at' - 1)}
  <2>1. 1..(at' - 1) = 1..(at - 1) \cup {at}
    BY <1>1, <1>2
  <2>2. DOMAIN task' = DOMAIN task \cup {new}
    BY <1>1, Zenon
  <2> QED BY <2>1, <2>2, Zenon DEF XInv, LoopInv
<1>4. Held' \subseteq Held \cup {new}
  BY <1>1, Zenon DEF Held
<1>5. IsFiniteSet(DOMAIN task')
  <2>1. DOMAIN task' = DOMAIN task \cup {new}
    BY <1>1, Zenon
  <2>2. IsFiniteSet(DOMAIN task)
    BY Zenon DEF XInv, LoopInv
  <2>3. IsFiniteSet(DOMAIN task \cup {new})
    BY <2>2, FS_AddElement, Zenon
  <2> QED BY <2>1, <2>3, Zenon
<1>6. Cardinality(Held') <= XLimit
  <2>1. IsFiniteSet(Held) /\ Cardinality(Held) \in Nat
    BY HeldFinite, Zenon DEF XInv
  <2>2. /\ IsFiniteSet(Held \cup {new})
        /\ Cardinality(Held \cup {new}) = Cardinality(Held) \/ Cardinality(Held \cup {new}) = Cardinality(Held) + 1
    BY <2>1, FS_AddElement, Zenon
  <2>3. Cardinality(Held') <= Cardinality(Held \cup {new}) /\ Cardinality(Held') \in Nat
    BY <1>4, <2>2, FS_Subset, FS_CardinalityType, Zenon
  <2> QED BY <1>1, <2>1, <2>2, <2>3, XAssumption
<1>7. LoopInv'
  <2>1. /\ at' \in Nat /\ 1 <= at' /\ at' <= Len(XRegions) + 1
        /\ phase' # "none" /\ (phase' = "loop" => at' <= Len(XRegions))
        /\ (phase' = "wait" => at' = Len(XRegions) + 1)
    BY <1>1, <1>2
  <2> QED BY <1>3, <1>5, <1>6, <2>1, Zenon DEF LoopInv
<1>8. TasksInv'
  <2>1. \A r \in DOMAIN task' : (r \in DOMAIN task /\ task'[r] = task[r]) \/ task'[r] = "started"
    BY <1>1, Zenon
  <2>2. phase' # "ok"
    BY <1>1, Zenon
  <2> QED BY <1>1, <2>1, <2>2, Zenon DEF XInv, TasksInv
<1>9. NeverApplied'
  BY <1>1, Zenon DEF XInv, NeverApplied
<1> QED BY <1>7, <1>8, <1>9, Zenon DEF XInv

\* A step of one goroutine from an unfinished to a later state.
LEMMA StepGoroutine ==
    ASSUME XInv, NEW r \in DOMAIN task, NEW s, task' = [task EXCEPT ![r] = s],
           task[r] # "ended",
           s \in {"confirmed", "failed", "reporting", "ended", "refused"},
           s \in {"confirmed", "failed"} => r \in Held,
           s \in {"confirmed", "ended"} => signed, s = "refused" => xErr', xErr => xErr',
           UNCHANGED <<at, phase, signed, chainKeys, xOutcome>>
    PROVE  XInv'
<1>1. DOMAIN task' = DOMAIN task /\ task'[r] = s /\ \A q \in DOMAIN task : q # r => task'[q] = task[q]
  BY Zenon
<1>2. Held' \subseteq Held
  BY <1>1, Zenon DEF Held
<1>3. LoopInv'
  <2>1. Cardinality(Held') <= XLimit
    BY <1>2, HeldShrinks, Zenon DEF XInv
  <2> QED BY <1>1, <2>1, Zenon DEF XInv, LoopInv
<1>4. TasksInv'
  <2>1. phase # "ok"
    BY Zenon DEF XInv, TasksInv
  <2> QED BY <1>1, <2>1, Zenon DEF XInv, TasksInv
<1>5. NeverApplied'
  BY Zenon DEF XInv, NeverApplied
<1> QED BY <1>3, <1>4, <1>5, Zenon DEF XInv

LEMMA StepConfirm == ASSUME XInv, NEW r \in DOMAIN task, Confirm(r) PROVE XInv'
<1> DEFINE s == IF cancelled \/ ~signed THEN "failed" ELSE "confirmed"
<1>1. /\ task[r] = "started" /\ task' = [task EXCEPT ![r] = s]
      /\ UNCHANGED <<at, phase, xErr, signed, chainKeys, xOutcome>>
  BY Zenon DEF Confirm, Unprocessed
<1>2. s \in {"confirmed", "failed"} /\ (s \in {"confirmed", "ended"} => signed)
  BY Zenon
<1>3. r \in Held
  BY <1>1, Zenon DEF Held
<1> HIDE DEF s
<1> QED BY <1>1, <1>2, <1>3, StepGoroutine, Zenon

LEMMA StepRelease == ASSUME XInv, NEW r \in DOMAIN task, Release(r) PROVE XInv'
<1> DEFINE s == IF task[r] = "failed" THEN "reporting" ELSE "ended"
<1>1. /\ task[r] \in {"confirmed", "failed"} /\ task' = [task EXCEPT ![r] = s]
      /\ UNCHANGED <<at, phase, xErr, signed, chainKeys, xOutcome>>
  BY Zenon DEF Release, Unprocessed
<1>2. s \in {"reporting", "ended"} /\ (s = "ended" => signed)
  BY <1>1, Zenon DEF XInv, TasksInv
<1> HIDE DEF s
<1> QED BY <1>1, <1>2, StepGoroutine, Zenon

LEMMA StepReport == ASSUME XInv, NEW r \in DOMAIN task, Report(r) PROVE XInv'
<1>1. /\ task[r] = "reporting" /\ task' = [task EXCEPT ![r] = "refused"] /\ xErr' = TRUE
      /\ UNCHANGED <<at, phase, signed, chainKeys, xOutcome>>
  BY Zenon DEF Report, Unprocessed
<1> QED BY <1>1, StepGoroutine, Zenon

\* The steps of the caller alone.
LEMMA StepCaller ==
    ASSUME XInv, ProcessRegions \/ AcquireFails \/ Wait \/ CancelCaller PROVE XInv'
<1>1. UNCHANGED <<at, task, xErr, signed, chainKeys, xOutcome>>
  BY Zenon DEF ProcessRegions, AcquireFails, Wait, CancelCaller, Unprocessed
<1>2. Held' = Held /\ NeverApplied'
  BY <1>1, Zenon DEF Held, XInv, NeverApplied
<1>3. /\ phase' = "none" => at = 1
      /\ phase' = "loop" => at <= Len(XRegions)
      /\ phase' = "wait" => at = Len(XRegions) + 1
  <2>1. CASE ProcessRegions
    <3>1. phase = "none" /\ phase' = IF XRegions = <<>> THEN "ok" ELSE "loop"
      BY <2>1, Zenon DEF ProcessRegions
    <3>2. at = 1 /\ (XRegions # <<>> => 1 <= Len(XRegions))
      BY <3>1, XAssumption DEF XInv, LoopInv
    <3> QED BY <3>1, <3>2, Zenon
  <2>2. CASE AcquireFails \/ Wait
    BY <2>2, Zenon DEF AcquireFails, Wait
  <2>3. CASE CancelCaller
    BY <2>3, Zenon DEF CancelCaller, XInv, LoopInv
  <2> QED BY <2>1, <2>2, <2>3, Zenon
<1>4. LoopInv'
  BY <1>1, <1>2, <1>3, Zenon DEF XInv, LoopInv
<1>5. phase' = "ok" => at = Len(XRegions) + 1 /\ \A r \in DOMAIN task : task[r] = "ended"
  <2>1. CASE ProcessRegions
    <3> SUFFICES ASSUME phase' = "ok" PROVE at = Len(XRegions) + 1 /\ DOMAIN task = {}
      BY Zenon
    <3>1. XRegions = <<>> /\ phase = "none"
      BY <2>1, Zenon DEF ProcessRegions
    <3>2. at = 1 /\ Len(XRegions) = 0
      BY <3>1, Zenon DEF XInv, LoopInv
    <3> QED BY <3>2 DEF XInv, LoopInv
  <2>2. CASE Wait
    <3> SUFFICES ASSUME phase' = "ok" PROVE at = Len(XRegions) + 1 /\ \A r \in DOMAIN task : task[r] = "ended"
      BY Zenon
    <3>1. phase = "wait" /\ ~xErr /\ \A r \in DOMAIN task : task[r] \in {"ended", "refused"}
      BY <2>2, Zenon DEF Wait
    <3> QED BY <3>1, Zenon DEF XInv, LoopInv, TasksInv
  <2>3. CASE AcquireFails
    BY <2>3, Zenon DEF AcquireFails
  <2>4. CASE CancelCaller
    BY <2>4, Zenon DEF CancelCaller
  <2> QED BY <2>1, <2>2, <2>3, <2>4, Zenon
<1>6. TasksInv'
  BY <1>1, <1>5, Zenon DEF XInv, TasksInv
<1> QED BY <1>2, <1>4, <1>6, Zenon DEF XInv

LEMMA StepExecute ==
    ASSUME XInv, NEW order, Execute(order) PROVE XInv'
<1>1. UNCHANGED <<at, phase, task, xErr, signed, chainKeys>> /\ xOutcome' \in {"refused", "panic"}
  BY Zenon DEF Execute, CoordinatorMade
<1> QED BY <1>1, Zenon DEF XInv, LoopInv, TasksInv, NeverApplied, Held

LEMMA XInvKept == XInv /\ [ExecuteNext \/ ProcessNext]_xVars => XInv'
<1> SUFFICES ASSUME XInv, [ExecuteNext \/ ProcessNext]_xVars PROVE XInv'
  BY Zenon
<1>1. CASE ExecuteNext
  BY <1>1, StepExecute, Zenon DEF ExecuteNext
<1>2. CASE ProcessNext
  BY <1>2, StepCaller, StepStartRegion, StepConfirm, StepRelease, StepReport, Zenon DEF ProcessNext
<1>3. CASE UNCHANGED xVars
  BY <1>3, Zenon DEF xVars, XInv, LoopInv, TasksInv, NeverApplied, Held
<1> QED BY <1>1, <1>2, <1>3, Zenon

LEMMA XInvFirst == XInit => XInv
<1> SUFFICES ASSUME XInit PROVE XInv
  BY Zenon
<1>1. at = 1 /\ phase = "none" /\ DOMAIN task = {} /\ xOutcome = "none"
  BY Zenon DEF XInit
<1>2. Len(XRegions) \in Nat /\ XLimit \in Nat /\ 1..(1 - 1) = {}
  BY XAssumption
<1>3. Held = {} /\ IsFiniteSet({}) /\ Cardinality({}) = 0
  BY <1>1, FS_EmptySet, Zenon DEF Held
<1>4. LoopInv
  BY <1>1, <1>2, <1>3 DEF LoopInv
<1>5. TasksInv
  BY <1>1, Zenon DEF TasksInv
<1>6. NeverApplied
  BY <1>1, Zenon DEF NeverApplied, XInit
<1> QED BY <1>4, <1>5, <1>6, Zenon DEF XInv

LEMMA SetRefused == SetNeverDecodes
  BY Zenon DEF SetNeverDecodes, Decodes, Required, Range

LEMMA XInvConfirms == XInv => WithinLimit /\ AllConfirmed
<1> SUFFICES ASSUME XInv PROVE WithinLimit /\ AllConfirmed
  BY Zenon
<1>1. WithinLimit
  BY Zenon DEF XInv, LoopInv, WithinLimit
<1>2. ASSUME phase = "ok"
      PROVE  (XRegions = <<>> \/ signed) /\ DOMAIN task = Range(XRegions) /\ \A r \in DOMAIN task : task[r] = "ended"
  <2>1. at = Len(XRegions) + 1 /\ \A r \in DOMAIN task : task[r] = "ended"
    BY <1>2, Zenon DEF XInv, TasksInv
  <2>2. DOMAIN XRegions = 1..(at - 1) /\ XRegions \in Seq(STRING)
    BY <2>1, XAssumption
  <2>3. DOMAIN task = Range(XRegions)
    BY <2>2, Zenon DEF XInv, LoopInv, Range
  <2>4. ASSUME XRegions # <<>> PROVE signed
    <3>1. 1 \in DOMAIN XRegions
      <4>1. Len(XRegions) # 0 /\ Len(XRegions) \in Nat /\ DOMAIN XRegions = 1..Len(XRegions)
        BY <2>4, XAssumption
      <4> QED BY <4>1
    <3>2. XRegions[1] \in DOMAIN task
      BY <2>3, <3>1, Zenon DEF Range
    <3> QED BY <2>1, <3>2, Zenon DEF XInv, TasksInv
  <2> QED BY <2>1, <2>3, <2>4, Zenon
<1> QED BY <1>1, <1>2, Zenon DEF AllConfirmed

-----------------------------------------------------------------------------
(* Cross-region intents: one region's changes *)

\* The changes that come no later than the one at j when they are sorted.
Upto(cs, j) ==
    {i \in DOMAIN cs : \/ cs[i].key < cs[j].key
                       \/ cs[i].key = cs[j].key /\ i <= j}

LEMMA ChangeKeys ==
    ASSUME NEW cs \in Seq(XChange)
    PROVE  /\ DOMAIN cs = 1..Len(cs) /\ Len(cs) \in Nat
           /\ \A n \in DOMAIN cs : n \in Nat /\ cs[n] \in XChange /\ cs[n].key \in Nat
<1>1. DOMAIN cs = 1..Len(cs) /\ Len(cs) \in Nat /\ \A n \in DOMAIN cs : cs[n] \in XChange
  OBVIOUS
<1>2. \A ch \in XChange : ch.key \in Nat
  BY Zenon DEF XChange
<1> QED BY <1>1, <1>2

LEMMA PlaceLess ==
    ASSUME NEW cs \in Seq(XChange), NEW i \in DOMAIN cs, NEW j \in DOMAIN cs, i \in Upto(cs, j), i # j
    PROVE  Cardinality(Upto(cs, i)) < Cardinality(Upto(cs, j))
<1>0. DOMAIN cs = 1..Len(cs) /\ Len(cs) \in Nat /\ \A n \in DOMAIN cs : n \in Nat /\ cs[n].key \in Nat
  BY ChangeKeys, Zenon
<1>1. j \in Upto(cs, j)
  BY <1>0 DEF Upto
<1>2. j \notin Upto(cs, i)
  BY <1>0 DEF Upto
<1>3. Upto(cs, i) \subseteq Upto(cs, j)
  <2>1. ASSUME NEW n \in Upto(cs, i) PROVE n \in Upto(cs, j)
    <3>1. n \in DOMAIN cs /\ n \in Nat /\ i \in Nat /\ j \in Nat
      BY <1>0, Zenon DEF Upto
    <3> DEFINE a == cs[n].key
               b == cs[i].key
               d == cs[j].key
    <3>2. a \in Nat /\ b \in Nat /\ d \in Nat
      BY <1>0, <3>1, Zenon
    <3>3. a < b \/ (a = b /\ n <= i)
      BY Zenon DEF Upto
    <3>4. b < d \/ (b = d /\ i <= j)
      BY Zenon DEF Upto
    <3> HIDE DEF a, b, d
    <3>5. a < d \/ (a = d /\ n <= j)
      BY <3>1, <3>2, <3>3, <3>4
    <3> QED BY <3>1, <3>5, Zenon DEF Upto, a, d
  <2> QED BY <2>1, Zenon
<1>4. IsFiniteSet(Upto(cs, j))
  <2>1. IsFiniteSet(1..Len(cs))
    BY <1>0, FS_Interval
  <2>2. Upto(cs, j) \subseteq 1..Len(cs)
    BY <1>0, Zenon DEF Upto
  <2> QED BY <2>1, <2>2, FS_Subset, Zenon
<1>5. IsFiniteSet(Upto(cs, j) \ {j}) /\ Cardinality(Upto(cs, j) \ {j}) = Cardinality(Upto(cs, j)) - 1
  BY <1>1, <1>4, FS_RemoveElement, Zenon
<1>6. Upto(cs, i) \subseteq Upto(cs, j) \ {j}
  BY <1>2, <1>3, Zenon
<1>7. Cardinality(Upto(cs, i)) <= Cardinality(Upto(cs, j) \ {j}) /\ IsFiniteSet(Upto(cs, i))
  BY <1>5, <1>6, FS_Subset, Zenon
<1>8. Cardinality(Upto(cs, i)) \in Nat /\ Cardinality(Upto(cs, j)) \in Nat
  BY <1>4, <1>7, FS_CardinalityType, Zenon
<1> QED BY <1>5, <1>7, <1>8

\* Sorting the changes gives each place one of them.
LEMMA SortedElements ==
    ASSUME NEW cs \in Seq(XChange)
    PROVE  /\ SortedByKey(cs) \in Seq(XChange) /\ DOMAIN SortedByKey(cs) = DOMAIN cs
           /\ \A n \in DOMAIN cs : \E j \in DOMAIN cs : SortedByKey(cs)[n] = cs[j]
<1> DEFINE m == Len(cs)
           f == [j \in 1..m |-> Cardinality(Upto(cs, j))]
<1>0. DOMAIN cs = 1..m /\ m \in Nat /\ \A n \in DOMAIN cs : n \in Nat /\ cs[n].key \in Nat
  BY ChangeKeys, Zenon
<1>1. IsFiniteSet(1..m) /\ Cardinality(1..m) = m
  <2>1. IsFiniteSet(1..m) /\ Cardinality(1..m) = IF 1 > m THEN 0 ELSE m - 1 + 1
    BY <1>0, FS_Interval
  <2> QED BY <1>0, <2>1
<1>2. ASSUME NEW j \in 1..m PROVE Cardinality(Upto(cs, j)) \in 1..m
  <2>1. Upto(cs, j) \subseteq 1..m /\ j \in Upto(cs, j)
    BY <1>0 DEF Upto
  <2>2. IsFiniteSet(Upto(cs, j)) /\ Cardinality(Upto(cs, j)) <= m
    BY <1>1, <2>1, FS_Subset, Zenon
  <2>3. Cardinality(Upto(cs, j)) \in Nat /\ Cardinality(Upto(cs, j)) # 0
    BY <2>1, <2>2, FS_CardinalityType, FS_EmptySet, Zenon
  <2> QED BY <1>0, <2>2, <2>3
<1>3. ASSUME NEW i \in 1..m, NEW j \in 1..m, i # j PROVE Cardinality(Upto(cs, i)) # Cardinality(Upto(cs, j))
  <2>1. i \in Upto(cs, j) \/ j \in Upto(cs, i)
    BY <1>0 DEF Upto
  <2>2. Cardinality(Upto(cs, i)) < Cardinality(Upto(cs, j)) \/ Cardinality(Upto(cs, j)) < Cardinality(Upto(cs, i))
    BY <1>0, <1>3, <2>1, PlaceLess, Zenon
  <2> QED BY <1>2, <2>2
<1>4. f \in Injection(1..m, 1..m)
  BY <1>2, <1>3, Zenon DEF Injection, IsInjective
<1> HIDE DEF m
<1>5. f \in Surjection(1..m, 1..m)
  <2> HIDE DEF f
  <2> QED BY <1>1, <1>4, FS_Injection, Zenon
<1>6. \A n \in 1..m : \E j \in 1..m : Cardinality(Upto(cs, j)) = n
  BY <1>5, Zenon DEF Surjection
<1>7. SortedByKey(cs) = [n \in DOMAIN cs |-> cs[CHOOSE j \in DOMAIN cs : Cardinality(Upto(cs, j)) = n]]
  BY Zenon DEF SortedByKey, Upto
<1> DEFINE S == SortedByKey(cs)
<1>8. ASSUME NEW n \in DOMAIN cs PROVE \E j \in DOMAIN cs : S[n] = cs[j]
  <2>1. \E j \in DOMAIN cs : Cardinality(Upto(cs, j)) = n
    BY <1>0, <1>6, Zenon
  <2>2. (CHOOSE j \in DOMAIN cs : Cardinality(Upto(cs, j)) = n) \in DOMAIN cs
    BY <2>1, Zenon
  <2>3. S[n] = cs[CHOOSE j \in DOMAIN cs : Cardinality(Upto(cs, j)) = n]
    BY <1>7, Zenon
  <2> QED BY <2>2, <2>3, Zenon
<1>9. DOMAIN S = DOMAIN cs /\ S = [n \in DOMAIN cs |-> S[n]]
  BY <1>7, Zenon
<1> HIDE DEF S
<1>10. \A n \in 1..m : S[n] \in XChange
  BY <1>0, <1>8
<1>11. S \in Seq(XChange)
  <2>1. S \in [1..m -> XChange]
    BY <1>0, <1>9, <1>10, Zenon
  <2> QED BY <1>0, <2>1
<1> QED BY <1>8, <1>9, <1>11, Zenon DEF S

-----------------------------------------------------------------------------
(* The loop over the sorted changes of a region *)

Touches(s, i, k) == s[i].key = k /\ s[i].op \in {"set", "out"}
Given(ch) == IF ch.op = "set" THEN ch.value ELSE "removed"

\* Of the first n of the changes s the last that touches k makes old new.
Ruled(s, n, k, old, new) ==
    \/ new = old /\ \A i \in 1..n : ~Touches(s, i, k)
    \/ \E i \in 1..n : /\ Touches(s, i, k) /\ new = Given(s[i])
                       /\ \A j \in 1..n : j > i => ~Touches(s, j, k)

LEMMA RuledOnce ==
    ASSUME NEW s, NEW n \in Nat, NEW k, NEW old, NEW new, Ruled(s, n, k, old, new),
           NEW new2, Ruled(s, n, k, old, new2)
    PROVE  new = new2
<1>1. CASE \A i \in 1..n : ~Touches(s, i, k)
  BY <1>1, Zenon DEF Ruled
<1>2. CASE ~\A i \in 1..n : ~Touches(s, i, k)
  <2>1. PICK i \in 1..n : Touches(s, i, k) /\ new = Given(s[i]) /\ \A j \in 1..n : j > i => ~Touches(s, j, k)
    BY <1>2, Zenon DEF Ruled
  <2>2. PICK j \in 1..n : Touches(s, j, k) /\ new2 = Given(s[j]) /\ \A l \in 1..n : l > j => ~Touches(s, l, k)
    BY <1>2, Zenon DEF Ruled
  <2>3. ~(i > j) /\ ~(j > i)
    BY <2>1, <2>2, Zenon
  <2>4. i = j
    BY <2>3
  <2> QED BY <2>1, <2>2, <2>4, Zenon
<1> QED BY <1>1, <1>2, Zenon

ChangeStep(c, ks, ch) == AppliedChange(ks, ch)

ChangedSoFar(c, n, ks) ==
    /\ DOMAIN ks = DOMAIN c[2] /\ ks = [k \in DOMAIN ks |-> ks[k]]
    /\ \A k \in DOMAIN ks : Ruled(c[1], n, k, c[2][k], ks[k])

ChangeLoop == INSTANCE FoldTheory WITH Op <- ChangeStep, Inv <- ChangedSoFar

LEMMA LeastC == ChangeLoop!LeastExists
  BY LeastNumber, Zenon DEF ChangeLoop!LeastExists

LEMMA RegionIsFold ==
    \A cs, kv, c : AppliedRegion(cs, kv) = ChangeLoop!Folded(c, kv, SortedByKey(cs))
  BY Zenon
     DEF AppliedRegion, ChangeStep, FoldLeft, MapThenFoldSet, Max, ChangeLoop!Folded, ChangeLoop!Results,
         ChangeLoop!After, ChangeLoop!Top

LEMMA ChangeOK ==
    ASSUME NEW c, NEW n \in Nat, n # 0, NEW ks, ChangedSoFar(c, n - 1, ks)
    PROVE  ChangedSoFar(c, n, ChangeStep(c, ks, c[1][n]))
<1> DEFINE ch == c[1][n]
           new == AppliedChange(ks, ch)
<1>0. 1..n = (1..(n - 1)) \cup {n} /\ (\A i \in 1..(n - 1) : n > i) /\ ~(n > n) /\ n \in 1..n
  OBVIOUS
<1>1. DOMAIN new = DOMAIN ks /\ new = [k \in DOMAIN new |-> new[k]]
  BY Zenon DEF AppliedChange
<1>2. ASSUME NEW k \in DOMAIN ks PROVE Ruled(c[1], n, k, c[2][k], new[k])
  <2>0. Ruled(c[1], n - 1, k, c[2][k], ks[k])
    BY Zenon DEF ChangedSoFar
  <2>1. CASE Touches(c[1], n, k)
    <3>1. ch.key = k /\ ch.op \in {"set", "out"}
      BY <2>1, Zenon DEF Touches
    <3>2. new[k] = Given(ch)
      BY <3>1, Zenon DEF AppliedChange, Given
    <3>3. \A j \in 1..n : j > n => ~Touches(c[1], j, k)
      OBVIOUS
    <3> HIDE DEF new
    <3> QED BY <1>0, <2>1, <3>2, <3>3, Zenon DEF Ruled
  <2>2. CASE ~Touches(c[1], n, k)
    <3>1. new[k] = ks[k]
      BY <2>2, Zenon DEF AppliedChange, Touches
    <3> HIDE DEF new
    <3> QED BY <1>0, <2>0, <2>2, <3>1, Zenon DEF Ruled
  <2> QED BY <2>1, <2>2, Zenon
<1> HIDE DEF new
<1>3. ChangedSoFar(c, n, new)
  BY <1>1, <1>2, Zenon DEF ChangedSoFar
<1> QED BY <1>3, Zenon DEF ChangeStep, new

LEMMA RegionRight ==
    ASSUME NEW cs \in Seq(XChange), NEW kv, kv = [k \in DOMAIN kv |-> kv[k]]
    PROVE  /\ DOMAIN AppliedRegion(cs, kv) = DOMAIN kv
           /\ AppliedRegion(cs, kv) = [k \in DOMAIN kv |-> AppliedRegion(cs, kv)[k]]
           /\ \A k \in DOMAIN kv : Ruled(SortedByKey(cs), Len(cs), k, kv[k], AppliedRegion(cs, kv)[k])
<1> DEFINE s == SortedByKey(cs)
           c == <<s, kv>>
           n == Len(cs)
<1>0. n \in Nat /\ DOMAIN s = 1..n
  BY SortedElements
<1>1. c[1] = s /\ c[2] = kv
  BY Zenon
<1> HIDE DEF s, c, n
<1>2. ChangedSoFar(c, 0, kv)
  BY <1>1 DEF ChangedSoFar, Ruled
<1>3. \A i \in 1..n : i \in Nat /\ i # 0
  BY <1>0
<1>4. \A i \in 1..n : \A a : ChangedSoFar(c, i - 1, a) => ChangedSoFar(c, i, ChangeStep(c, a, s[i]))
  BY <1>1, <1>3, ChangeOK, Zenon
<1>5. ChangedSoFar(c, n, ChangeLoop!Folded(c, kv, s))
  BY <1>0, <1>2, <1>4, LeastC, ChangeLoop!LoopInvariant, Zenon
<1>6. ChangedSoFar(c, n, AppliedRegion(cs, kv))
  BY <1>5, RegionIsFold, Zenon DEF s
<1> QED BY <1>1, <1>6, Zenon DEF ChangedSoFar, s, n

-----------------------------------------------------------------------------
(* Cross-region intents: the loop over the regions *)

\* A sorted region touches only keys that a set or a transfer out of it names.
DeclaredBy(cs, k) == \E j \in DOMAIN cs : Touches(cs, j, k)

LEMMA RegionDeclared ==
    ASSUME NEW cs \in Seq(XChange), NEW k, NEW old, NEW new, Ruled(SortedByKey(cs), Len(cs), k, old, new),
           new # old
    PROVE  DeclaredBy(cs, k)
<1>1. PICK i \in 1..Len(cs) : Touches(SortedByKey(cs), i, k)
  BY Zenon DEF Ruled
<1>2. DOMAIN cs = 1..Len(cs)
  OBVIOUS
<1>3. PICK j \in DOMAIN cs : SortedByKey(cs)[i] = cs[j]
  BY <1>2, SortedElements, Zenon
<1> QED BY <1>1, <1>3, Zenon DEF DeclaredBy, Touches

LEMMA DeclaredKeys ==
    ASSUME NEW cs, NEW k, DeclaredBy(cs, k) PROVE k \in KeysOf(cs)
  BY Zenon DEF DeclaredBy, Touches, KeysOf

(* The loop over the regions; c = <<changes, order, keys>>. *)

Separate(cs) == \A r, q \in DOMAIN cs : r # q => KeysOf(cs[r]) \cap KeysOf(cs[q]) = {}

RegionStep(c, ks, r) == AppliedRegion(c[1][r], ks)

\* What the first n regions of the order o make of the value old of the key k.
Made(cs, o, n, k, old, new) ==
    /\ new # old => \E i \in 1..n : DeclaredBy(cs[o[i]], k)
    /\ Separate(cs) => \A i \in 1..n : k \in KeysOf(cs[o[i]]) =>
            Ruled(SortedByKey(cs[o[i]]), Len(cs[o[i]]), k, old, new)

RegionsSoFar(c, n, ks) ==
    /\ DOMAIN ks = DOMAIN c[3] /\ ks = [k \in DOMAIN ks |-> ks[k]]
    /\ \A k \in DOMAIN ks : Made(c[1], c[2], n, k, c[3][k], ks[k])

RegionLoop == INSTANCE FoldTheory WITH Op <- RegionStep, Inv <- RegionsSoFar

LEMMA LeastR == RegionLoop!LeastExists
  BY LeastNumber, Zenon DEF RegionLoop!LeastExists

LEMMA AppliedIsFold ==
    \A intent, order, kv, c : c[1] = intent.changes =>
        Applied(intent, order, kv) = RegionLoop!Folded(c, kv, order)
  BY DEF Applied, RegionStep, FoldLeft, MapThenFoldSet, Max, RegionLoop!Folded, RegionLoop!Results,
         RegionLoop!After, RegionLoop!Top

Typed(cs) == IsFiniteSet(DOMAIN cs) /\ \A r \in DOMAIN cs : cs[r] \in Seq(XChange)

\* An order: the regions, each once.
OrderOf(cs, o) ==
    /\ Len(o) \in Nat /\ DOMAIN o = 1..Len(o) /\ \A i \in 1..Len(o) : o[i] \in DOMAIN cs
    /\ \A i, j \in 1..Len(o) : i # j => o[i] # o[j]
    /\ \A r \in DOMAIN cs : \E i \in 1..Len(o) : o[i] = r

LEMMA OrdersAre ==
    ASSUME NEW cs, Typed(cs), NEW o \in Orders(cs) PROVE OrderOf(cs, o)
<1>1. o \in Seq(DOMAIN cs) /\ \A r \in DOMAIN cs : \E i \in DOMAIN o : o[i] = r
  BY OrderIsPermutation, Zenon DEF Orders, Typed
<1>2. \A i, j \in DOMAIN o : i # j => o[i] # o[j]
  BY Zenon DEF Orders, SetToSeqs, IsInjective
<1>3. Len(o) \in Nat /\ DOMAIN o = 1..Len(o) /\ \A i \in 1..Len(o) : o[i] \in DOMAIN cs
  BY <1>1
<1> QED BY <1>1, <1>2, <1>3, Zenon DEF OrderOf

LEMMA MadeOne ==
    ASSUME NEW cs, Typed(cs), NEW o, OrderOf(cs, o), NEW n \in 1..Len(o), NEW k, NEW old, NEW mid, NEW new,
           Made(cs, o, n - 1, k, old, mid), Ruled(SortedByKey(cs[o[n]]), Len(cs[o[n]]), k, mid, new)
    PROVE  Made(cs, o, n, k, old, new)
<1> DEFINE r == o[n]
<1>0. /\ Len(o) \in Nat /\ n \in Nat /\ r \in DOMAIN cs /\ cs[r] \in Seq(XChange)
      /\ \A i \in 1..Len(o) : o[i] \in DOMAIN cs
      /\ \A i \in 1..Len(o) : i # n => o[i] # r
  BY DEF OrderOf, Typed
<1>1. 1..n = (1..(n - 1)) \cup {n} /\ n \in 1..n /\ \A i \in 1..(n - 1) : i # n /\ i \in 1..Len(o)
  BY <1>0
<1>2. new # mid => DeclaredBy(cs[r], k)
  BY <1>0, RegionDeclared, Zenon
<1>3. new # old => \E i \in 1..n : DeclaredBy(cs[o[i]], k)
  BY <1>1, <1>2, Zenon DEF Made
<1>4. ASSUME Separate(cs), NEW i \in 1..n, k \in KeysOf(cs[o[i]])
      PROVE  Ruled(SortedByKey(cs[o[i]]), Len(cs[o[i]]), k, old, new)
  <2>1. \A j \in 1..n : j # i => k \notin KeysOf(cs[o[j]])
    <3>1. \A j \in 1..n : j \in 1..Len(o) /\ o[j] \in DOMAIN cs
      BY <1>0, <1>1, Zenon
    <3>2. \A j \in 1..n : j # i => o[j] # o[i]
      BY <1>4, <3>1, Zenon DEF OrderOf
    <3> QED BY <1>4, <3>1, <3>2, Zenon DEF Separate
  <2>2. CASE i = n
    <3>1. \A j \in 1..(n - 1) : ~DeclaredBy(cs[o[j]], k)
      BY <1>1, <2>1, <2>2, DeclaredKeys, Zenon
    <3>2. mid = old
      BY <3>1, Zenon DEF Made
    <3> QED BY <2>2, <3>2, Zenon
  <2>3. CASE i # n
    <3>1. ~DeclaredBy(cs[r], k)
      BY <1>1, <2>1, <2>3, DeclaredKeys, Zenon
    <3>2. new = mid /\ i \in 1..(n - 1)
      BY <1>1, <1>2, <2>3, <3>1, Zenon
    <3> QED BY <1>4, <3>2, Zenon DEF Made
  <2> QED BY <2>2, <2>3, Zenon
<1> QED BY <1>3, <1>4, Zenon DEF Made

LEMMA RegionStepOK ==
    ASSUME NEW c, Typed(c[1]), OrderOf(c[1], c[2]), NEW n \in 1..Len(c[2]), NEW ks, RegionsSoFar(c, n - 1, ks)
    PROVE  RegionsSoFar(c, n, RegionStep(c, ks, c[2][n]))
<1> DEFINE cs == c[1]
           o == c[2]
           new == AppliedRegion(cs[o[n]], ks)
<1>1. cs[o[n]] \in Seq(XChange) /\ ks = [k \in DOMAIN ks |-> ks[k]]
  BY Zenon DEF OrderOf, Typed, RegionsSoFar
<1>2. /\ DOMAIN new = DOMAIN ks /\ new = [k \in DOMAIN ks |-> new[k]]
      /\ \A k \in DOMAIN ks : Ruled(SortedByKey(cs[o[n]]), Len(cs[o[n]]), k, ks[k], new[k])
  <2> HIDE DEF cs, o
  <2> QED BY <1>1, RegionRight, Zenon
<1>3. ASSUME NEW k \in DOMAIN ks PROVE Made(cs, o, n, k, c[3][k], new[k])
  <2> HIDE DEF new
  <2> QED BY <1>2, MadeOne, Zenon DEF RegionsSoFar
<1>4. RegionsSoFar(c, n, new)
  <2> HIDE DEF new
  <2> QED BY <1>2, <1>3, Zenon DEF RegionsSoFar
<1> QED BY <1>4, Zenon DEF RegionStep

LEMMA AppliedRight ==
    ASSUME NEW intent, Typed(intent.changes), NEW o \in Orders(intent.changes), NEW kv,
           kv = [k \in DOMAIN kv |-> kv[k]]
    PROVE  /\ Applied(intent, o, kv) = [k \in DOMAIN kv |-> Applied(intent, o, kv)[k]]
           /\ \A k \in DOMAIN kv : Made(intent.changes, o, Len(o), k, kv[k], Applied(intent, o, kv)[k])
<1> DEFINE cs == intent.changes
           c == <<cs, o, kv>>
           n == Len(o)
<1>0. OrderOf(cs, o)
  BY OrdersAre, Zenon
<1>1. n \in Nat /\ DOMAIN o = 1..n
  BY <1>0, Zenon DEF OrderOf
<1>2. c[1] = cs /\ c[2] = o /\ c[3] = kv
  BY Zenon
<1> HIDE DEF c, n
<1>3. RegionsSoFar(c, 0, kv)
  BY <1>2 DEF RegionsSoFar, Made
<1>4. \A i \in 1..n : \A a : RegionsSoFar(c, i - 1, a) => RegionsSoFar(c, i, RegionStep(c, a, o[i]))
  BY <1>0, <1>2, RegionStepOK, Zenon DEF n
<1>5. RegionsSoFar(c, n, RegionLoop!Folded(c, kv, o))
  BY <1>1, <1>3, <1>4, LeastR, RegionLoop!LoopInvariant, Zenon
<1>6. Applied(intent, o, kv) = RegionLoop!Folded(c, kv, o)
  BY <1>2, AppliedIsFold
<1>7. RegionsSoFar(c, n, Applied(intent, o, kv))
  BY <1>5, <1>6, Zenon
<1> QED BY <1>2, <1>7, Zenon DEF RegionsSoFar, n

\* Where no two regions share a key, every order of them comes to the same.
LEMMA OrdersAgree ==
    ASSUME NEW intent, Typed(intent.changes), Separate(intent.changes), NEW kv,
           kv = [k \in DOMAIN kv |-> kv[k]],
           NEW o1 \in Orders(intent.changes), NEW o2 \in Orders(intent.changes)
    PROVE  Applied(intent, o1, kv) = Applied(intent, o2, kv)
<1> DEFINE cs == intent.changes
           a == Applied(intent, o1, kv)
           b == Applied(intent, o2, kv)
<1>1. a = [k \in DOMAIN kv |-> a[k]] /\ \A k \in DOMAIN kv : Made(cs, o1, Len(o1), k, kv[k], a[k])
  BY AppliedRight, Zenon
<1>2. b = [k \in DOMAIN kv |-> b[k]] /\ \A k \in DOMAIN kv : Made(cs, o2, Len(o2), k, kv[k], b[k])
  BY AppliedRight, Zenon
<1>3. OrderOf(cs, o1) /\ OrderOf(cs, o2)
  BY OrdersAre, Zenon
<1> HIDE DEF a, b
<1>4. ASSUME NEW k \in DOMAIN kv PROVE a[k] = b[k]
  <2>1. CASE \E r \in DOMAIN cs : k \in KeysOf(cs[r])
    <3>1. PICK r \in DOMAIN cs : k \in KeysOf(cs[r])
      BY <2>1, Zenon
    <3>2. PICK i \in 1..Len(o1) : o1[i] = r
      BY <1>3, Zenon DEF OrderOf
    <3>3. PICK j \in 1..Len(o2) : o2[j] = r
      BY <1>3, Zenon DEF OrderOf
    <3>4. Ruled(SortedByKey(cs[r]), Len(cs[r]), k, kv[k], a[k])
      BY <1>1, <3>1, <3>2, Zenon DEF Made
    <3>5. Ruled(SortedByKey(cs[r]), Len(cs[r]), k, kv[k], b[k])
      BY <1>2, <3>1, <3>3, Zenon DEF Made
    <3>6. Len(cs[r]) \in Nat
      BY DEF Typed
    <3> QED BY <3>4, <3>5, <3>6, RuledOnce, Zenon
  <2>2. CASE ~\E r \in DOMAIN cs : k \in KeysOf(cs[r])
    <3>1. \A r \in DOMAIN cs : ~DeclaredBy(cs[r], k)
      BY <2>2, DeclaredKeys, Zenon
    <3>2. a[k] = kv[k]
      BY <1>1, <1>3, <3>1, Zenon DEF Made, OrderOf
    <3>3. b[k] = kv[k]
      BY <1>2, <1>3, <3>1, Zenon DEF Made, OrderOf
    <3> QED BY <3>2, <3>3, Zenon
  <2> QED BY <2>1, <2>2, Zenon
<1>5. a = b
  BY <1>1, <1>2, <1>4, Zenon
<1> QED BY <1>5, Zenon DEF a, b

-----------------------------------------------------------------------------
(* The ranges that must be proved *)

LEMMA KeysFinite ==
    ASSUME NEW cs \in Seq(XChange) PROVE KeysOf(cs) \subseteq Nat /\ IsFiniteSet(KeysOf(cs))
<1>1. KeysOf(cs) \subseteq Nat
  BY ChangeKeys, Zenon DEF KeysOf
<1> DEFINE f == [i \in DOMAIN cs |-> cs[i].key]
<1>2. f \in Surjection(DOMAIN cs, KeysOf(cs))
  BY Zenon DEF Surjection, KeysOf
<1>3. IsFiniteSet(DOMAIN cs)
  <2>1. DOMAIN cs = 1..Len(cs) /\ Len(cs) \in Nat
    BY ChangeKeys, Zenon
  <2>2. IsFiniteSet(1..Len(cs))
    BY <2>1, FS_Interval
  <2> QED BY <2>1, <2>2, Zenon
<1> HIDE DEF f
<1>4. IsFiniteSet(KeysOf(cs))
  BY <1>2, <1>3, FS_Surjection, Zenon
<1> QED BY <1>1, <1>4, Zenon

Group(cs, p) == {k \in KeysOf(cs) : Prefix(k) = p}

\* A range of the grouping starts and ends at keys with one prefix.
LEMMA GroupRange ==
    ASSUME NEW cs \in Seq(XChange), NEW g \in groupChangesByPrefix(cs)
    PROVE  g.start \in KeysOf(cs) /\ g.end \in KeysOf(cs) /\ Prefix(g.start) = Prefix(g.end)
<1>1. PICK k \in KeysOf(cs) : g = [start |-> Min(Group(cs, Prefix(k))), end |-> Max(Group(cs, Prefix(k)))]
  BY Zenon DEF groupChangesByPrefix, Group
<1> DEFINE ks == Group(cs, Prefix(k))
<1>2. ks \subseteq KeysOf(cs) /\ k \in ks /\ \A l \in ks : Prefix(l) = Prefix(k)
  BY Zenon DEF Group
<1>3. IsFiniteSet(ks) /\ ks \subseteq Nat /\ ks # {}
  BY <1>2, KeysFinite, FS_Subset, Zenon
<1>4. g.start = Min(ks) /\ g.end = Max(ks)
  BY <1>1, Zenon
<1> HIDE DEF ks
<1>5. Min(ks) \in ks /\ Max(ks) \in ks
  BY <1>3, LeastIs, GreatestIs, Zenon
<1> QED BY <1>2, <1>4, <1>5, Zenon

LEMMA PrefixBetween ==
    ASSUME NEW a \in Nat, NEW b \in Nat, NEW k \in Nat, a <= k, k <= b, Prefix(a) = Prefix(b)
    PROVE  Prefix(k) = Prefix(a)
  BY DEF Prefix

\* The changes of a region that are all in the proof kept for it are stored and
\* have one prefix.
LEMMA CoveredRegion ==
    ASSUME NEW intent, NEW stored, Covered(intent, stored), NEW r \in DOMAIN intent.changes,
           intent.changes[r] \in Seq(XChange)
    PROVE  /\ KeysOf(intent.changes[r]) \subseteq stored
           /\ \A k, l \in KeysOf(intent.changes[r]) : Prefix(k) = Prefix(l)
<1> DEFINE cs == intent.changes[r]
           ranges == {g \in getRequiredRanges(intent) : g.region = r}
           last == CHOOSE g \in ranges : \A h \in ranges : h.start <= g.start
<1>1. ranges # {} => KeysOf(cs) \subseteq RequestRangeProof(last, stored)
  BY Zenon DEF Covered
<1>2. ASSUME NEW g \in ranges
      PROVE  g.start \in KeysOf(cs) /\ g.end \in KeysOf(cs) /\ Prefix(g.start) = Prefix(g.end)
  <2>0. PICK q \in DOMAIN intent.changes : \E h \in groupChangesByPrefix(intent.changes[q]) :
            g = [region |-> q, start |-> h.start, end |-> h.end]
    BY Zenon DEF getRequiredRanges
  <2>1. PICK h \in groupChangesByPrefix(intent.changes[q]) :
            g = [region |-> q, start |-> h.start, end |-> h.end]
    BY <2>0, Zenon
  <2>2. q = r /\ g.start = h.start /\ g.end = h.end
    BY <2>1, Zenon
  <2> QED BY <2>2, GroupRange, Zenon
<1>3. ASSUME NEW k \in KeysOf(cs) PROVE ranges # {}
  <2> DEFINE h == [start |-> Min(Group(cs, Prefix(k))), end |-> Max(Group(cs, Prefix(k)))]
             g == [region |-> r, start |-> h.start, end |-> h.end]
  <2>1. h \in groupChangesByPrefix(cs)
    BY Zenon DEF groupChangesByPrefix, Group
  <2> HIDE DEF h
  <2>2. g \in getRequiredRanges(intent) /\ g.region = r
    BY <2>1 DEF getRequiredRanges
  <2> HIDE DEF g
  <2> QED BY <2>2, Zenon
<1>4. ASSUME NEW k \in KeysOf(cs) PROVE k \in stored /\ Prefix(k) = Prefix(last.start)
  <2> DEFINE starts == {g.start : g \in ranges}
  <2>1. KeysOf(cs) \subseteq Nat /\ IsFiniteSet(KeysOf(cs))
    BY KeysFinite, Zenon
  <2>2. starts # {} /\ starts \subseteq KeysOf(cs)
    <3> HIDE DEF ranges
    <3> QED BY <1>2, <1>3, <1>4, Zenon
  <2>3. starts \subseteq Nat /\ IsFiniteSet(starts)
    <3> HIDE DEF starts
    <3> QED BY <2>1, <2>2, FS_Subset, Zenon
  <2>4. PICK top \in starts : \A y \in starts : y <= top
    <3> HIDE DEF starts
    <3> QED BY <2>2, <2>3, GreatestNumber, Zenon
  <2>5. PICK g \in ranges : g.start = top
    BY <2>4, Zenon
  <2>6. \A h \in ranges : h.start <= g.start
    BY <2>4, <2>5, Zenon
  <2> HIDE DEF ranges
  <2>7. last \in ranges
    BY <2>5, <2>6, Zenon
  <2>8. k \in stored /\ last.start <= k /\ k <= last.end
    BY <1>1, <2>7, Zenon DEF RequestRangeProof
  <2>9. last.start \in Nat /\ last.end \in Nat /\ k \in Nat /\ Prefix(last.start) = Prefix(last.end)
    BY <1>2, <2>1, <2>7, Zenon
  <2> HIDE DEF last
  <2> QED BY <2>8, <2>9, PrefixBetween, Zenon
<1> HIDE DEF last, ranges
<1> QED BY <1>4, Zenon

-----------------------------------------------------------------------------
(* Cross-region intents: the order of the regions *)

Blocks(cs, o) ==
    [i \in DOMAIN o |-> [j \in DOMAIN cs[o[i]] |-> [region |-> o[i], change |-> cs[o[i]][j]]]]

LEMMA BlockIs ==
    ASSUME NEW cs, Typed(cs), NEW o \in Seq(DOMAIN cs), NEW i \in DOMAIN o
    PROVE  /\ Blocks(cs, o)[i] \in Seq([region : DOMAIN cs, change : XChange])
           /\ Len(Blocks(cs, o)[i]) = Len(cs[o[i]])
<1>1. o[i] \in DOMAIN cs /\ cs[o[i]] \in Seq(XChange)
  BY DEF Typed
<1>2. DOMAIN cs[o[i]] = 1..Len(cs[o[i]]) /\ Len(cs[o[i]]) \in Nat /\ \A j \in DOMAIN cs[o[i]] : cs[o[i]][j] \in XChange
  BY <1>1
<1> DEFINE n == Len(cs[o[i]])
           b == [j \in 1..n |-> [region |-> o[i], change |-> cs[o[i]][j]]]
           S == [region : DOMAIN cs, change : XChange]
<1>3. Blocks(cs, o)[i] = b
  BY <1>2, Zenon DEF Blocks
<1>4. b \in [1..n -> S] /\ n \in Nat
  BY <1>1, <1>2, Zenon
<1> HIDE DEF b, n, S
<1>5. b \in Seq(S) /\ Len(b) = n
  BY <1>4
<1> QED BY <1>3, <1>5, Zenon DEF n, S

LEMMA BlocksType ==
    ASSUME NEW cs, Typed(cs), NEW o \in Seq(DOMAIN cs)
    PROVE  /\ Blocks(cs, o) \in Seq(Seq([region : DOMAIN cs, change : XChange]))
           /\ Len(Blocks(cs, o)) = Len(o)
<1> DEFINE S == Seq([region : DOMAIN cs, change : XChange])
           b == Blocks(cs, o)
           n == Len(o)
<1>1. n \in Nat /\ DOMAIN o = 1..n
  OBVIOUS
<1>2. \A i \in 1..n : b[i] \in S
  BY <1>1, BlockIs, Zenon
<1>3. b = [i \in 1..n |-> b[i]]
  BY <1>1, Zenon DEF Blocks
<1> HIDE DEF b, S, n
<1>4. b \in [1..n -> S]
  BY <1>2, <1>3, Zenon
<1>5. b \in Seq(S) /\ Len(b) = n
  BY <1>1, <1>4
<1> QED BY <1>5, Zenon DEF b, S, n

\* The changes ranged over are those of the regions, the first region's first.
LEMMA RangedIs ==
    ASSUME NEW cs, Typed(cs), NEW o \in Seq(DOMAIN cs), o # <<>>
    PROVE  /\ Len(Ranged(cs, o)) \in Nat /\ DOMAIN Ranged(cs, o) = 1..Len(Ranged(cs, o))
           /\ \A n \in DOMAIN Ranged(cs, o) : \E i \in DOMAIN o : \E j \in DOMAIN cs[o[i]] :
                Ranged(cs, o)[n] = [region |-> o[i], change |-> cs[o[i]][j]]
           /\ \A i \in DOMAIN o : \A j \in DOMAIN cs[o[i]] : \E n \in DOMAIN Ranged(cs, o) :
                Ranged(cs, o)[n] = [region |-> o[i], change |-> cs[o[i]][j]]
           /\ \A j \in DOMAIN cs[o[1]] :
                j \in DOMAIN Ranged(cs, o) /\ Ranged(cs, o)[j] = [region |-> o[1], change |-> cs[o[1]][j]]
<1> DEFINE S == [region : DOMAIN cs, change : XChange]
           b == Blocks(cs, o)
           q == Ranged(cs, o)
<1>1. q = FlattenSeq(b)
  BY Zenon DEF Ranged, Blocks
<1>2. b \in Seq(Seq(S)) /\ Len(b) = Len(o)
  BY BlocksType, Zenon
<1>3. Len(o) \in Nat /\ Len(o) # 0 /\ DOMAIN o = 1..Len(o)
  OBVIOUS
<1>4. ASSUME NEW i \in DOMAIN o
      PROVE  /\ DOMAIN cs[o[i]] = 1..Len(b[i])
             /\ \A j \in 1..Len(b[i]) : b[i][j] = [region |-> o[i], change |-> cs[o[i]][j]]
  <2>1. Len(b[i]) = Len(cs[o[i]])
    BY BlockIs, Zenon
  <2>2. DOMAIN cs[o[i]] = 1..Len(cs[o[i]])
    BY DEF Typed
  <2>3. \A j \in DOMAIN cs[o[i]] : b[i][j] = [region |-> o[i], change |-> cs[o[i]][j]]
    BY Zenon DEF Blocks
  <2> HIDE DEF b
  <2> QED BY <2>1, <2>2, <2>3, Zenon
<1> HIDE DEF S, b, q
<1>5. b # <<>>
  BY <1>2, <1>3, Zenon
<1>6. q \in Seq(S) /\ JoinedTo(b, Len(b), q)
  BY <1>1, <1>2, <1>5, FlattenElements, Zenon
<1>7. Len(q) \in Nat /\ DOMAIN q = 1..Len(q)
  BY <1>6
<1>11. 1..Len(b) = DOMAIN o
  BY <1>2, <1>3, Zenon
<1>8. ASSUME NEW n \in DOMAIN q
      PROVE  \E i \in DOMAIN o : \E j \in DOMAIN cs[o[i]] : q[n] = [region |-> o[i], change |-> cs[o[i]][j]]
  <2>1. PICK i \in DOMAIN o : \E j \in 1..Len(b[i]) : q[n] = b[i][j]
    BY <1>6, <1>7, <1>11 DEF JoinedTo
  <2>2. PICK j \in 1..Len(b[i]) : q[n] = b[i][j]
    BY <2>1, Zenon
  <2>3. j \in DOMAIN cs[o[i]] /\ q[n] = [region |-> o[i], change |-> cs[o[i]][j]]
    BY <1>4, <2>2, Zenon
  <2> QED BY <2>3, Zenon
<1>9. ASSUME NEW i \in DOMAIN o, NEW j \in DOMAIN cs[o[i]]
      PROVE  \E n \in DOMAIN q : q[n] = [region |-> o[i], change |-> cs[o[i]][j]]
  <2>1. j \in 1..Len(b[i]) /\ b[i][j] = [region |-> o[i], change |-> cs[o[i]][j]]
    BY <1>4, Zenon
  <2>3. \A k \in 1..Len(b) : \A l \in 1..Len(b[k]) : \E n \in 1..Len(q) : q[n] = b[k][l]
    BY <1>6, Zenon DEF JoinedTo
  <2>4. i \in 1..Len(b)
    BY <1>11, Zenon
  <2>2. PICK n \in DOMAIN q : q[n] = b[i][j]
    BY <1>7, <2>1, <2>3, <2>4, Zenon
  <2> QED BY <2>1, <2>2, Zenon
<1>10. \A j \in DOMAIN cs[o[1]] : j \in DOMAIN q /\ q[j] = [region |-> o[1], change |-> cs[o[1]][j]]
  <2>1. 1 \in DOMAIN o
    BY <1>3
  <2>2. \A j \in 1..Len(b[1]) : j \in DOMAIN q /\ q[j] = b[1][j]
    BY <1>6, <1>7, Zenon DEF JoinedTo
  <2> QED BY <1>4, <2>1, <2>2, Zenon
<1> QED BY <1>7, <1>8, <1>9, <1>10, Zenon DEF q

\* Without transfers in, all that is asked is a target for every transfer out.
OutsHaveTargets(cs) ==
    \A r \in DOMAIN cs : \A j \in DOMAIN cs[r] : cs[r][j].op = "out" => cs[r][j].target # NoRegion

LEMMA ValidWithoutIn ==
    ASSUME NEW cs, Typed(cs), NEW o \in Seq(DOMAIN cs), o # <<>>,
           \A r \in DOMAIN cs : \E i \in DOMAIN o : o[i] = r,
           \A r \in DOMAIN cs : \A j \in DOMAIN cs[r] : cs[r][j].op # "in"
    PROVE  ValidateStateChanges(cs, o) = OutsHaveTargets(cs)
<1> DEFINE q == Ranged(cs, o)
<1>1. \A i \in DOMAIN o : o[i] \in DOMAIN cs
  OBVIOUS
<1>2. \A n \in DOMAIN q : \E r \in DOMAIN cs : \E j \in DOMAIN cs[r] : q[n].change = cs[r][j]
  <2>1. \A n \in DOMAIN q : \E i \in DOMAIN o : \E j \in DOMAIN cs[o[i]] :
            q[n] = [region |-> o[i], change |-> cs[o[i]][j]]
    BY RangedIs
  <2> HIDE DEF q
  <2> QED BY <1>1, <2>1
<1>3. \A r \in DOMAIN cs : \A j \in DOMAIN cs[r] : \E n \in DOMAIN q : q[n].change = cs[r][j]
  <2>1. \A i \in DOMAIN o : \A j \in DOMAIN cs[o[i]] : \E n \in DOMAIN q :
            q[n] = [region |-> o[i], change |-> cs[o[i]][j]]
    BY RangedIs
  <2> HIDE DEF q
  <2>2. \A i \in DOMAIN o : \A j \in DOMAIN cs[o[i]] : \E n \in DOMAIN q : q[n].change = cs[o[i]][j]
    BY <2>1
  <2> QED BY <2>2
<1>4. ValidateStateChanges(cs, o) <=> \A n \in DOMAIN q : q[n].change.op = "out" => q[n].change.target # NoRegion
  <2>1. \A n \in DOMAIN q : q[n].change.op # "in"
    BY <1>2
  <2> QED BY <2>1, Zenon DEF ValidateStateChanges
<1> HIDE DEF q
<1>5. ASSUME OutsHaveTargets(cs), NEW n \in DOMAIN q, q[n].change.op = "out"
      PROVE  q[n].change.target # NoRegion
  BY <1>2, <1>5 DEF OutsHaveTargets
<1>6. ASSUME \A n \in DOMAIN q : q[n].change.op = "out" => q[n].change.target # NoRegion
      PROVE  OutsHaveTargets(cs)
  BY <1>3, <1>6 DEF OutsHaveTargets
<1>7. ValidateStateChanges(cs, o) <=> OutsHaveTargets(cs)
  BY <1>4, <1>5, <1>6, Zenon
<1>8. ValidateStateChanges(cs, o) \in BOOLEAN /\ OutsHaveTargets(cs) \in BOOLEAN
  BY Zenon DEF ValidateStateChanges, OutsHaveTargets
<1> QED BY <1>7, <1>8

LEMMA OrdersValidateAlike ==
    ASSUME NEW cs, Typed(cs), \A r \in DOMAIN cs : ~\E ch \in Range(cs[r]) : ch.op = "in",
           NEW o1 \in Orders(cs), NEW o2 \in Orders(cs)
    PROVE  ValidateStateChanges(cs, o1) = ValidateStateChanges(cs, o2)
<1>1. /\ o1 \in Seq(DOMAIN cs) /\ \A r \in DOMAIN cs : \E i \in DOMAIN o1 : o1[i] = r
      /\ o2 \in Seq(DOMAIN cs) /\ \A r \in DOMAIN cs : \E i \in DOMAIN o2 : o2[i] = r
  BY OrderIsPermutation DEF Orders, Typed
<1>2. \A r \in DOMAIN cs : \A j \in DOMAIN cs[r] : cs[r][j].op # "in"
  BY Zenon DEF Range
<1>3. CASE DOMAIN cs = {}
  <2>1. o1 = <<>> /\ o2 = <<>>
    BY <1>1, <1>3
  <2> QED BY <2>1, Zenon
<1>4. CASE DOMAIN cs # {}
  <2>1. DOMAIN o1 # {} /\ DOMAIN o2 # {}
    BY <1>1, <1>4, Zenon
  <2>2. o1 # <<>> /\ o2 # <<>>
    BY <1>1, <2>1
  <2>3. ValidateStateChanges(cs, o1) = OutsHaveTargets(cs)
    BY <1>1, <1>2, <2>2, ValidWithoutIn, Zenon
  <2>4. ValidateStateChanges(cs, o2) = OutsHaveTargets(cs)
    BY <1>1, <1>2, <2>2, ValidWithoutIn, Zenon
  <2> QED BY <2>3, <2>4, Zenon
<1> QED BY <1>3, <1>4, Zenon

\* A transfer into the region that comes first has nothing to follow.
LEMMA FirstRegionInvalid ==
    ASSUME NEW cs, Typed(cs), NEW r \in DOMAIN cs, \E ch \in Range(cs[r]) : ch.op = "in",
           \A ch \in Range(cs[r]) : ch.op # "out"
    PROVE  ~ValidateStateChanges(cs, <<r>> \o SetToSeq(DOMAIN cs \ {r}))
<1> DEFINE rest == SetToSeq(DOMAIN cs \ {r})
           o == <<r>> \o rest
           q == Ranged(cs, o)
<1>1. rest \in Seq(DOMAIN cs)
  <2>1. IsFiniteSet(DOMAIN cs \ {r})
    BY FS_Difference, Zenon DEF Typed
  <2>2. rest \in Seq(DOMAIN cs \ {r})
    BY <2>1, SetToSeqType, Zenon
  <2> HIDE DEF rest
  <2> QED BY <2>2
<1> HIDE DEF rest
<1>2. o \in Seq(DOMAIN cs) /\ Len(o) = 1 + Len(rest) /\ o[1] = r
  BY <1>1
<1>3. o # <<>>
  BY <1>1, <1>2
<1> HIDE DEF o
<1>4. \A j \in DOMAIN cs[r] : j \in DOMAIN q /\ q[j].change = cs[r][j]
  <2>1. \A j \in DOMAIN cs[o[1]] : j \in DOMAIN q /\ q[j] = [region |-> o[1], change |-> cs[o[1]][j]]
    BY <1>2, <1>3, RangedIs
  <2> HIDE DEF q
  <2>2. ASSUME NEW j \in DOMAIN cs[r] PROVE j \in DOMAIN q /\ q[j].change = cs[r][j]
    <3>1. j \in DOMAIN q /\ q[j] = [region |-> o[1], change |-> cs[o[1]][j]]
      BY <1>2, <2>1, Zenon
    <3>2. q[j].change = cs[o[1]][j]
      BY <3>1
    <3> QED BY <1>2, <3>1, <3>2, Zenon
  <2> QED BY <2>2, Zenon
<1>5. PICK i \in DOMAIN cs[r] : cs[r][i].op = "in"
  BY Zenon DEF Range
<1>6. DOMAIN cs[r] = 1..Len(cs[r]) /\ Len(cs[r]) \in Nat
  BY DEF Typed
<1>7. \A j \in 1..(i - 1) : q[j].change.op # "out"
  <2>1. \A j \in 1..(i - 1) : j \in DOMAIN cs[r]
    BY <1>5, <1>6
  <2>2. \A j \in DOMAIN cs[r] : cs[r][j].op # "out"
    BY Zenon DEF Range
  <2> HIDE DEF q
  <2> QED BY <1>4, <2>1, <2>2, Zenon
<1>8. i \in DOMAIN q /\ q[i].change.op = "in"
  BY <1>4, <1>5, Zenon
<1>9. {j \in 1..(i - 1) : q[j].change.op = "out" /\ q[j].change.key = q[i].change.key} = {}
  <2> HIDE DEF q
  <2> QED BY <1>7, Zenon
<1>10. ~ValidateStateChanges(cs, o)
  BY <1>8, <1>9, Zenon DEF ValidateStateChanges
<1> QED BY <1>10, Zenon DEF o, rest

-----------------------------------------------------------------------------
InputInv == input \in XInputs /\ chainKeys = [k \in DOMAIN chainKeys |-> chainKeys[k]]

LEMMA InputTyped == ASSUME InputInv PROVE Typed(input.intent.changes)
  BY XAssumption, Zenon DEF InputInv, Typed

LEMMA OrderMatters == ASSUME InputInv PROVE TransferNeedsOrder /\ OrderShowsOnSharedKeys
<1> DEFINE cs == input.intent.changes
<1>1. Typed(cs)
  BY InputTyped, Zenon
<1>2. OrderShowsOnSharedKeys
  BY <1>1, OrdersAgree, Zenon DEF InputInv, OrderShowsOnSharedKeys, Separate
<1>3. TransferNeedsOrder
  BY <1>1, OrdersValidateAlike, FirstRegionInvalid, Zenon DEF TransferNeedsOrder
<1> QED BY <1>2, <1>3, Zenon

LEMMA DeclaredStateKey ==
    ASSUME NEW intent, NEW r \in DOMAIN intent.changes, NEW k, DeclaredBy(intent.changes[r], k)
    PROVE  k \in StateKeys(intent)
<1>1. PICK j \in DOMAIN intent.changes[r] : intent.changes[r][j].key = k /\ intent.changes[r][j].op \in {"set", "out"}
  BY Zenon DEF DeclaredBy, Touches
<1>2. intent.changes[r][j] \in {x \in Range(intent.changes[r]) : x.op \in {"set", "out"}}
  BY <1>1, Zenon DEF Range
<1>3. k \in {ch.key : ch \in {x \in Range(intent.changes[r]) : x.op \in {"set", "out"}}}
  BY <1>1, <1>2, Zenon
<1> QED BY <1>3, Zenon DEF StateKeys

LEMMA ExecutionDeclared == ASSUME InputInv PROVE ChangesDeclared
<1> DEFINE cs == input.intent.changes
<1> SUFFICES ASSUME NEW order \in Orders(cs)
             PROVE  LET done == ExecuteWith(input.intent, order, input.stored, chainKeys)
                    IN  /\ {k \in DOMAIN chainKeys : done.keys[k] # chainKeys[k]}
                                \subseteq StateKeys(input.intent) \cap input.stored
                        /\ done.outcome = "ok" => \A r \in DOMAIN cs : \A k, l \in KeysOf(cs[r]) : Prefix(k) = Prefix(l)
  BY Zenon DEF ChangesDeclared
<1> DEFINE done == ExecuteWith(input.intent, order, input.stored, chainKeys)
<1>1. Typed(cs)
  BY InputTyped, Zenon
<1>2. CASE Covered(input.intent, input.stored) /\ done.keys = Applied(input.intent, order, chainKeys)
  <2>1. \A r \in DOMAIN cs : KeysOf(cs[r]) \subseteq input.stored /\ \A k, l \in KeysOf(cs[r]) : Prefix(k) = Prefix(l)
    BY <1>1, <1>2, CoveredRegion, Zenon DEF Typed
  <2>2. \A k \in DOMAIN chainKeys : Made(cs, order, Len(order), k, chainKeys[k], done.keys[k])
    BY <1>1, <1>2, AppliedRight DEF InputInv
  <2>3. OrderOf(cs, order)
    BY <1>1, OrdersAre, Zenon
  <2>4. ASSUME NEW k \in DOMAIN chainKeys, done.keys[k] # chainKeys[k]
        PROVE  k \in StateKeys(input.intent) \cap input.stored
    <3> HIDE DEF done
    <3>1. PICK i \in 1..Len(order) : DeclaredBy(cs[order[i]], k)
      BY <2>2, <2>4, Zenon DEF Made
    <3>2. order[i] \in DOMAIN cs
      BY <2>3, Zenon DEF OrderOf
    <3>3. k \in StateKeys(input.intent)
      BY <3>1, <3>2, DeclaredStateKey, Zenon
    <3>4. k \in KeysOf(cs[order[i]])
      BY <3>1, DeclaredKeys, Zenon
    <3> QED BY <2>1, <3>2, <3>3, <3>4, Zenon
  <2> HIDE DEF done
  <2>5. {k \in DOMAIN chainKeys : done.keys[k] # chainKeys[k]} \subseteq StateKeys(input.intent) \cap input.stored
    BY <2>4, Zenon
  <2> QED BY <2>1, <2>5, Zenon DEF done
<1>3. CASE done.outcome # "ok" /\ done.keys = chainKeys
  <2> HIDE DEF done
  <2>1. {k \in DOMAIN chainKeys : done.keys[k] # chainKeys[k]} = {}
    BY <1>3, Zenon
  <2> QED BY <1>3, <2>1, Zenon DEF done
<1>4. \/ Covered(input.intent, input.stored) /\ done.keys = Applied(input.intent, order, chainKeys)
      \/ done.outcome # "ok" /\ done.keys = chainKeys
  BY Zenon DEF ExecuteWith
<1> QED BY <1>2, <1>3, <1>4, Zenon

LEMMA InputFirst == XInit => InputInv
  BY Zenon DEF XInit, InputInv

LEMMA InputKept == InputInv /\ [ExecuteNext \/ ProcessNext]_xVars => InputInv'
<1> SUFFICES ASSUME InputInv, [ExecuteNext \/ ProcessNext]_xVars PROVE InputInv'
  BY Zenon
<1>1. CASE ExecuteNext
  BY <1>1, Zenon DEF ExecuteNext, Execute, CoordinatorMade, InputInv
<1>2. CASE ProcessNext
  BY <1>2, Zenon
     DEF ProcessNext, ProcessRegions, StartRegion, AcquireFails, Wait, CancelCaller, Confirm, Release,
         Report,
              Unprocessed, InputInv
<1>3. CASE UNCHANGED xVars
  BY <1>3, Zenon DEF xVars, InputInv
<1> QED BY <1>1, <1>2, <1>3, Zenon

\* For any intents, regions and limit: no cross-region action is applied and one
\* that sets a key does not decode; if the coordinator could be made, Execute
\* would change declared keys of its store only, and the order of Go's map would
\* show where transfers and shared keys make it; and ProcessRegions keeps its
\* limit and returns without an error only when every region was confirmed.
THEOREM IntentsAlwaysJustified == XSpec => []IntentsJustified
<1>1. XInit => XInv /\ InputInv
  BY XInvFirst, InputFirst, Zenon
<1>2. (XInv /\ InputInv) /\ [ExecuteNext \/ ProcessNext]_xVars => (XInv /\ InputInv)'
  BY XInvKept, InputKept, Zenon
<1>3. XInv /\ InputInv => IntentsJustified
  BY XInvConfirms, SetRefused, OrderMatters, ExecutionDeclared, Zenon DEF XInv, IntentsJustified
<1> QED BY <1>1, <1>2, <1>3, PTL DEF XSpec
=============================================================================
