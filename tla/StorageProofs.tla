--------------------------- MODULE StorageProofs ----------------------------
(***************************************************************************)
(* What is kept, for any names, keys, records, regions and readers: what   *)
(* the coordination storages serve, the states of the region manager, and  *)
(* the objects and events that the actions leave.                          *)
(***************************************************************************)
EXTENDS CoordStorage, Regions, ChainObjects, Integers, TLAPS

\* Sequences.
LEMMA SeqEqual ==
    ASSUME NEW S, NEW s \in Seq(S), NEW t \in Seq(S), Len(s) = Len(t), \A i \in 1..Len(s) : s[i] = t[i]
    PROVE  s = t
  OBVIOUS

LEMMA ConcatProperties ==
    ASSUME NEW S, NEW s \in Seq(S), NEW t \in Seq(S)
    PROVE  /\ s \o t \in Seq(S) /\ Len(s \o t) = Len(s) + Len(t)
           /\ \A i \in 1..Len(s) + Len(t) : (s \o t)[i] = IF i <= Len(s) THEN s[i] ELSE t[i - Len(s)]
  OBVIOUS

-----------------------------------------------------------------------------
(* The coordination storages.                                              *)

\* Of two names one is before the other, so a channel's key does not depend on
\* which of its workers is named first.
LEMMA NamesOrdered ==
    ASSUME NEW n \in Names, NEW m \in Names, n # m
    PROVE  Before(n, m) <=> ~Before(m, n)
<1>1. PICK i \in DOMAIN NameOrder : NameOrder[i] = n
  BY Zenon DEF Names
<1>2. PICK j \in DOMAIN NameOrder : NameOrder[j] = m
  BY Zenon DEF Names
<1>3. \A a, b \in DOMAIN NameOrder : NameOrder[a] = NameOrder[b] => a = b
  BY StorageAssumption, Zenon
<1>4. DOMAIN NameOrder \subseteq Int
  BY StorageAssumption
<1>5. Before(n, m) <=> i < j
  BY <1>1, <1>2, <1>3, Zenon DEF Before
<1>6. Before(m, n) <=> j < i
  BY <1>1, <1>2, <1>3, Zenon DEF Before
<1>7. i # j
  BY <1>1, <1>2, Zenon
<1> QED BY <1>4, <1>5, <1>6, <1>7

\* What strings are made of here.
Prefixes == {workerPrefix, regionPrefix, teePrefix, metricsPrefix, channelPrefix}
Parts == STRING \cup Prefixes \cup {":"}

LEMMA LargerSeq == ASSUME NEW S, NEW T, S \subseteq T, NEW s \in Seq(S) PROVE s \in Seq(T)
  OBVIOUS

LEMMA NamesAreStrings == \A n \in Names : n \in Seq(Parts)
<1>1. \A n \in Names : n \in Seq(STRING)
  BY StorageAssumption DEF Names
<1>2. STRING \subseteq Parts
  BY Zenon DEF Parts
<1> QED BY <1>1, <1>2, LargerSeq, Zenon

\* What follows one part of a string can be read off the string.
LEMMA Prefixed ==
    ASSUME NEW S, NEW p \in S, NEW s \in Seq(S)
    PROVE  /\ <<p>> \o s \in Seq(S) /\ Len(<<p>> \o s) = Len(s) + 1 /\ (<<p>> \o s)[1] = p
           /\ \A i \in 1..Len(s) : (<<p>> \o s)[i + 1] = s[i]
<1> DEFINE one == <<p>>
<1>1. one \in Seq(S) /\ Len(one) = 1 /\ one[1] = p
  OBVIOUS
<1> HIDE DEF one
<1>2. /\ one \o s \in Seq(S) /\ Len(one \o s) = Len(one) + Len(s)
      /\ \A i \in 1..Len(one) + Len(s) :
           (one \o s)[i] = IF i <= Len(one) THEN one[i] ELSE s[i - Len(one)]
  BY <1>1, ConcatProperties, Zenon
<1>3. Len(s) \in Nat
  OBVIOUS
<1>4. (one \o s)[1] = p
  BY <1>1, <1>2, <1>3
<1>5. ASSUME NEW i \in 1..Len(s) PROVE (one \o s)[i + 1] = s[i]
  <2>1. i + 1 \in 1..Len(one) + Len(s) /\ ~(i + 1 <= Len(one)) /\ (i + 1) - Len(one) = i
    BY <1>1, <1>3
  <2> QED BY <1>2, <2>1
<1> QED BY <1>1, <1>2, <1>3, <1>4, <1>5 DEF one

LEMMA RestEqual ==
    ASSUME NEW S, NEW p \in S, NEW s \in Seq(S), NEW t \in Seq(S), <<p>> \o s = <<p>> \o t
    PROVE  s = t
<1>1. Len(s) = Len(t)
  <2>1. Len(s) + 1 = Len(t) + 1
    BY Prefixed
  <2> QED BY <2>1
<1>2. \A i \in 1..Len(s) : s[i] = t[i]
  BY <1>1, Prefixed
<1> QED BY <1>1, <1>2, SeqEqual

\* Two names joined by a colon.
Join(n, m) == n \o <<":">> \o m
JoinParts(n, m) ==
    /\ Len(Join(n, m)) = Len(n) + 1 + Len(m)
    /\ \A i \in 1..Len(n) : Join(n, m)[i] = n[i]
    /\ Join(n, m)[Len(n) + 1] = ":"
    /\ \A i \in 1..Len(m) : Join(n, m)[Len(n) + 1 + i] = m[i]

LEMMA Joined ==
    ASSUME NEW S, ":" \in S, NEW n \in Seq(S), NEW m \in Seq(S)
    PROVE  Join(n, m) \in Seq(S) /\ JoinParts(n, m)
<1> DEFINE colon == <<":">>
           u == n \o colon
<1>1. colon \in Seq(S) /\ Len(colon) = 1 /\ colon[1] = ":"
  OBVIOUS
<1> HIDE DEF colon
<1>2. /\ u \in Seq(S) /\ Len(u) = Len(n) + 1
      /\ \A i \in 1..Len(n) + 1 : u[i] = IF i <= Len(n) THEN n[i] ELSE colon[i - Len(n)]
  BY <1>1, ConcatProperties
<1> HIDE DEF u
<1>3. /\ u \o m \in Seq(S) /\ Len(u \o m) = Len(u) + Len(m)
      /\ \A i \in 1..Len(u) + Len(m) :
           (u \o m)[i] = IF i <= Len(u) THEN u[i] ELSE m[i - Len(u)]
  BY <1>2, ConcatProperties, Zenon
<1>4. Len(n) \in Nat /\ Len(m) \in Nat
  OBVIOUS
<1>5. ASSUME NEW i \in 1..Len(n) PROVE (u \o m)[i] = n[i]
  <2>1. i \in 1..Len(n) + 1 /\ i \in 1..Len(u) + Len(m) /\ i <= Len(n) /\ i <= Len(u)
    BY <1>2, <1>4
  <2> QED BY <1>2, <1>3, <2>1
<1>6. (u \o m)[Len(n) + 1] = ":"
  <2>1. /\ Len(n) + 1 \in 1..Len(n) + 1 /\ Len(n) + 1 \in 1..Len(u) + Len(m)
        /\ ~(Len(n) + 1 <= Len(n)) /\ (Len(n) + 1) - Len(n) = 1 /\ Len(n) + 1 <= Len(u)
    BY <1>2, <1>4
  <2> QED BY <1>1, <1>2, <1>3, <2>1
<1>7. ASSUME NEW i \in 1..Len(m) PROVE (u \o m)[Len(n) + 1 + i] = m[i]
  <2>1. /\ Len(n) + 1 + i \in 1..Len(u) + Len(m) /\ ~(Len(n) + 1 + i <= Len(u))
        /\ (Len(n) + 1 + i) - Len(u) = i
    BY <1>2, <1>4
  <2> QED BY <1>3, <2>1
<1>8. Join(n, m) = u \o m
  BY DEF Join, u, colon
<1> QED BY <1>2, <1>3, <1>5, <1>6, <1>7, <1>8 DEF JoinParts

\* Two names without a colon can be read off the string that joins them: its first
\* colon is the one between them.
LEMMA Parted ==
    ASSUME NEW S, ":" \in S, NEW n \in Seq(S), NEW m \in Seq(S), Whole(n), Whole(m),
           NEW x \in Seq(S), NEW y \in Seq(S)
    PROVE  Join(n, m) = Join(x, y) => n = x /\ m = y
<1>1. Len(n) \in Nat /\ Len(m) \in Nat /\ Len(x) \in Nat /\ Len(y) \in Nat
  OBVIOUS
<1>2. (\A i \in 1..Len(n) : n[i] # ":") /\ (\A i \in 1..Len(m) : m[i] # ":")
  BY DEF Whole
<1>3. JoinParts(n, m) /\ JoinParts(x, y)
  BY Joined, Zenon
<1> SUFFICES ASSUME Join(n, m) = Join(x, y) PROVE n = x /\ m = y
  BY Zenon
<1>4. Len(n) + 1 + Len(m) = Len(x) + 1 + Len(y)
  BY <1>3, Zenon DEF JoinParts
<1>5. ~(Len(x) < Len(n))
  <2> SUFFICES ASSUME Len(x) < Len(n) PROVE FALSE
    OBVIOUS
  <2>1. Len(x) + 1 \in 1..Len(n)
    BY <1>1
  <2>2. Join(n, m)[Len(x) + 1] = n[Len(x) + 1]
    BY <1>3, <2>1 DEF JoinParts
  <2>3. Join(x, y)[Len(x) + 1] = ":"
    BY <1>3 DEF JoinParts
  <2> QED BY <1>2, <2>1, <2>2, <2>3
<1>6. ~(Len(n) < Len(x))
  <2> SUFFICES ASSUME Len(n) < Len(x) PROVE FALSE
    OBVIOUS
  <2> DEFINE i == Len(x) - Len(n)
  <2>1. i \in 1..Len(m) /\ Len(n) + 1 + i = Len(x) + 1
    BY <1>1, <1>4
  <2> HIDE DEF i
  <2>2. Join(n, m)[Len(n) + 1 + i] = m[i]
    BY <1>3, <2>1, Zenon DEF JoinParts
  <2>3. Join(x, y)[Len(x) + 1] = ":"
    BY <1>3 DEF JoinParts
  <2> QED BY <1>2, <2>1, <2>2, <2>3
<1>7. Len(n) = Len(x) /\ Len(m) = Len(y)
  BY <1>1, <1>4, <1>5, <1>6
<1>8. \A i \in 1..Len(n) : n[i] = x[i]
  BY <1>7, <1>3 DEF JoinParts
<1>9. \A i \in 1..Len(m) : m[i] = y[i]
  BY <1>7, <1>3 DEF JoinParts
<1> QED BY <1>7, <1>8, <1>9, SeqEqual

LEMMA ChannelKey ==
    ASSUME NEW n \in Names, NEW m \in Names, n # m
    PROVE  /\ makeChannelKey(n, m) = makeChannelKey(m, n)
           /\ makeChannelKey(n, m) \in {Join(n, m), Join(m, n)}
           /\ makeChannelKey(n, m) \in Seq(Parts)
<1>1. makeChannelKey(n, m) = makeChannelKey(m, n)
  BY NamesOrdered, Zenon DEF makeChannelKey
<1>2. makeChannelKey(n, m) \in {Join(n, m), Join(m, n)}
  BY Zenon DEF makeChannelKey, Join
<1>3. Join(n, m) \in Seq(Parts) /\ Join(m, n) \in Seq(Parts)
  <2>1. ":" \in Parts
    BY Zenon DEF Parts
  <2> QED BY <2>1, NamesAreStrings, Joined, Zenon
<1> QED BY <1>1, <1>2, <1>3, Zenon

\* The key of a channel whose workers' names hold no colon is the key of no other.
LEMMA ChannelKeysApart ==
    ASSUME NEW n \in Names, NEW m \in Names, n # m, Whole(n), Whole(m),
           NEW x \in Names, NEW y \in Names, x # y
    PROVE  /\ makeChannelKey(n, m) = makeChannelKey(x, y) => {n, m} = {x, y}
           /\ {n, m} = {x, y} => makeChannelKey(n, m) = makeChannelKey(x, y)
<1>1. ASSUME makeChannelKey(n, m) = makeChannelKey(x, y) PROVE {n, m} = {x, y}
  <2>1. PICK p \in {n, m}, q \in {n, m} : {p, q} = {n, m} /\ makeChannelKey(n, m) = Join(p, q)
    <3>1. {n, m} = {m, n}
      BY Zenon
    <3> QED BY <3>1, ChannelKey, Zenon
  <2>2. PICK u \in {x, y}, v \in {x, y} : {u, v} = {x, y} /\ makeChannelKey(x, y) = Join(u, v)
    <3>1. {x, y} = {y, x}
      BY Zenon
    <3> QED BY <3>1, ChannelKey, Zenon
  <2>3. /\ p \in Seq(Parts) /\ q \in Seq(Parts) /\ Whole(p) /\ Whole(q)
        /\ u \in Seq(Parts) /\ v \in Seq(Parts)
    BY NamesAreStrings, Zenon
  <2>4. ":" \in Parts
    BY Zenon DEF Parts
  <2>5. p = u /\ q = v
    BY <1>1, <2>1, <2>2, <2>3, <2>4, Parted, Zenon
  <2> QED BY <2>1, <2>2, <2>5, Zenon
<1>2. ASSUME {n, m} = {x, y} PROVE makeChannelKey(n, m) = makeChannelKey(x, y)
  <2>1. (n = x /\ m = y) \/ (n = y /\ m = x)
    BY <1>2, Zenon
  <2> QED BY <2>1, ChannelKey, Zenon
<1> QED BY <1>1, <1>2, Zenon

-----------------------------------------------------------------------------
(* StorageWrapper: keys and kinds correspond one to one, but for channels  *)
(* of workers whose names hold a colon.                                    *)

\* The key under which StorageWrapper keeps a record of a kind.
NamedKey(prefix, sort, k, kind) == \E n \in Names : k = <<prefix>> \o n /\ kind = <<sort, {n}>>
PairedKey(k, kind) ==
    \E n, m \in Names : /\ n # m /\ k = <<channelPrefix>> \o makeChannelKey(n, m)
                        /\ kind = <<"channel", {n, m}>>
WholePair(k, kind) ==
    \E n, m \in Names : /\ n # m /\ Whole(n) /\ Whole(m)
                        /\ k = <<channelPrefix>> \o makeChannelKey(n, m)
                        /\ kind = <<"channel", {n, m}>>
KeyOfKind(k, kind) ==
    \/ NamedKey(workerPrefix, "worker", k, kind) \/ NamedKey(regionPrefix, "region", k, kind)
    \/ NamedKey(teePrefix, "tee", k, kind) \/ NamedKey(metricsPrefix, "metrics", k, kind)
    \/ PairedKey(k, kind)
    \/ k = <<"coordinator_state">> /\ kind = <<"state", {}>>
OwnKey(k, kind) == KeyOfKind(k, kind) /\ (PairedKey(k, kind) => WholePair(k, kind))

PrefixOf == [worker |-> workerPrefix, region |-> regionPrefix, tee |-> teePrefix,
             metrics |-> metricsPrefix, channel |-> channelPrefix, state |-> "coordinator_state"]

LEMMA NamedKeysApart ==
    ASSUME NEW prefix \in Parts, NEW sort, NEW k, NEW kind, NamedKey(prefix, sort, k, kind),
           NEW l, NEW other, NamedKey(prefix, sort, l, other)
    PROVE  k = l <=> kind = other
<1>1. PICK n \in Names : k = <<prefix>> \o n /\ kind = <<sort, {n}>>
  BY Zenon DEF NamedKey
<1>2. PICK m \in Names : l = <<prefix>> \o m /\ other = <<sort, {m}>>
  BY Zenon DEF NamedKey
<1>3. kind = other <=> {n} = {m}
  BY <1>1, <1>2, Zenon
<1>4. {n} = {m} <=> n = m
  BY Zenon
<1>5. k = l => n = m
  BY <1>1, <1>2, NamesAreStrings, RestEqual, Zenon
<1> QED BY <1>1, <1>2, <1>3, <1>4, <1>5, Zenon

LEMMA PairedKeysApart ==
    ASSUME NEW k, NEW kind, WholePair(k, kind), NEW l, NEW other, PairedKey(l, other)
    PROVE  k = l <=> kind = other
<1>1. PICK n \in Names, m \in Names :
        /\ n # m /\ Whole(n) /\ Whole(m)
        /\ k = <<channelPrefix>> \o makeChannelKey(n, m) /\ kind = <<"channel", {n, m}>>
  BY Zenon DEF WholePair
<1>2. PICK x \in Names, y \in Names :
        x # y /\ l = <<channelPrefix>> \o makeChannelKey(x, y) /\ other = <<"channel", {x, y}>>
  BY Zenon DEF PairedKey
<1>3. kind = other <=> {n, m} = {x, y}
  BY <1>1, <1>2, Zenon
<1>4. /\ makeChannelKey(n, m) = makeChannelKey(x, y) => {n, m} = {x, y}
      /\ {n, m} = {x, y} => makeChannelKey(n, m) = makeChannelKey(x, y)
  <2>1. n # m /\ Whole(n) /\ Whole(m) /\ x # y
    BY <1>1, <1>2, Zenon
  <2> QED BY <2>1, ChannelKeysApart
<1>5. channelPrefix \in Parts
  BY Zenon DEF Parts, Prefixes
<1>6. k = l => makeChannelKey(n, m) = makeChannelKey(x, y)
  BY <1>1, <1>2, <1>5, ChannelKey, RestEqual, Zenon
<1> QED BY <1>1, <1>2, <1>3, <1>4, <1>6, Zenon

\* Which sort a key is of can be read off its kind and off its prefix.
LEMMA SortOfKind ==
    ASSUME NEW k, NEW kind, KeyOfKind(k, kind)
    PROVE  /\ kind[1] \in DOMAIN PrefixOf /\ k[1] = PrefixOf[kind[1]]
           /\ kind[1] = "worker" => NamedKey(workerPrefix, "worker", k, kind)
           /\ kind[1] = "region" => NamedKey(regionPrefix, "region", k, kind)
           /\ kind[1] = "tee" => NamedKey(teePrefix, "tee", k, kind)
           /\ kind[1] = "metrics" => NamedKey(metricsPrefix, "metrics", k, kind)
           /\ kind[1] = "channel" => PairedKey(k, kind)
           /\ kind[1] = "state" => k = <<"coordinator_state">> /\ kind = <<"state", {}>>
<1>1. ASSUME NEW prefix \in Parts, NEW sort, NamedKey(prefix, sort, k, kind)
      PROVE  k[1] = prefix /\ kind[1] = sort
  <2>1. PICK n \in Names : k = <<prefix>> \o n /\ kind = <<sort, {n}>>
    BY <1>1, Zenon DEF NamedKey
  <2>2. (<<prefix>> \o n)[1] = prefix
    BY NamesAreStrings, Prefixed, Zenon
  <2> QED BY <2>1, <2>2, Zenon
<1>2. ASSUME PairedKey(k, kind) PROVE k[1] = channelPrefix /\ kind[1] = "channel"
  <2>1. PICK n \in Names, m \in Names :
          n # m /\ k = <<channelPrefix>> \o makeChannelKey(n, m) /\ kind = <<"channel", {n, m}>>
    BY <1>2, Zenon DEF PairedKey
  <2>2. channelPrefix \in Parts
    BY Zenon DEF Parts, Prefixes
  <2>3. (<<channelPrefix>> \o makeChannelKey(n, m))[1] = channelPrefix
    BY <2>1, <2>2, ChannelKey, Prefixed, Zenon
  <2> QED BY <2>1, <2>3, Zenon
<1>3. /\ workerPrefix \in Parts /\ regionPrefix \in Parts
      /\ teePrefix \in Parts /\ metricsPrefix \in Parts
  BY Zenon DEF Parts, Prefixes
<1>4. /\ NamedKey(workerPrefix, "worker", k, kind) => k[1] = workerPrefix /\ kind[1] = "worker"
      /\ NamedKey(regionPrefix, "region", k, kind) => k[1] = regionPrefix /\ kind[1] = "region"
      /\ NamedKey(teePrefix, "tee", k, kind) => k[1] = teePrefix /\ kind[1] = "tee"
      /\ NamedKey(metricsPrefix, "metrics", k, kind) => k[1] = metricsPrefix /\ kind[1] = "metrics"
  BY <1>1, <1>3, Zenon
<1> QED BY <1>2, <1>4 DEF KeyOfKind, PrefixOf

LEMMA KindsApart ==
    ASSUME NEW k, NEW kind, OwnKey(k, kind), NEW l, NEW other, KeyOfKind(l, other)
    PROVE  k = l <=> kind = other
<1> KeyOfKind(k, kind)
  BY Zenon DEF OwnKey
<1> /\ workerPrefix \in Parts /\ regionPrefix \in Parts
    /\ teePrefix \in Parts /\ metricsPrefix \in Parts
  BY Zenon DEF Parts, Prefixes
<1>1. /\ kind[1] \in DOMAIN PrefixOf /\ k[1] = PrefixOf[kind[1]]
      /\ other[1] \in DOMAIN PrefixOf /\ l[1] = PrefixOf[other[1]]
  BY SortOfKind, Zenon
<1>2. \A x, y \in DOMAIN PrefixOf : PrefixOf[x] = PrefixOf[y] => x = y
  BY DEF PrefixOf, workerPrefix, regionPrefix, teePrefix, metricsPrefix, channelPrefix
<1>3. CASE kind[1] # other[1]
  BY <1>1, <1>2, <1>3, Zenon
<1>4. CASE kind[1] = other[1]
  <2>1. CASE kind[1] = "worker"
    <3>1. NamedKey(workerPrefix, "worker", k, kind)
      BY <2>1, SortOfKind, Zenon
    <3>2. NamedKey(workerPrefix, "worker", l, other)
      BY <1>4, <2>1, SortOfKind, Zenon
    <3> QED BY <3>1, <3>2, NamedKeysApart
  <2>2. CASE kind[1] = "region"
    <3>1. NamedKey(regionPrefix, "region", k, kind)
      BY <2>2, SortOfKind, Zenon
    <3>2. NamedKey(regionPrefix, "region", l, other)
      BY <1>4, <2>2, SortOfKind, Zenon
    <3> QED BY <3>1, <3>2, NamedKeysApart
  <2>3. CASE kind[1] = "tee"
    <3>1. NamedKey(teePrefix, "tee", k, kind)
      BY <2>3, SortOfKind, Zenon
    <3>2. NamedKey(teePrefix, "tee", l, other)
      BY <1>4, <2>3, SortOfKind, Zenon
    <3> QED BY <3>1, <3>2, NamedKeysApart
  <2>4. CASE kind[1] = "metrics"
    <3>1. NamedKey(metricsPrefix, "metrics", k, kind)
      BY <2>4, SortOfKind, Zenon
    <3>2. NamedKey(metricsPrefix, "metrics", l, other)
      BY <1>4, <2>4, SortOfKind, Zenon
    <3> QED BY <3>1, <3>2, NamedKeysApart
  <2>5. CASE kind[1] = "state"
    <3>1. k = <<"coordinator_state">> /\ kind = <<"state", {}>>
      BY <2>5, SortOfKind, Zenon
    <3>2. l = <<"coordinator_state">> /\ other = <<"state", {}>>
      BY <1>4, <2>5, SortOfKind, Zenon
    <3> QED BY <3>1, <3>2, Zenon
  <2>6. CASE kind[1] = "channel"
    <3>1. WholePair(k, kind)
      BY <2>6, SortOfKind, Zenon DEF OwnKey
    <3>2. PairedKey(l, other)
      BY <1>4, <2>6, SortOfKind, Zenon
    <3> QED BY <3>1, <3>2, PairedKeysApart, Zenon
  <2> QED BY <1>1, <2>1, <2>2, <2>3, <2>4, <2>5, <2>6, Zenon DEF PrefixOf
<1> QED BY <1>3, <1>4, Zenon

-----------------------------------------------------------------------------
(* A key of a map: what a change does to it.                               *)

IsChange(vs) == vs = <<>> \/ \E v : vs = <<v>>

LEMMA HeldWith ==
    ASSUME NEW f, NEW k, NEW v, NEW j
    PROVE  Held(With(f, k, v), j) = IF j = k THEN <<v>> ELSE Held(f, j)
  BY Zenon DEF Held, With

LEMMA HeldWithout ==
    ASSUME NEW f, NEW k, NEW j
    PROVE  Held(Without(f, k), j) = IF j = k THEN <<>> ELSE Held(f, j)
  BY Zenon DEF Held, Without

LEMMA HeldChanged ==
    ASSUME NEW f, NEW k, NEW vs, IsChange(vs), NEW j
    PROVE  Held(Changed(f, k, vs), j) = IF j = k THEN vs ELSE Held(f, j)
<1>1. CASE vs = <<>>
  BY <1>1, HeldWithout DEF Changed
<1>2. CASE vs # <<>>
  <2>1. PICK v : vs = <<v>>
    BY <1>2, Zenon DEF IsChange
  <2>2. vs[1] = v
    BY <2>1
  <2>3. Changed(f, k, vs) = With(f, k, v)
    BY <1>2, <2>2, Zenon DEF Changed
  <2> QED BY <2>1, <2>3, HeldWith
<1> QED BY <1>1, <1>2, Zenon

LEMMA HeldIn == \A f, k : (Held(f, k) # <<>> <=> k \in DOMAIN f) /\ (k \in DOMAIN f => Held(f, k) = <<f[k]>>)
<1>1. \A v : <<v>> # <<>>
  OBVIOUS
<1> QED BY <1>1, Zenon DEF Held

-----------------------------------------------------------------------------
(* StorageWrapper: a record is kept as it was last saved.                  *)

WrapperInv ==
    /\ \A k, kind : OwnKey(k, kind) => Held(base, k) = Held(wrapped, kind)
    /\ \A k \in DOMAIN base : \E kind : KeyOfKind(k, kind)

LEMMA WrapperStep ==
    ASSUME WrapperInv, NEW k, NEW kind, KeyOfKind(k, kind), NEW vs, IsChange(vs), WChange(k, kind, vs)
    PROVE  WrapperInv'
<1>1. /\ \A j : Held(base', j) = IF j = k THEN vs ELSE Held(base, j)
      /\ \A other : Held(wrapped', other) = IF other = kind THEN vs ELSE Held(wrapped, other)
  BY HeldChanged DEF WChange
<1>2. ASSUME NEW j, NEW other, OwnKey(j, other) PROVE Held(base', j) = Held(wrapped', other)
  <2>1. j = k <=> other = kind
    BY <1>2, KindsApart, Zenon
  <2> QED BY <1>1, <1>2, <2>1, Zenon DEF WrapperInv
<1>3. ASSUME NEW j \in DOMAIN base' PROVE \E other : KeyOfKind(j, other)
  <2>1. CASE j # k
    <3>1. Held(base, j) # <<>>
      BY <1>1, <2>1, HeldIn, Zenon
    <3> QED BY <3>1, HeldIn, Zenon DEF WrapperInv
  <2> QED BY <2>1, Zenon
<1> QED BY <1>2, <1>3, Zenon DEF WrapperInv

LEMMA KeysUsed ==
    ASSUME NEW n \in Names
    PROVE  /\ KeyOfKind(<<workerPrefix>> \o n, <<"worker", {n}>>)
           /\ KeyOfKind(<<regionPrefix>> \o n, <<"region", {n}>>)
           /\ KeyOfKind(<<teePrefix>> \o n, <<"tee", {n}>>)
           /\ KeyOfKind(<<metricsPrefix>> \o n, <<"metrics", {n}>>)
  BY Zenon DEF KeyOfKind, NamedKey

LEMMA ChannelUsed ==
    ASSUME NEW n \in Names, NEW m \in Names, n # m
    PROVE  KeyOfKind(<<channelPrefix>> \o makeChannelKey(n, m), <<"channel", {n, m}>>)
  BY Zenon DEF KeyOfKind, PairedKey

LEMMA StateUsed == KeyOfKind(<<"coordinator_state">>, <<"state", {}>>)
  BY Zenon DEF KeyOfKind

LEMMA PutStep ==
    ASSUME WrapperInv, NEW k, NEW kind, KeyOfKind(k, kind), NEW v, WPut(k, kind, v)
    PROVE  WrapperInv'
  BY WrapperStep, Zenon DEF WPut, IsChange

LEMMA DropStep ==
    ASSUME WrapperInv, NEW k, NEW kind, KeyOfKind(k, kind), WDelete(k, kind)
    PROVE  WrapperInv'
  BY WrapperStep, Zenon DEF WDelete, IsChange

LEMMA WrapperSteps == ASSUME WrapperInv, WrapperNext PROVE WrapperInv'
<1>1. ASSUME NEW v, WSaveCoordinatorState(v) PROVE WrapperInv'
  BY <1>1, StateUsed, PutStep, Zenon DEF WSaveCoordinatorState
<1>2. ASSUME NEW v, NEW n \in Names,
             WSaveWorker(n, v) \/ WSaveRegion(n, v) \/ WSaveTEEPairInfo(n, v) \/ WSaveTEEMetrics(n, v)
      PROVE  WrapperInv'
  <2>1. CASE WSaveWorker(n, v)
    BY <2>1, KeysUsed, PutStep, Zenon DEF WSaveWorker
  <2>2. CASE WSaveRegion(n, v)
    BY <2>2, KeysUsed, PutStep, Zenon DEF WSaveRegion
  <2>3. CASE WSaveTEEPairInfo(n, v)
    BY <2>3, KeysUsed, PutStep, Zenon DEF WSaveTEEPairInfo
  <2>4. CASE WSaveTEEMetrics(n, v)
    BY <2>4, KeysUsed, PutStep, Zenon DEF WSaveTEEMetrics
  <2> QED BY <1>2, <2>1, <2>2, <2>3, <2>4, Zenon
<1>3. ASSUME NEW v, NEW n \in Names, NEW m \in Names, n # m, WSaveChannel(n, m, v) PROVE WrapperInv'
  BY <1>3, ChannelUsed, PutStep, Zenon DEF WSaveChannel
<1>4. ASSUME NEW n \in Names, WDeleteWorker(n) \/ WDeleteRegion(n) PROVE WrapperInv'
  <2>1. CASE WDeleteWorker(n)
    BY <2>1, KeysUsed, DropStep, Zenon DEF WDeleteWorker
  <2>2. CASE WDeleteRegion(n)
    BY <2>2, KeysUsed, DropStep, Zenon DEF WDeleteRegion
  <2> QED BY <1>4, <2>1, <2>2, Zenon
<1>5. ASSUME NEW n \in Names, NEW m \in Names, n # m, WDeleteChannel(n, m) PROVE WrapperInv'
  BY <1>5, ChannelUsed, DropStep, Zenon DEF WDeleteChannel
<1> QED BY <1>1, <1>2, <1>3, <1>4, <1>5, Zenon DEF WrapperNext

\* The pairs listed are those saved.
LEMMA PairsListed ==
    ASSUME WrapperInv
    PROVE  WListTEEPairInfo = {Saved(<<"tee", {n}>>)[1] : n \in {x \in Names : Saved(<<"tee", {x}>>) # <<>>}}
<1> DEFINE K == {x \in DOMAIN base : x[1] = teePrefix}
           N == {x \in Names : Saved(<<"tee", {x}>>) # <<>>}
<1>1. ASSUME NEW n \in Names
      PROVE  Held(base, <<teePrefix>> \o n) = Saved(<<"tee", {n}>>) /\ (<<teePrefix>> \o n)[1] = teePrefix
  <2>1. KeyOfKind(<<teePrefix>> \o n, <<"tee", {n}>>)
    BY KeysUsed, Zenon
  <2>2. ~PairedKey(<<teePrefix>> \o n, <<"tee", {n}>>)
    <3>1. \A S : <<"tee", {n}>> # <<"channel", S>>
      OBVIOUS
    <3> QED BY <3>1, Zenon DEF PairedKey
  <2>3. OwnKey(<<teePrefix>> \o n, <<"tee", {n}>>)
    BY <2>1, <2>2, Zenon DEF OwnKey
  <2>4. teePrefix \in Parts
    BY Zenon DEF Parts, Prefixes
  <2>5. (<<teePrefix>> \o n)[1] = teePrefix
    BY <2>4, NamesAreStrings, Prefixed, Zenon
  <2> QED BY <2>3, <2>5, Zenon DEF WrapperInv, Saved
<1>2. ASSUME NEW k \in K PROVE \E n \in N : base[k] = Saved(<<"tee", {n}>>)[1]
  <2>1. PICK kind : KeyOfKind(k, kind)
    BY <1>2, Zenon DEF WrapperInv
  <2>2. kind[1] \in DOMAIN PrefixOf /\ k[1] = PrefixOf[kind[1]]
    BY <2>1, SortOfKind, Zenon
  <2>3. kind[1] = "tee"
    BY <2>2 DEF PrefixOf, workerPrefix, regionPrefix, teePrefix, metricsPrefix, channelPrefix
  <2>4. NamedKey(teePrefix, "tee", k, kind)
    BY <2>1, <2>3, SortOfKind, Zenon
  <2>5. PICK n \in Names : k = <<teePrefix>> \o n
    BY <2>4, Zenon DEF NamedKey
  <2>6. Saved(<<"tee", {n}>>) = <<base[k]>>
    BY <1>1, <2>5, HeldIn, Zenon
  <2>7. Saved(<<"tee", {n}>>) # <<>> /\ base[k] = Saved(<<"tee", {n}>>)[1]
    BY <2>6
  <2> QED BY <2>7, Zenon
<1>3. ASSUME NEW n \in N PROVE \E k \in K : base[k] = Saved(<<"tee", {n}>>)[1]
  <2> DEFINE k == <<teePrefix>> \o n
  <2>1. Held(base, k) = Saved(<<"tee", {n}>>) /\ Held(base, k) # <<>> /\ k[1] = teePrefix
    BY <1>1, Zenon
  <2>2. k \in K /\ Held(base, k) = <<base[k]>>
    BY <2>1, HeldIn, Zenon
  <2> HIDE DEF k
  <2>3. base[k] = Saved(<<"tee", {n}>>)[1]
    BY <2>1, <2>2
  <2> QED BY <2>2, <2>3, Zenon
<1> HIDE DEF K, N
<1> DEFINE S(n) == Saved(<<"tee", {n}>>)[1]
<1>4. /\ \A k \in K : \E n \in N : base[k] = S(n)
      /\ \A n \in N : \E k \in K : base[k] = S(n)
  BY <1>2, <1>3, Zenon
<1> HIDE DEF S
<1>5. {base[k] : k \in K} = {S(n) : n \in N}
  BY <1>4, Zenon
<1> QED BY <1>5, Zenon DEF K, N, S, WListTEEPairInfo

LEMMA ApartImplied == WrapperInv => RecordsApart
<1> SUFFICES ASSUME WrapperInv PROVE RecordsApart
  BY Zenon
<1>1. ASSUME NEW k, NEW kind, OwnKey(k, kind) PROVE WGet(k) = Saved(kind)
  BY <1>1, Zenon DEF WrapperInv, WGet, Saved
<1>2. ASSUME NEW n \in Names
      PROVE  /\ WLoadWorker(n) = Saved(<<"worker", {n}>>) /\ WLoadRegion(n) = Saved(<<"region", {n}>>)
             /\ WGetTEEPairInfo(n) = Saved(<<"tee", {n}>>) /\ WGetTEEMetrics(n) = Saved(<<"metrics", {n}>>)
  <2>1. ASSUME NEW sort \in {"worker", "region", "tee", "metrics"}, NEW k
        PROVE  ~PairedKey(k, <<sort, {n}>>)
    <3>1. \A S : <<sort, {n}>> # <<"channel", S>>
      BY <2>1
    <3> QED BY <3>1, Zenon DEF PairedKey
  <2>2. /\ OwnKey(<<workerPrefix>> \o n, <<"worker", {n}>>)
        /\ OwnKey(<<regionPrefix>> \o n, <<"region", {n}>>)
        /\ OwnKey(<<teePrefix>> \o n, <<"tee", {n}>>)
        /\ OwnKey(<<metricsPrefix>> \o n, <<"metrics", {n}>>)
    BY <2>1, KeysUsed, Zenon DEF OwnKey
  <2> QED BY <1>1, <2>2, Zenon DEF WLoadWorker, WLoadRegion, WGetTEEPairInfo, WGetTEEMetrics
<1>3. ASSUME NEW n \in Names, NEW m \in Names, n # m, Whole(n), Whole(m)
      PROVE  WLoadChannel(n, m) = Saved(<<"channel", {n, m}>>)
  <2>1. OwnKey(<<channelPrefix>> \o makeChannelKey(n, m), <<"channel", {n, m}>>)
    BY <1>3, ChannelUsed, Zenon DEF OwnKey, WholePair
  <2> QED BY <1>1, <2>1, Zenon DEF WLoadChannel
<1>4. WLoadCoordinatorState = Saved(<<"state", {}>>)
  <2>1. \A S : <<"state", {}>> # <<"channel", S>>
    OBVIOUS
  <2>2. OwnKey(<<"coordinator_state">>, <<"state", {}>>)
    BY <2>1, StateUsed, Zenon DEF OwnKey, PairedKey
  <2> QED BY <1>1, <2>2, Zenon DEF WLoadCoordinatorState
<1> QED BY <1>2, <1>3, <1>4, PairsListed, Zenon DEF RecordsApart

-----------------------------------------------------------------------------
(* MerkleStorage, one entry of a cache at a time.  For the entry: what the *)
(* database, the view and the cache have under its key, what was given and *)
(* stored last, whether it was overtaken, and where a load of it is, with  *)
(* what it has read.                                                       *)

EntryOK(db, seen, known, g, w, r, pc, data) ==
    /\ seen \in {w, db}
    /\ known # <<>> /\ ~r => known = g \/ (g = <<>> /\ known \in {w, db})
    /\ known = <<>> => g = <<>>
    /\ pc # "idle" /\ ~r => known = <<>>
    /\ pc = "cache" /\ ~r => <<data>> \in {w, db}

PcAt(ld, c, k) == IF ld.kind = c /\ ld.key = k THEN ld.pc ELSE "idle"

Entry(c, k) ==
    EntryOK(Held(merkleDB, k), Held(merkleView, k), Held(recordCache[c], k), Held(given, <<c, k>>),
            Held(stored, k), <<c, k>> \in overtaken, PcAt(loader, c, k), loader.data)

\* The view differs from the database in the keys of the last write.
ViewOK(view, db, w) ==
    \E k1, k2 : \A k : Held(view, k) = Held(db, k) \/ (k \in {k1, k2} /\ Held(view, k) = Held(w, k))

LoaderOK(ld) ==
    /\ ld = [pc |-> ld.pc, kind |-> ld.kind, key |-> ld.key, data |-> ld.data]
    /\ ld.pc = "idle" \/ ld.kind \in Caches

MerkleInv ==
    /\ recordCache = [c \in Caches |-> recordCache[c]]
    /\ LoaderOK(loader)
    /\ ViewOK(merkleView, merkleDB, stored)
    /\ \A c \in Caches : \A k : Entry(c, k)

\* The key is not among those written: the new view has of it what the database has.
LEMMA EntryLeft ==
    ASSUME NEW c, NEW k, Entry(c, k), merkleDB' = merkleDB, loader' = loader,
           Held(recordCache'[c], k) = Held(recordCache[c], k),
           Held(given', <<c, k>>) = Held(given, <<c, k>>),
           Held(merkleView', k) = Held(merkleDB, k), Held(stored', k) = Held(stored, k),
           <<c, k>> \in overtaken' <=> <<c, k>> \in overtaken
    PROVE  Entry(c, k)'
  BY DEF Entry, EntryOK

\* The key is written, and not through the entry.
LEMMA EntryPassed ==
    ASSUME NEW c, NEW k, Entry(c, k), merkleDB' = merkleDB, loader' = loader,
           Held(recordCache'[c], k) = Held(recordCache[c], k),
           Held(given', <<c, k>>) = Held(given, <<c, k>>),
           Held(merkleView', k) = Held(stored', k),
           Held(recordCache[c], k) # <<>> \/ PcAt(loader, c, k) # "idle" => <<c, k>> \in overtaken'
    PROVE  Entry(c, k)'
  BY DEF Entry, EntryOK

\* The entry itself is saved or deleted, whether or not it can be stored.
LEMMA EntryGiven ==
    ASSUME NEW c, NEW k, loader' = loader,
           Held(recordCache'[c], k) = Held(given', <<c, k>>),
           Held(merkleView', k) \in {Held(stored', k), Held(merkleDB', k)},
           PcAt(loader, c, k) # "idle" => <<c, k>> \in overtaken'
    PROVE  Entry(c, k)'
  BY DEF Entry, EntryOK

-----------------------------------------------------------------------------
(* The writes.                                                             *)

LEMMA Overtaken ==
    ASSUME NEW c, NEW k, NEW d \in Caches, NEW j
    PROVE  <<d, j>> \in Overtakes(c, k) <=> j = k /\ (Busy(d, k) \/ (d # c /\ Held(recordCache[d], k) # <<>>))
<1> DEFINE D == {e \in Caches : Busy(e, k) \/ (e # c /\ k \in DOMAIN recordCache[e])}
<1>1. <<d, j>> \in Overtakes(c, k) <=> d \in D /\ j = k
  <2> HIDE DEF D
  <2>1. Overtakes(c, k) = {<<e, k>> : e \in D}
    BY Zenon DEF Overtakes, D
  <2>2. \A e : <<d, j>> = <<e, k>> <=> d = e /\ j = k
    OBVIOUS
  <2> QED BY <2>1, <2>2, Zenon
<1> QED BY <1>1, HeldIn, Zenon

LEMMA BusyIs == \A c, k : Busy(c, k) <=> PcAt(loader, c, k) # "idle"
  BY Zenon DEF Busy, PcAt

LEMMA WriteFacts ==
    ASSUME NEW c, NEW k, NEW vs, IsChange(vs), PutOrDelete(c, k, vs)
    PROVE  /\ merkleDB' = merkleDB
           /\ \A j : Held(merkleView', j) = IF j = k THEN vs ELSE Held(merkleDB, j)
           /\ \A j : Held(stored', j) = IF j = k THEN vs ELSE Held(stored, j)
           /\ ViewOK(merkleView', merkleDB', stored')
<1>1. /\ merkleDB' = merkleDB /\ merkleView' = Changed(merkleDB, k, vs) /\ stored' = Changed(stored, k, vs)
  BY Zenon DEF PutOrDelete
<1>2. \A j : Held(merkleView', j) = IF j = k THEN vs ELSE Held(merkleDB, j)
  BY <1>1, HeldChanged
<1>3. \A j : Held(stored', j) = IF j = k THEN vs ELSE Held(stored, j)
  BY <1>1, HeldChanged
<1>4. ViewOK(merkleView', merkleDB', stored')
  <2>1. \A j : Held(merkleView', j) = Held(merkleDB', j)
               \/ (j \in {k, k} /\ Held(merkleView', j) = Held(stored', j))
    BY <1>1, <1>2, <1>3, Zenon
  <2> QED BY <2>1 DEF ViewOK
<1> QED BY <1>1, <1>2, <1>3, <1>4, Zenon

\* A record that is not cached is written.
LEMMA UncachedStep ==
    ASSUME MerkleInv, NEW k, NEW vs, IsChange(vs), Uncached(k, vs)
    PROVE  MerkleInv'
<1>1. PutOrDelete("none", k, vs) /\ UNCHANGED <<recordCache, loader, given>>
  BY Zenon DEF Uncached
<1>2. /\ merkleDB' = merkleDB /\ ViewOK(merkleView', merkleDB', stored')
      /\ \A j : Held(merkleView', j) = IF j = k THEN vs ELSE Held(merkleDB, j)
      /\ \A j : Held(stored', j) = IF j = k THEN vs ELSE Held(stored, j)
  BY <1>1, WriteFacts
<1>3. ASSUME NEW c \in Caches, NEW j PROVE Entry(c, j)'
  <2>1. Entry(c, j)
    BY Zenon DEF MerkleInv
  <2>2. c # "none"
    BY DEF Caches
  <2>3. <<c, j>> \in overtaken'
        <=> <<c, j>> \in overtaken \/ (j = k /\ (Busy(c, k) \/ Held(recordCache[c], k) # <<>>))
    <3>1. <<c, j>> # <<"none", k>>
      BY <2>2
    <3> QED BY <1>1, <2>2, <3>1, Overtaken, Zenon DEF PutOrDelete
  <2>4. CASE j = k
    <3>1. Held(recordCache[c], j) # <<>> \/ PcAt(loader, c, j) # "idle" => <<c, j>> \in overtaken'
      BY <2>3, <2>4, BusyIs, Zenon
    <3>2. Held(merkleView', j) = vs /\ Held(stored', j) = vs
      BY <1>2, <2>4, Zenon
    <3> QED BY <1>1, <1>2, <2>1, <3>1, <3>2, EntryPassed, Zenon
  <2>5. CASE j # k
    <3>1. <<c, j>> \in overtaken' <=> <<c, j>> \in overtaken
      BY <2>3, <2>5, Zenon
    <3>2. Held(merkleView', j) = Held(merkleDB, j) /\ Held(stored', j) = Held(stored, j)
      BY <1>2, <2>5, Zenon
    <3> QED BY <1>1, <1>2, <2>1, <3>1, <3>2, EntryLeft, Zenon
  <2> QED BY <2>4, <2>5, Zenon
<1> QED BY <1>1, <1>2, <1>3, Zenon DEF MerkleInv

LEMMA NewViewStep ==
    ASSUME MerkleInv, NEW k1, NEW k2, NEW v, NewView(k1, k2, v)
    PROVE  MerkleInv'
<1>1. /\ merkleDB' = merkleDB /\ recordCache' = recordCache /\ loader' = loader /\ given' = given
      /\ merkleView' = With(With(merkleDB, k1, v), k2, v) /\ stored' = With(With(stored, k1, v), k2, v)
      /\ overtaken' = overtaken \cup Overtakes("none", k1) \cup Overtakes("none", k2)
  BY Zenon DEF NewView
<1>2. \A j : Held(merkleView', j) = IF j \in {k1, k2} THEN <<v>> ELSE Held(merkleDB, j)
  BY <1>1, HeldWith
<1>3. \A j : Held(stored', j) = IF j \in {k1, k2} THEN <<v>> ELSE Held(stored, j)
  BY <1>1, HeldWith
<1>4. ViewOK(merkleView', merkleDB', stored')
  <2>1. \A j : Held(merkleView', j) = Held(merkleDB', j)
               \/ (j \in {k1, k2} /\ Held(merkleView', j) = Held(stored', j))
    BY <1>1, <1>2, <1>3, Zenon
  <2> QED BY <2>1 DEF ViewOK
<1>5. ASSUME NEW c \in Caches, NEW j PROVE Entry(c, j)'
  <2>1. Entry(c, j)
    BY Zenon DEF MerkleInv
  <2>2. c # "none"
    BY DEF Caches
  <2>3. <<c, j>> \in overtaken'
        <=> <<c, j>> \in overtaken \/ (j \in {k1, k2} /\ (Busy(c, j) \/ Held(recordCache[c], j) # <<>>))
    <3>1. /\ <<c, j>> \in Overtakes("none", k1) <=> j = k1 /\ (Busy(c, k1) \/ Held(recordCache[c], k1) # <<>>)
          /\ <<c, j>> \in Overtakes("none", k2) <=> j = k2 /\ (Busy(c, k2) \/ Held(recordCache[c], k2) # <<>>)
      BY <2>2, Overtaken, Zenon
    <3> QED BY <1>1, <3>1, Zenon
  <2>4. CASE j \in {k1, k2}
    <3>1. Held(recordCache[c], j) # <<>> \/ PcAt(loader, c, j) # "idle" => <<c, j>> \in overtaken'
      BY <2>3, <2>4, BusyIs, Zenon
    <3>2. Held(merkleView', j) = <<v>> /\ Held(stored', j) = <<v>>
      BY <1>2, <1>3, <2>4, Zenon
    <3> QED BY <1>1, <2>1, <3>1, <3>2, EntryPassed, Zenon
  <2>5. CASE j \notin {k1, k2}
    <3>1. <<c, j>> \in overtaken' <=> <<c, j>> \in overtaken
      BY <2>3, <2>5, Zenon
    <3>2. Held(merkleView', j) = Held(merkleDB, j) /\ Held(stored', j) = Held(stored, j)
      BY <1>2, <1>3, <2>5, Zenon
    <3> QED BY <1>1, <2>1, <3>1, <3>2, EntryLeft, Zenon
  <2> QED BY <2>4, <2>5, Zenon
<1> QED BY <1>1, <1>4, <1>5, Zenon DEF MerkleInv

\* A channel or a worker is saved or deleted: its entry is what was given, and the
\* entry of the other cache under its key is overtaken when it is written.
LEMMA CachedStep ==
    ASSUME MerkleInv, NEW c \in Caches, NEW k, NEW vs, IsChange(vs), ThroughCache(c, k, vs)
    PROVE  MerkleInv'
<1>1. /\ loader' = loader /\ given' = Changed(given, <<c, k>>, vs)
      /\ recordCache' = [recordCache EXCEPT ![c] = Changed(@, k, vs)]
  BY Zenon DEF ThroughCache
<1>2. /\ recordCache' = [d \in Caches |-> recordCache'[d]]
      /\ \A d \in Caches : d # c => recordCache'[d] = recordCache[d]
      /\ recordCache'[c] = Changed(recordCache[c], k, vs)
  BY <1>1, Zenon DEF MerkleInv
<1>3. \A d \in Caches : \A j :
        Held(recordCache'[d], j) = IF d = c /\ j = k THEN vs ELSE Held(recordCache[d], j)
  BY <1>2, HeldChanged
<1>4. \A d \in Caches : \A j :
        Held(given', <<d, j>>) = IF d = c /\ j = k THEN vs ELSE Held(given, <<d, j>>)
  BY <1>1, HeldChanged
<1>5. \A d \in Caches : \A j : Entry(d, j)
  BY Zenon DEF MerkleInv
<1>6. CASE PutOrDelete(c, k, vs)
  <2>1. /\ merkleDB' = merkleDB /\ ViewOK(merkleView', merkleDB', stored')
        /\ \A j : Held(merkleView', j) = IF j = k THEN vs ELSE Held(merkleDB, j)
        /\ \A j : Held(stored', j) = IF j = k THEN vs ELSE Held(stored, j)
    BY <1>6, WriteFacts
  <2>2. ASSUME NEW d \in Caches, NEW j PROVE Entry(d, j)'
    <3>1. <<d, j>> \in overtaken'
          <=> \/ <<d, j>> \in overtaken /\ ~(d = c /\ j = k)
              \/ j = k /\ (Busy(d, k) \/ (d # c /\ Held(recordCache[d], k) # <<>>))
      <4>1. <<d, j>> = <<c, k>> <=> d = c /\ j = k
        OBVIOUS
      <4> QED BY <1>6, <4>1, Overtaken, Zenon DEF PutOrDelete
    <3>2. CASE d = c /\ j = k
      <4>1. PcAt(loader, d, j) # "idle" => <<d, j>> \in overtaken'
        BY <3>1, <3>2, BusyIs, Zenon
      <4>2. /\ Held(merkleView', j) = vs /\ Held(stored', j) = vs
            /\ Held(recordCache'[d], j) = vs /\ Held(given', <<d, j>>) = vs
        BY <1>3, <1>4, <2>1, <3>2, Zenon
      <4> QED BY <1>1, <2>1, <4>1, <4>2, EntryGiven, Zenon
    <3>3. CASE d # c /\ j = k
      <4>1. Held(recordCache[d], j) # <<>> \/ PcAt(loader, d, j) # "idle" => <<d, j>> \in overtaken'
        BY <3>1, <3>3, BusyIs, Zenon
      <4>2. /\ Held(merkleView', j) = vs /\ Held(stored', j) = vs
            /\ Held(recordCache'[d], j) = Held(recordCache[d], j)
            /\ Held(given', <<d, j>>) = Held(given, <<d, j>>)
        BY <1>3, <1>4, <2>1, <3>3, Zenon
      <4> QED BY <1>1, <1>5, <2>1, <4>1, <4>2, EntryPassed, Zenon
    <3>4. CASE j # k
      <4>1. <<d, j>> \in overtaken' <=> <<d, j>> \in overtaken
        BY <3>1, <3>4, Zenon
      <4>2. /\ Held(merkleView', j) = Held(merkleDB, j) /\ Held(stored', j) = Held(stored, j)
            /\ Held(recordCache'[d], j) = Held(recordCache[d], j)
            /\ Held(given', <<d, j>>) = Held(given, <<d, j>>)
        BY <1>3, <1>4, <2>1, <3>4, Zenon
      <4> QED BY <1>1, <1>5, <2>1, <4>1, <4>2, EntryLeft, Zenon
    <3> QED BY <3>2, <3>3, <3>4, Zenon
  <2> QED BY <1>1, <1>2, <2>1, <2>2, Zenon DEF MerkleInv
<1>7. CASE /\ overtaken' = IF Busy(c, k) THEN overtaken \cup {<<c, k>>} ELSE overtaken \ {<<c, k>>}
           /\ UNCHANGED <<merkleView, merkleDB, stored>>
  <2>1. ASSUME NEW d \in Caches, NEW j PROVE Entry(d, j)'
    <3>1. <<d, j>> \in overtaken'
          <=> (<<d, j>> \in overtaken /\ ~(d = c /\ j = k)) \/ (d = c /\ j = k /\ Busy(c, k))
      <4>1. <<d, j>> = <<c, k>> <=> d = c /\ j = k
        OBVIOUS
      <4> QED BY <1>7, <4>1, Zenon
    <3>2. CASE d = c /\ j = k
      <4>1. PcAt(loader, d, j) # "idle" => <<d, j>> \in overtaken'
        BY <3>1, <3>2, BusyIs, Zenon
      <4>2. Held(recordCache'[d], j) = vs /\ Held(given', <<d, j>>) = vs
        BY <1>3, <1>4, <3>2, Zenon
      <4>3. Held(merkleView', j) \in {Held(stored', j), Held(merkleDB', j)}
        BY <1>5, <1>7, Zenon DEF Entry, EntryOK
      <4> QED BY <1>1, <4>1, <4>2, <4>3, EntryGiven, Zenon
    <3>3. CASE ~(d = c /\ j = k)
      <4>1. <<d, j>> \in overtaken' <=> <<d, j>> \in overtaken
        BY <3>1, <3>3, Zenon
      <4>2. /\ Held(recordCache'[d], j) = Held(recordCache[d], j)
            /\ Held(given', <<d, j>>) = Held(given, <<d, j>>)
        BY <1>3, <1>4, <3>3, Zenon
      <4> QED BY <1>1, <1>5, <1>7, <4>1, <4>2 DEF Entry
    <3> QED BY <3>2, <3>3, Zenon
  <2> QED BY <1>1, <1>2, <1>7, <2>1, Zenon DEF MerkleInv
<1> QED BY <1>6, <1>7, Zenon DEF ThroughCache

-----------------------------------------------------------------------------
(* The loads.                                                              *)

LEMMA LoaderIdle == NotLoading.pc = "idle" /\ LoaderOK(NotLoading)
  BY DEF LoaderOK, NotLoading

\* An entry that is not being loaded, before and after a step of the loader.
LEMMA EntryElsewhere ==
    ASSUME NEW c, NEW k, Entry(c, k), PcAt(loader', c, k) = "idle",
           UNCHANGED <<merkleView, merkleDB, given, stored>>,
           Held(recordCache'[c], k) = Held(recordCache[c], k),
           <<c, k>> \in overtaken' <=> <<c, k>> \in overtaken
    PROVE  Entry(c, k)'
  BY DEF Entry, EntryOK

LEMMA StartStep ==
    ASSUME MerkleInv, NEW c \in Caches, NEW k, StartLoad(c, k)
    PROVE  MerkleInv'
<1>1. /\ loader.pc = "idle" /\ k \notin DOMAIN recordCache[c]
      /\ loader' = [NotLoading EXCEPT !.pc = "get", !.kind = c, !.key = k]
      /\ overtaken' = overtaken \ {<<c, k>>}
      /\ UNCHANGED <<merkleView, merkleDB, recordCache, given, stored>>
  BY Zenon DEF StartLoad
<1>2. LoaderOK(loader') /\ loader'.kind = c /\ loader'.key = k /\ loader'.pc = "get"
  <2>1. loader' = [pc |-> "get", kind |-> c, key |-> k, data |-> 0]
    BY <1>1, Zenon DEF NotLoading
  <2>2. loader'.kind = c /\ loader'.key = k /\ loader'.pc = "get" /\ loader'.data = 0
    BY <2>1, Zenon
  <2> QED BY <2>1, <2>2, Zenon DEF LoaderOK
<1>3. ASSUME NEW d \in Caches, NEW j PROVE Entry(d, j)'
  <2>1. Entry(d, j)
    BY Zenon DEF MerkleInv
  <2>2. <<d, j>> \in overtaken' <=> <<d, j>> \in overtaken /\ ~(d = c /\ j = k)
    <3>1. <<d, j>> = <<c, k>> <=> d = c /\ j = k
      OBVIOUS
    <3> QED BY <1>1, <3>1, Zenon
  <2>3. CASE d = c /\ j = k
    <3>1. PcAt(loader', d, j) = "get" /\ <<d, j>> \notin overtaken'
      BY <1>2, <2>2, <2>3, Zenon DEF PcAt
    <3>2. Held(recordCache[d], j) = <<>>
      BY <1>1, <2>3, HeldIn, Zenon
    <3> QED BY <1>1, <2>1, <3>1, <3>2 DEF Entry, EntryOK
  <2>4. CASE ~(d = c /\ j = k)
    <3>1. PcAt(loader', d, j) = "idle"
      BY <1>2, <2>4, Zenon DEF PcAt
    <3> QED BY <1>1, <2>1, <2>2, <2>4, <3>1, EntryElsewhere, Zenon
  <2> QED BY <2>3, <2>4, Zenon
<1> QED BY <1>1, <1>2, <1>3, Zenon DEF MerkleInv

LEMMA GetStep == ASSUME MerkleInv, LoadGet PROVE MerkleInv'
<1>1. loader.pc = "get" /\ UNCHANGED <<merkleView, merkleDB, recordCache, given, stored, overtaken>>
  BY Zenon DEF LoadGet
<1>2. LoaderOK(loader) /\ \A c \in Caches : \A k : Entry(c, k)
  BY Zenon DEF MerkleInv
<1>3. CASE loader' = NotLoading
  <2>1. LoaderOK(loader') /\ \A c, k : PcAt(loader', c, k) = "idle"
    BY <1>3, LoaderIdle, Zenon DEF PcAt
  <2>2. \A c \in Caches : \A k : Entry(c, k)'
    BY <1>1, <1>2, <2>1, EntryElsewhere, Zenon
  <2> QED BY <1>1, <2>1, <2>2, Zenon DEF MerkleInv
<1>4. CASE /\ loader.key \in DOMAIN merkleView
           /\ loader' = [loader EXCEPT !.pc = "cache", !.data = merkleView[loader.key]]
  <2>1. /\ LoaderOK(loader') /\ loader'.kind = loader.kind /\ loader'.key = loader.key
        /\ loader'.pc = "cache" /\ loader'.data = merkleView[loader.key]
    <3>1. loader = [pc |-> loader.pc, kind |-> loader.kind, key |-> loader.key, data |-> loader.data]
      BY <1>2, Zenon DEF LoaderOK
    <3>2. loader.kind \in Caches
      BY <1>1, <1>2 DEF LoaderOK
    <3>3. loader' = [pc |-> "cache", kind |-> loader.kind, key |-> loader.key, data |-> merkleView[loader.key]]
      BY <1>4, <3>1, Zenon
    <3>4. /\ loader'.kind = loader.kind /\ loader'.key = loader.key
          /\ loader'.pc = "cache" /\ loader'.data = merkleView[loader.key]
      BY <3>3, Zenon
    <3> QED BY <3>2, <3>3, <3>4, Zenon DEF LoaderOK
  <2>2. ASSUME NEW c \in Caches, NEW k PROVE Entry(c, k)'
    <3>1. CASE loader.kind = c /\ loader.key = k
      <4>1. PcAt(loader, c, k) = "get" /\ PcAt(loader', c, k) = "cache"
        BY <1>1, <2>1, <3>1, Zenon DEF PcAt
      <4>2. Held(merkleView, k) = <<loader'.data>>
        BY <1>4, <2>1, <3>1, HeldIn, Zenon
      <4>3. "get" # "idle"
        OBVIOUS
      <4> QED BY <1>1, <1>2, <4>1, <4>2, <4>3 DEF Entry, EntryOK
    <3>2. CASE ~(loader.kind = c /\ loader.key = k)
      <4>1. PcAt(loader', c, k) = "idle"
        BY <2>1, <3>2, Zenon DEF PcAt
      <4> QED BY <1>1, <1>2, <4>1, EntryElsewhere, Zenon
    <3> QED BY <3>1, <3>2, Zenon
  <2> QED BY <1>1, <2>1, <2>2, Zenon DEF MerkleInv
<1> QED BY <1>3, <1>4, Zenon DEF LoadGet

LEMMA CacheStep == ASSUME MerkleInv, LoadCache PROVE MerkleInv'
<1>1. /\ loader.pc = "cache" /\ loader' = NotLoading
      /\ recordCache' = [recordCache EXCEPT ![loader.kind] = With(@, loader.key, loader.data)]
      /\ UNCHANGED <<merkleView, merkleDB, given, stored, overtaken>>
  BY Zenon DEF LoadCache
<1>2. LoaderOK(loader) /\ \A c \in Caches : \A k : Entry(c, k)
  BY Zenon DEF MerkleInv
<1>3. loader.kind \in Caches
  BY <1>1, <1>2 DEF LoaderOK
<1>4. LoaderOK(loader') /\ \A c, k : PcAt(loader', c, k) = "idle"
  BY <1>1, LoaderIdle, Zenon DEF PcAt
<1>5. /\ recordCache' = [c \in Caches |-> recordCache'[c]]
      /\ \A c \in Caches : c # loader.kind => recordCache'[c] = recordCache[c]
      /\ recordCache'[loader.kind] = With(recordCache[loader.kind], loader.key, loader.data)
  BY <1>1, <1>3, Zenon DEF MerkleInv
<1>6. ASSUME NEW c \in Caches, NEW k PROVE Entry(c, k)'
  <2>1. CASE loader.kind = c /\ loader.key = k
    <3>1. PcAt(loader, c, k) = "cache"
      BY <1>1, <2>1, Zenon DEF PcAt
    <3>2. Held(recordCache'[c], k) = <<loader.data>> /\ Held(recordCache'[c], k) # <<>>
      <4>1. Held(recordCache'[c], k) = <<loader.data>>
        BY <1>5, <2>1, HeldWith
      <4> QED BY <4>1
    <3>3. "cache" # "idle"
      OBVIOUS
    <3> QED BY <1>1, <1>2, <1>4, <3>1, <3>2, <3>3 DEF Entry, EntryOK
  <2>2. CASE ~(loader.kind = c /\ loader.key = k)
    <3>1. Held(recordCache'[c], k) = Held(recordCache[c], k)
      BY <1>5, <2>2, HeldWith
    <3> QED BY <1>1, <1>2, <1>4, <3>1, EntryElsewhere, Zenon
  <2> QED BY <2>1, <2>2, Zenon
<1> QED BY <1>1, <1>4, <1>5, <1>6, Zenon DEF MerkleInv

LEMMA MerkleSteps == ASSUME MerkleInv, MerkleNext PROVE MerkleInv'
<1>1. IsChange(<<>>) /\ \A v : IsChange(<<v>>)
  BY Zenon DEF IsChange
<1>2. ASSUME NEW v \in WRecords,
             \/ SaveCoordinatorState(v)
             \/ \E n \in Names : SaveRegion(n, v) \/ SaveTEEPairInfo(n, v) \/ SaveTEEMetrics(n, v)
             \/ \E n, m \in Names : n # m /\ NewView(RegionKey(n), RegionKey(m), v)
      PROVE  MerkleInv'
  BY <1>1, <1>2, UncachedStep, NewViewStep, Zenon
     DEF SaveCoordinatorState, SaveRegion, SaveTEEPairInfo, SaveTEEMetrics
<1>3. "channel" \in Caches /\ "worker" \in Caches
  BY Zenon DEF Caches
<1>4. ASSUME NEW v \in Records,
             \/ \E w \in Names : SaveWorker(w, v)
             \/ \E n, m \in Names : n # m /\ SaveChannel(n, m, v)
      PROVE  MerkleInv'
  BY <1>1, <1>3, <1>4, CachedStep, Zenon DEF SaveWorker, SaveChannel
<1>5. ASSUME NEW n \in Names, MerkleDeleteRegion(n) \/ DeleteWorker(n) \/ LoadWorker(n)
      PROVE  MerkleInv'
  BY <1>1, <1>3, <1>5, UncachedStep, CachedStep, StartStep, Zenon
     DEF MerkleDeleteRegion, DeleteWorker, LoadWorker
<1>6. ASSUME NEW n \in Names, NEW m \in Names, DeleteChannel(n, m) \/ LoadChannel(n, m)
      PROVE  MerkleInv'
  BY <1>1, <1>3, <1>6, CachedStep, StartStep, Zenon DEF DeleteChannel, LoadChannel
<1> QED BY <1>2, <1>4, <1>5, <1>6, GetStep, CacheStep, Zenon DEF MerkleNext

-----------------------------------------------------------------------------
\* The two storages do not share state.
StorageInv == MerkleInv /\ WrapperInv

LEMMA StorageInvInit == StorageInit => StorageInv
<1> SUFFICES ASSUME StorageInit PROVE StorageInv
  BY Zenon
<1>1. \A k : Held(Empty, k) = <<>>
  BY Zenon DEF Held, Empty
<1>2. /\ merkleView = merkleDB /\ recordCache = [c \in Caches |-> Empty] /\ loader = NotLoading
      /\ given = Empty /\ stored = Empty /\ overtaken = {} /\ base = Empty /\ wrapped = Empty
  BY Zenon DEF StorageInit
<1>3. LoaderOK(loader) /\ \A c, k : PcAt(loader, c, k) = "idle"
  BY <1>2, LoaderIdle, Zenon DEF PcAt
<1>4. ViewOK(merkleView, merkleDB, stored)
  BY <1>2, Zenon DEF ViewOK
<1>5. ASSUME NEW c \in Caches, NEW k PROVE Entry(c, k)
  <2>1. Held(recordCache[c], k) = <<>> /\ Held(given, <<c, k>>) = <<>> /\ <<c, k>> \notin overtaken
    BY <1>1, <1>2, Zenon
  <2>2. "idle" # "cache"
    OBVIOUS
  <2> QED BY <1>2, <1>3, <2>1, <2>2 DEF Entry, EntryOK
<1>6. recordCache = [c \in Caches |-> recordCache[c]]
  BY <1>2, Zenon
<1>7. WrapperInv
  BY <1>1, <1>2, Zenon DEF WrapperInv, Empty
<1> QED BY <1>3, <1>4, <1>5, <1>6, <1>7, Zenon DEF StorageInv, MerkleInv

LEMMA LastWriteImplied == MerkleInv => LastWriteLoads
<1> SUFFICES ASSUME MerkleInv PROVE LastWriteLoads
  BY Zenon
<1> DEFINE differ == {k \in DOMAIN merkleView \cup DOMAIN merkleDB : Get(k) # GetOnDisk(k)}
<1>1. PICK k1, k2 : \A k : Held(merkleView, k) = Held(merkleDB, k)
                           \/ (k \in {k1, k2} /\ Held(merkleView, k) = Held(stored, k))
  BY Zenon DEF MerkleInv, ViewOK
<1>2. \A k \in differ : k \in {k1, k2} /\ Get(k) = Held(stored, k)
  BY <1>1, Zenon DEF Get, GetOnDisk
<1> HIDE DEF differ
<1>3. \A j1, j2, j3 \in differ : j1 = j2 \/ j2 = j3 \/ j1 = j3
  BY <1>2
<1> QED BY <1>2, <1>3, Zenon DEF LastWriteLoads, differ

LEMMA CacheImplied == MerkleInv => CacheCurrent
<1> SUFFICES ASSUME MerkleInv, NEW c \in Caches, NEW k \in DOMAIN recordCache[c], <<c, k>> \notin overtaken
             PROVE  \/ Held(given, <<c, k>>) = <<recordCache[c][k]>>
                    \/ /\ Held(given, <<c, k>>) = <<>>
                       /\ <<recordCache[c][k]>> \in {Held(stored, k), GetOnDisk(k)}
  BY Zenon DEF CacheCurrent
<1>1. Entry(c, k) /\ Held(recordCache[c], k) = <<recordCache[c][k]>> /\ Held(recordCache[c], k) # <<>>
  BY HeldIn, Zenon DEF MerkleInv
<1> QED BY <1>1 DEF Entry, EntryOK, GetOnDisk

\* What the two storages load is what RecordsServed says, for any names, records and
\* contents of the database, and whichever writes fail.
THEOREM RecordsAlwaysServed == StorageSpec => []RecordsServed
<1>1. StorageInv /\ [StorageNext]_storageVars => StorageInv'
  <2> SUFFICES ASSUME StorageInv, [StorageNext]_storageVars PROVE StorageInv'
    BY Zenon
  <2>1. UNCHANGED merkleVars => (MerkleInv' <=> MerkleInv)
    BY Zenon DEF merkleVars, MerkleInv, Entry
  <2>2. UNCHANGED wrapperVars => (WrapperInv' <=> WrapperInv)
    BY Zenon DEF wrapperVars, WrapperInv
  <2>3. CASE UNCHANGED storageVars
    BY <2>1, <2>2, <2>3, Zenon DEF storageVars, StorageInv
  <2>4. CASE MerkleNext
    BY <2>2, <2>4, MerkleSteps, Zenon DEF StorageInv, MerkleNext
  <2>5. CASE WrapperNext
    BY <2>1, <2>5, WrapperSteps, Zenon DEF StorageInv, WrapperNext
  <2> QED BY <2>3, <2>4, <2>5, Zenon DEF StorageNext
<1>2. StorageInv => RecordsServed
  BY LastWriteImplied, CacheImplied, ApartImplied, Zenon DEF RecordsServed, StorageInv
<1> QED BY <1>1, <1>2, StorageInvInit, PTL DEF StorageSpec

-----------------------------------------------------------------------------
(* The region manager saves the states it publishes.                       *)

IsFcn(f) == f = [x \in DOMAIN f |-> f[x]]
ConfigOK(cs) == cs = {} \/ \E c \in Config : cs = {c}
SavedKeys == PairKeys \cup Verdicts
StateMap(map, K) == IsMap(map, K, State) /\ IsFcn(map)
MetricsMap(map) == IsMap(map, PairKeys, Metrics) /\ IsFcn(map)
SavedOK(s) ==
    /\ s = [config |-> s.config, states |-> s.states]
    /\ ConfigOK(s.config) /\ StateMap(s.states, SavedKeys)
MonitorOK(m) ==
    /\ m = [todo |-> m.todo, verdict |-> m.verdict]
    /\ m.todo \subseteq Pairs /\ m.verdict \subseteq [pair : Pairs, healthy : BOOLEAN]

\* The states in memory are those stored, but for the keys in u.
CurrentBut(map, kept, u) ==
    \A k \in DOMAIN map \ u : k \in DOMAIN kept /\ kept[k] = map[k]

\* StatesSaved, part by part, with the shapes of the values.
RegionsInv ==
    /\ ConfigOK(configs) /\ ConfigOK(cache)
    /\ shared \in BOOLEAN /\ (shared => configs = cache)
    /\ StateMap(states, PairKeys) /\ MetricsMap(metrics) /\ SavedOK(saved) /\ MonitorOK(monitor)
    /\ DOMAIN states \subseteq named /\ named \subseteq PairKeys
    /\ DOMAIN saved.states \subseteq named \cup Verdicts
    /\ stuck \in BOOLEAN /\ faults \in 0..MaxFaults /\ unsaved \subseteq SavedKeys
    /\ CurrentBut(states, saved.states, unsaved)

LEMMA ConfigFacts ==
    ASSUME NEW cs, ConfigOK(cs)
    PROVE  /\ cs \subseteq Config /\ (\A c, e \in cs : c = e) /\ PairsOf(cs) \subseteq Pairs
           /\ \A p \in Pairs : ConfigOK({c \cup {p} : c \in cs})
<1>1. CASE cs = {}
  BY <1>1, Zenon DEF ConfigOK, PairsOf
<1>2. ASSUME NEW d \in Config, cs = {d}
      PROVE  /\ cs \subseteq Config /\ (\A c, e \in cs : c = e) /\ PairsOf(cs) \subseteq Pairs
             /\ \A p \in Pairs : ConfigOK({c \cup {p} : c \in cs})
  <2>1. \A c, e \in cs : c = e
    BY <1>2, Zenon
  <2>2. \A p : {c \cup {p} : c \in cs} = {d \cup {p}}
    BY <1>2, Zenon
  <2>3. \A p \in Pairs : d \cup {p} \in Config
    BY Zenon DEF Config
  <2> QED BY <1>2, <2>1, <2>2, <2>3 DEF ConfigOK, Config, PairsOf
<1> QED BY <1>1, <1>2, Zenon DEF ConfigOK

LEMMA RegionsInvImplies == RegionsInv => StatesSaved
<1> SUFFICES ASSUME RegionsInv PROVE StatesSaved
  BY Zenon
<1>1. RegionsTypeOK
  <2>1. \A cs \in {configs, cache, saved.config} : cs \subseteq Config /\ \A c, d \in cs : c = d
    BY ConfigFacts, Zenon DEF RegionsInv, SavedOK
  <2> QED BY <2>1, Zenon DEF RegionsInv, RegionsTypeOK, StateMap, MetricsMap, SavedOK,
            SavedKeys, MonitorOK
<1>2. SavedStateCurrent
  BY Zenon DEF RegionsInv, CurrentBut, SavedStateCurrent
<1>3. HealthUnanswered
  BY Zenon DEF RegionsInv, Verdicts, HealthUnanswered
<1> QED BY <1>1, <1>2, <1>3, Zenon DEF StatesSaved

LEMMA PutStates ==
    ASSUME NEW K, NEW map, StateMap(map, K), NEW k \in K, NEW v \in State
    PROVE  StateMap(PutEntry(map, k, v), K)
  BY Zenon DEF StateMap, IsMap, IsFcn, PutEntry

LEMMA PutDomain ==
    ASSUME NEW map, NEW k, NEW v
    PROVE  DOMAIN PutEntry(map, k, v) = DOMAIN map \cup {k}
  BY Zenon DEF PutEntry

LEMMA PutMetrics ==
    ASSUME NEW map, MetricsMap(map), NEW k \in PairKeys, NEW v \in Metrics
    PROVE  MetricsMap(PutEntry(map, k, v))
  BY Zenon DEF MetricsMap, IsMap, IsFcn, PutEntry

\* An entry written to both maps is current; one whose write failed is not counted on.
LEMMA PutBoth ==
    ASSUME NEW map, NEW kept, NEW u, CurrentBut(map, kept, u), NEW k, NEW v
    PROVE  CurrentBut(PutEntry(map, k, v), PutEntry(kept, k, v), u \ {k})
  BY Zenon DEF CurrentBut, PutEntry

LEMMA PutUnsaved ==
    ASSUME NEW map, NEW kept, NEW u, CurrentBut(map, kept, u), NEW k, NEW v
    PROVE  CurrentBut(PutEntry(map, k, v), kept, u \cup {k})
  BY Zenon DEF CurrentBut, PutEntry

LEMMA RegionsInvInit == RegionsInit => RegionsInv
<1> SUFFICES ASSUME RegionsInit PROVE RegionsInv
  BY Zenon
<1>1. /\ StateMap(NoEntries, PairKeys) /\ StateMap(NoEntries, SavedKeys) /\ MetricsMap(NoEntries)
      /\ CurrentBut(NoEntries, NoEntries, {}) /\ DOMAIN NoEntries = {}
  BY Zenon DEF StateMap, MetricsMap, IsMap, IsFcn, NoEntries, CurrentBut
<1>2. MonitorOK(ManagerIdle)
  BY Zenon DEF MonitorOK, ManagerIdle
<1>3. SavedOK([config |-> {}, states |-> NoEntries])
  BY <1>1, Zenon DEF SavedOK, ConfigOK
<1>4. ConfigOK({})
  BY Zenon DEF ConfigOK
<1>5. MaxFaults \in Nat
  BY RegionsAssumption, Zenon
<1>6. 0 \in 0..MaxFaults
  BY <1>5
<1> QED BY <1>1, <1>2, <1>3, <1>4, <1>6, Zenon DEF RegionsInit, RegionsInv

LEMMA FaultCounted ==
    ASSUME faults \in 0..MaxFaults, Fault PROVE faults' \in 0..MaxFaults
<1>1. MaxFaults \in Nat
  BY RegionsAssumption, Zenon
<1> QED BY <1>1 DEF Fault

LEMMA SavedParts ==
    ASSUME NEW c, ConfigOK(c), NEW s, StateMap(s, SavedKeys)
    PROVE  SavedOK([config |-> c, states |-> s])
  BY Zenon DEF SavedOK

LEMMA SavedExcept ==
    ASSUME NEW s, SavedOK(s)
    PROVE  /\ ConfigOK(s.config) /\ StateMap(s.states, SavedKeys)
           /\ \A c : [s EXCEPT !.config = c] = [config |-> c, states |-> s.states]
           /\ \A m : [s EXCEPT !.states = m] = [config |-> s.config, states |-> m]
  BY DEF SavedOK

LEMMA NoMetrics == MetricsMap(NoEntries)
  BY Zenon DEF MetricsMap, IsMap, IsFcn, NoEntries

\* RegisterTEEPair: whether it panics or one of its two writes fails, the state it
\* has not saved is in unsaved.
LEMMA RegisterStep ==
    ASSUME RegionsInv, NEW c \in Config, NEW id \in PairKeys, RegisterTEEPair(id, c)
    PROVE  RegionsInv'
<1>1. ConfigOK({c}) /\ FreshState \in State /\ FreshMetrics \in Metrics /\ id \in SavedKeys
  BY DEF ConfigOK, FreshState, State, FreshMetrics, Metrics, Strikes, Loads, SavedKeys
<1>2. /\ states' = PutEntry(states, id, FreshState) /\ named' = named \cup {id}
      /\ configs' = {c} /\ shared' = FALSE
      /\ UNCHANGED <<cache, stuck, monitor>>
  BY Zenon DEF RegisterTEEPair
<1>3. StateMap(states', PairKeys) /\ DOMAIN states' \subseteq named' /\ named' \subseteq PairKeys
  <2>1. StateMap(PutEntry(states, id, FreshState), PairKeys)
    BY <1>1, PutStates, Zenon DEF RegionsInv
  <2>2. DOMAIN PutEntry(states, id, FreshState) = DOMAIN states \cup {id}
    BY PutDomain, Zenon
  <2> QED BY <1>2, <2>1, <2>2, Zenon DEF RegionsInv
<1>4. CurrentBut(states, saved.states, unsaved) /\ DOMAIN saved.states \subseteq named \cup Verdicts
  BY Zenon DEF RegionsInv
<1>5. CASE unsaved' = unsaved \cup {id} /\ UNCHANGED <<metrics, saved, faults>>
  <2>1. CurrentBut(PutEntry(states, id, FreshState), saved.states, unsaved \cup {id})
    BY <1>4, PutUnsaved, Zenon
  <2>2. unsaved' \subseteq SavedKeys /\ DOMAIN saved'.states \subseteq named' \cup Verdicts
    BY <1>1, <1>2, <1>4, <1>5, Zenon DEF RegionsInv
  <2> QED BY <1>1, <1>2, <1>3, <1>5, <2>1, <2>2, Zenon DEF RegionsInv
<1>6. ASSUME NEW writes \in 0..2,
             metrics' = PutEntry(IF states = NoEntries THEN NoEntries ELSE metrics, id, FreshMetrics),
             saved' = [config |-> IF writes > 0 THEN {c} ELSE saved.config,
                       states |-> IF writes > 1 THEN PutEntry(saved.states, id, FreshState)
                                  ELSE saved.states],
             unsaved' = (IF writes > 1 THEN unsaved \ {id} ELSE unsaved \cup {id}),
             IF writes > 1 THEN UNCHANGED faults ELSE Fault
      PROVE  RegionsInv'
  <2>1. MetricsMap(metrics')
    <3>1. MetricsMap(IF states = NoEntries THEN NoEntries ELSE metrics)
      BY NoMetrics, Zenon DEF RegionsInv
    <3> QED BY <1>1, <1>6, <3>1, PutMetrics, Zenon
  <2>2. /\ ConfigOK(saved.config) /\ StateMap(saved.states, SavedKeys)
        /\ StateMap(PutEntry(saved.states, id, FreshState), SavedKeys)
        /\ DOMAIN PutEntry(saved.states, id, FreshState) = DOMAIN saved.states \cup {id}
    BY <1>1, SavedExcept, PutStates, PutDomain, Zenon DEF RegionsInv
  <2>3. SavedOK(saved')
    BY <1>1, <1>6, <2>2, SavedParts, Zenon
  <2>4. faults' \in 0..MaxFaults /\ unsaved' \subseteq SavedKeys
    BY <1>1, <1>6, FaultCounted, Zenon DEF RegionsInv
  <2>5. CurrentBut(states', saved'.states, unsaved') /\ DOMAIN saved'.states \subseteq named' \cup Verdicts
    <3>1. CASE writes > 1
      <4>1. saved'.states = PutEntry(saved.states, id, FreshState) /\ unsaved' = unsaved \ {id}
        BY <1>6, <3>1, Zenon
      <4>2. CurrentBut(PutEntry(states, id, FreshState), PutEntry(saved.states, id, FreshState), unsaved \ {id})
        BY <1>4, PutBoth, Zenon
      <4> QED BY <1>2, <1>4, <2>2, <4>1, <4>2, Zenon
    <3>2. CASE ~(writes > 1)
      <4>1. saved'.states = saved.states /\ unsaved' = unsaved \cup {id}
        BY <1>6, <3>2, Zenon
      <4>2. CurrentBut(PutEntry(states, id, FreshState), saved.states, unsaved \cup {id})
        BY <1>4, PutUnsaved, Zenon
      <4> QED BY <1>2, <1>4, <4>1, <4>2, Zenon
    <3> QED BY <3>1, <3>2, Zenon
  <2> QED BY <1>1, <1>2, <1>3, <2>1, <2>3, <2>4, <2>5, Zenon DEF RegionsInv
<1> QED BY <1>5, <1>6, Zenon DEF RegisterTEEPair

\* The steps that change configurations only.
LEMMA ConfigStep ==
    ASSUME RegionsInv,
           \/ \E c \in Config : UpdateConfig(c)
           \/ \E p \in Pairs : AddTEEPair(p)
           \/ GetConfig \/ ManagerDeleteRegion \/ UpdateCache \/ CachedRegionConfig
    PROVE  RegionsInv'
<1>1. ConfigOK({}) /\ ConfigOK(configs) /\ ConfigOK(cache) /\ ConfigOK(saved.config)
  BY SavedExcept, Zenon DEF RegionsInv, ConfigOK
<1>2. /\ StateMap(saved.states, SavedKeys)
      /\ \A c : [saved EXCEPT !.config = c] = [config |-> c, states |-> saved.states]
  BY SavedExcept, Zenon DEF RegionsInv
<1>3. ASSUME NEW c \in Config, UpdateConfig(c) PROVE RegionsInv'
  <2>1. ConfigOK({c})
    BY Zenon DEF ConfigOK
  <2>2. saved' = [config |-> {c}, states |-> saved.states]
    BY <1>2, <1>3, Zenon DEF UpdateConfig
  <2>3. SavedOK(saved') /\ saved'.states = saved.states
    BY <1>2, <2>1, <2>2, SavedParts, Zenon
  <2> QED BY <1>3, <2>1, <2>3, Zenon DEF UpdateConfig, RegionsInv
<1>4. ASSUME NEW p \in Pairs, AddTEEPair(p) PROVE RegionsInv'
  <2>1. ConfigOK(cache')
    BY <1>1, <1>4, ConfigFacts DEF AddTEEPair
  <2>2. /\ UNCHANGED <<shared, states, metrics, named, stuck, monitor, unsaved>>
        /\ configs' = IF shared THEN cache' ELSE configs
    BY <1>4, Zenon DEF AddTEEPair
  <2>3. CASE saved' = [saved EXCEPT !.config = cache'] /\ UNCHANGED faults
    <3>1. saved' = [config |-> cache', states |-> saved.states]
      BY <1>2, <2>3, Zenon
    <3>2. SavedOK(saved') /\ saved'.states = saved.states
      BY <1>2, <2>1, <3>1, SavedParts, Zenon
    <3> QED BY <2>1, <2>2, <2>3, <3>2, Zenon DEF RegionsInv
  <2>4. CASE Fault /\ UNCHANGED saved
    <3>1. faults' \in 0..MaxFaults
      BY <2>4, FaultCounted, Zenon DEF RegionsInv
    <3> QED BY <2>1, <2>2, <2>4, <3>1, Zenon DEF RegionsInv
  <2> QED BY <1>4, <2>3, <2>4, Zenon DEF AddTEEPair
<1>5. ASSUME GetConfig PROVE RegionsInv'
  BY <1>1, <1>5, Zenon DEF GetConfig, RegionsInv
<1>6. ASSUME ManagerDeleteRegion PROVE RegionsInv'
  <2>1. saved' = [config |-> {}, states |-> saved.states]
    BY <1>2, <1>6, Zenon DEF ManagerDeleteRegion
  <2>2. SavedOK(saved') /\ saved'.states = saved.states
    BY <1>1, <1>2, <2>1, SavedParts, Zenon
  <2> QED BY <1>6, <2>2, Zenon DEF ManagerDeleteRegion, RegionsInv
<1>7. ASSUME UpdateCache PROVE RegionsInv'
  <2>1. ConfigOK(cache') /\ shared' \in BOOLEAN /\ (shared' => configs' = cache')
    BY <1>1, <1>7, Zenon DEF UpdateCache
  <2> QED BY <1>7, <2>1, Zenon DEF UpdateCache, RegionsInv
<1>8. ASSUME CachedRegionConfig PROVE RegionsInv'
  BY <1>8, Zenon DEF CachedRegionConfig, RegionsInv
<1> QED BY <1>3, <1>4, <1>5, <1>6, <1>7, <1>8, Zenon

\* SaveTEEState after the same state was put in memory.
LEMMA SaveStep ==
    ASSUME RegionsInv, NEW k \in PairKeys, NEW new \in State,
           states' = PutEntry(states, k, new), named' = named \cup {k}, SaveTEEState(k, new)
    PROVE  /\ StateMap(states', PairKeys) /\ SavedOK(saved')
           /\ DOMAIN states' \subseteq named' /\ named' \subseteq PairKeys
           /\ DOMAIN saved'.states \subseteq named' \cup Verdicts
           /\ faults' \in 0..MaxFaults /\ unsaved' \subseteq SavedKeys
           /\ CurrentBut(states', saved'.states, unsaved')
<1>1. /\ StateMap(states', PairKeys) /\ k \in SavedKeys
      /\ DOMAIN states' \subseteq named' /\ named' \subseteq PairKeys
  <2>1. StateMap(PutEntry(states, k, new), PairKeys) /\ DOMAIN PutEntry(states, k, new) = DOMAIN states \cup {k}
    BY PutStates, PutDomain, Zenon DEF RegionsInv
  <2> QED BY <2>1, Zenon DEF RegionsInv, SavedKeys
<1>2. /\ CurrentBut(states, saved.states, unsaved) /\ SavedOK(saved)
      /\ DOMAIN saved.states \subseteq named \cup Verdicts
  BY Zenon DEF RegionsInv
<1>3. CASE /\ saved' = [saved EXCEPT !.states = PutEntry(@, k, new)]
           /\ unsaved' = unsaved \ {k} /\ UNCHANGED faults
  <2>1. saved' = [config |-> saved.config, states |-> PutEntry(saved.states, k, new)]
    BY <1>2, <1>3, Zenon DEF SavedOK
  <2>2. /\ StateMap(PutEntry(saved.states, k, new), SavedKeys) /\ ConfigOK(saved.config)
        /\ DOMAIN PutEntry(saved.states, k, new) = DOMAIN saved.states \cup {k}
    BY <1>1, <1>2, SavedExcept, PutStates, PutDomain, Zenon
  <2>3. SavedOK(saved') /\ saved'.states = PutEntry(saved.states, k, new)
    BY <2>1, <2>2, SavedParts, Zenon
  <2>4. CurrentBut(states', saved'.states, unsaved')
    <3>1. CurrentBut(PutEntry(states, k, new), PutEntry(saved.states, k, new), unsaved \ {k})
      BY <1>2, PutBoth, Zenon
    <3> QED BY <1>3, <2>3, <3>1, Zenon
  <2>5. DOMAIN saved'.states \subseteq named' \cup Verdicts
    BY <1>2, <2>2, <2>3, Zenon
  <2> QED BY <1>1, <1>3, <2>3, <2>4, <2>5, Zenon DEF RegionsInv
<1>4. CASE Fault /\ UNCHANGED saved /\ unsaved' = unsaved \cup {k}
  <2>1. faults' \in 0..MaxFaults
    BY <1>4, FaultCounted, Zenon DEF RegionsInv
  <2>2. CurrentBut(states', saved'.states, unsaved')
    <3>1. CurrentBut(PutEntry(states, k, new), saved.states, unsaved \cup {k})
      BY <1>2, PutUnsaved, Zenon
    <3> QED BY <1>4, <3>1, Zenon
  <2>3. DOMAIN saved'.states \subseteq named' \cup Verdicts
    BY <1>2, <1>4, Zenon
  <2> QED BY <1>1, <1>2, <1>4, <2>1, <2>2, <2>3, Zenon DEF RegionsInv
<1> QED BY <1>3, <1>4, Zenon DEF SaveTEEState

\* Changing an entry that a map has is writing it.
LEMMA ExceptIsPut ==
    ASSUME NEW map, IsFcn(map), NEW k \in DOMAIN map, NEW v
    PROVE  [map EXCEPT ![k] = v] = PutEntry(map, k, v)
  BY Zenon DEF IsFcn, PutEntry

LEMMA ReportedMetrics ==
    ASSUME NEW m \in Metrics PROVE Reported(m) \subseteq Metrics
<1>1. [m EXCEPT !.good = TRUE] \in Metrics /\ [m EXCEPT !.good = FALSE] \in Metrics
  BY Zenon DEF Metrics
<1>2. \A l \in Loads : [good |-> TRUE, load |-> l] \in Metrics
  BY Zenon DEF Metrics
<1> QED BY <1>1, <1>2, Zenon DEF Reported

LEMMA MetricsStep ==
    ASSUME RegionsInv, NEW k \in PairKeys, UpdateMetrics(k) PROVE RegionsInv'
<1> DEFINE old == IF k \in DOMAIN metrics THEN metrics[k] ELSE FreshMetrics
<1>1. old \in Metrics
  BY DEF RegionsInv, MetricsMap, IsMap, FreshMetrics, Metrics, Loads
<1>2. PICK m \in Reported(old) :
        /\ metrics' = PutEntry(metrics, k, m)
        /\ IF k \notin DOMAIN states
           THEN UNCHANGED <<states, saved, faults, unsaved>>
           ELSE /\ states' = [states EXCEPT ![k].good = m.good, ![k].load = m.load,
                                            ![k].status = IF m.load > MaxLoad THEN "degraded" ELSE "active"]
                /\ SaveTEEState(k, states'[k])
  BY Zenon DEF UpdateMetrics
<1>3. m \in Metrics
  <2> HIDE DEF old
  <2> QED BY <1>1, <1>2, ReportedMetrics, Zenon
<1>4. MetricsMap(metrics')
  BY <1>2, <1>3, PutMetrics, Zenon DEF RegionsInv
<1>5. UNCHANGED <<configs, cache, shared, named, stuck, monitor>>
  BY Zenon DEF UpdateMetrics
<1>6. CASE k \notin DOMAIN states
  BY <1>2, <1>4, <1>5, <1>6, Zenon DEF RegionsInv
<1>7. CASE k \in DOMAIN states
  <2> DEFINE new == [states[k] EXCEPT !.good = m.good, !.load = m.load,
                                      !.status = IF m.load > MaxLoad THEN "degraded" ELSE "active"]
  <2>1. states[k] \in State /\ IsFcn(states)
    BY <1>7, Zenon DEF RegionsInv, StateMap, IsMap
  <2>2. new \in State
    BY <1>3, <2>1, Zenon DEF State, Metrics
  <2>3. states' = [states EXCEPT ![k] = new]
    BY <1>2, <1>7, <2>1, Zenon DEF IsFcn
  <2>4. SaveTEEState(k, states'[k]) /\ states'[k] = new
    BY <1>2, <1>7, <2>1, <2>3, Zenon DEF IsFcn
  <2> HIDE DEF new
  <2>5. states' = PutEntry(states, k, new)
    BY <1>7, <2>1, <2>3, ExceptIsPut, Zenon
  <2>6. SaveTEEState(k, new) /\ named' = named \cup {k}
    BY <1>5, <1>7, <2>4, Zenon DEF RegionsInv
  <2> QED BY <1>4, <1>5, <2>2, <2>5, <2>6, SaveStep, Zenon DEF RegionsInv
<1> QED BY <1>6, <1>7, Zenon

LEMMA AgedStates ==
    ASSUME NEW K, NEW map, StateMap(map, K), NEW k \in DOMAIN map
    PROVE  /\ StateMap([map EXCEPT ![k].recent = FALSE], K)
           /\ DOMAIN [map EXCEPT ![k].recent = FALSE] = DOMAIN map
<1> DEFINE s == [map[k] EXCEPT !.recent = FALSE]
<1>1. IsFcn(map) /\ k \in K /\ map[k] \in State
  BY Zenon DEF StateMap, IsMap
<1>2. s \in State
  BY <1>1, Zenon DEF State
<1>3. [map EXCEPT ![k].recent = FALSE] = [map EXCEPT ![k] = s]
  BY <1>1, Zenon DEF IsFcn
<1> HIDE DEF s
<1>4. [map EXCEPT ![k] = s] = PutEntry(map, k, s)
  BY <1>1, ExceptIsPut, Zenon
<1>5. StateMap(PutEntry(map, k, s), K)
  BY <1>1, <1>2, PutStates, Zenon
<1>6. DOMAIN [map EXCEPT ![k] = s] = DOMAIN map
  BY Zenon
<1> QED BY <1>3, <1>4, <1>5, <1>6, Zenon

\* The clock takes recency from the state in memory and from its copy alike.
LEMMA AgeStep ==
    ASSUME RegionsInv, NEW k \in PairKeys, Age(k) PROVE RegionsInv'
<1>1. /\ k \in DOMAIN states /\ states' = [states EXCEPT ![k].recent = FALSE]
      /\ saved' = IF k \notin DOMAIN saved.states THEN saved
                  ELSE [saved EXCEPT !.states[k].recent = FALSE]
      /\ UNCHANGED <<configs, cache, shared, metrics, named, stuck, monitor, faults, unsaved>>
  BY Zenon DEF Age
<1>2. /\ SavedOK(saved) /\ StateMap(states, PairKeys) /\ StateMap(saved.states, SavedKeys)
      /\ CurrentBut(states, saved.states, unsaved)
      /\ DOMAIN states \subseteq named /\ DOMAIN saved.states \subseteq named \cup Verdicts
  BY Zenon DEF RegionsInv, SavedOK
<1>3. StateMap(states', PairKeys) /\ DOMAIN states' = DOMAIN states
  BY <1>1, <1>2, AgedStates, Zenon
<1>4. CASE k \notin DOMAIN saved.states
  <2>1. CurrentBut(states', saved'.states, unsaved')
    BY <1>1, <1>2, <1>4, Zenon DEF CurrentBut, StateMap, IsFcn
  <2> QED BY <1>1, <1>3, <1>4, <2>1, Zenon DEF RegionsInv
<1>5. CASE k \in DOMAIN saved.states
  <2> DEFINE aged == [saved.states EXCEPT ![k].recent = FALSE]
  <2>1. saved' = [config |-> saved.config, states |-> aged]
    BY <1>1, <1>2, <1>5, Zenon DEF SavedOK
  <2>2. StateMap(aged, SavedKeys) /\ DOMAIN aged = DOMAIN saved.states
    BY <1>2, <1>5, AgedStates, Zenon
  <2>3. CurrentBut(states', aged, unsaved)
    BY <1>1, <1>2, <1>5, Zenon DEF CurrentBut, StateMap, IsFcn
  <2> HIDE DEF aged
  <2>4. SavedOK(saved') /\ saved'.states = aged
    BY <1>2, <2>1, <2>2, SavedParts, Zenon DEF SavedOK
  <2>5. CurrentBut(states', saved'.states, unsaved')
    BY <1>1, <2>3, <2>4, Zenon
  <2> QED BY <1>1, <1>2, <1>3, <2>2, <2>4, <2>5, Zenon DEF RegionsInv
<1> QED BY <1>4, <1>5, Zenon

LEMMA JudgedState ==
    ASSUME NEW s \in State, NEW healthy \in BOOLEAN PROVE Judge(s, healthy) \in State
<1>1. 0 \in 0..Strikes /\ (IF s.errors = Strikes THEN s.errors ELSE s.errors + 1) \in 0..Strikes
  BY DEF State, Strikes
<1>2. CASE healthy
  BY <1>1, <1>2, Zenon DEF Judge, State
<1>3. CASE ~healthy
  <2> DEFINE e == IF s.errors = Strikes THEN s.errors ELSE s.errors + 1
  <2>1. Judge(s, healthy) = [s EXCEPT !.status = "unhealthy", !.errors = e]
    BY <1>3, Zenon DEF Judge, State
  <2>2. e \in 0..Strikes
    BY <1>1, Zenon
  <2> HIDE DEF e
  <2> QED BY <2>1, <2>2, Zenon DEF State
<1> QED BY <1>2, <1>3, Zenon

\* Whoever updates the status of a pair, and however old the verdict is, what comes
\* of it is saved.
LEMMA UpdateStep ==
    ASSUME RegionsInv, NEW p \in Pairs, NEW healthy \in BOOLEAN, UpdateTEEState(p, healthy),
           UNCHANGED <<configs, cache, shared, metrics, stuck>>, MonitorOK(monitor')
    PROVE  RegionsInv'
<1> DEFINE old == IF p \notin DOMAIN states THEN [FreshState EXCEPT !.good = FALSE] ELSE states[p]
           judged == Judge(old, healthy)
           new == IF judged.status = "active" THEN [judged EXCEPT !.recent = TRUE] ELSE judged
<1>2. p \in PairKeys
  BY Zenon DEF PairKeys
<1>3. old \in State
  <2>1. [FreshState EXCEPT !.good = FALSE] \in State
    <3>1. 0 \in 0..Strikes /\ 0 \in Loads
      BY DEF Strikes, Loads
    <3> QED BY <3>1, Zenon DEF FreshState, State
  <2> QED BY <2>1, Zenon DEF RegionsInv, StateMap, IsMap
<1>4. judged \in State
  <2> HIDE DEF old
  <2> QED BY <1>2, <1>3, JudgedState, Zenon
<1>5. new \in State
  <2> HIDE DEF judged
  <2> QED BY <1>4, Zenon DEF State
<1>6. \/ states' = PutEntry(states, p, new) /\ named' = named \cup {p} /\ SaveTEEState(p, new)
      \/ UNCHANGED <<states, named, saved, faults, unsaved>>
  BY Zenon DEF UpdateTEEState, Updated
<1> HIDE DEF new
<1>7. CASE states' = PutEntry(states, p, new) /\ named' = named \cup {p} /\ SaveTEEState(p, new)
  BY <1>2, <1>5, <1>7, SaveStep, Zenon DEF RegionsInv
<1>8. CASE UNCHANGED <<states, named, saved, faults, unsaved>>
  BY <1>8, Zenon DEF RegionsInv
<1> QED BY <1>6, <1>7, <1>8, Zenon

LEMMA HealthStep ==
    ASSUME RegionsInv,
           ApplyVerdict \/ \E p \in Pairs, healthy \in BOOLEAN : UpdateHealthStatus(p, healthy)
    PROVE  RegionsInv'
<1>1. ASSUME ApplyVerdict PROVE RegionsInv'
  <2>1. PICK v \in monitor.verdict : UpdateTEEState(v.pair, v.healthy)
    BY <1>1, Zenon DEF ApplyVerdict
  <2>2. v.pair \in Pairs /\ v.healthy \in BOOLEAN
    BY Zenon DEF RegionsInv, MonitorOK
  <2>3. /\ monitor' = [monitor EXCEPT !.verdict = {}]
        /\ UNCHANGED <<configs, cache, shared, metrics, stuck>>
    BY <1>1, Zenon DEF ApplyVerdict
  <2>4. MonitorOK(monitor')
    BY <2>3, Zenon DEF RegionsInv, MonitorOK
  <2> QED BY <2>1, <2>2, <2>3, <2>4, UpdateStep, Zenon
<1>2. ASSUME NEW p \in Pairs, NEW healthy \in BOOLEAN, UpdateHealthStatus(p, healthy) PROVE RegionsInv'
  <2>1. MonitorOK(monitor')
    BY <1>2, Zenon DEF RegionsInv, UpdateHealthStatus
  <2> QED BY <1>2, <2>1, UpdateStep, Zenon DEF UpdateHealthStatus
<1> QED BY <1>1, <1>2, Zenon

\* HealthChecker's verdict is a state under its own name.
LEMMA VerdictStep ==
    ASSUME RegionsInv, NEW p \in Pairs, CheckTEEPair(p) PROVE RegionsInv'
<1> DEFINE healthy == states[p].errors < Strikes /\ metrics[p].good /\ metrics[p].load < MaxLoad
           name == IF healthy THEN "healthy" ELSE "unhealthy"
           verdict == [status |-> name, recent |-> TRUE, errors |-> states[p].errors,
                       good |-> metrics[p].good, load |-> metrics[p].load]
<1>1. name \in Verdicts /\ name \in SavedKeys
  BY Zenon DEF Verdicts, SavedKeys
<1>2. verdict \in State
  <2>1. states[p] \in State /\ metrics[p] \in Metrics
    BY Zenon DEF CheckTEEPair, RegionsInv, StateMap, MetricsMap, IsMap
  <2>2. name \in {"active", "degraded", "healthy", "unhealthy"}
    BY Zenon
  <2> HIDE DEF name
  <2> QED BY <2>1, <2>2, Zenon DEF State, Metrics
<1>3. /\ \/ /\ saved' = [saved EXCEPT !.states = PutEntry(@, name, verdict)]
            /\ unsaved' = unsaved \cup {name} /\ UNCHANGED faults
         \/ Fault /\ UNCHANGED <<saved, unsaved>>
      /\ UNCHANGED <<configs, cache, shared, states, metrics, named, stuck, monitor>>
  BY Zenon DEF CheckTEEPair
<1> HIDE DEF name, verdict
<1>4. CASE /\ saved' = [saved EXCEPT !.states = PutEntry(@, name, verdict)]
           /\ unsaved' = unsaved \cup {name} /\ UNCHANGED faults
  <2>1. saved' = [config |-> saved.config, states |-> PutEntry(saved.states, name, verdict)]
    BY <1>4, Zenon DEF RegionsInv, SavedOK
  <2>2. /\ StateMap(PutEntry(saved.states, name, verdict), SavedKeys) /\ ConfigOK(saved.config)
        /\ DOMAIN PutEntry(saved.states, name, verdict) = DOMAIN saved.states \cup {name}
    BY <1>1, <1>2, SavedExcept, PutStates, PutDomain, Zenon DEF RegionsInv
  <2>3. SavedOK(saved') /\ saved'.states = PutEntry(saved.states, name, verdict)
    BY <2>1, <2>2, SavedParts, Zenon
  <2>4. CurrentBut(states, PutEntry(saved.states, name, verdict), unsaved \cup {name})
    BY Zenon DEF RegionsInv, CurrentBut, PutEntry
  <2>5. unsaved' \subseteq SavedKeys /\ DOMAIN saved'.states \subseteq named \cup Verdicts
    BY <1>1, <1>4, <2>2, <2>3, Zenon DEF RegionsInv
  <2> QED BY <1>3, <1>4, <2>3, <2>4, <2>5, Zenon DEF RegionsInv
<1>5. CASE Fault /\ UNCHANGED <<saved, unsaved>>
  <2>1. faults' \in 0..MaxFaults
    BY <1>5, FaultCounted, Zenon DEF RegionsInv
  <2> QED BY <1>3, <1>5, <2>1, Zenon DEF RegionsInv
<1> QED BY <1>3, <1>4, <1>5, Zenon

\* The steps of the monitor that save nothing, and a restart.
LEMMA MonitorStep ==
    ASSUME RegionsInv,
           \/ CheckRegion \/ RestartManager
           \/ \E p \in Pairs : CheckPair(p)
    PROVE  RegionsInv'
<1>1. ASSUME CheckRegion PROVE RegionsInv'
  <2>1. PairsOf(configs) \subseteq Pairs
    BY ConfigFacts, Zenon DEF RegionsInv
  <2>2. monitor' = [todo |-> PairsOf(configs), verdict |-> {}]
    BY <1>1, Zenon DEF CheckRegion, ManagerIdle
  <2>3. MonitorOK(monitor')
    BY <2>1, <2>2, Zenon DEF MonitorOK
  <2> QED BY <1>1, <2>3, Zenon DEF CheckRegion, RegionsInv
<1>2. ASSUME RestartManager PROVE RegionsInv'
  <2>1. /\ ConfigOK({}) /\ StateMap(NoEntries, PairKeys) /\ MetricsMap(NoEntries)
        /\ MonitorOK(ManagerIdle) /\ DOMAIN NoEntries = {}
    BY Zenon DEF ConfigOK, StateMap, MetricsMap, IsMap, IsFcn, NoEntries, MonitorOK, ManagerIdle
  <2>2. \A kept : CurrentBut(NoEntries, kept, {})
    BY Zenon DEF CurrentBut, NoEntries
  <2> QED BY <1>2, <2>1, <2>2, Zenon DEF RestartManager, RegionsInv
<1>3. ASSUME NEW p \in Pairs, CheckPair(p) PROVE RegionsInv'
  <2> DEFINE verdict == {[pair |-> k, healthy |-> isPairHealthy(states[k])] : k \in {p} \cap DOMAIN states}
  <2>1. verdict \subseteq [pair : Pairs, healthy : BOOLEAN]
    <3>1. \A s : isPairHealthy(s) \in BOOLEAN
      BY Zenon DEF isPairHealthy
    <3> QED BY <3>1
  <2>2. monitor' = [todo |-> monitor.todo \ {p}, verdict |-> verdict]
    BY <1>3, Zenon DEF CheckPair
  <2>3. MonitorOK(monitor')
    <3> HIDE DEF verdict
    <3> QED BY <2>1, <2>2, Zenon DEF RegionsInv, MonitorOK
  <2> QED BY <1>3, <2>3, Zenon DEF CheckPair, RegionsInv
<1> QED BY <1>1, <1>2, <1>3, Zenon

\* RegionsInv is inductive, so however registrations, metrics, the health monitor,
\* failing writes and restarts interleave, for any pairs and any number of failures,
\* a state that RegionManager holds is the stored one unless its last write failed
\* or a verdict replaced it, and no verdict is stored where GetRegionHealth reads.
THEOREM StatesAlwaysSaved == RegionsSpec => []StatesSaved
<1>1. RegionsInit => RegionsInv
  BY RegionsInvInit, Zenon
<1>2. RegionsInv /\ [RegionsNext]_regionVars => RegionsInv'
  <2> SUFFICES ASSUME RegionsInv, [RegionsNext]_regionVars PROVE RegionsInv'
    BY Zenon
  <2>1. CASE UNCHANGED regionVars
    BY <2>1, Zenon DEF regionVars, RegionsInv
  <2>2. CASE RegionsNext
    BY <2>2, RegisterStep, ConfigStep, MetricsStep, AgeStep, HealthStep, VerdictStep, MonitorStep,
       Zenon
       DEF RegionsNext
  <2> QED BY <2>1, <2>2, Zenon
<1>3. RegionsInv => StatesSaved
  BY RegionsInvImplies, Zenon
<1> QED BY <1>1, <1>2, <1>3, PTL DEF RegionsSpec

-----------------------------------------------------------------------------
(* Objects and events *)

\* The actions that are running declare no common key.
NoConflicts ==
    \A e, f \in Executors :
        e # f /\ run[e] # Idle /\ run[f] # Idle => ~Conflict(run[e].tx, run[f].tx)

\* A creation about to write found its object absent, and it still is.
CreationsReady ==
    \A e \in Executors :
        run[e] # Idle /\ run[e].pc = "write" /\ run[e].tx \in Creates /\ run[e].tx.id \notin Reserved
            => objects[<<run[e].tx.region, run[e].tx.id>>] = Absent

\* An event past its check has an object, and what it read of it is what is stored.
SendsReady ==
    \A e \in Executors :
        run[e] # Idle /\ run[e].pc # "check" =>
            /\ run[e].pc = "event" => run[e].tx \in Sends
            /\ run[e].pc = "write" => run[e].tx.kind # "execSend"
            /\ run[e].tx \in Sends =>
                 /\ objects[<<run[e].tx.region, run[e].tx.id>>] # Absent
                 /\ run[e].read # Absent
                 /\ run[e].tx.id \notin Reserved =>
                        run[e].read = objects[<<run[e].tx.region, run[e].tx.id>>]

\* The inductive invariant.
ChainInv ==
    /\ ChainTypeOK
    /\ NoConflicts /\ CreationsReady /\ SendsReady
    /\ CreationFinal /\ EventsOfObjects

-----------------------------------------------------------------------------
\* Creations and events of one object conflict: they declare its key for writing.
LEMMA SameObjectConflicts ==
  ASSUME NEW t \in Creates \cup Sends, NEW u \in Creates \cup Sends,
         t.region = u.region, t.id = u.id
  PROVE  Conflict(t, u)
<1>1. <<"obj", t.region, t.id>> \in WriteKeys(t) /\ <<"obj", u.region, u.id>> \in WriteKeys(u)
  BY Zenon DEF WriteKeys, Creates, Sends
<1> QED
  BY <1>1, Zenon DEF Conflict

\* The chain starts without objects, events or running actions.
LEMMA ChainInvInit == ChainInit => ChainInv
<1> SUFFICES ASSUME ChainInit PROVE ChainInv
  BY Zenon
<1>1. ChainTypeOK
  BY Zenon DEF ChainInit, ChainTypeOK, Contents
<1>2. \A e \in Executors : run[e] = Idle
  BY Zenon DEF ChainInit
<1>3. NoConflicts /\ CreationsReady /\ SendsReady
  BY <1>2, Zenon DEF NoConflicts, CreationsReady, SendsReady
<1>4. CreationFinal
  BY Zenon DEF ChainInit, CreationFinal
<1>5. EventsOfObjects
  BY Zenon DEF ChainInit, EventsOfObjects
<1> QED
  BY <1>1, <1>3, <1>4, <1>5, Zenon DEF ChainInv

-----------------------------------------------------------------------------
\* Types.

\* A map with one key set.
Put(map, key, value) == [map EXCEPT ![key] = value]

\* What the store answers for an insertion is the map with the key set, or the map.
LEMMA InsertTypes ==
  ASSUME NEW map, NEW key, NEW value, NEW out \in InsertOutcomes(map, key, value)
  PROVE  /\ out.ok \in BOOLEAN
         /\ out.ok => out.map = Put(map, key, value)
         /\ out.map = map \/ out.map = Put(map, key, value)
<1> DEFINE put == Put(map, key, value)
<1>1. \/ out = [ok |-> TRUE,  map |-> put]
      \/ out = [ok |-> FALSE, map |-> map]
      \/ out = [ok |-> FALSE, map |-> put]
  BY Zenon DEF InsertOutcomes, Put
<1> HIDE DEF put
<1>2. CASE out = [ok |-> TRUE,  map |-> put]
  BY <1>2, Zenon DEF put
<1>3. CASE out = [ok |-> FALSE, map |-> map]
  BY <1>3, Zenon
<1>4. CASE out = [ok |-> FALSE, map |-> put]
  BY <1>4, Zenon DEF put
<1> QED
  BY <1>1, <1>2, <1>3, <1>4, Zenon

\* A running action is a step of one of the actions.
LEMMA RunningTypes ==
  ASSUME ChainTypeOK, NEW e \in Executors, run[e] # Idle
  PROVE  /\ run[e] \in Steps /\ run[e].tx \in Txs /\ run[e].read \in Contents
         /\ run[e].pc \in {"check", "event", "write"}
         /\ run[e].tx \in TxRecords
         /\ run[e].tx.region \in Regions /\ run[e].tx.id \in IDs /\ run[e].tx.code \in Codes
         /\ run[e].tx.kind \in Kinds /\ run[e].tx.time \in Times
<1>1. run[e] \in Steps
  BY Zenon DEF ChainTypeOK
<1>2. run[e].tx \in Txs /\ run[e].read \in Contents /\ run[e].pc \in {"check", "event", "write"}
  BY <1>1, Zenon DEF Steps
<1>3. run[e].tx \in TxRecords
  BY <1>2, ChainAssumption, Zenon
<1> QED
  BY <1>1, <1>2, <1>3, Zenon DEF TxRecords

\* The event of an action is an event of its object.
LEMMA EventIDTypes ==
  ASSUME NEW t \in TxRecords
  PROVE  EventID(t) \in EventIDs /\ EventID(t)[1] = t.id
BY Zenon DEF EventID, EventIDs, TxRecords

\* The object that SetObject writes is one of the region's.
LEMMA TargetTypes ==
  ASSUME NEW t \in Txs
  PROVE  /\ Target(t) \in Regions \X IDs
         /\ t.kind \in {"input", "enclave"} => Target(t)[2] \in Reserved
         /\ t.kind # "input" => Target(t) = <<t.region, t.id>>
<1>1. t.region \in Regions /\ t.id \in IDs
  BY ChainAssumption, Zenon DEF TxRecords
<1>2. t.kind = "input" => InputID[t.id] \in IDs /\ InputID[t.id] \in Reserved
  BY ChainAssumption, Zenon DEF Reserved
<1>3. t.kind = "enclave" => t.id \in Reserved
  BY ChainAssumption, Zenon DEF Reserved
<1> QED
  BY <1>1, <1>2, <1>3, Zenon DEF Target

-----------------------------------------------------------------------------
\* The steps.

LEMMA ConflictSymmetric == \A t, u : Conflict(t, u) <=> Conflict(u, t)
BY Zenon DEF Conflict

\* What an executor may become while the objects stay as they are.
Onward(e, s) ==
    s # Idle =>
      /\ \A f \in Executors \ {e} : run[f] # Idle => ~Conflict(s.tx, run[f].tx)
      /\ s.pc # "check" =>
           /\ s.pc = "write" /\ s.tx \in Creates => objects[<<s.tx.region, s.tx.id>>] = Absent
           /\ s.pc = "event" => s.tx \in Sends
           /\ s.pc = "write" => s.tx.kind # "execSend"
           /\ s.tx \in Sends => /\ objects[<<s.tx.region, s.tx.id>>] # Absent
                                /\ s.read # Absent
                                /\ s.tx.id \notin Reserved =>
                                       s.read = objects[<<s.tx.region, s.tx.id>>]

\* A step that leaves the objects alone and takes one executor on or to its end.
LEMMA ExecutorStep ==
  ASSUME ChainInv, NEW e \in Executors, NEW s \in Steps \cup {Idle}, Onward(e, s),
         run' = [run EXCEPT ![e] = s], objects' = objects
  PROVE  NoConflicts' /\ CreationsReady' /\ SendsReady'
<1>1. /\ run'[e] = s
      /\ \A f \in Executors : f # e => run'[f] = run[f]
  BY Zenon DEF ChainInv, ChainTypeOK
<1>2. NoConflicts'
  <2>1. SUFFICES ASSUME NEW f \in Executors, NEW g \in Executors, f # g,
                        run'[f] # Idle, run'[g] # Idle
                 PROVE  ~Conflict(run'[f].tx, run'[g].tx)
    BY Zenon DEF NoConflicts
  <2>2. CASE f = e
    BY <1>1, <2>1, <2>2, Zenon DEF Onward
  <2>3. CASE g = e
    BY <1>1, <2>1, <2>3, ConflictSymmetric, Zenon DEF Onward
  <2>4. CASE f # e /\ g # e
    BY <1>1, <2>1, <2>4, Zenon DEF ChainInv, NoConflicts
  <2> QED
    BY <2>2, <2>3, <2>4, Zenon
<1>3. CreationsReady'
  <2>1. SUFFICES ASSUME NEW f \in Executors, run'[f] # Idle, run'[f].pc = "write",
                        run'[f].tx \in Creates, run'[f].tx.id \notin Reserved
                 PROVE  objects[<<run'[f].tx.region, run'[f].tx.id>>] = Absent
    BY Zenon DEF CreationsReady
  <2>2. CASE f = e
    BY <1>1, <2>1, <2>2, Zenon DEF Onward
  <2>3. CASE f # e
    BY <1>1, <2>1, <2>3, Zenon DEF ChainInv, CreationsReady
  <2> QED
    BY <2>2, <2>3, Zenon
<1>4. SendsReady'
  <2>1. ASSUME NEW f \in Executors, run'[f] # Idle, run'[f].pc # "check"
        PROVE  /\ run'[f].pc = "event" => run'[f].tx \in Sends
               /\ run'[f].pc = "write" => run'[f].tx.kind # "execSend"
               /\ run'[f].tx \in Sends =>
                    /\ objects[<<run'[f].tx.region, run'[f].tx.id>>] # Absent
                    /\ run'[f].read # Absent
                    /\ run'[f].tx.id \notin Reserved =>
                           run'[f].read = objects[<<run'[f].tx.region, run'[f].tx.id>>]
    <3>1. CASE f = e
      BY <1>1, <2>1, <3>1, Zenon DEF Onward
    <3>2. CASE f # e
      BY <1>1, <2>1, <3>2, Zenon DEF ChainInv, SendsReady
    <3> QED
      BY <3>1, <3>2, Zenon
  <2> QED
    BY <2>1, Zenon DEF SendsReady
<1> QED
  BY <1>2, <1>3, <1>4, Zenon

\* The same when nothing else of the database changes either.
LEMMA QuietStep ==
  ASSUME ChainInv, NEW e \in Executors, NEW s \in Steps \cup {Idle}, Onward(e, s),
         run' = [run EXCEPT ![e] = s],
         UNCHANGED <<objects, events, regions, done>>,
         stores' \subseteq Regions, paired' \subseteq Regions
  PROVE  ChainInv'
<1>1. NoConflicts' /\ CreationsReady' /\ SendsReady'
  BY ExecutorStep, Zenon
<1>2. ChainTypeOK'
  BY Zenon DEF ChainInv, ChainTypeOK
<1>3. CreationFinal' /\ EventsOfObjects'
  BY Zenon DEF ChainInv, CreationFinal, EventsOfObjects
<1> QED
  BY <1>1, <1>2, <1>3, Zenon DEF ChainInv

\* Beginning an action, and its checks.
LEMMA BeginStep ==
  ASSUME ChainInv, NEW e \in Executors, NEW t \in Txs, Begin(e, t)
  PROVE  ChainInv'
<1> DEFINE s == [pc |-> "check", tx |-> t, read |-> Absent]
<1>1. s \in Steps /\ s # Idle /\ s.pc = "check" /\ s.tx = t
  BY Zenon DEF Steps, Contents, Idle
<1>2. \A f \in Executors \ {e} : run[f] # Idle => ~Conflict(s.tx, run[f].tx)
  BY <1>1, Zenon DEF Begin, Running
<1>3. run' = [run EXCEPT ![e] = s] /\ UNCHANGED <<objects, events, regions, done, stores, paired>>
  BY Zenon DEF Begin
<1>4. stores' \subseteq Regions /\ paired' \subseteq Regions
  BY <1>3, Zenon DEF ChainInv, ChainTypeOK
<1> HIDE DEF s
<1>5. Onward(e, s)
  BY <1>1, <1>2, Zenon DEF Onward
<1> QED
  BY <1>1, <1>3, <1>4, <1>5, QuietStep, Zenon

LEMMA CheckFailsStep ==
  ASSUME ChainInv, NEW e \in Executors, CheckFails(e)
  PROVE  ChainInv'
<1>1. run' = [run EXCEPT ![e] = Idle] /\ UNCHANGED <<objects, events, regions, done, stores, paired>>
  BY Zenon DEF CheckFails, Fail
<1>2. stores' \subseteq Regions /\ paired' \subseteq Regions
  BY <1>1, Zenon DEF ChainInv, ChainTypeOK
<1>3. Onward(e, Idle)
  BY Zenon DEF Onward
<1> QED
  BY <1>1, <1>2, <1>3, QuietStep, Zenon

LEMMA CheckStep ==
  ASSUME ChainInv, NEW e \in Executors, Check(e)
  PROVE  ChainInv'
<1> DEFINE t == run[e].tx
<1> DEFINE s == [pc |-> IF t \in Sends THEN "event" ELSE "write",
                 tx |-> t, read |-> GetObject(t.region, t.id)]
<1>1. run[e] # Idle /\ run[e].pc = "check" /\ UNCHANGED <<objects, events, regions, paired, done>>
  BY Zenon DEF Check
<1>2. t \in Txs /\ t.region \in Regions /\ t.id \in IDs /\ t.kind \in Kinds
  BY <1>1, RunningTypes, Zenon DEF ChainInv
<1>3. stores' \subseteq Regions /\ paired' \subseteq Regions
  BY <1>1, <1>2, Zenon DEF Check, OpenStore, ChainInv, ChainTypeOK
<1>4. CASE ~Passes(t)
  <2>1. run' = [run EXCEPT ![e] = Idle]
    BY <1>4, Zenon DEF Check, Fail
  <2>2. Onward(e, Idle)
    BY Zenon DEF Onward
  <2> QED
    BY <1>1, <1>3, <2>1, <2>2, QuietStep, Zenon
<1>5. CASE Passes(t)
  <2>1. run' = [run EXCEPT ![e] = s]
    BY <1>5, Zenon DEF Check
  <2>2. objects[<<t.region, t.id>>] \in Contents /\ GetObject(t.region, t.id) = objects[<<t.region, t.id>>]
    BY <1>2, Zenon DEF ChainInv, ChainTypeOK, GetObject
  <2>3. /\ s \in Steps /\ s # Idle /\ s.tx = t /\ s.read = objects[<<t.region, t.id>>]
        /\ s.pc = IF t \in Sends THEN "event" ELSE "write"
    BY <1>2, <2>2, Zenon DEF Steps, Idle
  <2>4. \A f \in Executors \ {e} : run[f] # Idle => ~Conflict(t, run[f].tx)
    BY <1>1, Zenon DEF ChainInv, NoConflicts
  <2>5. t \in Creates => objects[<<t.region, t.id>>] = Absent /\ t \notin Sends
    BY <1>5, <2>2, Zenon
       DEF Creates, Sends, Passes, CreateObject, ObjectExists, ExecuteAction, executeCreateObject
  <2>6. t \in Sends => objects[<<t.region, t.id>>] # Absent
    BY <1>5, <2>2, Zenon DEF Sends, Passes, SendEvent, ExecuteAction, executeSendEvent
  <2>7. t.kind = "execSend" => t \in Sends
    BY <1>2, Zenon DEF Sends
  <2> HIDE DEF s, t
  <2>8. Onward(e, s)
    BY <2>3, <2>4, <2>5, <2>6, <2>7, Zenon DEF Onward
  <2> QED
    BY <1>1, <1>3, <2>1, <2>3, <2>8, QuietStep, Zenon
<1> QED
  BY <1>4, <1>5, Zenon

\* An event is written for an object that is there, and leaves it alone.
LEMMA StoreEventStep ==
  ASSUME ChainInv, NEW e \in Executors, StoreEvent(e)
  PROVE  ChainInv'
<1> DEFINE t == run[e].tx
<1>1. /\ run[e] # Idle /\ run[e].pc = "event" /\ UNCHANGED <<objects, regions, stores, paired>>
  BY Zenon DEF StoreEvent
<1>2. /\ t \in Txs /\ t \in TxRecords /\ t.region \in Regions /\ t.id \in IDs /\ t.code \in Codes
      /\ run[e] \in Steps
  BY <1>1, RunningTypes, Zenon DEF ChainInv
<1>3. /\ EventID(t) \in EventIDs /\ EventID(t)[1] = t.id
  BY <1>2, EventIDTypes, Zenon
<1>4. /\ t \in Sends /\ objects[<<t.region, t.id>>] # Absent
  BY <1>1, Zenon DEF ChainInv, SendsReady
<1>5. PICK out \in SetEvent(t) :
         /\ events' = out.map
         /\ run' = [run EXCEPT ![e] = IF out.ok /\ t.kind = "send"
                                      THEN [run[e] EXCEPT !.pc = "write"] ELSE Idle]
         /\ done' = IF out.ok /\ t.kind = "execSend" THEN done \cup {t} ELSE done
  BY Zenon DEF StoreEvent
<1>6. /\ events' \in [Regions \X EventIDs -> Codes \cup {Absent}]
      /\ events' = events \/ events' = [events EXCEPT ![<<t.region, EventID(t)>>] = t.code]
  <2>1. /\ events \in [Regions \X EventIDs -> Codes \cup {Absent}]
        /\ <<t.region, EventID(t)>> \in Regions \X EventIDs
    BY <1>2, <1>3, Zenon DEF ChainInv, ChainTypeOK
  <2>2. events' = events \/ events' = Put(events, <<t.region, EventID(t)>>, t.code)
    BY <1>5, InsertTypes DEF SetEvent
  <2> QED
    BY <1>2, <2>1, <2>2, Zenon DEF Put
<1> DEFINE s == IF out.ok /\ t.kind = "send" THEN [run[e] EXCEPT !.pc = "write"] ELSE Idle
<1>7. /\ s \in Steps \cup {Idle}
      /\ s # Idle => s.tx = t /\ s.read = run[e].read /\ s.pc = "write" /\ t.kind = "send"
  BY <1>2, Zenon DEF Steps, Idle
<1>8. NoConflicts' /\ CreationsReady' /\ SendsReady'
  <2>1. \A f \in Executors \ {e} : run[f] # Idle => ~Conflict(t, run[f].tx)
    BY <1>1, Zenon DEF ChainInv, NoConflicts
  <2>2. /\ run[e].read # Absent
        /\ t.id \notin Reserved => run[e].read = objects[<<t.region, t.id>>]
    BY <1>1, <1>4, Zenon DEF ChainInv, SendsReady
  <2>3. t \notin Creates
    BY <1>4, Zenon DEF Creates, Sends
  <2>4. run' = [run EXCEPT ![e] = s]
    BY <1>5, Zenon
  <2> HIDE DEF s
  <2>5. Onward(e, s)
    BY <1>4, <1>7, <2>1, <2>2, <2>3, Zenon DEF Onward
  <2> QED
    BY <1>1, <1>7, <2>4, <2>5, ExecutorStep, Zenon
<1>9. ChainTypeOK'
  <2>1. run' \in [Executors -> Steps \cup {Idle}]
    BY <1>5, <1>7, Zenon DEF ChainInv, ChainTypeOK
  <2>2. done' \subseteq Txs
    BY <1>2, <1>5, Zenon DEF ChainInv, ChainTypeOK
  <2> QED
    BY <1>1, <1>6, <2>1, <2>2, Zenon DEF ChainInv, ChainTypeOK
<1>10. CreationFinal'
  <2>1. done' \cap Creates = done \cap Creates
    BY <1>4, <1>5, Zenon DEF Creates, Sends
  <2> QED
    BY <1>1, <2>1, Zenon DEF ChainInv, CreationFinal
<1>11. EventsOfObjects'
  <2>1. SUFFICES ASSUME NEW re \in Regions \X EventIDs, events'[re] # Absent
                 PROVE  objects[<<re[1], re[2][1]>>] # Absent
    BY <1>1, Zenon DEF EventsOfObjects
  <2>2. CASE re = <<t.region, EventID(t)>>
    BY <1>3, <1>4, <2>2, Zenon
  <2>3. CASE re # <<t.region, EventID(t)>>
    <3>1. events'[re] = events[re]
      BY <1>6, <2>3, Zenon DEF ChainInv, ChainTypeOK
    <3> QED
      BY <2>1, <3>1, Zenon DEF ChainInv, EventsOfObjects
  <2> QED
    BY <2>2, <2>3, Zenon
<1> QED
  BY <1>8, <1>9, <1>10, <1>11, Zenon DEF ChainInv

\* What an object write stores is never Absent; what a creation stores is its code.
LEMMA ContentTypes ==
  ASSUME ChainInv, NEW e \in Executors, run[e] # Idle, run[e].pc = "write"
  PROVE  /\ Content(run[e]) \in Contents /\ Content(run[e]) # Absent
         /\ run[e].tx \in Creates => Content(run[e]) = run[e].tx.code
         /\ run[e].tx.kind = "send" => Content(run[e]) = run[e].read
<1> DEFINE t == run[e].tx
<1>1. /\ t \in Txs /\ t.code \in Codes /\ t.kind \in Kinds /\ run[e].read \in Contents
  BY RunningTypes, Zenon DEF ChainInv
<1>2. t.kind # "execSend" /\ (t.kind = "send" => run[e].read # Absent)
  BY <1>1, Zenon DEF ChainInv, SendsReady, Sends
<1>3. t.code # Absent /\ "input" # Absent /\ "enclave" # Absent
  BY <1>1, ChainAssumption, Zenon DEF Absent
<1>4. CASE t.kind \in {"create", "execCreate"}
  BY <1>1, <1>3, <1>4, Zenon DEF Content, Contents, Creates
<1>5. CASE t.kind = "send"
  BY <1>1, <1>2, <1>5, Zenon DEF Content, Contents, Creates
<1>6. CASE t.kind \in {"input", "enclave"}
  BY <1>1, <1>3, <1>6, Zenon DEF Content, Contents, Creates
<1> QED
  BY <1>1, <1>2, <1>4, <1>5, <1>6, Zenon DEF Kinds

\* What writing an object does to the objects: none disappears, and one that is
\* not reserved changes only when an action creates it.
LEMMA StoreObjectEffect ==
  ASSUME ChainInv, NEW e \in Executors, StoreObject(e)
  PROVE  /\ objects' \in [Regions \X IDs -> Contents]
         /\ \A k \in Regions \X IDs : objects[k] # Absent => objects'[k] # Absent
         /\ \A k \in Regions \X IDs : k[2] \notin Reserved /\ objects'[k] # objects[k] =>
               /\ run[e].tx \in Creates /\ k = <<run[e].tx.region, run[e].tx.id>>
               /\ objects[k] = Absent
         /\ \/ done' = done
            \/ /\ done' = done \cup {run[e].tx}
               /\ run[e].tx \in Creates =>
                    objects'[<<run[e].tx.region, run[e].tx.id>>] = run[e].tx.code
<1> DEFINE t == run[e].tx
<1> DEFINE c == Content(run[e])
<1> DEFINE x == Target(t)
<1>1. run[e] # Idle /\ run[e].pc = "write"
  BY Zenon DEF StoreObject
<1>2. /\ t \in Txs /\ t.region \in Regions /\ t.id \in IDs /\ t.kind \in Kinds
  BY <1>1, RunningTypes, Zenon DEF ChainInv
<1>3. /\ c \in Contents /\ c # Absent
      /\ t \in Creates => c = t.code
      /\ t.kind = "send" => c = run[e].read
  BY <1>1, ContentTypes, Zenon
<1>4. /\ x \in Regions \X IDs
      /\ t.kind \in {"input", "enclave"} => x[2] \in Reserved
      /\ t.kind # "input" => x = <<t.region, t.id>>
  BY <1>2, TargetTypes, Zenon
<1>5. /\ t \in Creates <=> t.kind \in {"create", "execCreate"}
      /\ t.kind = "send" => t \in Sends
      /\ t.kind # "execSend"
  BY <1>1, <1>2, Zenon DEF ChainInv, SendsReady, Creates, Sends
<1>6. PICK out \in SetObject(run[e]) :
        objects' = out.map /\ done' = IF out.ok THEN done \cup {t} ELSE done
  BY Zenon DEF StoreObject
<1>7. /\ out.ok \in BOOLEAN
      /\ out.ok => objects' = Put(objects, x, c)
      /\ objects' = objects \/ objects' = Put(objects, x, c)
  BY <1>6, InsertTypes, Zenon DEF SetObject
<1>8. objects \in [Regions \X IDs -> Contents]
  BY Zenon DEF ChainInv, ChainTypeOK
<1> HIDE DEF c, x
<1>9. /\ Put(objects, x, c) \in [Regions \X IDs -> Contents]
      /\ Put(objects, x, c)[x] = c
      /\ \A k \in Regions \X IDs : k # x => Put(objects, x, c)[k] = objects[k]
  BY <1>3, <1>4, <1>8, Zenon DEF Put
<1>10. objects' \in [Regions \X IDs -> Contents]
  BY <1>7, <1>8, <1>9, Zenon
<1>11. \A k \in Regions \X IDs : objects[k] # Absent => objects'[k] # Absent
  BY <1>3, <1>7, <1>9, Zenon
<1>12. ASSUME NEW k \in Regions \X IDs, k[2] \notin Reserved, objects'[k] # objects[k]
       PROVE  t \in Creates /\ k = <<t.region, t.id>> /\ objects[k] = Absent
  <2>1. k = x /\ c # objects[x]
    BY <1>7, <1>9, <1>12, Zenon
  <2>2. t.kind \notin {"input", "enclave"} /\ k = <<t.region, t.id>>
    BY <1>4, <1>12, <2>1, Zenon
  <2>3. t.id \notin Reserved
    BY <1>12, <2>2, Zenon
  <2>4. t.kind # "send"
    <3>1. SUFFICES ASSUME t.kind = "send" PROVE FALSE
      BY Zenon
    <3>2. run[e].read = objects[<<t.region, t.id>>]
      BY <1>1, <1>5, <2>3, <3>1, Zenon DEF ChainInv, SendsReady
    <3> QED
      BY <1>3, <2>1, <2>2, <3>1, <3>2, Zenon
  <2>5. t \in Creates
    BY <1>2, <1>5, <2>2, <2>4, Zenon DEF Kinds
  <2>6. objects[<<t.region, t.id>>] = Absent
    BY <1>1, <2>3, <2>5, Zenon DEF ChainInv, CreationsReady
  <2> QED
    BY <2>2, <2>5, <2>6, Zenon
<1>13. CASE out.ok
  <2>1. t \in Creates => objects'[<<t.region, t.id>>] = t.code
    BY <1>3, <1>4, <1>5, <1>7, <1>9, <1>13, Zenon
  <2> QED
    BY <1>6, <1>10, <1>11, <1>12, <1>13, <2>1, Zenon
<1>14. CASE ~out.ok
  BY <1>6, <1>10, <1>11, <1>12, <1>14, Zenon
<1> QED
  BY <1>7, <1>13, <1>14, Zenon

\* No other running action is a creation or an event of an object just created.
LEMMA StoreObjectStep ==
  ASSUME ChainInv, NEW e \in Executors, StoreObject(e)
  PROVE  ChainInv'
<1> DEFINE t == run[e].tx
<1>1. /\ run[e] # Idle /\ run' = [run EXCEPT ![e] = Idle]
      /\ UNCHANGED <<events, regions, stores, paired>>
  BY Zenon DEF StoreObject
<1>2. t \in Txs
  BY <1>1, RunningTypes, Zenon DEF ChainInv
<1>3. /\ objects' \in [Regions \X IDs -> Contents]
      /\ \A k \in Regions \X IDs : objects[k] # Absent => objects'[k] # Absent
      /\ \A k \in Regions \X IDs : k[2] \notin Reserved /\ objects'[k] # objects[k] =>
            t \in Creates /\ k = <<t.region, t.id>> /\ objects[k] = Absent
  BY StoreObjectEffect, Zenon
<1>4. \/ done' = done
      \/ /\ done' = done \cup {t}
         /\ t \in Creates => objects'[<<t.region, t.id>>] = t.code
  BY StoreObjectEffect, Zenon
<1>5. \A f \in Executors : run'[f] # Idle => f # e /\ run'[f] = run[f]
  BY <1>1, Zenon DEF ChainInv, ChainTypeOK
<1>6. ChainTypeOK'
  <2>1. run' \in [Executors -> Steps \cup {Idle}]
    BY <1>1, Zenon DEF ChainInv, ChainTypeOK
  <2>2. done' \subseteq Txs
    BY <1>2, <1>4, Zenon DEF ChainInv, ChainTypeOK
  <2> QED
    BY <1>1, <1>3, <2>1, <2>2, Zenon DEF ChainInv, ChainTypeOK
<1>7. NoConflicts'
  BY <1>5, Zenon DEF ChainInv, NoConflicts
<1>8. ASSUME NEW f \in Executors, run'[f] # Idle, run'[f].tx \in Creates \cup Sends,
             run'[f].tx.id \notin Reserved
      PROVE  objects'[<<run'[f].tx.region, run'[f].tx.id>>] = objects[<<run'[f].tx.region, run'[f].tx.id>>]
  <2> DEFINE u == run[f].tx
  <2>1. f # e /\ run'[f] = run[f] /\ run[f] # Idle
    BY <1>5, <1>8, Zenon
  <2>2. u.region \in Regions /\ u.id \in IDs
    BY <2>1, RunningTypes, Zenon DEF ChainInv
  <2>3. ~Conflict(t, u)
    BY <1>1, <2>1, Zenon DEF ChainInv, NoConflicts
  <2>4. ~(t \in Creates /\ <<u.region, u.id>> = <<t.region, t.id>>)
    <3>1. SUFFICES ASSUME t \in Creates, <<u.region, u.id>> = <<t.region, t.id>> PROVE FALSE
      BY Zenon
    <3>2. u \in Creates \cup Sends /\ t \in Creates \cup Sends /\ t.region = u.region /\ t.id = u.id
      BY <1>8, <2>1, <3>1, Zenon
    <3>3. Conflict(t, u)
      BY <3>2, SameObjectConflicts, Zenon
    <3> QED
      BY <2>3, <3>3, Zenon
  <2> DEFINE k == <<u.region, u.id>>
  <2>5. k \in Regions \X IDs /\ k[2] = u.id
    BY <2>2, Zenon
  <2> QED
    BY <1>3, <1>8, <2>1, <2>4, <2>5, Zenon
<1>9. CreationsReady'
  <2>1. SUFFICES ASSUME NEW f \in Executors, run'[f] # Idle, run'[f].pc = "write",
                        run'[f].tx \in Creates, run'[f].tx.id \notin Reserved
                 PROVE  objects'[<<run'[f].tx.region, run'[f].tx.id>>] = Absent
    BY Zenon DEF CreationsReady
  <2>2. objects[<<run'[f].tx.region, run'[f].tx.id>>] = Absent
    BY <1>5, <2>1, Zenon DEF ChainInv, CreationsReady
  <2> QED
    BY <1>8, <2>1, <2>2, Zenon
<1>10. SendsReady'
  <2>1. SUFFICES ASSUME NEW f \in Executors, run'[f] # Idle, run'[f].pc # "check"
                 PROVE  /\ run'[f].pc = "event" => run'[f].tx \in Sends
                        /\ run'[f].pc = "write" => run'[f].tx.kind # "execSend"
                        /\ run'[f].tx \in Sends =>
                             /\ objects'[<<run'[f].tx.region, run'[f].tx.id>>] # Absent
                             /\ run'[f].read # Absent
                             /\ run'[f].tx.id \notin Reserved =>
                                    run'[f].read = objects'[<<run'[f].tx.region, run'[f].tx.id>>]
    BY Zenon DEF SendsReady
  <2>2. run'[f] = run[f] /\ run[f] # Idle
    BY <1>5, <2>1, Zenon
  <2>3. <<run[f].tx.region, run[f].tx.id>> \in Regions \X IDs
    BY <2>2, RunningTypes, Zenon DEF ChainInv
  <2>4. /\ run[f].pc = "event" => run[f].tx \in Sends
        /\ run[f].pc = "write" => run[f].tx.kind # "execSend"
        /\ run[f].tx \in Sends =>
             /\ objects[<<run[f].tx.region, run[f].tx.id>>] # Absent
             /\ run[f].read # Absent
             /\ run[f].tx.id \notin Reserved =>
                    run[f].read = objects[<<run[f].tx.region, run[f].tx.id>>]
    BY <2>1, <2>2, Zenon DEF ChainInv, SendsReady
  <2> QED
    BY <1>3, <1>8, <2>1, <2>2, <2>3, <2>4, Zenon
<1>11. CreationFinal'
  <2>1. SUFFICES ASSUME NEW d \in done', d \in Creates, d.id \notin Reserved
                 PROVE  objects'[<<d.region, d.id>>] = d.code
    BY Zenon DEF CreationFinal
  <2>2. d \in Txs /\ d \in TxRecords /\ d.region \in Regions /\ d.id \in IDs /\ d.code \in Codes
    BY <2>1, ChainAssumption, Zenon DEF Creates, TxRecords
  <2>3. CASE d \in done
    <3>1. objects[<<d.region, d.id>>] = d.code
      BY <2>1, <2>3, Zenon DEF ChainInv, CreationFinal
    <3>2. d.code # Absent
      BY <2>2, ChainAssumption, Zenon
    <3> DEFINE k == <<d.region, d.id>>
    <3>3. k \in Regions \X IDs /\ k[2] = d.id
      BY <2>2, Zenon
    <3> QED
      BY <1>3, <2>1, <3>1, <3>2, <3>3, Zenon
  <2>4. CASE d \notin done
    BY <1>4, <2>1, <2>4, Zenon
  <2> QED
    BY <2>3, <2>4, Zenon
<1>12. EventsOfObjects'
  <2>1. SUFFICES ASSUME NEW re \in Regions \X EventIDs, events'[re] # Absent
                 PROVE  objects'[<<re[1], re[2][1]>>] # Absent
    BY Zenon DEF EventsOfObjects
  <2>2. <<re[1], re[2][1]>> \in Regions \X IDs
    BY DEF EventIDs
  <2>3. objects[<<re[1], re[2][1]>>] # Absent
    BY <1>1, <2>1, Zenon DEF ChainInv, EventsOfObjects
  <2> QED
    BY <1>3, <2>2, <2>3, Zenon
<1> QED
  BY <1>6, <1>7, <1>9, <1>10, <1>11, <1>12, Zenon DEF ChainInv

\* Region operations and crashes touch neither objects nor events.
LEMMA RegionStep ==
  ASSUME ChainInv, UNCHANGED <<objects, events, run, done>>,
         regions' \subseteq Regions, stores' \subseteq Regions, paired' \subseteq Regions
  PROVE  ChainInv'
<1>1. ChainTypeOK'
  BY Zenon DEF ChainInv, ChainTypeOK
<1>2. NoConflicts' /\ CreationsReady' /\ SendsReady'
  BY Zenon DEF ChainInv, NoConflicts, CreationsReady, SendsReady
<1>3. CreationFinal' /\ EventsOfObjects'
  BY Zenon DEF ChainInv, CreationFinal, EventsOfObjects
<1> QED
  BY <1>1, <1>2, <1>3, Zenon DEF ChainInv

LEMMA CrashStep == ChainInv /\ CrashRestart => ChainInv'
<1> SUFFICES ASSUME ChainInv, CrashRestart PROVE ChainInv'
  BY Zenon
<1>1. \A f \in Executors : run'[f] = Idle
  BY Zenon DEF CrashRestart
<1>2. ChainTypeOK'
  BY Zenon DEF CrashRestart, ChainInv, ChainTypeOK
<1>3. NoConflicts' /\ CreationsReady' /\ SendsReady'
  BY <1>1, Zenon DEF NoConflicts, CreationsReady, SendsReady
<1>4. CreationFinal' /\ EventsOfObjects'
  BY Zenon DEF CrashRestart, ChainInv, CreationFinal, EventsOfObjects
<1> QED
  BY <1>2, <1>3, <1>4, Zenon DEF ChainInv

LEMMA ChainInvStep == ChainInv /\ [ChainNext]_chainVars => ChainInv'
<1> SUFFICES ASSUME ChainInv, [ChainNext]_chainVars PROVE ChainInv'
  BY Zenon
<1>1. regions \subseteq Regions /\ stores \subseteq Regions /\ paired \subseteq Regions
  BY Zenon DEF ChainInv, ChainTypeOK
<1>2. ASSUME NEW e \in Executors, NEW t \in Txs, Begin(e, t) PROVE ChainInv'
  BY <1>2, BeginStep, Zenon
<1>3. ASSUME NEW e \in Executors, CheckFails(e) \/ Check(e) \/ StoreEvent(e) \/ StoreObject(e)
      PROVE  ChainInv'
  BY <1>3, CheckFailsStep, CheckStep, StoreEventStep, StoreObjectStep, Zenon
<1>4. ASSUME NEW r \in Regions,
             CreateRegion(r) \/ UpdateRegion(r) \/ SetRegion(r) \/ DeleteRegion(r) \/ PairRegion(r)
      PROVE  ChainInv'
  <2>1. /\ UNCHANGED <<objects, events, run, done>>
        /\ regions' \subseteq Regions /\ stores' \subseteq Regions /\ paired' \subseteq Regions
    BY <1>1, <1>4, Zenon
       DEF CreateRegion, UpdateRegion, SetRegion, DeleteRegion, PairRegion, OpenStore
  <2> QED
    BY <2>1, RegionStep, Zenon
<1>5. CASE UNCHANGED chainVars
  BY <1>1, <1>5, RegionStep, Zenon DEF chainVars
<1> QED
  BY <1>2, <1>3, <1>4, <1>5, CrashStep, Zenon DEF ChainNext

-----------------------------------------------------------------------------
\* A creation that has succeeded is final, for every set of actions, executors
\* and regions: CreateObject.Execute and executeCreateObject look the object up
\* before they write it, and its declared key keeps every other creation and
\* event of it away in between; a failed or lost write is never taken back.
THEOREM CreationIsFinal == ChainSpec => []CreationFinal
<1>1. ChainInv => CreationFinal
  BY Zenon DEF ChainInv
<1> QED
  BY <1>1, ChainInvInit, ChainInvStep, PTL DEF ChainSpec

\* Every stored event is about an object of its region: SendEvent.Execute finds
\* the object before it writes the event and nothing removes an object, whatever
\* fails between the two writes and whatever the process loses in a crash.
THEOREM EventsHaveObjects == ChainSpec => []EventsOfObjects
<1>1. ChainInv => EventsOfObjects
  BY Zenon DEF ChainInv
<1> QED
  BY <1>1, ChainInvInit, ChainInvStep, PTL DEF ChainSpec
=============================================================================
