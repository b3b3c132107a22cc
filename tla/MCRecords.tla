------------------------------ MODULE MCRecords ------------------------------
(***************************************************************************)
(* The coordinator's registry and the storages that its records go to, for *)
(* TLC.  They share no state, so a behaviour exercises one of them: part   *)
(* says which.                                                             *)
(***************************************************************************)
EXTENDS MCRegistry, CoordStorage, FiniteSets

VARIABLE part

mcVars == <<regVars, storageVars, part>>

\* Worker a:b has the key of the channel of a and b, worker region:a the key of
\* region a, and the channel of a and b:b the key of that of a:b and b.
a == <<"a">>
b == <<"b">>
ab == <<"a", ":", "b">>
regionA == <<"region", ":", "a">>

MCNameOrder == <<a, ab, b, <<"b", ":", "b">>, regionA>>

\* A worker and a channel that an earlier process left.
MCOnDisk == {a, ab}

\* The entries of the caches that a part writes, beside a region's key.
MCEntries == [shared |-> {<<"channel", ab>>, <<"worker", ab>>},
              cached |-> {<<"worker", a>>, <<"worker", regionA>>}]
MCRegionKey == [shared |-> RegionKey(b), cached |-> RegionKey(a)]

Only(p) ==
    /\ part = p
    /\ UNCHANGED part
    /\ p # "registry" => UNCHANGED regVars
    /\ p = "registry" => UNCHANGED storageVars

WithinEntries(E) ==
    /\ \A c \in Caches : \A k \in DOMAIN recordCache'[c] : <<c, k>> \in E
    /\ DOMAIN given' \subseteq E
    /\ loader' = NotLoading \/ <<loader'.kind, loader'.key>> \in E
    /\ DOMAIN stored' \subseteq {e[2] : e \in E} \cup {MCRegionKey[part]}

\* MerkleStorage has three parts: two entries that share a key, two entries of one
\* cache, and the records that are not cached.
MCInit ==
    /\ part \in {"registry", "shared", "cached", "records", "wrapper"}
    /\ RegInit /\ StorageInit

MCNext ==
    \/ Only("registry") /\ RegNext
    \/ \E p \in DOMAIN MCEntries : Only(p) /\ MerkleNext /\ WithinEntries(MCEntries[p])
    \/ /\ Only("records") /\ MerkleNext /\ Cardinality(DOMAIN stored') <= 2
       /\ UNCHANGED <<recordCache, loader, given>>
    \/ Only("wrapper") /\ WrapperNext /\ Cardinality(DOMAIN wrapped') <= 2

MCSpec == MCInit /\ [][MCNext]_mcVars
=============================================================================
