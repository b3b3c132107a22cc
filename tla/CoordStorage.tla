---------------------------- MODULE CoordStorage ----------------------------
(***************************************************************************)
(* The two storages of the coordination package: MerkleStorage             *)
(* (coordination/storage.go), which writes views of a database and caches  *)
(* channels and workers, and StorageWrapper (storage_wrapper.go), which    *)
(* keeps every record under a prefixed key of the storage it wraps.        *)
(*                                                                         *)
(* A string is a sequence of its parts, the colon among them, so that the  *)
(* key of one record can be that of another whose name holds a colon.  A   *)
(* record is one of Records, a key without a record is not in the domain.  *)
(***************************************************************************)
EXTENDS Naturals, Sequences

CONSTANTS
    Records,     \* the contents that a cached record can have
    WRecords,    \* and one of the others
    NameOrder,   \* the names of regions, pairs and workers in the order of strings
    OnDisk       \* the keys of the merkle database when the process starts

VARIABLES
    merkleView,  \* MerkleStorage.view
    merkleDB,    \* MerkleStorage.db
    recordCache, \* MerkleStorage.cache: the channels and the workers
    loader,      \* a goroutine in LoadChannel or LoadWorker
    base,        \* StorageWrapper.base
    given,       \* history: by cache and key, the record last given to be saved,
                 \* none once it was to be deleted
    stored,      \* history: by key, the record of the last write that succeeded
    overtaken,   \* history: the cached or loading keys written by another way
    wrapped      \* history: by kind and names, what StorageWrapper was given

merkleVars == <<merkleView, merkleDB, recordCache, loader, given, stored, overtaken>>
wrapperVars == <<base, wrapped>>
storageVars == <<merkleVars, wrapperVars>>

Caches == {"channel", "worker"}

With(f, k, v) == [x \in DOMAIN f \cup {k} |-> IF x = k THEN v ELSE f[x]]
Without(f, k) == [x \in DOMAIN f \ {k} |-> f[x]]
Empty == [x \in {} |-> 0]

\* What a map holds under a key: a record, as <<v>>, or nothing.
Held(f, k) == IF k \in DOMAIN f THEN <<f[k]>> ELSE <<>>

\* A map once a record has been put under the key, or deleted.
Changed(f, k, vs) == IF vs = <<>> THEN Without(f, k) ELSE With(f, k, vs[1])

NotLoading == [pc |-> "idle", kind |-> "none", key |-> <<>>, data |-> 0]

Names == {NameOrder[i] : i \in DOMAIN NameOrder}
Before(w1, w2) == \E i, j \in DOMAIN NameOrder : i < j /\ NameOrder[i] = w1 /\ NameOrder[j] = w2

\* Mutant: the names come in the order they are given.
makeChannelKeyAsGiven(w1, w2) == w1 \o <<":">> \o w2

\* The lesser name comes first.
makeChannelKey(w1, w2) == IF Before(w1, w2) THEN w1 \o <<":">> \o w2 ELSE w2 \o <<":">> \o w1

RegionKey(n) == <<"region", ":">> \o n
PairKey(n) == <<"tee", ":", "pair", ":">> \o n
MetricsKey(n) == <<"tee", ":", "metrics", ":">> \o n
StateKey == <<"coordinator", ":", "state">>

\* Strings are totally ordered.
ASSUME StorageAssumption ==
    /\ NameOrder \in Seq(Seq(STRING))
    /\ \A i, j \in DOMAIN NameOrder : NameOrder[i] = NameOrder[j] => i = j
    /\ Records # {}

StorageInit ==
    /\ merkleDB = [k \in OnDisk |-> CHOOSE r \in Records : TRUE]
    /\ merkleView = merkleDB
    /\ recordCache = [c \in Caches |-> Empty]
    /\ loader = NotLoading
    /\ given = Empty /\ stored = Empty /\ overtaken = {}
    /\ base = Empty /\ wrapped = Empty

-----------------------------------------------------------------------------
(* MerkleStorage *)

Busy(c, k) == loader.pc # "idle" /\ loader.kind = c /\ loader.key = k

\* The entries that a write of the key through cache c does not bring up to date:
\* one that is being loaded, and those of the other cache.
Overtakes(c, k) ==
    {<<d, k>> : d \in {d \in Caches : Busy(d, k) \/ (d # c /\ k \in DOMAIN recordCache[d])}}

\* Put and Delete make a view of the database with one change.  One that fails
\* leaves the view as it is.
PutOrDelete(c, k, vs) ==
    /\ merkleView' = Changed(merkleDB, k, vs)
    /\ stored' = Changed(stored, k, vs)
    /\ overtaken' = (overtaken \ {<<c, k>>}) \cup Overtakes(c, k)
    /\ UNCHANGED merkleDB

\* NewView with any changes, here those of two keys.
NewView(k1, k2, v) ==
    /\ merkleView' = With(With(merkleDB, k1, v), k2, v)
    /\ stored' = With(With(stored, k1, v), k2, v)
    /\ overtaken' = overtaken \cup Overtakes("none", k1) \cup Overtakes("none", k2)
    /\ UNCHANGED <<merkleDB, recordCache, loader, given>>

\* Get reads the view; a view of no changes would answer as the database does.
Get(key) == Held(merkleView, key)
GetOnDisk(key) == Held(merkleDB, key)

Uncached(k, vs) == PutOrDelete("none", k, vs) /\ UNCHANGED <<recordCache, loader, given>>

SaveRegion(n, v) == Uncached(RegionKey(n), <<v>>)

MerkleDeleteRegion(n) == Uncached(RegionKey(n), <<>>)

SaveTEEPairInfo(n, v) == Uncached(PairKey(n), <<v>>)

SaveTEEMetrics(n, v) == Uncached(MetricsKey(n), <<v>>)

SaveCoordinatorState(v) == Uncached(StateKey, <<v>>)

\* Under the cache's lock the record is put in the cache, or deleted from it, and
\* then in the view: when that fails the cache keeps the change.
ThroughCache(c, k, vs) ==
    /\ recordCache' = [recordCache EXCEPT ![c] = Changed(@, k, vs)]
    /\ given' = Changed(given, <<c, k>>, vs)
    /\ \/ PutOrDelete(c, k, vs)
       \/ /\ overtaken' = IF Busy(c, k) THEN overtaken \cup {<<c, k>>} ELSE overtaken \ {<<c, k>>}
          /\ UNCHANGED <<merkleView, merkleDB, stored>>
    /\ UNCHANGED loader

SaveChannel(w1, w2, v) == ThroughCache("channel", makeChannelKey(w1, w2), <<v>>)
DeleteChannel(w1, w2) == ThroughCache("channel", makeChannelKey(w1, w2), <<>>)

\* A worker's key is its bare name.
SaveWorker(w, v) == ThroughCache("worker", w, <<v>>)
DeleteWorker(w) == ThroughCache("worker", w, <<>>)

\* A load looks in the cache; not finding the record there, it reads the view after
\* it has given up the lock, and later caches what it has read.
StartLoad(c, k) ==
    /\ loader.pc = "idle" /\ k \notin DOMAIN recordCache[c]
    /\ loader' = [NotLoading EXCEPT !.pc = "get", !.kind = c, !.key = k]
    /\ overtaken' = overtaken \ {<<c, k>>}
    /\ UNCHANGED <<merkleView, merkleDB, recordCache, given, stored>>

LoadChannel(w1, w2) == StartLoad("channel", makeChannelKey(w1, w2))
LoadWorker(w) == StartLoad("worker", w)

\* The load ends with an error for a key that the view does not have, when the
\* view cannot be read, and when what it has is no record of this kind.
LoadGet ==
    /\ loader.pc = "get"
    /\ \/ loader' = NotLoading
       \/ /\ loader.key \in DOMAIN merkleView
          /\ loader' = [loader EXCEPT !.pc = "cache", !.data = merkleView[loader.key]]
    /\ UNCHANGED <<merkleView, merkleDB, recordCache, given, stored, overtaken>>

LoadCache ==
    /\ loader.pc = "cache"
    /\ recordCache' = [recordCache EXCEPT ![loader.kind] = With(@, loader.key, loader.data)]
    /\ loader' = NotLoading
    /\ UNCHANGED <<merkleView, merkleDB, given, stored, overtaken>>

MerkleNext ==
    /\ \/ \E v \in WRecords :
           \/ SaveCoordinatorState(v)
           \/ \E n \in Names : SaveRegion(n, v) \/ SaveTEEPairInfo(n, v) \/ SaveTEEMetrics(n, v)
           \/ \E n, m \in Names : n # m /\ NewView(RegionKey(n), RegionKey(m), v)
       \/ \E v \in Records :
           \/ \E w \in Names : SaveWorker(w, v)
           \/ \E n, m \in Names : n # m /\ SaveChannel(n, m, v)
       \/ \E n \in Names : MerkleDeleteRegion(n) \/ DeleteWorker(n) \/ LoadWorker(n)
       \/ \E n, m \in Names : n # m /\ (DeleteChannel(n, m) \/ LoadChannel(n, m))
       \/ LoadGet \/ LoadCache
    /\ UNCHANGED wrapperVars

-----------------------------------------------------------------------------
(* StorageWrapper *)

\* A write of the wrapped storage that fails changes nothing.
WChange(k, kind, vs) == base' = Changed(base, k, vs) /\ wrapped' = Changed(wrapped, kind, vs)
WPut(k, kind, v) == WChange(k, kind, <<v>>)
WDelete(k, kind) == WChange(k, kind, <<>>)
WGet(k) == Held(base, k)

channelPrefix == "channel/"
workerPrefix == "worker/"
regionPrefix == "region/"

teePrefix == "tee/"
metricsPrefix == "metrics/"

WSaveChannel(w1, w2, v) == WPut(<<channelPrefix>> \o makeChannelKey(w1, w2), <<"channel", {w1, w2}>>, v)
WLoadChannel(w1, w2) == WGet(<<channelPrefix>> \o makeChannelKey(w1, w2))
WDeleteChannel(w1, w2) == WDelete(<<channelPrefix>> \o makeChannelKey(w1, w2), <<"channel", {w1, w2}>>)

WSaveWorker(w, v) == WPut(<<workerPrefix>> \o w, <<"worker", {w}>>, v)
WLoadWorker(w) == WGet(<<workerPrefix>> \o w)
WDeleteWorker(w) == WDelete(<<workerPrefix>> \o w, <<"worker", {w}>>)

WSaveRegion(n, v) == WPut(<<regionPrefix>> \o n, <<"region", {n}>>, v)
WLoadRegion(n) == WGet(<<regionPrefix>> \o n)
WDeleteRegion(n) == WDelete(<<regionPrefix>> \o n, <<"region", {n}>>)

WSaveTEEPairInfo(n, v) == WPut(<<teePrefix>> \o n, <<"tee", {n}>>, v)
WGetTEEPairInfo(n) == WGet(<<teePrefix>> \o n)
WListTEEPairInfo == {base[k] : k \in {x \in DOMAIN base : x[1] = teePrefix}}

WSaveTEEMetrics(n, v) == WPut(<<metricsPrefix>> \o n, <<"metrics", {n}>>, v)
WGetTEEMetrics(n) == WGet(<<metricsPrefix>> \o n)

WSaveCoordinatorState(v) == WPut(<<"coordinator_state">>, <<"state", {}>>, v)
WLoadCoordinatorState == WGet(<<"coordinator_state">>)

WrapperNext ==
    /\ \/ \E v \in WRecords :
           \/ WSaveCoordinatorState(v)
           \/ \E n \in Names : WSaveWorker(n, v) \/ WSaveRegion(n, v) \/ WSaveTEEPairInfo(n, v) \/ WSaveTEEMetrics(n, v)
           \/ \E n, m \in Names : n # m /\ WSaveChannel(n, m, v)
       \/ \E n \in Names : WDeleteWorker(n) \/ WDeleteRegion(n)
       \/ \E n, m \in Names : n # m /\ WDeleteChannel(n, m)
    /\ UNCHANGED merkleVars

StorageNext == MerkleNext \/ WrapperNext
StorageSpec == StorageInit /\ [][StorageNext]_storageVars

-----------------------------------------------------------------------------
\* MerkleStorage: of all that was written, the view has at most what the last
\* write left, of two keys.  Every other key loads as the database has it: a view
\* holds the changes of one write, and no write reaches the database.
LastWriteLoads ==
    LET differ == {k \in DOMAIN merkleView \cup DOMAIN merkleDB : Get(k) # GetOnDisk(k)}
    IN  /\ \A k \in differ : Get(k) = Held(stored, k)
        /\ \A k1, k2, k3 \in differ : k1 = k2 \/ k2 = k3 \/ k1 = k3

\* What the cache has of a worker or a channel is what was last given to be saved,
\* whether or not it could be stored and although the view may have forgotten it.
\* Where nothing was given, or the last call was to delete it, the cache has nothing
\* or what a load found: what was stored last, which a deletion that failed leaves,
\* or what the disk has, which the next write of another key brings back.  Two
\* entries are not current: one loaded while its key was written, and one whose key
\* another record shares and has written.
CacheCurrent ==
    \A c \in Caches : \A k \in DOMAIN recordCache[c] :
        \/ <<c, k>> \in overtaken
        \/ Held(given, <<c, k>>) = <<recordCache[c][k]>>
        \/ Held(given, <<c, k>>) = <<>> /\ <<recordCache[c][k]>> \in {Held(stored, k), GetOnDisk(k)}

\* A name that holds no colon.
Whole(n) == \A i \in DOMAIN n : n[i] # ":"

Saved(kind) == Held(wrapped, kind)

\* StorageWrapper: every record is loaded as it was last saved and not after it
\* was deleted, whatever was saved of other kinds, and a channel whichever of its
\* workers is named first, provided that no colon in the workers' names makes its
\* key that of another channel.
RecordsApart ==
    /\ \A n \in Names : /\ WLoadWorker(n) = Saved(<<"worker", {n}>>)
                        /\ WLoadRegion(n) = Saved(<<"region", {n}>>)
                        /\ WGetTEEPairInfo(n) = Saved(<<"tee", {n}>>)
                        /\ WGetTEEMetrics(n) = Saved(<<"metrics", {n}>>)
    /\ \A n, m \in Names :
        n # m /\ Whole(n) /\ Whole(m) => WLoadChannel(n, m) = Saved(<<"channel", {n, m}>>)
    /\ WLoadCoordinatorState = Saved(<<"state", {}>>)
    /\ WListTEEPairInfo = {Saved(<<"tee", {n}>>)[1] : n \in {x \in Names : Saved(<<"tee", {x}>>) # <<>>}}

\* What the two storages load: MerkleStorage the last write and what it has cached,
\* StorageWrapper each record as it was saved.
RecordsServed == LastWriteLoads /\ CacheCurrent /\ RecordsApart
=============================================================================
