------------------------------- MODULE Stores -------------------------------
(***************************************************************************)
(* The storage package: how StateManager routes a key (state_manager.go),  *)
(* the records RegionStateStore keeps (region_state_store.go), the         *)
(* coordination state kept under one key (storage.go), the cached          *)
(* configurations of RegionStore (region_store.go) and the listing of a    *)
(* prefix (iterator.go, wrapper.go).  The parts share no state.            *)
(*                                                                         *)
(* A key is the sequence of the segments that "/" joins.                   *)
(***************************************************************************)
EXTENDS Naturals, Sequences, FiniteSets, Functions

CONSTANTS
    StoreRegions,  \* region names, one segment each
    ConfigRegions, \* those whose configurations RegionStore keeps
    ConfigWriters, \* goroutines that call its SetRegionConfig and DeleteRegionConfig
    StoreValues,   \* contents of a record
    QueueIDs,      \* events that QueueEvent queues
    Listable       \* keys under the prefix that is listed

NoName == ""

VARIABLES
    backing,     \* StateManager.db, which backingStore wraps
    merkle,      \* StateManager.merkleDB, as MerkleStore writes it
    nested,      \* RegionalStateManager.stores: the contents of each region's own database
    setTo,       \* history: by record, what was set and not deleted since
    coordState,  \* the value under the key coordPrefix, a set of at most one
    eventKeys,      \* the event keys written
    queued,      \* history: the events queued, with their regions
    panicked,    \* a write to a nil map
    nilSet,      \* history: a coordination state without a task map was stored
    workersSet,  \* history: one with two workers was stored
    configView,  \* RegionStore.view
    configCache, \* RegionStore.cache
    configWriter,\* by goroutine, the cache update it has still to make
    configRead,  \* a goroutine in GetRegionConfig
    configSet,   \* history: by region, what was set and not deleted since
    overlapped,  \* history: regions written while another write or a read of
                 \* them was under way
    iter         \* a listing under way

routeVars == <<backing, merkle, nested, setTo>>
stateVars == <<coordState, eventKeys, queued, panicked, nilSet, workersSet>>
configVars == <<configView, configCache, configWriter, configRead, configSet, overlapped>>
storesVars == <<routeVars, stateVars, configVars, iter>>

Nothing == [x \in {} |-> 0]
Bind(f, k, v) == [x \in DOMAIN f \cup {k} |-> IF x = k THEN v ELSE f[x]]
Erase(f, k) == Restrict(f, DOMAIN f \ {k})
At(f, k) == {f[x] : x \in DOMAIN f \cap {k}}

-----------------------------------------------------------------------------
(* StateManager and RegionStateStore *)

\* The key ends in "/" when its last part is empty.
makeRegionKey(a, b, c) == <<a, b, c>>

IsRegionalKey(key) == Len(key) >= 2 /\ key[1] = "r"

makeRegionalKey(r, key) == <<"r", r>> \o key

\* GetRegionalStore of RegionalStateManager makes a store without a coordinator.
GetRegionalStore(r) == IF r \in DOMAIN nested THEN nested ELSE Bind(nested, r, Nothing)

\* StateManager.Insert.  For a regional key it calls Insert of a store whose
\* coordinator is nil: the call panics before anything is written.
StoreInsert(key, v) ==
    IF IsRegionalKey(key)
    THEN nested' = GetRegionalStore(key[2]) /\ UNCHANGED <<backing, merkle>>
    ELSE backing' = Bind(backing, key, v) /\ UNCHANGED <<merkle, nested>>

StoreRemove(key) ==
    IF IsRegionalKey(key)
    THEN LET stores == GetRegionalStore(key[2])
         IN  nested' = [stores EXCEPT ![key[2]] = Erase(@, makeRegionalKey(key[2], key))]
             /\ UNCHANGED <<backing, merkle>>
    ELSE backing' = Erase(backing, key) /\ UNCHANGED <<merkle, nested>>

StoreGetValue(key) ==
    IF IsRegionalKey(key)
    THEN At(GetRegionalStore(key[2])[key[2]], makeRegionalKey(key[2], key))
    ELSE At(backing, key)

\* MerkleStore.Insert on the store that getRegionalStoreInternal made, which has
\* a coordinator.
MerkleInsert(r, key, v) ==
    /\ merkle' = Bind(merkle, makeRegionalKey(r, key), v)
    /\ UNCHANGED <<backing, nested>>

Sets(kind, vs) == setTo' = Bind(setTo, kind, vs)

SetRegionConfig(r, v) ==
    StoreInsert(makeRegionKey("config", r, NoName), v) /\ Sets(<<"config", r>>, {v})
GetRegionConfig(r) == StoreGetValue(makeRegionKey("config", r, NoName))
DeleteRegionConfig(r) ==
    StoreRemove(makeRegionKey("config", r, NoName)) /\ Sets(<<"config", r>>, {})

\* LoadRegion reads the same key, for a region given as a map.
LoadRegionMap(r) == GetRegionConfig(r)

SaveRegionSettings(r, v) ==
    StoreInsert(makeRegionKey("settings", r, NoName), v) /\ Sets(<<"settings", r>>, {v})
GetRegionSettings(r) == StoreGetValue(makeRegionKey("settings", r, NoName))

SavePairState(r, p, v) == StoreInsert(makeRegionKey("state", r, p), v) /\ Sets(<<"state", r>>, {v})
GetPairState(r, p) == StoreGetValue(makeRegionKey("state", r, p))

SavePairMetrics(r, p, v) ==
    StoreInsert(makeRegionKey("metrics", r, p), v) /\ Sets(<<"metrics", r>>, {v})
GetPairMetrics(r, p) == StoreGetValue(makeRegionKey("metrics", r, p))

\* StateManager's own record of a region, under another prefix.
SaveRegionRecord(r, v) == StoreInsert(<<"region", r>>, v) /\ Sets(<<"region", r>>, {v})
LoadRegionRecord(r) == StoreGetValue(<<"region", r>>)

DeleteRegionRecord(r) ==
    /\ backing' = Erase(backing, <<"region", r>>)
    /\ UNCHANGED <<merkle, nested>>
    /\ Sets(<<"region", r>>, {})

\* StateManager.SetObject, the region's TEE pair being known.
SetRegionObject(r, id, v) ==
    /\ MerkleInsert(r, makeRegionKey(r, "object", id), v)
    /\ UNCHANGED setTo

\* The key GetRegionProof asks the region's MerkleStore about.
GetRegionProof(r) == At(merkle, makeRegionalKey(r, makeRegionKey("config", r, NoName)))

RouteNext ==
    \/ \E r \in StoreRegions, v \in StoreValues :
          \/ SetRegionConfig(r, v)
          \/ SaveRegionSettings(r, v)
          \/ SavePairState(r, "p", v)
          \/ SavePairMetrics(r, "p", v)
          \/ SaveRegionRecord(r, v)
          \/ SetRegionObject(r, "x", v)
          \/ StoreInsert(<<"r", r, "object">>, v) /\ UNCHANGED setTo
    \/ \E r \in StoreRegions :
          \/ DeleteRegionConfig(r)
          \/ DeleteRegionRecord(r)
          \/ StoreRemove(<<"r", r, "object">>) /\ UNCHANGED setTo

-----------------------------------------------------------------------------
(* The coordination state *)

\* Regional events have a key of their own; the others share EventKey.
makeEventKey(r, e) == IF r = NoName THEN <<"event", e>> ELSE <<"r", r, "event", e>>

GetEvent(e) == <<"event", e>> \in eventKeys

\* Mutant: a missing state comes without a task map.
GetCoordinationStateNil ==
    IF coordState = {} THEN [workers |-> 0, nil |-> TRUE, tasks |-> {}]
    ELSE CHOOSE s \in coordState : TRUE

\* A missing state is one without workers whose task map is empty; a stored one
\* is decoded as it was encoded, without a task map when it had none.
GetCoordinationState ==
    IF coordState = {} THEN [workers |-> 0, nil |-> FALSE, tasks |-> {}]
    ELSE CHOOSE s \in coordState : TRUE

SetCoordinationState(s) == coordState' = {s}

\* SetObject's coordination part: the caller's state replaces the stored one.
SetObjectState(s) ==
    /\ SetCoordinationState(s)
    /\ nilSet' = (nilSet \/ s.nil)
    /\ workersSet' = (workersSet \/ s.workers = 2)
    /\ UNCHANGED <<eventKeys, queued, panicked>>

\* An assignment to an entry of a nil map panics.
UpdateTaskState(e) ==
    LET s == GetCoordinationState IN
    /\ IF s.nil THEN UNCHANGED coordState
       ELSE SetCoordinationState([s EXCEPT !.tasks = @ \cup {e}])
    /\ panicked' = s.nil

\* The event is written first; tracked: the caller passed a coordination state.
QueueEvent(r, e, tracked) ==
    /\ eventKeys' = eventKeys \cup {makeEventKey(r, e)}
    /\ queued' = queued \cup {<<r, e>>}
    /\ IF tracked THEN UpdateTaskState(e) ELSE UNCHANGED <<coordState, panicked>>
    /\ UNCHANGED <<nilSet, workersSet>>

\* Every task has two workers and an attestation, as UpdateTaskState writes it.
ValidateCoordinationState(s) == s.workers >= 2

StateNext ==
    /\ ~panicked
    /\ \/ \E w \in {0, 2} :
             \/ SetObjectState([workers |-> w, nil |-> TRUE, tasks |-> {}])
             \/ \E ts \in SUBSET QueueIDs : SetObjectState([workers |-> w, nil |-> FALSE, tasks |-> ts])
       \/ \E r \in StoreRegions \cup {NoName}, e \in QueueIDs, tracked \in BOOLEAN :
             QueueEvent(r, e, tracked)

-----------------------------------------------------------------------------
(* RegionStore: configurations in views of a database, and a cache *)

NotReadingConfig == [pc |-> "idle", region |-> NoName, value |-> {}]

\* Writers that have stored a configuration of the region and not yet cached it.
Pending(r) == {w \in ConfigWriters : configWriter[w].pc # "idle" /\ configWriter[w].region = r}

Overlap(r) ==
    overlapped' = IF Pending(r) # {} \/ (configRead.pc # "idle" /\ configRead.region = r)
                  THEN overlapped \cup {r} ELSE overlapped \ {r}

\* Every view is made of the database, which RegionStore never writes.  One that
\* cannot be made changes nothing.
updateState(r, vs) == configView' = [x \in IF vs = {} THEN {} ELSE {r} |-> vs]

\* A write ends its hold of viewLock before it takes cacheLock.
ConfigStored(w, r, vs) ==
    /\ configWriter[w].pc = "idle"
    /\ updateState(r, vs)
    /\ configSet' = [configSet EXCEPT ![r] = vs]
    /\ Overlap(r) /\ UNCHANGED <<configCache, configRead>>

CachedSetRegionConfig(w, r, v) ==
    /\ ConfigStored(w, r, {v})
    /\ configWriter' = [configWriter EXCEPT ![w] = [pc |-> "cache", region |-> r, value |-> {v}]]

\* Mutant: the cache is left alone.
CachedDeleteRegionConfigOnly(w, r) == ConfigStored(w, r, {}) /\ UNCHANGED configWriter

CachedDeleteRegionConfig(w, r) ==
    /\ ConfigStored(w, r, {})
    /\ configWriter' = [configWriter EXCEPT ![w] = [pc |-> "cache", region |-> r, value |-> {}]]

\* The second half of both.
CacheWrite(w) ==
    LET c == configWriter[w] IN
    /\ c.pc = "cache"
    /\ configCache' = IF c.value = {} THEN Erase(configCache, c.region)
                      ELSE Bind(configCache, c.region, c.value)
    /\ configWriter' = [configWriter EXCEPT ![w] = NotReadingConfig]
    /\ UNCHANGED <<configView, configRead, configSet, overlapped>>

\* GetRegionConfig misses the cache, reads the view, fills the cache.
CacheMiss(r) ==
    /\ configRead.pc = "idle" /\ r \notin DOMAIN configCache
    /\ configRead' = [pc |-> "view", region |-> r, value |-> {}]
    /\ overlapped' = IF Pending(r) = {} THEN overlapped \ {r} ELSE overlapped
    /\ UNCHANGED <<configView, configCache, configWriter, configSet>>

ViewRead ==
    /\ configRead.pc = "view"
    /\ configRead' = IF configRead.region \in DOMAIN configView
                     THEN [configRead EXCEPT !.pc = "fill", !.value = configView[configRead.region]]
                     ELSE NotReadingConfig
    /\ UNCHANGED <<configView, configCache, configWriter, configSet, overlapped>>

CacheFill ==
    /\ configRead.pc = "fill"
    /\ configCache' = Bind(configCache, configRead.region, configRead.value)
    /\ configRead' = NotReadingConfig
    /\ UNCHANGED <<configView, configWriter, configSet, overlapped>>

ConfigNext ==
    \/ \E w \in ConfigWriters, r \in ConfigRegions :
          \/ \E v \in StoreValues : CachedSetRegionConfig(w, r, v)
          \/ CachedDeleteRegionConfig(w, r)
    \/ \E w \in ConfigWriters : CacheWrite(w)
    \/ \E r \in ConfigRegions : CacheMiss(r)
    \/ ViewRead \/ CacheFill

-----------------------------------------------------------------------------
(* Listing a prefix *)

IterError(i) == i.err

\* RegionIterator.Next: nothing after an error, nothing once the context is done.
IterNext ==
    /\ iter.more
    /\ iter' = CASE iter.done                      -> [iter EXCEPT !.more = FALSE, !.err = TRUE]
                 [] ~iter.done /\ iter.left # {}   ->
                      LET k == CHOOSE x \in iter.left : TRUE
                      IN  [iter EXCEPT !.left = @ \ {k}, !.listed = @ \cup {k}]
                 [] ~iter.done /\ iter.left = {}   -> [iter EXCEPT !.more = FALSE]

\* The caller's context ends.
CancelListing == ~iter.done /\ iter.more /\ iter' = [iter EXCEPT !.done = TRUE]

\* The value GetByPrefix returns: a list, or an error.
GetByPrefix(i) == IF IterError(i) THEN {} ELSE {i.listed}

IterStep == IterNext \/ CancelListing

-----------------------------------------------------------------------------
StoresInit ==
    /\ backing = Nothing /\ merkle = Nothing /\ nested = Nothing /\ setTo = Nothing
    /\ coordState = {} /\ eventKeys = {} /\ queued = {} /\ panicked = FALSE
    /\ nilSet = FALSE /\ workersSet = FALSE
    /\ configView = Nothing /\ configCache = Nothing /\ configRead = NotReadingConfig
    /\ configWriter = [w \in ConfigWriters |-> NotReadingConfig]
    /\ configSet = [r \in ConfigRegions |-> {}] /\ overlapped = {}
    /\ iter \in [left : SUBSET Listable, all : SUBSET Listable, listed : {{}},
                 done : {FALSE}, err : {FALSE}, more : {TRUE}]
    /\ iter.all = iter.left

StoresNext ==
    \/ RouteNext /\ UNCHANGED <<stateVars, configVars, iter>>
    \/ StateNext /\ UNCHANGED <<routeVars, configVars, iter>>
    \/ ConfigNext /\ UNCHANGED <<routeVars, stateVars, iter>>
    \/ IterStep /\ UNCHANGED <<routeVars, stateVars, configVars>>

StoresSpec == StoresInit /\ [][StoresNext]_storesVars

-----------------------------------------------------------------------------
\* Nothing can be stored under a regional key through StateManager: its Insert
\* panics, so that GetValue of a key "r/<region>/..." finds nothing, the objects
\* and events of the region included.
RegionalKeysUnread ==
    \A k \in DOMAIN merkle \cup {<<"r", r, "object">> : r \in StoreRegions} : StoreGetValue(k) = {}

\* Each record is served as it was set last, whatever happened to the other
\* records of its region: deleting a region's record leaves its configuration.
RecordsIndependent ==
    LET Served(kind, vs) == kind \in DOMAIN setTo => vs = setTo[kind] IN
    \A r \in StoreRegions :
        /\ Served(<<"config", r>>, GetRegionConfig(r)) /\ LoadRegionMap(r) = GetRegionConfig(r)
        /\ Served(<<"settings", r>>, GetRegionSettings(r))
        /\ Served(<<"state", r>>, GetPairState(r, "p"))
        /\ Served(<<"metrics", r>>, GetPairMetrics(r, "p"))
        /\ Served(<<"region", r>>, LoadRegionRecord(r))

\* GetRegionProof asks the region's MerkleStore for the proof of a configuration
\* that SetRegionConfig keeps in the backing store: it proves the absence of every
\* configuration, the served ones included.
ProofOfAbsence == \A r \in StoreRegions : GetRegionProof(r) = {}

\* Queueing an event panics only after SetObject stored a coordination state
\* without a task map; a state that was never stored has one.
PanicNeedsNilMap == panicked => nilSet

\* The stored coordination state is valid only when SetObject stored one with two
\* workers: queueing events records workers for each task and none for the state.
ValidNeedsWorkers ==
    \A s \in coordState : ValidateCoordinationState(s) => workersSet

\* GetEvent finds an event only when it was queued without a region.
GlobalEventsOnly ==
    \A e \in QueueIDs : GetEvent(e) <=> <<NoName, e>> \in queued

\* When no write of a region is under way, its cached configuration is the one
\* stored last, unless its last write overlapped another one or a GetRegionConfig
\* between its look at the cache and its filling of it: then the cache may keep
\* what was replaced or deleted.
ConfigCacheCurrent ==
    \A r \in DOMAIN configCache \ overlapped : Pending(r) = {} => configCache[r] = configSet[r]

\* Only the region written last has its configuration in the view: GetProof
\* proves the absence of every other configuration, the cached ones included.
ProvedIsLastWritten ==
    \A r, q \in ConfigRegions : r \in DOMAIN configView /\ q \in DOMAIN configView => r = q

\* A listing that returns without an error is complete, however late its context
\* ended.
ListingComplete == ~iter.more => GetByPrefix(iter) \in {{}, {iter.all}}

\* What the readers of the storage package find: the records as they were set last
\* and complete listings, while the proofs look under other keys than the writers
\* use.
ReadersFind ==
    /\ RecordsIndependent /\ ListingComplete
    /\ ConfigCacheCurrent /\ ProvedIsLastWritten
    /\ RegionalKeysUnread /\ ProofOfAbsence

\* What QueueEvent and SetObject leave of the coordination state and the events:
\* when the state is usable, when it is valid, and which events are found again.
EventsQueued == PanicNeedsNilMap /\ ValidNeedsWorkers /\ GlobalEventsOnly
=============================================================================
