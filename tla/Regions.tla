------------------------------- MODULE Regions -------------------------------
(***************************************************************************)
(* The region manager (regions/manager.go, config.go) and its health       *)
(* checks (health.go), for one region.                                     *)
(*                                                                         *)
(* A *RegionConfig is an object that configs and cache may share, so a     *)
(* pair appended through the one is then seen through the other; the store *)
(* holds copies.  A configuration is its set of pairs; no configuration is *)
(* the empty set, one is a singleton.                                      *)
(* Rates and loads are kept to what their comparisons tell apart: good is  *)
(* a success rate of at least 0.95, a load is below, at or above the       *)
(* limit, errors stop at the three strikes the checks look for, and recent *)
(* says that LastHealthy is within five minutes.  Every write to the store *)
(* may fail.                                                               *)
(***************************************************************************)
EXTENDS Naturals

CONSTANTS
    Pairs,      \* IDs of TEE pairs
    RegionID,   \* the ID a configuration carries
    MaxFaults   \* bound: writes to the store that fail

ASSUME RegionsAssumption == MaxFaults \in Nat

VARIABLES
    configs,    \* RegionManager.configs[region]
    cache,      \* RegionManager.cache[region]
    shared,     \* configs and cache hold the same object
    states,     \* RegionManager.states[region]
    metrics,    \* RegionManager.metrics[region]
    saved,      \* the store's configuration and pair states of the region
    named,      \* history: the pairs that were given a state in memory
    stuck,      \* a caller holds cacheLock for reading and waits for it for writing
    monitor,    \* the goroutine of MonitorRegionHealth
    faults,     \* writes that have failed
    unsaved     \* history: pairs whose state was not written when it was last
                \* to be, or whose stored state a verdict has replaced

regionVars == <<configs, cache, shared, states, metrics, saved, named, stuck,
                monitor, faults, unsaved>>

\* RegisterTEEPair checks neither the ID of a configuration nor those of its pairs.
PairKeys == Pairs \cup {RegionID}

\* The names under which UpdateRegionHealth saves its verdicts.
Verdicts == {"healthy", "unhealthy"}

Loads == 0..2
MaxLoad == 1
Strikes == 3

Config == SUBSET Pairs
State == [status : {"active", "degraded", "healthy", "unhealthy"}, recent : BOOLEAN,
          errors : 0..Strikes, good : BOOLEAN, load : Loads]
Metrics == [good : BOOLEAN, load : Loads]

\* The monitor's pairs left to check, and the verdict it has formed if any.
ManagerIdle == [todo |-> {}, verdict |-> {}]

\* Go maps: functions on the keys they hold.
IsMap(map, K, V) == DOMAIN map \subseteq K /\ \A k \in DOMAIN map : map[k] \in V
PutEntry(map, k, v) == [x \in DOMAIN map \cup {k} |-> IF x = k THEN v ELSE map[x]]
NoEntries == [k \in {} |-> k]

RegionsTypeOK ==
    /\ \A cs \in {configs, cache, saved.config} : cs \subseteq Config /\ \A c, d \in cs : c = d
    /\ shared \in BOOLEAN /\ (shared => configs = cache)
    /\ IsMap(states, PairKeys, State)
    /\ IsMap(metrics, PairKeys, Metrics)
    /\ IsMap(saved.states, PairKeys \cup Verdicts, State)
    /\ DOMAIN states \subseteq named /\ named \subseteq PairKeys
    /\ stuck \in BOOLEAN
    /\ monitor.todo \subseteq Pairs
    /\ monitor.verdict \subseteq [pair : Pairs, healthy : BOOLEAN]
    /\ faults \in 0..MaxFaults /\ unsaved \subseteq PairKeys \cup Verdicts

FreshState == [status |-> "active", recent |-> TRUE, errors |-> 0, good |-> TRUE, load |-> 0]
FreshMetrics == [good |-> TRUE, load |-> 0]

RegionsInit ==
    /\ configs = {} /\ cache = {} /\ shared = FALSE
    /\ states = NoEntries /\ metrics = NoEntries
    /\ saved = [config |-> {}, states |-> NoEntries] /\ named = {}
    /\ stuck = FALSE /\ faults = 0 /\ unsaved = {}
    /\ monitor = ManagerIdle

\* cacheLock is free to be taken: a stuck caller never gives it back, and
\* while it waits to write every later reader is kept out.
LockFree == ~stuck

\* The pairs of a configuration, if there is one.
PairsOf(cs) == UNION cs

-----------------------------------------------------------------------------
(* Configurations *)

\* A write to the store fails.
Fault == faults < MaxFaults /\ faults' = faults + 1

\* RegisterTEEPair files the state under the configuration's own ID and publishes
\* in memory first; the state is written only when the configuration was.  A
\* region without states gets both maps anew, whatever metrics it had.  One with
\* states and without metrics, as UpdateTEEState leaves it, has no map to write
\* the metrics to: the call panics after it has published the state.
RegisterTEEPair(id, c) ==
    /\ LockFree
    /\ configs' = {c} /\ shared' = FALSE
    /\ states' = PutEntry(states, id, FreshState)
    /\ named' = named \cup {id}
    /\ IF states # NoEntries /\ metrics = NoEntries
       THEN unsaved' = unsaved \cup {id} /\ UNCHANGED <<metrics, saved, faults>>
       ELSE /\ metrics' = PutEntry(IF states = NoEntries THEN NoEntries ELSE metrics, id, FreshMetrics)
            /\ \E writes \in 0..2 :
                /\ saved' = [config |-> IF writes > 0 THEN {c} ELSE saved.config,
                             states |-> IF writes > 1 THEN PutEntry(saved.states, id, FreshState)
                                        ELSE saved.states]
                /\ unsaved' = IF writes > 1 THEN unsaved \ {id} ELSE unsaved \cup {id}
                /\ IF writes > 1 THEN UNCHANGED faults ELSE Fault
    /\ UNCHANGED <<cache, stuck, monitor>>

\* UpdateConfig validates, stores and then publishes, without the lock.
UpdateConfig(c) ==
    /\ c # {}
    /\ configs' = {c} /\ shared' = FALSE
    /\ saved' = [saved EXCEPT !.config = {c}]
    /\ UNCHANGED <<cache, states, metrics, named, stuck, monitor, faults, unsaved>>

\* GetConfig loads a configuration it does not hold from the store.
GetConfig ==
    /\ configs = {} /\ saved.config # {}
    /\ configs' = saved.config /\ shared' = FALSE
    /\ UNCHANGED <<cache, states, metrics, saved, named, stuck, monitor, faults, unsaved>>

\* DeleteRegion removes the stored configuration and leaves the maps alone.
ManagerDeleteRegion ==
    /\ saved' = [saved EXCEPT !.config = {}]
    /\ UNCHANGED <<configs, cache, shared, states, metrics, named, stuck, monitor, faults, unsaved>>

\* AddTEEPair appends to the cached object and stores it.
AddTEEPair(p) ==
    /\ LockFree /\ cache # {}
    /\ cache' = {c \cup {p} : c \in cache}
    /\ configs' = IF shared THEN cache' ELSE configs
    /\ \/ saved' = [saved EXCEPT !.config = cache'] /\ UNCHANGED faults
       \/ Fault /\ UNCHANGED saved
    /\ UNCHANGED <<shared, states, metrics, named, stuck, monitor, unsaved>>

\* UpdateCache, InvalidateCache and ClearCache: the object put in is the one
\* configs holds.
UpdateCache ==
    /\ LockFree
    /\ cache' \in {configs, {}}
    /\ shared' = (cache' # {})
    /\ UNCHANGED <<configs, states, metrics, saved, named, stuck, monitor, faults, unsaved>>

\* GetRegionConfig on a miss asks for the write lock while it holds the read
\* lock; on a hit it changes nothing.
CachedRegionConfig ==
    /\ LockFree
    /\ cache = {}
    /\ stuck' = TRUE
    /\ UNCHANGED <<configs, cache, shared, states, metrics, saved, named, monitor, faults, unsaved>>

-----------------------------------------------------------------------------
(* States and metrics *)

\* SaveTEEState of the value just put in memory; it may fail.
SaveTEEState(k, written) ==
    \/ /\ saved' = [saved EXCEPT !.states = PutEntry(@, k, written)]
       /\ unsaved' = unsaved \ {k} /\ UNCHANGED faults
    \/ /\ Fault /\ UNCHANGED saved
       /\ unsaved' = unsaved \cup {k}

\* The update that UpdateHealthStatus hands to UpdateTEEState. (The other one in the
\* source is updatePairHealth's, which nothing calls.)
Judge(s, healthy) ==
    IF healthy
    THEN [s EXCEPT !.status = "healthy", !.recent = TRUE, !.errors = 0]
    ELSE [s EXCEPT !.status = "unhealthy", !.errors = IF @ = Strikes THEN @ ELSE @ + 1]

\* UpdateTEEState: the pair must be one of the configuration's; a pair without a
\* state gets one first, and a state that ends active is healthy now.
Updated(p, healthy) ==
    LET old == IF p \notin DOMAIN states THEN [FreshState EXCEPT !.good = FALSE] ELSE states[p]
        new == Judge(old, healthy)
    IN  IF new.status = "active" THEN [new EXCEPT !.recent = TRUE] ELSE new

UpdateTEEState(p, healthy) ==
    IF p \in PairsOf(configs)
    THEN /\ states' = PutEntry(states, p, Updated(p, healthy))
         /\ named' = named \cup {p}
         /\ SaveTEEState(p, Updated(p, healthy))
    ELSE UNCHANGED <<states, named, saved, faults, unsaved>>

\* What ExecuteInRegion reports of an execution on the pair: updateTEEMetrics
\* keeps the load, the final update sets it, updateTEEError marks a failure and
\* updateVerificationError changes nothing kept here.
Reported(m) ==
    {[m EXCEPT !.good = TRUE], [m EXCEPT !.good = FALSE], m}
        \cup {[good |-> TRUE, load |-> l] : l \in Loads}

\* Mutant: the state is not saved.
UpdateMetricsOnly(k) ==
    /\ LockFree /\ configs # {}
    /\ \E m \in Reported(IF k \in DOMAIN metrics THEN metrics[k] ELSE FreshMetrics) :
        /\ metrics' = PutEntry(metrics, k, m)
        /\ states' = IF k \notin DOMAIN states THEN states
                     ELSE [states EXCEPT ![k].good = m.good, ![k].load = m.load]
    /\ UNCHANGED <<configs, cache, shared, saved, named, stuck, monitor, faults, unsaved>>

\* UpdateMetrics: the pair's state follows the metrics, its status the load, and
\* is saved.  (The metrics are saved too; nothing reads them back.)
UpdateMetrics(k) ==
    /\ LockFree /\ configs # {}
    /\ \E m \in Reported(IF k \in DOMAIN metrics THEN metrics[k] ELSE FreshMetrics) :
        /\ metrics' = PutEntry(metrics, k, m)
        /\ IF k \notin DOMAIN states
           THEN UNCHANGED <<states, saved, faults, unsaved>>
           ELSE /\ states' = [states EXCEPT ![k].good = m.good, ![k].load = m.load,
                                            ![k].status = IF m.load > MaxLoad THEN "degraded" ELSE "active"]
                /\ SaveTEEState(k, states'[k])
    /\ UNCHANGED <<configs, cache, shared, named, stuck, monitor>>

\* Five minutes pass since a state was last healthy.
Age(k) ==
    /\ k \in DOMAIN states /\ states[k].recent
    /\ states' = [states EXCEPT ![k].recent = FALSE]
    /\ saved' = IF k \notin DOMAIN saved.states THEN saved
                ELSE [saved EXCEPT !.states[k].recent = FALSE]
    /\ UNCHANGED <<configs, cache, shared, metrics, named, stuck, monitor, faults, unsaved>>

-----------------------------------------------------------------------------
(* The health monitors *)

\* MonitorRegionHealth, checkRegionHealth: the pairs are read without the lock.
CheckRegion ==
    /\ monitor = ManagerIdle
    /\ monitor' = [ManagerIdle EXCEPT !.todo = PairsOf(configs)]
    /\ UNCHANGED <<configs, cache, shared, states, metrics, saved, named, stuck, faults, unsaved>>

isPairHealthy(s) == s.recent /\ s.errors < Strikes /\ s.good /\ s.load < MaxLoad

\* The next pair: without a state it is skipped, else its verdict is formed
\* outside the lock.
CheckPair(p) ==
    /\ LockFree
    /\ monitor.verdict = {} /\ p \in monitor.todo
    /\ monitor' = [todo |-> monitor.todo \ {p},
                   verdict |-> {[pair |-> k, healthy |-> isPairHealthy(states[k])] :
                                    k \in {p} \cap DOMAIN states}]
    /\ UNCHANGED <<configs, cache, shared, states, metrics, saved, named, stuck, faults, unsaved>>

\* UpdateHealthStatus, for any pair: a caller's verdict.
UpdateHealthStatus(p, healthy) ==
    /\ LockFree
    /\ UpdateTEEState(p, healthy)
    /\ UNCHANGED <<configs, cache, shared, metrics, stuck, monitor>>

\* The monitor's own call of it.
ApplyVerdict ==
    /\ LockFree
    /\ \E v \in monitor.verdict : UpdateTEEState(v.pair, v.healthy)
    /\ monitor' = [monitor EXCEPT !.verdict = {}]
    /\ UNCHANGED <<configs, cache, shared, metrics, stuck>>

\* HealthChecker.checkRegion takes the pairs of the cached configuration, skips
\* one without metrics or state, and UpdateRegionHealth saves the verdict under
\* its own name, over the state of a pair of that name.
CheckTEEPair(p) ==
    /\ LockFree /\ configs # {} /\ p \in PairsOf(cache)
    /\ p \in DOMAIN metrics \cap DOMAIN states
    /\ LET healthy == states[p].errors < Strikes /\ metrics[p].good /\ metrics[p].load < MaxLoad
           name == IF healthy THEN "healthy" ELSE "unhealthy"
           verdict == [status |-> name, recent |-> TRUE, errors |-> states[p].errors,
                       good |-> metrics[p].good, load |-> metrics[p].load]
       IN  \/ /\ saved' = [saved EXCEPT !.states = PutEntry(@, name, verdict)]
              /\ unsaved' = unsaved \cup {name} /\ UNCHANGED faults
           \/ Fault /\ UNCHANGED <<saved, unsaved>>
    /\ UNCHANGED <<configs, cache, shared, states, metrics, named, stuck, monitor>>

\* The process is restarted: a new manager has empty maps and a free lock.
RestartManager ==
    /\ configs # {}
    /\ configs' = {} /\ cache' = {} /\ shared' = FALSE
    /\ states' = NoEntries /\ metrics' = NoEntries
    /\ stuck' = FALSE /\ monitor' = ManagerIdle /\ unsaved' = {}
    /\ UNCHANGED <<saved, named, faults>>

RegionsNext ==
    \/ \E c \in Config : UpdateConfig(c) \/ \E id \in PairKeys : RegisterTEEPair(id, c)
    \/ \E p \in Pairs : AddTEEPair(p) \/ CheckPair(p) \/ CheckTEEPair(p)
    \/ GetConfig \/ ManagerDeleteRegion \/ UpdateCache \/ CachedRegionConfig
    \/ \E k \in PairKeys : UpdateMetrics(k) \/ Age(k)
    \/ CheckRegion \/ ApplyVerdict
    \/ \E p \in Pairs, healthy \in BOOLEAN : UpdateHealthStatus(p, healthy)
    \/ RestartManager

RegionsSpec == RegionsInit /\ [][RegionsNext]_regionVars

-----------------------------------------------------------------------------
\* A pair's stored state is the one in memory unless its last write failed, its
\* registration panicked before it, or the verdict on a region was saved over it:
\* the health monitor, its other callers, the executions' metrics and registration
\* all save what they publish, whatever their order.
SavedStateCurrent ==
    \A k \in DOMAIN states \ unsaved :
        k \in DOMAIN saved.states /\ saved.states[k] = states[k]

\* GetRegionHealth, which ExecuteInRegion asks before it selects a pair, reads the
\* state saved under "".  No verdict of the health checker is saved there: it is
\* answered, if ever, with the state of a pair whose ID is empty.
HealthUnanswered == "" \in DOMAIN saved.states => "" \in named

\* The states RegionManager saves are those it holds, pair by pair, and none of the
\* verdicts on a region is the one that GetRegionHealth looks for.
StatesSaved == RegionsTypeOK /\ SavedStateCurrent /\ HealthUnanswered
=============================================================================
