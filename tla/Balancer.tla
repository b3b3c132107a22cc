------------------------------ MODULE Balancer -------------------------------
(***************************************************************************)
(* The region balancer (regions/balancer.go, types.go) and the VM's health *)
(* monitor that feeds it (vm/core.go, MonitorTEEHealth).  The TEE pairs    *)
(* are those of one region; the regions are those the balancer picks from. *)
(*                                                                         *)
(* A load is 0 (idle), 1 (at MaxLoadFactor) or 2 (the full load of 1.0); a *)
(* latency is 0 or 1 (at MaxLatencyMs); good says that a success rate is   *)
(* above MinSuccessRate; recent says that a time is within the             *)
(* HealthCheckWindow.  An endpoint is set or empty.                        *)
(***************************************************************************)
EXTENDS Naturals, Sequences, FiniteSets, FiniteSetsExt, Iteration

CONSTANTS
    TEEPairs,     \* IDs of the region's TEE pairs
    Monitors,     \* goroutines running MonitorTEEHealth: New starts one, Initialize another
    BRegions,     \* IDs of regions
    MaxProcessed  \* bound: tasks reported for a pair between two health checks

VARIABLES
    pairMetrics,  \* RegionBalancer.pairMetrics[region]
    checking,     \* each monitor's TEE checks still to do, in order
    lastReport,   \* history: whether the last check or successful task of a pair was good
    held,         \* RegionBalancer.regions: the regions held and their IsHealthy
    regionMetrics \* RegionBalancer.metrics

balancerVars == <<pairMetrics, checking, lastReport, held, regionMetrics>>

\* A region's ID is not empty: the selections take the empty one for none.
ASSUME BalancerAssumption ==
    /\ IsFiniteSet(TEEPairs) /\ "" \notin BRegions
    /\ MaxProcessed \in Nat

Entry == [id : TEEPairs, good : BOOLEAN, load : 0..2, recent : BOOLEAN,
          sgx : BOOLEAN, sev : BOOLEAN, tasks : 0..MaxProcessed, failed : 0..MaxProcessed]

RegionMetrics == [load : 0..2, latency : 0..1, within : BOOLEAN, recent : BOOLEAN]

BalancerTypeOK ==
    /\ pairMetrics \in Seq(Entry)
    /\ \A m \in Monitors : checking[m] \in Seq(TEEPairs \X {"sgx", "sev"})
    /\ lastReport \in [TEEPairs -> BOOLEAN]
    /\ DOMAIN held \subseteq BRegions /\ DOMAIN regionMetrics \subseteq BRegions
    /\ \A r \in DOMAIN regionMetrics : regionMetrics[r] \in RegionMetrics

BalancerInit ==
    /\ pairMetrics = <<>>
    /\ checking = [m \in Monitors |-> <<>>]
    /\ lastReport = [p \in TEEPairs |-> FALSE]
    /\ held = [r \in {} |-> TRUE]
    /\ regionMetrics = [r \in {} |-> TRUE]

-----------------------------------------------------------------------------
(* The health monitor *)

\* A tick of MonitorTEEHealth: both TEEs of every pair, SGX before SEV.
MonitorTick(m) ==
    /\ checking[m] = <<>>
    /\ checking' = [checking EXCEPT ![m] =
                        FlattenSeq([i \in 1..Cardinality(TEEPairs) |->
                            LET p == SetToSeq(TEEPairs)[i] IN <<<<p, "sgx">>, <<p, "sev">>>>])]
    /\ UNCHANGED <<pairMetrics, lastReport, held, regionMetrics>>

\* Mutant: a failed check keeps the time the pair was last healthy.
StatusKeepingTime(p, tee, healthy) ==
    LET old == {e \in Range(pairMetrics) : e.id = p}
    IN  [id |-> p, good |-> healthy, load |-> IF healthy THEN 0 ELSE 2,
         recent |-> healthy \/ \E e \in old : e.recent,
         sgx |-> tee = "sgx", sev |-> tee = "sev", tasks |-> 0, failed |-> 0]

\* updateTEEStatus builds a new record from the check of one TEE: only that TEE's
\* endpoint is set, and after a failed check LastHealthy is the zero time.
Status(p, tee, healthy) ==
    [id |-> p, good |-> healthy, load |-> IF healthy THEN 0 ELSE 2, recent |-> healthy,
     sgx |-> tee = "sgx", sev |-> tee = "sev", tasks |-> 0, failed |-> 0]

\* UpdatePairMetrics replaces the first record of the pair, or appends one.
UpdatePairMetrics(p, e) ==
    LET own == {i \in DOMAIN pairMetrics : pairMetrics[i].id = p}
    IN  IF own = {} THEN Append(pairMetrics, e) ELSE [pairMetrics EXCEPT ![Min(own)] = e]

\* The next check: checkTEEHealth finds the TEE healthy or not, updateTEEStatus
\* reports it.
CheckTEE(m, healthy) ==
    /\ checking[m] # <<>>
    /\ LET p == checking[m][1][1]
       IN  /\ pairMetrics' = UpdatePairMetrics(p, Status(p, checking[m][1][2], healthy))
           /\ lastReport' = [lastReport EXCEPT ![p] = healthy]
    /\ checking' = [checking EXCEPT ![m] = Tail(@)]
    /\ UNCHANGED <<held, regionMetrics>>

\* The success rate of the counts is above MinSuccessRate (0.95).
Above(tasks, failed) == 100 * (tasks - failed) > 95 * tasks

\* UpdateSpecificPairMetrics with TEEPairMetrics.UpdateMetrics: a failed task
\* leaves the success rate as it was.
TaskDone(i, success) ==
    LET e == pairMetrics[i]
    IN  /\ e.tasks < MaxProcessed
        /\ pairMetrics' = [pairMetrics EXCEPT ![i] =
                IF success
                THEN [e EXCEPT !.tasks = @ + 1, !.recent = TRUE, !.good = Above(e.tasks + 1, e.failed)]
                ELSE [e EXCEPT !.tasks = @ + 1, !.failed = @ + 1]]
        /\ lastReport' = IF success THEN [lastReport EXCEPT ![e.id] = TRUE] ELSE lastReport
        /\ UNCHANGED <<checking, held, regionMetrics>>

\* CollectMetrics recomputes every record: the load from an execution time no
\* report sets, the success rate from the counts (1.0 when there are none).
CollectMetrics ==
    /\ pairMetrics' = [i \in DOMAIN pairMetrics |->
            LET e == pairMetrics[i]
            IN  [e EXCEPT !.load = 0, !.good = e.tasks = 0 \/ Above(e.tasks, e.failed)]]
    /\ UNCHANGED <<checking, lastReport, held, regionMetrics>>

\* The HealthCheckWindow passes for a pair, or for a region's metrics.
AgePair(i) ==
    /\ pairMetrics[i].recent
    /\ pairMetrics' = [pairMetrics EXCEPT ![i].recent = FALSE]
    /\ UNCHANGED <<checking, lastReport, held, regionMetrics>>

AgeRegion(r) ==
    /\ regionMetrics[r].recent
    /\ regionMetrics' = [regionMetrics EXCEPT ![r].recent = FALSE]
    /\ UNCHANGED <<pairMetrics, checking, lastReport, held>>

-----------------------------------------------------------------------------
(* Regions *)

AddRegion(r, healthy) ==
    /\ held' = [x \in DOMAIN held \cup {r} |-> IF x = r THEN healthy ELSE held[x]]
    /\ UNCHANGED <<pairMetrics, checking, lastReport, regionMetrics>>

RemoveRegion(r) ==
    /\ r \in DOMAIN held
    /\ held' = [x \in DOMAIN held \ {r} |-> held[x]]
    /\ regionMetrics' = [x \in DOMAIN regionMetrics \ {r} |-> regionMetrics[x]]
    /\ UNCHANGED <<pairMetrics, checking, lastReport>>

UpdateRegionMetrics(r, m) ==
    /\ regionMetrics' = [x \in DOMAIN regionMetrics \cup {r} |-> IF x = r THEN m ELSE regionMetrics[x]]
    /\ UNCHANGED <<pairMetrics, checking, lastReport, held>>

PairNext ==
    \/ \E m \in Monitors : MonitorTick(m) \/ \E healthy \in BOOLEAN : CheckTEE(m, healthy)
    \/ \E i \in DOMAIN pairMetrics : AgePair(i) \/ \E success \in BOOLEAN : TaskDone(i, success)
    \/ CollectMetrics

RegionNext ==
    \/ \E r \in BRegions : RemoveRegion(r) \/ \E healthy \in BOOLEAN : AddRegion(r, healthy)
    \/ \E r \in BRegions, m \in RegionMetrics : m.recent /\ UpdateRegionMetrics(r, m)
    \/ \E r \in DOMAIN regionMetrics : AgeRegion(r)

BalancerNext == PairNext \/ RegionNext

BalancerSpec == BalancerInit /\ [][BalancerNext]_balancerVars

-----------------------------------------------------------------------------
(* Selection *)

None == 0

Eligible(e) == e.good /\ e.recent

GetHealthyPairs == {e.id : e \in {x \in Range(pairMetrics) : Eligible(x) /\ x.load < 1}}

\* SelectOptimalPair: the index of the record the loop ends with; only a record
\* of a strictly lower load replaces the one held.
SelectOptimalPair ==
    FoldLeft(LAMBDA best, i :
                IF Eligible(pairMetrics[i])
                        /\ (best = None \/ pairMetrics[i].load < pairMetrics[best].load)
                THEN i ELSE best,
             None, [i \in DOMAIN pairMetrics |-> i])

isRegionHealthy(r) == held[r] /\ r \in DOMAIN regionMetrics /\ regionMetrics[r].recent

\* within stands for the error rate, the workers and the pending tasks.
isRegionWithinThresholds(m) == m.load <= 1 /\ m.within

Serviceable(r) == isRegionHealthy(r) /\ isRegionWithinThresholds(regionMetrics[r])

\* calculateRegionScore, in hundredths, with the distance calculateDistance gives
\* to every region: zero.
Score(r) ==
    4 * (10 - <<0, 8, 10>>[regionMetrics[r].load + 1]) + 3 * (10 - 10 * regionMetrics[r].latency) + 30

\* selectRegionByLoad and SelectRegionWithLocation over one order of the map.
SelectRegionByLoad(order) ==
    FoldLeft(LAMBDA best, r :
                IF Serviceable(r) /\ regionMetrics[r].load < (IF best = "" THEN 2 ELSE regionMetrics[best].load)
                THEN r ELSE best, "", order)

SelectRegionWithLocation(order) ==
    FoldLeft(LAMBDA best, r :
                IF Serviceable(r) /\ (best = "" \/ Score(r) > Score(best))
                THEN r ELSE best, "", order)

-----------------------------------------------------------------------------
\* Each pair has one record, whichever monitor reports first: UpdatePairMetrics
\* looks up the ID that the record it stores carries.
OneRecordPerPair ==
    \A i, j \in DOMAIN pairMetrics : pairMetrics[i].id = pairMetrics[j].id => i = j

\* A pair whose last health check failed is not selected, even after
\* CollectMetrics has set its success rate back to 1.0: updateTEEStatus drops
\* LastHealthy with the record it replaces.  (The last check is of one TEE only,
\* and decides for both.)
FailedCheckExcludes ==
    SelectOptimalPair # None => lastReport[pairMetrics[SelectOptimalPair].id]

\* While GetHealthyPairs names a pair, SelectOptimalPair returns one it names,
\* although it does not look at MaxLoadFactor.
HealthyPreferred ==
    GetHealthyPairs # {} =>
        SelectOptimalPair # None /\ pairMetrics[SelectOptimalPair].id \in GetHealthyPairs

\* The pair SelectOptimalPair returns never names the endpoints of both TEEs,
\* whatever the checks found: each check leaves a record with one endpoint, so
\* ExecuteInRegion looks up a compute node under an empty name.
OneEndpoint ==
    SelectOptimalPair # None =>
        pairMetrics[SelectOptimalPair].sgx # pairMetrics[SelectOptimalPair].sev

\* The failed tasks of a pair never outnumber its tasks, so the unsigned
\* subtraction of calculateSuccessRate does not wrap.
NoWrap == \A i \in DOMAIN pairMetrics : pairMetrics[i].failed <= pairMetrics[i].tasks

ChosenBest(byLoad, byPlace) ==
    LET able == {r \in DOMAIN held : Serviceable(r)}
    IN  IF able = {} THEN byLoad = "" /\ byPlace = ""
        ELSE /\ byLoad \in able /\ \A r \in able : regionMetrics[byLoad].load <= regionMetrics[r].load
             /\ byPlace \in able /\ \A r \in able : Score(byPlace) >= Score(r)

\* In every order of the map, selection by load returns a serviceable region of
\* the least load, selection by location one of the best score, and both return
\* a region exactly when one is serviceable.
RegionChosen ==
    \A order \in {s \in [1..Cardinality(DOMAIN held) -> DOMAIN held] : IsInjective(s)} :
        ChosenBest(SelectRegionByLoad(order), SelectRegionWithLocation(order))

\* What SelectOptimalPair and the selections of a region return is what the
\* reports of the monitors and the tasks justify, in whatever order they came in.
SelectionJustified ==
    /\ BalancerTypeOK
    /\ OneRecordPerPair /\ NoWrap
    /\ FailedCheckExcludes /\ HealthyPreferred /\ OneEndpoint
    /\ RegionChosen
=============================================================================
