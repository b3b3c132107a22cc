-------------------------------- MODULE Pairs --------------------------------
(***************************************************************************)
(* The books kept about TEE pairs: TEEPairManager (regions/pair_manager.go)*)
(* with the workers it registers and the records it saves; the task        *)
(* statistics of TEEPairMetrics (regions/types.go); and the pair list of a *)
(* Region (region.go).  The three share no state.                          *)
(***************************************************************************)
EXTENDS Integers, Sequences, Iteration

CONSTANTS
    PairIDs,        \* the IDs of the pairs callers create
    Statuses,       \* what callers pass to UpdatePairStatus
    MaxTasks,       \* bound: tasks counted in one TEEPairMetrics
    Listed,         \* pairs [id, ends] callers put into a Region
    MaxListed       \* bound: length of a Region's list

VARIABLES
    workers,        \* the coordinator's workers, <<"sgx" or "sev", ID>>
    pairInfo,       \* pm.info: ID -> Status
    measured,       \* DOMAIN pm.metrics
    storedInfo,     \* the store's TEEPairInfo records: ID -> Status
    storedMetrics,  \* IDs of the store's TEEPairMetrics records
    pmClosed,       \* Close has set the maps to nil
    counts,         \* a TEEPairMetrics
    teePairs,       \* Region.TEEPairs
    replaced        \* history: UpdateTEEPair has replaced an entry
managerVars == <<workers, pairInfo, measured, storedInfo, storedMetrics, pmClosed>>
listVars == <<teePairs, replaced>>
pairVars == <<managerVars, counts, listVars>>

-----------------------------------------------------------------------------
(* TEEPairManager.  Every method holds pm.mu for its whole length.         *)

NoInfo == [p \in {} |-> p]
Records(map, p, s) == [x \in DOMAIN map \cup {p} |-> IF x = p THEN s ELSE map[x]]

\* What interfaces.Coordinator answers: a worker is registered once; a
\* registration may also fail with nothing registered.
Registrable(w) == w \notin workers

\* CreatePair returns at the first registration that fails.
CreateRefused(p) ==
    /\ UNCHANGED <<pairInfo, measured, storedInfo, storedMetrics, pmClosed>>
    /\ workers' \in {workers} \cup
         IF Registrable(<<"sgx", p>>) THEN {workers \cup {<<"sgx", p>>}} ELSE {}

\* Mutant: CreatePair goes on when its workers are registered already.
CreatePairResuming(p) ==
    /\ ~pmClosed
    /\ workers' = workers \cup {<<"sgx", p>>, <<"sev", p>>}
    /\ measured' = measured \cup {p}
    /\ storedInfo' = Records(storedInfo, p, "active")
    /\ pairInfo' = Records(pairInfo, p, "active")
    /\ UNCHANGED <<storedMetrics, pmClosed>>

\* CreatePair with both workers registered: metrics, record, entry of pm.info.
\* A closed manager panics on its nil metrics map; a save that fails leaves the
\* workers and the metrics behind.
CreatePair(p) ==
    /\ Registrable(<<"sgx", p>>) /\ Registrable(<<"sev", p>>)
    /\ workers' = workers \cup {<<"sgx", p>>, <<"sev", p>>}
    /\ measured' = measured \cup IF pmClosed THEN {} ELSE {p}
    /\ \/ UNCHANGED <<pairInfo, storedInfo>>
       \/ /\ ~pmClosed
          /\ storedInfo' = Records(storedInfo, p, "active")
          /\ pairInfo' = Records(pairInfo, p, "active")
    /\ UNCHANGED <<storedMetrics, pmClosed>>

\* Memory changes before the save, which may fail.
UpdatePairStatus(p, s) ==
    /\ p \in DOMAIN pairInfo
    /\ pairInfo' = Records(pairInfo, p, s)
    /\ storedInfo' \in {storedInfo, Records(storedInfo, p, s)}
    /\ UNCHANGED <<workers, measured, storedMetrics, pmClosed>>

\* Metrics are found, updated in place and saved without a look at pm.info.
SetPairMetrics(p) ==
    /\ p \in measured
    /\ storedMetrics' \in {storedMetrics, storedMetrics \cup {p}}
    /\ UNCHANGED <<workers, pairInfo, measured, storedInfo, pmClosed>>

CloseManager ==
    /\ pmClosed' = TRUE /\ pairInfo' = NoInfo /\ measured' = {}
    /\ UNCHANGED <<workers, storedInfo, storedMetrics>>

\* The getters.  pm.pairs is never written, so GetPair finds nothing.
GetPairInfo == DOMAIN pairInfo
GetMetrics == measured
ListPairs == {[id |-> p, status |-> pairInfo[p]] : p \in DOMAIN pairInfo}

ManagerNext ==
    \/ \E p \in PairIDs : CreateRefused(p) \/ CreatePair(p)
    \/ \E p \in PairIDs, s \in Statuses : UpdatePairStatus(p, s)
    \/ \E p \in PairIDs : SetPairMetrics(p)
    \/ CloseManager

-----------------------------------------------------------------------------
(* TEEPairMetrics.  A rate is a fraction [of, in]; the counters are uint64 *)
(* and far from their limit.                                               *)

AtMost(r, percent) == 100 * r.of <= percent * r.in
AtLeast(r, percent) == 100 * r.of >= percent * r.in

ResetMetrics ==
    [processed |-> 0, failed |-> 0, streak |-> 0, success |-> [of |-> 1, in |-> 1],
     error |-> [of |-> 0, in |-> 1], status |-> "active"]

updateStatus(m) ==
    [m EXCEPT !.status = IF m.streak >= 3 THEN "failed"
                         ELSE IF AtMost(m.error, 10) /\ AtLeast(m.success, 90) THEN "active"
                         ELSE "degraded"]

Processed(m) == [m EXCEPT !.processed = @ + 1]
Failed(m) == [Processed(m) EXCEPT !.failed = @ + 1, !.streak = @ + 1]

\* A success recomputes the success rate only, a failure the error rate only.
TaskCounted(m, success) ==
    IF success
    THEN [Processed(m) EXCEPT !.streak = 0,
              !.success = [of |-> m.processed + 1 - m.failed, in |-> m.processed + 1]]
    ELSE [Failed(m) EXCEPT !.error = [of |-> m.failed + 1, in |-> m.processed + 1]]

CountTask(success) ==
    /\ counts.processed < MaxTasks
    /\ counts' = updateStatus(TaskCounted(counts, success))

Reset == counts' = ResetMetrics

\* IsHealthy with the thresholds of DefaultTEEPairConfig: 95 and 5 percent.
IsHealthy(m) ==
    m.status = "active" /\ AtLeast(m.success, 95) /\ AtMost(m.error, 5) /\ m.streak = 0

MetricsNext == (\E success \in BOOLEAN : CountTask(success)) \/ Reset

-----------------------------------------------------------------------------
(* The pair list of a Region.                                              *)

\* Mutant: AddTEEPair looks for the pair's ID.
AddTEEPairByID(p) ==
    /\ Len(teePairs) < MaxListed
    /\ teePairs' = IF \E i \in DOMAIN teePairs : teePairs[i].id = p.id THEN teePairs
                   ELSE Append(teePairs, p)
    /\ UNCHANGED replaced

AddTEEPair(p) ==
    /\ Len(teePairs) < MaxListed
    /\ teePairs' = IF \E i \in DOMAIN teePairs : teePairs[i].ends = p.ends THEN teePairs
                   ELSE Append(teePairs, p)
    /\ UNCHANGED replaced

\* The new list, without the entries that have the pair's endpoints.
NewPairs(p, pairs) ==
    FoldLeft(LAMBDA kept, q : IF q.ends = p.ends THEN kept ELSE Append(kept, q), <<>>, pairs)

RemoveTEEPair(p) ==
    /\ teePairs' = NewPairs(p, teePairs)
    /\ UNCHANGED replaced

GetTEEPairByID(id) ==
    LET own == {i \in DOMAIN teePairs : teePairs[i].id = id}
    IN  IF own = {} THEN 0 ELSE Min(own)
HasTEEPair(id) == GetTEEPairByID(id) # 0

\* The first entry with the pair's ID, whatever its endpoints.
UpdateTEEPair(p) ==
    /\ HasTEEPair(p.id)
    /\ teePairs' = [teePairs EXCEPT ![GetTEEPairByID(p.id)] = p]
    /\ replaced' = TRUE

ListNext == \E p \in Listed : AddTEEPair(p) \/ RemoveTEEPair(p) \/ UpdateTEEPair(p)

-----------------------------------------------------------------------------
PairInit ==
    /\ workers = {} /\ pairInfo = NoInfo /\ measured = {} /\ storedInfo = NoInfo
    /\ storedMetrics = {} /\ pmClosed = FALSE
    /\ counts = ResetMetrics
    /\ teePairs = <<>> /\ replaced = FALSE

PairsNext ==
    \/ ManagerNext /\ UNCHANGED <<counts, listVars>>
    \/ MetricsNext /\ UNCHANGED <<managerVars, listVars>>
    \/ ListNext /\ UNCHANGED <<managerVars, counts>>

PairSpec == PairInit /\ [][PairsNext]_pairVars

-----------------------------------------------------------------------------
(* Properties.                                                             *)

\* UpdatePairStatus dereferences pm.metrics[pairID] unchecked: every pair in
\* pm.info has metrics and, once listed, a record in the store.
ListedIsBacked ==
    \A i \in ListPairs : i.id \in GetMetrics /\ i.id \in DOMAIN storedInfo

StaysUnlisted ==
    \A p \in PairIDs : <<"sgx", p>> \in workers /\ p \notin GetPairInfo => p \notin GetPairInfo'

\* A CreatePair that fails after its first worker is registered can never be
\* retried: the retry fails on that worker, and the pair stays unlisted.
HalfCreatedStays == [][StaysUnlisted]_managerVars

\* The stale rates never flatter a pair: an active one has failed at most one
\* task in ten, a healthy one at most one in twenty.
ActiveIsEarned ==
    /\ counts.status = "active" => 10 * counts.failed <= counts.processed
    /\ IsHealthy(counts) => 20 * counts.failed <= counts.processed

\* AddTEEPair keeps the endpoint pairs of a region distinct until UpdateTEEPair
\* replaces an entry: what an entry is looked up by there is its ID.
EndpointsApart ==
    ~replaced => \A i, j \in DOMAIN teePairs : teePairs[i].ends = teePairs[j].ends => i = j

\* The books on TEE pairs agree with what they are about: the manager's list with
\* its metrics and records, a pair's status with its tasks, a region's list with
\* the endpoints in it.
BooksAgree == ListedIsBacked /\ ActiveIsEarned /\ EndpointsApart
=============================================================================
