# TLA+ specifications of Aristo (ShuttleVM)

Aristo is an Avalanche VM that executes actions in regions, each served by a
pair of trusted execution environments (an SGX and a SEV enclave). This
directory models the system, checks the models with TLC on small instances, and
proves their safety properties with TLAPS for every value of the constants.

## The system and its modules

| part | code | module | what makes it hard |
|---|---|---|---|
| coordinator, registry | `coordination/coordinator.go` | `Registry` | two locks, store calls between checks and updates, restarts |
| coordinator, tasks | same file | `Coordinator`, `JobQueue` | callers, goroutines and `Stop` interleave; entries are looked up by ID twice |
| workers, secure channels, attestation checks | `coordination/worker.go`, `channel.go`, `coordinator.go` | `SecureChannels` | load-or-create races, bounded queues, replies under a lock |
| coordination storages | `coordination/storage.go`, `storage_wrapper.go` | `CoordStorage` | views of one write, unlocked loads that fill a cache |
| coordination state | `coordination/state/` | `CoordState` | proofs made in steps while commits replace the view |
| cross-region actions | `coordination/xregion/`, `actions/cross_region.go` | `CrossRegion` | map order, encoding, early return with goroutines running |
| time network | `timeserver/` | `TimeNetwork` | concurrent answers, timeout, IDs that are not unique |
| region manager, health checks | `regions/manager.go`, `config.go`, `health.go` | `Regions` | memory before store, shared objects, lock upgrade |
| balancer, health monitor | `regions/balancer.go`, `vm/core.go` | `Balancer` | reports that replace each other, map order |
| TEE pairs and their statistics | `regions/pair_manager.go`, `types.go`, `region.go` | `Pairs` | half-finished creation, stale rates |
| execution on a pair | `vm/core.go`, `tee/client.go`, `vm/tee_validator.go`, `compute/` | `Execution` | two calls at two nodes, two bounds, restarts, lost answers |
| TEE executor | `tee/executor.go`, `rustconnector/` | `TEEExecutor` | proofs that age, retries |
| life cycle of VM, connections, compute node | `vm/core.go`, `tee/client.go`, `compute/service.go` | `Lifecycle` | contexts replaced, partial start, stop while serving |
| validators | `actions/`, `vm/`, `core/`, `regions/config.go` | `Validation` | packages that check the same thing differently |
| verifiers | `verifier/`, `vm/core.go` | `Verifier` | state shared by batches, state that moves on |
| objects, events, regions on chain | `actions/`, `vm/execution.go`, `storage/` | `ChainObjects` | parallel execution, writes past the view, crashes |
| balances | `storage/storage.go`, `actions/transfer.go` | `Balances` | width of integers, two kinds of keys |
| stores | `storage/` | `Stores` | routing by key, prefixes, caches |
| faucet | `cmd/faucet/` | `Faucet` | one websocket for all handlers, timeouts |

`vm.Initialize` creates the coordinator and registers workers and regions;
`vm.ExecuteInRegion` asks the balancer for a pair and two compute nodes for a
result; a compute node submits a task to a coordinator of its own; the TEE
executor asks the time network for a timestamp; actions write through the state
manager. The compositions that matter are in the modules: `Coordinator` extends
`Registry`; `Execution` puts the callers, the node clients, the nodes' slots and
their coordinators together; `Balancer` has the VM's monitor; `ChainObjects` has
the actions with the stores under them.

### How the modules read

Each module has the state of its component as variables, one action for each
operation or, where another goroutine can come in between (a lock given up, a
store or remote call, a channel), one for each step. The header of a module says
what its values stand for; in short:

* `Registry`: a critical section of `c.mu` is one action, `RegisterRegion` three.
  `NotFoundRecognised` says whether the store's missing-key error is the one the
  code tests for. The unlocked read of `c.workers` returns the current map; the
  abort the Go runtime may raise for it is a restart.
* `Coordinator`: `proc` is the step `processTasks` takes next; `"none"` is an ID
  without entry; a finished entry may or may not be old enough at each tick.
  `HealthMonitor` switches on `monitorWorkerHealth`, which `Start` does not launch.
* `JobQueue` is the abstract specification, a bounded FIFO server that
  `Coordinator` implements (`JobServer`, mapping `JQWaiting`, `JQRunning`, `JQEnded`).
* `TimeNetwork`: a response is the position of the server that signed it and the
  time it read. `Mismatched` are servers whose exported `PublicKey` was replaced.
  All servers are objects of one process with one clock that does not go back.
* `SecureChannels`: a message is its sender, a key the number of its making.
* `CoordStorage`, `Stores`: a key is a sequence of segments, so that two records
  share a key where the code's strings would. In `CoordStorage` the colon is a
  segment of its own and may occur in a name: `makeChannelKey("a", "b:b")` and
  `makeChannelKey("a:b", "b")` are one key, a worker named `region:a` has the key of
  region `a`.
* `CoordState`: a root is the contents it is the hash of, so that roots recur.
* `CrossRegion`: the order of a Go map is a parameter, and the properties quantify
  over all orders. Keys below 10 stand for keys shorter than eight bytes.
* `Regions`, `Balancer`, `Pairs`: rates and loads are what their comparisons tell
  apart; pair counters are exact.
* `Execution`: a leg is an `Execute` at a node. That a call of `ExecuteInRegion`
  finds a pair with endpoints is assumed here; `OneEndpoint` of `Balancer` says
  what it finds.
* `ChainObjects`: an object is its code. Executors run actions at once unless
  their declared keys conflict, which is the chain's rule and an assumption here:
  nothing under `src/` calls the regional executor. An event's ID is an object's and
  a time, never one string that could be both an ID and an ID with a time.
* `Regions`: the ID under which a pair is registered is any name, the empty one and
  those of the health checker's verdicts included.
* `Lifecycle`: a generation is the `New` or `Initialize` that made a context and a
  region manager. Each state manager makes and starts a coordinator of its own,
  beside the VM's.
* `Verifier`, `Validation`: an attestation is its enclave, time, data and whether
  it has a measurement; code is its format, size and first byte.
* `Balances`: `MaxUint` is the width.
* `Faucet`: a balance is the set of transfers whose coins are still there; the
  holder of an address may spend any of them at any time.

`Iteration` has the loops over slices and maps that `Balancer`, `CoordState`,
`CrossRegion` and `Pairs` share. Its operators are those of the community module
`SequencesExt` under their names, written again because of the proofs: a proof step
carries every definition in scope, and `SequencesExt` extends most of the library.

External, modelled from their use: the chain's scheduler and pool, the websocket,
the rate limiter, the Rust controllers, the database and its proofs.

Operators whose comment starts with "Mutant" are variants of the next definition
with a plausible bug; each breaks the property it is kept for. A property that is
a conjunction, such as `ReadersFind`, has its parts defined and explained above it.

## Runs

| run | parts | distinct questions |
|---|---|---|
| `records` | registry with store faults, panics, restarts; `CoordStorage` | memory is backed by the store; one pair per region, of registered workers; records load as they were saved |
| `coordinator_distinct` | three tasks with distinct IDs | FIFO job server; an admitted task finds room and stays Pending until it runs; finished stays finished; every place is given back |
| `coordinator_shared` | two tasks share an ID; monitor, faults, restarts | nothing stays Running; exact load counters |
| `time` | time network | quorum of distinct healthy servers; times within calls; calls return; `Stop` ends the checker |
| `state` | `Balances`, `ChainObjects`, `Verifier`, `Stores`, `CoordState`, `Regions` | what is stored, cached, proved and verified agrees |
| `fleet` | `Balancer`, `Execution`, `TEEExecutor`, `Pairs`, `Validation` | which TEEs get the work, and what they must agree on |
| `live` | `CrossRegion`, `SecureChannels`, `Lifecycle`, `Faucet`; registry over a store that works | messages, start and stop, and what must eventually happen |

`MCRecords`, `MCState`, `MCFleet` and `MCLive` check components that share no
state: the variable `part` names the one a behaviour exercises, the others stand
still. `MCTimeNetwork` has three instances of its network in the same way.

What the larger runs show:

* **Balances.** `SupplyAccounted`: no overflow, self-transfer or emptied account
  makes or loses tokens, up to fees that `Deduct` leaves in the account because it
  removes another key than balances have.
* **Chain objects.** `CreationFinal`, `EventsOfObjects`: although data is written
  past the chain's view, a creation that succeeded is final and every event has
  its object.
* **Verifier.** `VerdictJustified`: what an accepted batch or transaction
  guarantees, although each action was verified at another moment, and that the
  errors of the batch's own checks are about the batch at hand. No batch with a
  creation is accepted, as a creation is its own duplicate (`verifier_duplicate`).
* **Stores.** `ReadersFind`: each record is served as it was set and listings are
  complete. The configuration cache is current when no write is under way, unless
  the last write overlapped another one or a read: a write gives up one lock before
  it takes the cache's. Proofs look elsewhere than writers write. `EventsQueued`:
  queueing an event panics only on a state stored without its map, and leaves a
  state that is not valid by itself.
* **Coordination state and storage.** `ReadsProved`: proofs are of their time and
  range, and the view is that of the last commit. `RecordsServed`: a view holds one
  write only; a cache has what it was last given, stored or not, as it is changed
  before a write that may fail; not current are an entry loaded during a write of
  its key and one whose key another record shares. The wrapper loads each record as
  it was saved, channels between workers whose names have no colon.
* **Regions.** `StatesSaved`: the store has the states of memory except where a
  write failed, a registration panicked before it, or a verdict on the region was
  saved under the pair's name; and no verdict is where `GetRegionHealth` looks.
* **Balancer.** `SelectionJustified`: a pair has one record, a pair whose last
  check failed is not selected, the one selected names one endpoint only, and a
  region is chosen by least load or best score whatever the map's order.
* **Execution.** `OutcomesJustified`, `NodesBounded`, `CallEnds`: results agree and
  slots are exact, while a node's coordinator, never started, fills up for good. A
  call returns unless one of its own two TEEs hangs for ever.
* **TEE executor.** `RetriesClose`, `RetryExpires`: the successes of a request lie
  within twice the window, and a retry with an expired proof never succeeds.
* **Pairs.** `BooksAgree`, `HalfCreatedStays`: listed pairs are backed by records,
  an active status is earned, and a half-created pair stays so.
* **Validation.** `ChecksCompared`: where two checks of one thing agree, and where
  nothing can pass both.
* **Cross-region.** `IntentsJustified`, `ProcessEnds`: no intent is ever applied,
  since the coordinator is never made. The intents are also executed as if it
  existed: on which map orders transfers depend, and what stays within the limit.
* **Channels and workers.** `ChannelsLimited`, `AdmissionJustified`, `WorkerEnds`:
  a caller gets back only its own messages, late callers share the saved key,
  replies run out with the queue, and loops and `Stop` still end.
* **Life cycle.** `HandlesReleased`, `StopsEnd`: which monitors, coordinators,
  connections and calls survive a failed start, a second `Initialize` and a stop,
  and that stopping ends. The monitors of an `Initialize` that another one replaced
  never end; `Initialize` after `Shutdown` fails where it needs the node clients,
  which are closed.
* **Faucet.** `HandlersFair`, `FaucetEnds`: answers are true, an address is overpaid
  only through overlapping transfers, the faucet is ready only after one of its own
  was executed, and every admitted request is answered.
* **Registry.** `RegionRegistered`: over a store that works, a region that is
  registered again and again gets its pair.

### Bounds

The bounds let the cases happen that the properties are about: a task waiting,
one running and one refused; an ID in use twice; a region registered twice; one
answer more than the quorum; a call that begins after another one's answers; a
balance that wraps (`MaxUint` 3 with three accounts); two executors on one object,
and IDs that spell those of input objects and enclaves; batches of no, one, two
and too many actions; two readers of one range and a cache of one root; a load
that overlaps a save; names with a colon (`a`, `a:b`, `b`, `b:b`, `region:a`), so that
channels, workers and regions meet in a key; two writers and a reader of one cached
configuration; one store fault at any write; two monitors that report two
pairs; two calls that compete for one node; a clock three ticks long with a
window of one; 24 tasks of a pair, enough for its rates to cross both thresholds
(10 and 5 per cent); regions over the limit of two at work at once; a queue of one
place with two messages that want a reply; two `Initialize` calls; two requests of
one address over one connection, and a limiter's refill without a failed boot
attempt or the reverse. At the bound of the clock (`MaxTime`) the time
network's timers may fire early.

Four components are checked in several parts, because the product of what is
separated is most of the state space:

| component | parts | what is separated |
|---|---|---|
| `ChainObjects` | `chain`, `enclaves` | events, and the action on an enclave, whose object no other action reads or writes |
| `Regions` | `regions`, `health` | writes that fail, for one pair; and `HealthChecker`, with pairs whose IDs are the names its verdicts and `GetRegionHealth` use |
| `CoordStorage` | `shared`, `cached`, `records`, `wrapper` | a channel and a worker of one key; two workers, one of which has a region's key; the kinds that are not cached, two at a time; the wrapper, two records at a time |
| `Execution` | `execution`, `parallel` | TEEs that answer differently, and two `ExecuteInRegion` calls at once, which compete for the node's slots and table whatever they answer |

The time network's two servers of one ID are interchangeable, and so are its two
calls: `MCTimeNetwork` fixes which is added or made first. The theorems below are
about the whole components.

`CHECK_DEADLOCK FALSE` is set where the system may come to rest: all tasks done,
a process dead, an input without a step, a bound reached.

### Violations

The code disagrees with a comment or message of its own:

| run | what happens |
|---|---|
| `coordinator_overwritten` | a task completed by `SetTaskResult` ends Failed |
| `coordinator_stop` | `Stop` panics when a worker is registered |
| `registry_errnotfound` | with the stores' own missing-key error no region can be registered |
| `registry_restart` | a saved region is refused as existing and not served |
| `verifier_duplicate` | a batch with a single creation is rejected as having a duplicate action |

Other oddities are visible in the actions, and many parts of the properties state
what the code does where a reader may expect something else: `OneEndpoint`,
`NodeWearsOut`, `HealthCheckFails`, `OwnRunsNone`, `WatchedByEach`, `NeverApplied`,
`SetNeverDecodes`, `NoPairPassesBoth`, `NoCodePassesBoth`, `EchoOnly`,
`LastWriteLoads`, `ProofOfAbsence`, `HealthUnanswered`. Beyond them: `ListRegions`
lists a prefix under which nothing is stored (`region_state_store.go:146`);
`SubmitTask` counts finished entries as "concurrent" until they are cleaned up
(`coordinator.go:123`); `SetTaskResult` counts results without regard to who
sent them (`:680`); `RegisterTEEPair` locks `c.mu` twice (`:374`);
`createVerifiedTimestamp` puts a server ID in `RegionID` (`network.go:226`);
`Start` after `Stop` of the time network does nothing (`network.go:321`); a cache
miss of `GetRegionConfig` locks itself out (`regions/config.go:428`); the faucet
makes ten attempts and reports five (`faucet.go:224`).

### Fairness

Liveness assumes weak fairness of goroutines (the Go scheduler), of mutexes that
become free, of store calls, of tickers, timeouts and time. Calls to compute nodes
and controllers have no deadline of their own: `CallEnds` and `NodeStops` name the
call that never ends as an exception instead of assuming it away. The loops of a
worker and its `Stop` compete for one mutex again and again; they have strong
fairness, because a Go mutex hands over to a waiter that starves.
Callers are never assumed to cancel, add servers or stop anything;
`RegionRegistered` assumes that callers keep registering, which is its premise.

## Proofs

Every safety invariant and action property that the passing runs check is also a
theorem for every value of the constants that meets the named assumptions, and so
is the refinement of `JobQueue`: `Spec => []Inv`, `Spec => [][A]_vars` and
`Spec => JobServer`. Where a run checks a conjunction, the theorem is about the
whole conjunction; some parts have theorems of their own. Eight modules hold the
proofs.

| module | theorems | inductive invariant and why it is needed |
|---|---|---|
| `CoordinatorProofs`, registry | `RegistryTyped`, `StoreBacks`, `OnePair`, `PairWorkersRegistered` | `RegInv` adds what is known of a `RegisterRegion` in progress: its region is saved, has no pair yet, and its workers are registered |
| `CoordinatorProofs`, tasks | `CoordinatorTyped`, `RunningExecutes`, `PairLoadExact` | `TaskInv` adds the state of the processor at each step, and that counters and pairs have equal length |
| `CoordinatorProofs`, distinct IDs | `WaitingPending`, `SubmissionRoom`, `FinishedStays`; `AdmittedUndisturbed` | `OrderInv` adds that a sent task is in the channel once or is the current one, that an entry belongs to the task of its ID, and that there are at most `MaxTasks` entries; so the channel has room |
| `CoordinatorProofs`, refinement | `CoordinatorServes` | `OrderInv` makes every waiting task distinct and its entry its own; the send accepts, the Running mark begins, the final status ends, a restart crashes, every other action stutters |
| `VerifiedProofs` | `TimeNetworkTyped`, `VerifiedTimeSafe`; `TimeQuorum` | `TimeInv`: every answer, on its way or accepted, was read between the beginning of its call and now. `QuorumInv` follows an answer from the server that was asked; the server of an accepted answer is the first of its ID, and stays so because lists only grow |
| | `ReadsAlwaysProved` | `CoordInv`: at each step a reader's root, proof and listing are of one view, or of one that was current since it began |
| `ChainProofs` | `SupplyAlwaysAccounted` | inductive as it stands; the work is in the sum over accounts (`SumExcept`: changing two of them moves the sum by their change) |
| | `VerdictsJustified` | `VerInv`: at each position of the pass what its tables hold is what the actions before it put there, and the state has what the verified ones need |
| | `IntentsAlwaysJustified` | `XInv`: the goroutines are those of the regions before `at`, a confirmed one was signed, a refused one is recorded in `xErr`; the rest is about loops and orders (below) |
| `FleetProofs` | `ExecutionAgrees`, `HealthChecksFail`, `NodesWearOut`, `SlotsExact`, `RetriesStayClose`, `ExpiredStaysRefused`; `CallsJustified`, `NodesKeepBounds` | `CallsInv` (what each step of a leg implies), `TableInv` (results are entries of the table), `SlotsInv` (the busy legs change one at a time), `ExecutorInv` (an expired request keeps its proof; a success is within the window of the one proof its request has) |
| | `SelectionsJustified` | `PairsInv`, `RegionsOK`: one record per pair, and a record is the last report's or later; the selections are loops (below) |
| | `BooksAlwaysAgree`, `HalfCreatedAlwaysStays` | `BooksInv`: the rates are those of some earlier count, so an active pair's error rate bounds its failures |
| `MessageProofs` | `MessagesEcho`, `LateAgree`, `RepliesEnd`; `ChannelsKeepLimits`, `HandlersKeepFair` | `EchoInv` (a queue holds its own caller's messages), `LateInv` (once a caller came late the race is over), `ReplyInv` (every accepted reply is still queued), `PaidInv` (a success on the stream, in a call or in an answer is of an executed transfer), `OnceInv` (of the transfers to an address that are decided on, under way or held, all but one overlapped another) |
| | `AdmissionAlwaysJustified` | `AdmissionInv`: a stopped worker with a region was assigned since |
| | `HandlesAlwaysReleased` | `LifeInv` (a monitored generation has its health monitor until its context is done), `ConnInv` (a connection is listed, in the table or lost, and in one of them only), `NodeInv` |
| | `ChecksAlwaysCompared` | none: the subject of a comparison does not change; the lemmas are about the checks |
| | `ReadersAlwaysFind`, `EventsAlwaysQueued` | `StoresInv`: each kind of record is under its own keys, a cached configuration is current unless a read or another write overlapped its last write, and a listing has what was there |
| `StorageProofs` | `RecordsAlwaysServed` | `StorageInv`: `Entry`, for each cache and key, what database, view, cache and loader may hold of it, given what was last given and last stored, unless it was overtaken; `WrapperInv`, that a stored key is of the records that were last saved under it. The lemmas before it show which records can share a key, from the segments of the keys |
| | `StatesAlwaysSaved` | `RegionsInv`: memory and store agree but for the keys in `unsaved`, and every saved state is under a name that was registered or under a verdict's |
| | `CreationIsFinal`, `EventsHaveObjects` | `ChainInv`: what a running action has read of its object still holds, because the keys it declared keep others away |
| `Induction`, `FoldTheory` | `FlattenType`, `FlattenElements`, `LoopInvariant` | lemmas the others rest on (below) |

**Loops and data.** The library's induction theorems take an operator as a
parameter, which the provers cannot instantiate. `Induction` uses instead that a
nonempty set of numbers up to a bound has a least element, which follows from the
well-foundedness of inclusion among finite sets; a proof takes the least
counterexample. `FoldTheory` proves once, with the loop's body `Op` and its
invariant `Inv` as constants, that what holds before a loop and is kept by its body
holds after it; `INSTANCE FoldTheory WITH Op <- ..., Inv <- ...` gives it for each
loop of the code: `SelectOptimalPair` and the two selections of a region,
`RemoveTEEPair`, the operations of a commit, the changes of a region and the
regions of an intent. What `FlattenSeq`, `SetToSeqs`, `SetToSeq`, `Min` and `Max`
return is proved from their definitions in the same way.

A leaf names the prover `Zenon` where it needs no arithmetic: preparing a leaf for
the SMT solver takes the longer the more leaves were prepared before it, and in
modules of this size even easy leaves would run out of time.

**Intents.** `RegionRight`: of the changes to a key the last one in sorted order
counts. `Made` says what the regions so far have made of a key: nothing, unless one
of them declares it; and, if no two regions share a key, what its own region makes
of it, in whatever order (`OrdersAgree`). `CoveredRegion`: the proof kept is that
of the last range, whose keys have one prefix. `RangedIs` gives the changes ranged
over; without transfers in, their order cannot matter (`ValidWithoutIn`).

Assumptions, named in the modules and evaluated by TLC: `RegistryAssumption`,
`CoordinatorAssumption`, `TimeNetworkAssumption`, `ChainAssumption`,
`BalancesAssumption` (finitely many accounts), `VerifierAssumption`,
`ExecutionAssumption` (finitely many calls; no node serves the region
"health-check"), `TEEExecutorAssumption`, `BalancerAssumption` (no region has an
empty name), `RegionsAssumption`, `ValidationAssumption` (no
colon among the symbols of a key's parts), `SecAssumption`, `FaucetAssumption`,
`LifeAssumption`, `StorageAssumption` (strings are totally ordered),
`CoordAssumption` (a commit has operations; the
cache holds at least one root), `XAssumption` (an intent has finitely many regions
and its changes are changes; `NewRegionProcessor` refuses a limit below one). The
rest of them give constants their types. The theorems on distinct IDs also assume
in their statements that the health monitor does not run, which is how `Start`
leaves it.

Only model-checked: liveness under fairness (`RegionRegistered`, `SlotReturned`,
`NetworkEnds`, `CallEnds`, `ProcessEnds`, `WorkerEnds`, `StopsEnd`, `FaucetEnds`),
which is out of the provers' reach.

## Not modelled

* Generated protocol code, conversions between message types, type declarations
  and the platform stubs of `core/`, whose methods return constants.
* The JSON-RPC API, command lines, key files, load tools and the web wallet:
  decoding and I/O around the modelled parts, without state of their own.
* `tee/bridge.go`, which runs an external program on temporary files (`Execution`
  has its outcome, a hash or an error), and `vm/bridge.go` (values that no other
  code produces or reads).
* `vm/vm.go`: its block functions return constants, and `validateRegionalActions`
  has no caller.
* Within modelled parts: functions without a caller (`cleanup`, `saveState`,
  `restoreState`, `collectRegionMetrics`, `VerifySystemState`,
  `verifyComputeExecution`, `ValidateAndExecute`), `UpdateRoot` of the state manager
  (a height and a root that nothing else reads), `HandleRangeRequest` (an answer
  that changes nothing), the fee and validity window of an intent and its
  dependencies (values the chain reads, none of them state), what the performance monitor's tick saves, and the
  database wrappers that pass a call on.
* Cryptography: a signature is its signer, a hash is what it is of.
