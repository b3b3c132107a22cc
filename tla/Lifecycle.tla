------------------------------ MODULE Lifecycle ------------------------------
(***************************************************************************)
(* Starting and stopping: the ShuttleVM of vm/core.go with the goroutines, *)
(* contexts, coordinators and node clients New, Initialize and Shutdown    *)
(* handle; the connections that tee.Client, vm.Validator, vm.RegionClient  *)
(* and InitializeTEEPairs dial and close; and the serving loop of a        *)
(* compute node.  The three share no state.                                *)
(***************************************************************************)
EXTENDS Integers, Sequences, FiniteSets

CONSTANTS
    NodeNames,          \* keys of config.ComputeNodeEndpoints
    MaxInits,       \* bound: calls of Initialize
    Areas,          \* regions whose TEEs are dialled
    MaxDials,       \* bound: connections dialled
    MaxRPCs         \* bound: calls in flight at a compute node

ASSUME LifeAssumption == MaxInits \in Nat /\ MaxDials \in Nat /\ MaxRPCs \in Nat

VARIABLES
    vm,             \* "none", "failed", "up", "shut" or "crashed"
    verifyOnly,     \* config.VerificationOnly
    gen,            \* whose monitoringCtx and regionManager the VM holds: 0 is
                    \* New's, n the n-th Initialize's
    inits,          \* calls of Initialize
    loops,          \* monitoring goroutines [kind, gen]
    ctxDone,        \* contexts that are done, by gen
    stopped,        \* performance monitors whose done is closed, by gen
    coordinators,   \* coordinators [of, gen, started, max]: the VM's and those
                    \* its state managers made, with config.MaxTasks
    nodes,          \* node clients with an open connection
    badChain,       \* history: New failed on the chain ID
    monitored       \* history: the gens monitoring was started for
lifeVars == <<vm, verifyOnly, gen, inits, loops, ctxDone, stopped, coordinators, nodes, badChain, monitored>>

VARIABLES
    keeps,          \* who dials: tee.Client, vm.Validator or InitializeTEEPairs
    dials,          \* connections dialled so far: they are numbered
    live,           \* open connections
    table,          \* regionTEEs, or vm.computeNodes: region -> its connections
    list,           \* grpcConns, and the default connections of tee.Client
    lost,           \* history: connections replaced in the table while open
    shut            \* Close has run
connVars == <<keeps, dials, live, table, list, lost, shut>>

VARIABLES
    serving,        \* "serving", "returned" or "failed": ComputeNode.Start
    signalled,      \* SIGINT or SIGTERM was received
    ctxEnded,       \* cancel has run
    draining,       \* GracefulStop was called
    listening,      \* the listener works
    rpcs            \* calls in flight
nodeVars == <<serving, signalled, ctxEnded, draining, listening, rpcs>>

-----------------------------------------------------------------------------
(* The VM.                                                                 *)

\* startMonitoring: the region manager's performance monitor, the TEE health
\* monitor and the balancer's collector.
Monitoring(g) == [kind : {"performance", "health", "balancer"}, gen : {g}]

LifeInit ==
    /\ vm = "none" /\ verifyOnly \in BOOLEAN /\ gen = 0 /\ inits = 0
    /\ loops = {} /\ ctxDone = {} /\ stopped = {} /\ coordinators = {}
    /\ nodes = {} /\ badChain = FALSE /\ monitored = {}

\* NewStateManager makes a coordinator and starts it.  Neither step can fail.
StateCoordinator(g) == [of |-> "state", gen |-> g, started |-> TRUE, max |-> 100]

\* Mutant: a client that cannot be made leaves the earlier ones open.
NewFailsLeaking ==
    /\ vm = "none" /\ vm' = "failed"
    /\ coordinators' = {StateCoordinator(0)}
    /\ \/ nodes' \in SUBSET NodeNames /\ UNCHANGED badChain
       \/ nodes' = NodeNames /\ badChain' = TRUE
    /\ UNCHANGED <<verifyOnly, gen, inits, loops, ctxDone, stopped, monitored>>

\* The database fails, or a node client, whereupon the clients made so far are
\* closed, or the chain ID does not parse, which closes nothing.  The state
\* manager's coordinator is left running by the last two.
NewFails ==
    /\ vm = "none" /\ vm' = "failed"
    /\ \/ UNCHANGED <<coordinators, nodes, badChain>>
       \/ coordinators' = {StateCoordinator(0)} /\ UNCHANGED <<nodes, badChain>>
       \/ coordinators' = {StateCoordinator(0)} /\ nodes' = NodeNames /\ badChain' = TRUE
    /\ UNCHANGED <<verifyOnly, gen, inits, loops, ctxDone, stopped, monitored>>

\* New makes a coordinator it does not start, and starts monitoring under a
\* context of 24 hours.
New ==
    /\ vm = "none" /\ vm' = "up"
    /\ nodes' = NodeNames
    /\ coordinators' = {StateCoordinator(0), [of |-> "vm", gen |-> 0, started |-> FALSE, max |-> 100]}
    /\ loops' = IF verifyOnly THEN {} ELSE Monitoring(0)
    /\ monitored' = IF verifyOnly THEN {} ELSE {0}
    /\ UNCHANGED <<verifyOnly, gen, inits, ctxDone, stopped, badChain>>

\* Mutant: the context of New has no deadline.
ExpireNever == FALSE /\ UNCHANGED lifeVars

Expire ==
    /\ vm \in {"up", "shut"} /\ 0 \notin ctxDone
    /\ ctxDone' = ctxDone \cup {0}
    /\ UNCHANGED <<vm, verifyOnly, gen, inits, loops, stopped, coordinators, nodes, badChain, monitored>>

\* Initialize checks nothing: it may be called again, and after Shutdown.
MayInitialize == vm \in {"up", "shut"} /\ inits < MaxInits /\ inits' = inits + 1

\* The database fails, before anything but the VM's references has changed.
InitializeFails ==
    /\ MayInitialize
    /\ UNCHANGED <<vm, verifyOnly, gen, loops, ctxDone, stopped, coordinators, nodes, badChain, monitored>>

\* A new state manager, a new coordinator whose Config leaves MaxTasks at zero,
\* both started, and a new context and region manager in place of the old ones,
\* which nothing can cancel or stop any more.
Renewed ==
    /\ gen' = inits'
    /\ coordinators' = coordinators \cup
         {StateCoordinator(gen'), [of |-> "vm", gen |-> gen', started |-> TRUE, max |-> 0]}

\* initializeComputeConnections or setupRegionWorkers fails.
ConnectFails ==
    /\ MayInitialize /\ ~verifyOnly /\ NodeNames # {}
    /\ Renewed
    /\ UNCHANGED <<vm, verifyOnly, loops, ctxDone, stopped, nodes, badChain, monitored>>

\* A client that Shutdown closed does not validate.
Initialize ==
    /\ MayInitialize /\ vm' = "up"
    /\ verifyOnly \/ nodes = NodeNames
    /\ Renewed
    /\ loops' = loops \cup Monitoring(gen')
    /\ monitored' = monitored \cup {gen'}
    /\ UNCHANGED <<verifyOnly, ctxDone, stopped, nodes, badChain>>

\* A goroutine takes ctx.Done, or its monitor's done.
LoopEnds(l) ==
    /\ l \in loops
    /\ l.gen \in ctxDone \/ (l.kind = "performance" /\ l.gen \in stopped)
    /\ loops' = loops \ {l}
    /\ UNCHANGED <<vm, verifyOnly, gen, inits, ctxDone, stopped, coordinators, nodes, badChain, monitored>>

\* Shutdown cancels the context the VM holds, closes the monitor's done (a
\* second time it panics) and closes the clients; the coordinators run on.
Shutdown ==
    /\ vm \in {"up", "shut"}
    /\ ctxDone' = ctxDone \cup {gen}
    /\ nodes' = {}
    /\ IF gen \in stopped
       THEN vm' = "crashed" /\ loops' = {} /\ coordinators' = {} /\ UNCHANGED stopped
       ELSE vm' = "shut" /\ stopped' = stopped \cup {gen} /\ UNCHANGED <<loops, coordinators>>
    /\ UNCHANGED <<verifyOnly, gen, inits, badChain, monitored>>

LifeNext ==
    \/ NewFails \/ New \/ Expire
    \/ InitializeFails \/ ConnectFails \/ Initialize
    \/ (\E l \in loops : LoopEnds(l)) \/ Shutdown

\* Goroutines are scheduled and 24 hours pass.
LifeFairness ==
    /\ WF_lifeVars(Expire)
    /\ WF_lifeVars(\E l \in loops : LoopEnds(l))

-----------------------------------------------------------------------------
(* Connections.  The SGX side is dialled first; when the SEV side fails,   *)
(* the SGX connection is closed again.                                     *)

ConnInit ==
    /\ keeps \in {"client", "validator", "nodes"} /\ dials = 0 /\ live = {}
    /\ table = [a \in {} |-> a] /\ list = {} /\ lost = {} /\ shut = FALSE

\* What NewRegionClient and CreateTEEPair dial.
DialPair == <<dials + 1, dials + 2>>
\* What RegionClient.Close and TEEPair.Close close.
PairConns(p) == {p[1], p[2]}

\* NewClient's two default connections.
NewClient ==
    /\ keeps = "client" /\ dials = 0 /\ ~shut
    /\ dials' = 2 /\ live' = {1, 2} /\ list' = {1, 2}
    /\ UNCHANGED <<keeps, table, lost, shut>>

\* The validator has listed the SGX connection by then.
SEVDialFails ==
    /\ dials < MaxDials /\ ~shut
    /\ dials' = dials + 1
    /\ list' = IF keeps = "validator" THEN list \cup {dials'} ELSE list
    /\ UNCHANGED <<keeps, live, table, lost, shut>>

\* A pair is dialled and stored for a region, over the entry it had.
Stored(a) ==
    /\ dials + 2 <= MaxDials /\ ~shut
    /\ dials' = dials + 2 /\ live' = live \cup PairConns(DialPair)
    /\ table' = [x \in DOMAIN table \cup {a} |-> IF x = a THEN DialPair ELSE table[x]]
    /\ UNCHANGED <<keeps, shut>>
Replaced(a) == IF a \in DOMAIN table THEN PairConns(table[a]) ELSE {}

\* Client.AddRegion.
ClientAddRegion(a) ==
    /\ keeps = "client" /\ Stored(a)
    /\ lost' = lost \cup Replaced(a) /\ UNCHANGED list

\* One pair of InitializeTEEPairs, which stores two node clients; those of the
\* pairs before one that fails stay.
InitializeTEEPairs(a) ==
    /\ keeps = "nodes" /\ Stored(a)
    /\ lost' = lost \cup Replaced(a) /\ UNCHANGED list

\* Validator.AddRegion.
ValidatorAddRegion(a) ==
    /\ keeps = "validator" /\ Stored(a)
    /\ list' = list \cup PairConns(DialPair) /\ UNCHANGED lost

\* An error, as for a connection closed before, does not stop the rest: the
\* validator closes its list, the others what their table holds and the
\* default connections.
CloseAll ==
    /\ ~shut /\ shut' = TRUE
    /\ live' = live \ (list \cup IF keeps = "validator" THEN {} ELSE UNION {Replaced(a) : a \in Areas})
    /\ UNCHANGED <<keeps, dials, table, list, lost>>

ConnNext ==
    \/ NewClient \/ SEVDialFails \/ CloseAll
    \/ \E a \in Areas : ClientAddRegion(a) \/ InitializeTEEPairs(a) \/ ValidatorAddRegion(a)

-----------------------------------------------------------------------------
(* ComputeNode.Start.                                                      *)

NodeInit ==
    /\ serving = "serving" /\ signalled = FALSE /\ ctxEnded = FALSE /\ draining = FALSE
    /\ listening = TRUE /\ rpcs = 0

\* A call starts on an open connection, until GracefulStop refuses it.
Call ==
    /\ ~draining /\ rpcs < MaxRPCs /\ rpcs' = rpcs + 1
    /\ UNCHANGED <<serving, signalled, ctxEnded, draining, listening>>
CallReturns ==
    /\ rpcs > 0 /\ rpcs' = rpcs - 1
    /\ UNCHANGED <<serving, signalled, ctxEnded, draining, listening>>

Signal ==
    /\ ~signalled /\ signalled' = TRUE
    /\ UNCHANGED <<serving, ctxEnded, draining, listening, rpcs>>

\* The signal handler cancels the context.
CancelServe ==
    /\ signalled /\ ~ctxEnded /\ ctxEnded' = TRUE
    /\ UNCHANGED <<serving, signalled, draining, listening, rpcs>>

\* The handler, or the goroutine that waits for the context, calls it.
GracefulStop ==
    /\ ctxEnded /\ ~draining /\ draining' = TRUE
    /\ UNCHANGED <<serving, signalled, ctxEnded, listening, rpcs>>

\* Serve returns nil when GracefulStop has seen the calls in flight end.
ServeReturns ==
    /\ serving = "serving" /\ draining /\ rpcs = 0 /\ serving' = "returned"
    /\ UNCHANGED <<signalled, ctxEnded, draining, listening, rpcs>>

\* The listener fails before GracefulStop: Serve returns the error without
\* waiting.  Start hides it when the context is done already, and its deferred
\* cancel ends the context otherwise.
ListenerFails ==
    /\ serving = "serving" /\ ~draining
    /\ serving' = IF ctxEnded THEN "returned" ELSE "failed"
    /\ ctxEnded' = TRUE /\ listening' = FALSE
    /\ UNCHANGED <<signalled, draining, rpcs>>

NodeNext == Call \/ CallReturns \/ Signal \/ CancelServe \/ GracefulStop \/ ServeReturns \/ ListenerFails

\* The handler's goroutines are scheduled.  Nothing bounds a call: neither Start
\* nor the handlers have a deadline.
NodeFairness == WF_nodeVars(CancelServe) /\ WF_nodeVars(GracefulStop) /\ WF_nodeVars(ServeReturns)

LifecycleSpec ==
    /\ LifeInit /\ ConnInit /\ NodeInit
    /\ [][\/ LifeNext /\ UNCHANGED <<connVars, nodeVars>>
          \/ ConnNext /\ UNCHANGED <<lifeVars, nodeVars>>
          \/ NodeNext /\ UNCHANGED <<lifeVars, connVars>>]_<<lifeVars, connVars, nodeVars>>
    /\ LifeFairness /\ NodeFairness

-----------------------------------------------------------------------------
(* Properties.                                                             *)

\* The goroutines of an Initialize end after the Shutdown that finds its context
\* in the VM, and those of New whatever happens, by their deadline.  (Those of an
\* Initialize that another one replaced have no such Shutdown.)
LoopsEnd ==
    /\ \A g \in 0..MaxInits : (vm = "shut" /\ gen = g) ~> (\A l \in loops : l.gen # g)
    /\ (vm = "up") ~> (\A l \in loops : l.gen # 0)

\* Each New and Initialize that started monitoring has its own health monitor
\* until its context is done, which for a replaced one is never: a VM that was
\* initialised again checks its TEEs several times over, and goes on doing so
\* after Shutdown.
WatchedByEach ==
    LET watch == {l.gen : l \in {x \in loops : x.kind = "health"}}
    IN  watch \subseteq monitored /\ (vm # "crashed" => monitored \ ctxDone \subseteq watch)

\* A task can be run by a state manager's coordinator only: the VM's own is
\* never started (New's), or refuses every task at its limit of none
\* (Initialize's).
OwnRunsNone == \A c \in coordinators : c.of = "vm" /\ c.started => c.max = 0

\* A VM that failed to start or was shut down holds no node client open, unless
\* New failed on the chain ID.
NodesReleased == vm \in {"failed", "shut", "crashed"} /\ ~badChain => nodes = {}

\* After Close the only open connections are those a second AddRegion for the
\* same region replaced; the validator, which lists them, leaves none.
ConnectionsReleased == shut => live = lost

\* Start returns nil only after a signal, and then with no call in flight,
\* unless the listener failed between the cancel and GracefulStop.
DrainedFirst == serving = "returned" => signalled /\ (listening => rpcs = 0)

\* What the VM, the clients and the compute node hold while they run and have
\* given back when they have stopped, however far they got.
HandlesReleased == WatchedByEach /\ OwnRunsNone /\ NodesReleased /\ ConnectionsReleased /\ DrainedFirst

\* A compute node that is signalled while it serves leaves Start, unless a call
\* never ends.
NodeStops == []<>(rpcs = 0) => ((signalled /\ serving = "serving") ~> (serving # "serving"))

\* What was told to stop does: the goroutines of a VM and a serving compute node.
StopsEnd == LoopsEnd /\ NodeStops
=============================================================================
