------------------------------ MODULE Registry ------------------------------
(***************************************************************************)
(* The registry half of coordination.Coordinator: the in-memory maps       *)
(* c.workers and c.teePairs, the records the coordinator writes to its     *)
(* store, and the operations that change them (RegisterWorker,             *)
(* UnregisterWorker, RegisterTEEPair, RegisterRegion, SendMessage), with   *)
(* failing stores, panics and restarts of the process between any steps.   *)
(*                                                                         *)
(* A call that returns an error before changing anything is no step: its   *)
(* conditions are the guard of the action.  Sections that run under c.mu   *)
(* are single actions.  RegisterRegion runs under c.regionLock, not c.mu,  *)
(* and makes three store calls, so it is three actions: regPc tells which  *)
(* comes next, and the lock is free exactly when regPc = "idle".           *)
(***************************************************************************)
EXTENDS Integers, Sequences

CONSTANTS
    Workers,             \* WorkerIDs
    Regions,             \* region IDs ("" is refused and left out)
    NotFoundRecognised,  \* the store's missing-key error satisfies
                         \*   errors.Is(err, storage.ErrNotFound)
    StoreFaults,         \* store reads and writes may fail
    RestartAllowed,      \* the process may be killed and started again
    TEEPairCalls         \* somebody calls Coordinator.RegisterTEEPair

ASSUME RegistryAssumption ==
    {NotFoundRecognised, StoreFaults, RestartAllowed, TEEPairCalls} \subseteq BOOLEAN

VARIABLES
    workers,        \* c.workers: "absent" or the Status of the registered worker
    teePairs,       \* c.teePairs: the (SGX, SEV) workers of a region's pairs
    taskCount,      \* the TaskCount of each of those pairs
    savedWorkers,   \* worker/<id> records in the store
    savedRegions,   \* region/<id> records: the pair of workers, or <<>>
    savedChannels,  \* channel/<a>:<b> records, keyed by the unordered pair
    regPc,          \* next step of the RegisterRegion holding c.regionLock
    regID, regPair, \* its arguments
    muStuck,        \* c.mu is held by a call that waits for c.mu itself
    up              \* FALSE once a panic has ended the process

regVars == <<workers, teePairs, taskCount, savedWorkers, savedRegions, savedChannels,
             regPc, regID, regPair, muStuck, up>>

WorkerStates == {"absent", "idle", "active", "error"}

Pair == Workers \X Workers

ChannelKey(w1, w2) == {w1, w2}

Registered == {w \in Workers : workers[w] # "absent"}

\* The process runs and c.mu can be taken.
MuFree == up /\ ~muStuck

\* The types of the coordinator's maps, of the records behind them and of the
\* RegisterRegion under way.
RegTypeOK ==
    /\ workers \in [Workers -> WorkerStates]
    /\ teePairs \in [Regions -> Seq(Pair)]
    /\ taskCount \in [Regions -> Seq(Int)]
    /\ savedWorkers \subseteq Workers
    /\ savedRegions \in [Regions -> Pair \cup {<<>>}]
    /\ savedChannels \subseteq SUBSET Workers
    /\ regPc \in {"idle", "channel", "append"}
    /\ regID \in Regions \cup {"none"}
    /\ regPair \in Pair \cup {<<>>}
    /\ muStuck \in BOOLEAN
    /\ up \in BOOLEAN

NoWorkers == [w \in Workers |-> "absent"]

NoPairs == [r \in Regions |-> <<>>]

\* NewCoordinator over an empty store.
RegInit ==
    /\ workers = NoWorkers
    /\ teePairs = NoPairs /\ taskCount = NoPairs
    /\ savedWorkers = {}
    /\ savedRegions = [r \in Regions |-> <<>>]
    /\ savedChannels = {}
    /\ regPc = "idle" /\ regID = "none" /\ regPair = <<>>
    /\ muStuck = FALSE /\ up = TRUE

-----------------------------------------------------------------------------
(* Workers.  RegisterWorker saves the record, starts the worker (Start sets *)
(* it Active) and only then adds it to the map.                             *)

\* Mutant: the worker is published without its record.
RegisterWorkerUnsaved(w) ==
    /\ MuFree
    /\ workers[w] = "absent"
    /\ workers' = [workers EXCEPT ![w] = "active"]
    /\ UNCHANGED <<teePairs, taskCount, savedWorkers, savedRegions, savedChannels,
                   regPc, regID, regPair, muStuck, up>>

RegisterWorker(w) ==
    /\ MuFree
    /\ workers[w] = "absent"
    /\ savedWorkers' = savedWorkers \cup {w}
    /\ workers' = [workers EXCEPT ![w] = "active"]
    /\ UNCHANGED <<teePairs, taskCount, savedRegions, savedChannels,
                   regPc, regID, regPair, muStuck, up>>

\* RegisterWorker builds the Worker without doneCh, so Worker.Stop sets it
\* Idle and then closes a nil channel: the call panics before DeleteWorker.
UnregisterWorker(w) ==
    /\ MuFree
    /\ workers[w] # "absent"
    /\ workers' = [workers EXCEPT ![w] = "idle"]
    /\ up' = FALSE
    /\ UNCHANGED <<teePairs, taskCount, savedWorkers, savedRegions, savedChannels,
                   regPc, regID, regPair, muStuck>>

\* RegisterTEEPair takes c.mu and calls RegisterWorker, which takes it again.
RegisterTEEPair ==
    /\ TEEPairCalls
    /\ MuFree
    /\ muStuck' = TRUE
    /\ UNCHANGED <<workers, teePairs, taskCount, savedWorkers, savedRegions, savedChannels,
                   regPc, regID, regPair, up>>

\* GetSecureChannel(w1, w2): a stored channel is returned; a missing one is
\* created and saved if the missing-key error is recognised.
ChannelObtainable(w1, w2) ==
    ChannelKey(w1, w2) \in savedChannels \/ NotFoundRecognised

\* Coordinator.SendMessage: both workers become Active after the send.  (What
\* happens to the message is the subject of SecureChannels.)
SendMessage(w1, w2) ==
    /\ MuFree
    /\ {w1, w2} \subseteq Registered
    /\ ChannelObtainable(w1, w2)
    /\ savedChannels' = savedChannels \cup {ChannelKey(w1, w2)}
    /\ workers' = [workers EXCEPT ![w1] = "active", ![w2] = "active"]
    /\ UNCHANGED <<teePairs, taskCount, savedWorkers, savedRegions,
                   regPc, regID, regPair, muStuck, up>>

-----------------------------------------------------------------------------
(* Regions.                                                                *)

\* Mutant: an existing region is overwritten.
RegisterRegionAgain(r, p) ==
    /\ up
    /\ regPc = "idle"
    /\ {p[1], p[2]} \subseteq Registered
    /\ savedRegions' = [savedRegions EXCEPT ![r] = p]
    /\ regPc' = "channel"
    /\ regID' = r
    /\ regPair' = p
    /\ UNCHANGED <<workers, teePairs, taskCount, savedWorkers, savedChannels, muStuck, up>>

\* Mutant: only the SGX worker is looked up.
RegisterRegionHalfChecked(r, p) ==
    /\ up
    /\ regPc = "idle"
    /\ savedRegions[r] = <<>> /\ NotFoundRecognised
    /\ p[1] \in Registered
    /\ savedRegions' = [savedRegions EXCEPT ![r] = p]
    /\ regPc' = "channel"
    /\ regID' = r
    /\ regPair' = p
    /\ UNCHANGED <<workers, teePairs, taskCount, savedWorkers, savedChannels, muStuck, up>>

\* Lock, look the region up, check both workers, save the record.
RegisterRegion(r, p) ==
    /\ up
    /\ regPc = "idle"
    /\ savedRegions[r] = <<>> /\ NotFoundRecognised
    /\ {p[1], p[2]} \subseteq Registered
    /\ savedRegions' = [savedRegions EXCEPT ![r] = p]
    /\ regPc' = "channel"
    /\ regID' = r
    /\ regPair' = p
    /\ UNCHANGED <<workers, teePairs, taskCount, savedWorkers, savedChannels, muStuck, up>>

\* GetSecureChannel for the pair.
RegionChannel ==
    /\ up
    /\ regPc = "channel"
    /\ ChannelObtainable(regPair[1], regPair[2])
    /\ savedChannels' = savedChannels \cup {ChannelKey(regPair[1], regPair[2])}
    /\ regPc' = "append"
    /\ UNCHANGED <<workers, teePairs, taskCount, savedWorkers, savedRegions,
                   regID, regPair, muStuck, up>>

\* GetSecureChannel fails: the call returns, the saved region stays.
RegionChannelFails ==
    /\ up
    /\ regPc = "channel"
    /\ StoreFaults \/ ~ChannelObtainable(regPair[1], regPair[2])
    /\ regPc' = "idle" /\ regID' = "none" /\ regPair' = <<>>
    /\ UNCHANGED <<workers, teePairs, taskCount, savedWorkers, savedRegions, savedChannels,
                   muStuck, up>>

\* Mutant: the call returns without publishing the pair.
RegionAppendLost ==
    /\ up
    /\ regPc = "append"
    /\ regPc' = "idle" /\ regID' = "none" /\ regPair' = <<>>
    /\ UNCHANGED <<workers, teePairs, taskCount, savedWorkers, savedRegions, savedChannels,
                   muStuck, up>>

\* Append the pair to c.teePairs and unlock.
RegionAppend ==
    /\ up
    /\ regPc = "append"
    /\ teePairs' = [teePairs EXCEPT ![regID] = Append(@, regPair)]
    /\ taskCount' = [taskCount EXCEPT ![regID] = Append(@, 0)]
    /\ regPc' = "idle" /\ regID' = "none" /\ regPair' = <<>>
    /\ UNCHANGED <<workers, savedWorkers, savedRegions, savedChannels, muStuck, up>>

\* A new process: NewCoordinator and Start, whose restoreWorkers does nothing.
RegRestart ==
    /\ RestartAllowed
    /\ workers' = NoWorkers
    /\ teePairs' = NoPairs /\ taskCount' = NoPairs
    /\ regPc' = "idle" /\ regID' = "none" /\ regPair' = <<>>
    /\ muStuck' = FALSE /\ up' = TRUE
    /\ UNCHANGED <<savedWorkers, savedRegions, savedChannels>>

RegStep ==
    \/ \E w \in Workers : RegisterWorker(w)
    \/ \E w \in Workers : UnregisterWorker(w)
    \/ RegisterTEEPair
    \/ \E w1, w2 \in Workers : SendMessage(w1, w2)
    \/ \E r \in Regions, p \in Pair : RegisterRegion(r, p)
    \/ RegionChannel
    \/ RegionChannelFails
    \/ RegionAppend

RegNext == RegStep \/ RegRestart

RegSpec == RegInit /\ [][RegNext]_regVars

\* Callers keep registering a region, and a RegisterRegion that holds the lock
\* runs on: store calls return and goroutines are scheduled.
RegFairness ==
    /\ WF_regVars(\E w \in Workers : RegisterWorker(w))
    /\ \A r \in Regions : WF_regVars(\E p \in Pair : RegisterRegion(r, p))
    /\ WF_regVars(RegionChannel \/ RegionChannelFails)
    /\ WF_regVars(RegionAppend)

RegFairSpec == RegSpec /\ RegFairness

-----------------------------------------------------------------------------
(* Properties.                                                             *)

\* Whatever the coordinator serves from memory is on disk: RegisterWorker and
\* RegisterRegion write their records (and the pair's channel) before they
\* publish to c.workers and c.teePairs, through faults, panics and restarts.
StoreBacksMemory ==
    /\ Registered \subseteq savedWorkers
    /\ \A r \in Regions : \A i \in DOMAIN teePairs[r] :
         LET p == teePairs[r][i]
         IN  savedRegions[r] = p /\ ChannelKey(p[1], p[2]) \in savedChannels

\* A region has at most one TEE pair in memory, however often RegisterRegion is
\* retried, fails half-way or races a restart.  selectTEEPair keeps a pointer
\* into the slice, which a second append would leave pointing at a dead copy.
OnePairPerRegion == \A r \in Regions : Len(teePairs[r]) <= 1

\* Both workers of every TEE pair are registered: RegisterRegion reads
\* c.workers without c.mu, and the answer must still hold when it appends.
PairsRegistered ==
    \A r \in Regions : \A i \in DOMAIN teePairs[r] :
        LET p == teePairs[r][i] IN {p[1], p[2]} \subseteq Registered

\* With a store that works, a region somebody keeps registering gets its TEE
\* pair, unless the process dies.
RegionRegistered == \A r \in Regions : <>(teePairs[r] # <<>> \/ ~up)

\* RegisterRegion answers "already exists" only for regions that are served:
\* what the store lists has a TEE pair in memory.
ExistingRegionServed ==
    up /\ regPc = "idle" =>
        \A r \in Regions : savedRegions[r] # <<>> => teePairs[r] # <<>>
=============================================================================
