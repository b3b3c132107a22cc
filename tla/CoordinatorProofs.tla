------------------------- MODULE CoordinatorProofs --------------------------
(***************************************************************************)
(* The registry and the task coordinator, for every set of tasks, workers  *)
(* and regions, every assignment of IDs and any number of MaxTasks: what   *)
(* the registry publishes is backed; what the coordinator does with a      *)
(* task; what it owes to tasks with distinct IDs while the health monitor, *)
(* which Start does not launch, does not run; and that it then implements  *)
(* a job server.                                                           *)
(***************************************************************************)
EXTENDS Coordinator, FiniteSetTheorems, TLAPS

\* Sequences.
LEMMA EmptySeq ==
    ASSUME NEW S
    PROVE  <<>> \in Seq(S) /\ Len(<<>>) = 0 /\ \A s \in Seq(S) : s # <<>> => Len(s) \in Nat \ {0}
  OBVIOUS

LEMMA LenProperties ==
    ASSUME NEW S, NEW s \in Seq(S)
    PROVE  Len(s) \in Nat /\ s \in [1..Len(s) -> S] /\ DOMAIN s = 1..Len(s)
  OBVIOUS

LEMMA ElementOfSeq ==
    ASSUME NEW S, NEW s \in Seq(S), NEW n \in 1..Len(s) PROVE s[n] \in S
  OBVIOUS

LEMMA AppendProperties ==
    ASSUME NEW S, NEW s \in Seq(S), NEW e \in S
    PROVE  /\ Append(s, e) \in Seq(S) /\ Append(s, e) # <<>> /\ Len(Append(s, e)) = Len(s) + 1
           /\ \A i \in 1..Len(s) : Append(s, e)[i] = s[i]
           /\ Append(s, e)[Len(s) + 1] = e
  OBVIOUS

LEMMA ExceptSeq ==
    ASSUME NEW S, NEW s \in Seq(S), NEW i \in 1..Len(s), NEW e \in S
    PROVE  /\ [s EXCEPT ![i] = e] \in Seq(S) /\ Len([s EXCEPT ![i] = e]) = Len(s)
           /\ \A j \in 1..Len(s) : [s EXCEPT ![i] = e][j] = IF j = i THEN e ELSE s[j]
  OBVIOUS

LEMMA HeadTailProperties ==
    ASSUME NEW S, NEW s \in Seq(S), s # <<>>
    PROVE  /\ Head(s) \in S /\ Tail(s) \in Seq(S) /\ Len(Tail(s)) = Len(s) - 1
           /\ \A i \in 1..Len(Tail(s)) : Tail(s)[i] = s[i + 1]
  OBVIOUS

LEMMA ConcatProperties ==
    ASSUME NEW S, NEW s \in Seq(S), NEW t \in Seq(S)
    PROVE  /\ s \o t \in Seq(S) /\ Len(s \o t) = Len(s) + Len(t)
           /\ \A i \in 1..Len(s) + Len(t) : (s \o t)[i] = IF i <= Len(s) THEN s[i] ELSE t[i - Len(s)]
  OBVIOUS

-----------------------------------------------------------------------------
(* The registry, whatever the store does *)

\* A RegisterRegion inside its lock has saved its region, has not published
\* it, and its workers are still registered; from "append" on the channel is
\* saved too.
RegionInProgress ==
    /\ regPc \in {"channel", "append"} =>
         /\ regID \in Regions /\ regPair \in Pair
         /\ savedRegions[regID] = regPair
         /\ teePairs[regID] = <<>>
         /\ {regPair[1], regPair[2]} \subseteq Registered
    /\ regPc = "append" => ChannelKey(regPair[1], regPair[2]) \in savedChannels

\* The inductive invariant: what is published is backed, and what is about to
\* be published will be.
RegInv ==
    /\ RegTypeOK
    /\ StoreBacksMemory
    /\ OnePairPerRegion
    /\ PairsRegistered
    /\ RegionInProgress

\* The new coordinator satisfies the invariant: all its maps are empty.
LEMMA RegInvInit == RegInit => RegInv
<1> SUFFICES ASSUME RegInit PROVE RegInv
  BY Zenon
<1> USE DEF RegInit, NoWorkers, NoPairs, Registered
<1>1. RegTypeOK
  <2>1. workers \in [Workers -> WorkerStates]
    BY Zenon DEF WorkerStates
  <2>2. teePairs \in [Regions -> Seq(Pair)]
    OBVIOUS
  <2>3. taskCount \in [Regions -> Seq(Int)]
    OBVIOUS
  <2>4. savedRegions \in [Regions -> Pair \cup {<<>>}]
    BY Zenon
  <2> QED
    BY <2>1, <2>2, <2>3, <2>4, Zenon DEF RegTypeOK
<1>2. \A r \in Regions : teePairs[r] = <<>>
  BY Zenon
<1>3. StoreBacksMemory /\ PairsRegistered /\ OnePairPerRegion
  BY <1>2 DEF StoreBacksMemory, PairsRegistered, OnePairPerRegion
<1>4. RegionInProgress
  BY Zenon DEF RegionInProgress
<1> QED
  BY <1>1, <1>3, <1>4, Zenon DEF RegInv

\* Every operation of the registry, and a restart, preserves the invariant.
LEMMA RegInvStep == RegInv /\ [RegNext]_regVars => RegInv'
<1> SUFFICES ASSUME RegInv, [RegNext]_regVars PROVE RegInv'
  BY Zenon
<1> USE DEF RegInv, RegTypeOK
<1>1. ASSUME NEW w \in Workers, RegisterWorker(w) PROVE RegInv'
  <2>1. RegTypeOK'
    BY <1>1, Zenon DEF RegisterWorker, MuFree, WorkerStates, ChannelKey
  <2>2. StoreBacksMemory'
    BY <1>1, Zenon DEF RegisterWorker, MuFree, StoreBacksMemory, Registered, RegionInProgress
  <2>3. OnePairPerRegion'
    BY <1>1, Zenon DEF RegisterWorker, MuFree, OnePairPerRegion, RegionInProgress
  <2>4. PairsRegistered'
    BY <1>1 DEF RegisterWorker, MuFree, PairsRegistered, Registered, RegionInProgress
  <2>5. RegionInProgress'
    BY <1>1, Zenon DEF RegisterWorker, MuFree, RegionInProgress, Registered
  <2> QED
    BY <2>1, <2>2, <2>3, <2>4, <2>5, Zenon
<1>2. ASSUME NEW w \in Workers, UnregisterWorker(w) PROVE RegInv'
  <2>1. RegTypeOK'
    BY <1>2, Zenon DEF UnregisterWorker, MuFree, WorkerStates, ChannelKey
  <2>2. StoreBacksMemory'
    BY <1>2, Zenon DEF UnregisterWorker, MuFree, StoreBacksMemory, Registered, RegionInProgress
  <2>3. OnePairPerRegion'
    BY <1>2, Zenon DEF UnregisterWorker, MuFree, OnePairPerRegion, RegionInProgress
  <2>4. PairsRegistered'
    BY <1>2 DEF UnregisterWorker, MuFree, PairsRegistered, Registered, RegionInProgress
  <2>5. RegionInProgress'
    BY <1>2, Zenon DEF UnregisterWorker, MuFree, RegionInProgress, Registered
  <2> QED
    BY <2>1, <2>2, <2>3, <2>4, <2>5, Zenon
<1>3. CASE RegisterTEEPair
  <2>1. RegTypeOK'
    BY <1>3, Zenon DEF RegisterTEEPair, WorkerStates, ChannelKey
  <2>2. StoreBacksMemory'
    BY <1>3, ZenonT(30) DEF RegisterTEEPair, StoreBacksMemory, Registered, RegionInProgress
  <2>3. OnePairPerRegion'
    BY <1>3, Zenon DEF RegisterTEEPair, OnePairPerRegion, RegionInProgress
  <2>4. PairsRegistered'
    BY <1>3 DEF RegisterTEEPair, PairsRegistered, Registered, RegionInProgress
  <2>5. RegionInProgress'
    BY <1>3, Zenon DEF RegisterTEEPair, RegionInProgress, Registered
  <2> QED
    BY <2>1, <2>2, <2>3, <2>4, <2>5, Zenon
<1>4. ASSUME NEW w1 \in Workers, NEW w2 \in Workers, SendMessage(w1, w2) PROVE RegInv'
  <2>1. RegTypeOK'
    BY <1>4, Zenon DEF SendMessage, MuFree, WorkerStates, ChannelKey
  <2>2. StoreBacksMemory'
    BY <1>4, Zenon DEF SendMessage, MuFree, StoreBacksMemory, Registered, RegionInProgress
  <2>3. OnePairPerRegion'
    BY <1>4, Zenon DEF SendMessage, MuFree, OnePairPerRegion, RegionInProgress
  <2>4. PairsRegistered'
    BY <1>4 DEF SendMessage, MuFree, PairsRegistered, Registered, RegionInProgress
  <2>5. RegionInProgress'
    BY <1>4, Zenon DEF SendMessage, MuFree, RegionInProgress, Registered
  <2> QED
    BY <2>1, <2>2, <2>3, <2>4, <2>5, Zenon
<1>5. ASSUME NEW r \in Regions, NEW p \in Pair, RegisterRegion(r, p) PROVE RegInv'
  \* A region with no record has no pair in memory: a pair would be its record.
  <2>0. teePairs[r] = <<>>
    <3> SUFFICES ASSUME teePairs[r] # <<>> PROVE FALSE
      BY Zenon
    <3>1. 1 \in DOMAIN teePairs[r] /\ teePairs[r][1] \in Pair
      OBVIOUS
    <3>2. savedRegions[r] \in Pair
      BY <3>1, Zenon DEF StoreBacksMemory
    <3> QED
      BY <1>5, <3>2 DEF RegisterRegion, Pair
  <2>1. RegTypeOK'
    BY <1>5, Zenon DEF RegisterRegion
  <2>2. StoreBacksMemory'
    BY <1>5, <2>0 DEF RegisterRegion, StoreBacksMemory, Registered
  <2>3. OnePairPerRegion'
    BY <1>5, Zenon DEF RegisterRegion, OnePairPerRegion
  <2>4. PairsRegistered'
    BY <1>5 DEF RegisterRegion, PairsRegistered, Registered
  <2>5. RegionInProgress'
    BY <1>5, <2>0, Zenon DEF RegisterRegion, RegionInProgress, Registered
  <2> QED
    BY <2>1, <2>2, <2>3, <2>4, <2>5, Zenon
<1>6. CASE RegionChannel
  <2>0. ChannelKey(regPair[1], regPair[2]) \in SUBSET Workers
    BY <1>6, Zenon DEF RegionChannel, RegionInProgress, Pair, ChannelKey
  <2>1. RegTypeOK'
    BY <1>6, <2>0, Zenon DEF RegionChannel
  <2>2. StoreBacksMemory'
    BY <1>6, Zenon DEF RegionChannel, StoreBacksMemory, Registered, RegionInProgress
  <2>3. OnePairPerRegion'
    BY <1>6, Zenon DEF RegionChannel, OnePairPerRegion, RegionInProgress
  <2>4. PairsRegistered'
    BY <1>6 DEF RegionChannel, PairsRegistered, Registered, RegionInProgress
  <2>5. RegionInProgress'
    BY <1>6, Zenon DEF RegionChannel, RegionInProgress, Registered
  <2> QED
    BY <2>1, <2>2, <2>3, <2>4, <2>5, Zenon
<1>7. CASE RegionChannelFails
  <2>1. RegTypeOK'
    BY <1>7, Zenon DEF RegionChannelFails, WorkerStates, ChannelKey
  <2>2. StoreBacksMemory'
    BY <1>7, Zenon DEF RegionChannelFails, StoreBacksMemory, Registered, RegionInProgress
  <2>3. OnePairPerRegion'
    BY <1>7, Zenon DEF RegionChannelFails, OnePairPerRegion, RegionInProgress
  <2>4. PairsRegistered'
    BY <1>7 DEF RegionChannelFails, PairsRegistered, Registered, RegionInProgress
  <2>5. RegionInProgress'
    BY <1>7, Zenon DEF RegionChannelFails, RegionInProgress, Registered
  <2> QED
    BY <2>1, <2>2, <2>3, <2>4, <2>5, Zenon
<1>8. CASE RegionAppend
  <2>0. /\ regID \in Regions /\ regPair \in Pair
        /\ teePairs' \in [Regions -> Seq(Pair)]
    BY <1>8 DEF RegionAppend, RegionInProgress
  <2>1. RegTypeOK'
    <3>1. taskCount' \in [Regions -> Seq(Int)]
      BY <1>8, <2>0 DEF RegionAppend
    <3> QED
      BY <1>8, <2>0, <3>1, Zenon DEF RegionAppend
  <2>2. StoreBacksMemory'
    BY <1>8 DEF RegionAppend, StoreBacksMemory, Registered, RegionInProgress
  <2>3. OnePairPerRegion'
    BY <1>8 DEF RegionAppend, OnePairPerRegion, RegionInProgress
  <2>4. PairsRegistered'
    BY <1>8 DEF RegionAppend, PairsRegistered, Registered, RegionInProgress
  <2>5. RegionInProgress'
    BY <1>8, Zenon DEF RegionAppend, RegionInProgress, Registered
  <2> QED
    BY <2>1, <2>2, <2>3, <2>4, <2>5, Zenon
<1>9. CASE RegRestart
  <2>1. RegTypeOK'
    <3>1. workers' \in [Workers -> WorkerStates]
      BY <1>9, Zenon DEF RegRestart, NoWorkers, WorkerStates
    <3>2. teePairs' \in [Regions -> Seq(Pair)]
      BY <1>9 DEF RegRestart, NoPairs
    <3>3. taskCount' \in [Regions -> Seq(Int)]
      BY <1>9 DEF RegRestart, NoPairs
    <3> QED
      BY <1>9, <3>1, <3>2, <3>3, Zenon DEF RegRestart
  <2>2. StoreBacksMemory'
    BY <1>9 DEF RegRestart, NoWorkers, NoPairs, StoreBacksMemory, Registered, RegionInProgress
  <2>3. OnePairPerRegion'
    BY <1>9 DEF RegRestart, NoWorkers, NoPairs, OnePairPerRegion, RegionInProgress
  <2>4. PairsRegistered'
    BY <1>9 DEF RegRestart, NoWorkers, NoPairs, PairsRegistered, Registered, RegionInProgress
  <2>5. RegionInProgress'
    BY <1>9, Zenon DEF RegRestart, NoWorkers, NoPairs, RegionInProgress, Registered
  <2> QED
    BY <2>1, <2>2, <2>3, <2>4, <2>5, Zenon
<1>10. CASE UNCHANGED regVars
  <2>1. RegTypeOK'
    BY <1>10, Zenon DEF regVars, WorkerStates, ChannelKey
  <2>2. StoreBacksMemory'
    BY <1>10 DEF regVars, StoreBacksMemory, Registered, RegionInProgress
  <2>3. OnePairPerRegion'
    BY <1>10, Zenon DEF regVars, OnePairPerRegion, RegionInProgress
  <2>4. PairsRegistered'
    BY <1>10 DEF regVars, PairsRegistered, Registered, RegionInProgress
  <2>5. RegionInProgress'
    BY <1>10, Zenon DEF regVars, RegionInProgress, Registered
  <2> QED
    BY <2>1, <2>2, <2>3, <2>4, <2>5, Zenon
<1> QED
  BY <1>1, <1>2, <1>3, <1>4, <1>5, <1>6, <1>7, <1>8, <1>9, <1>10, Zenon DEF RegNext, RegStep

LEMMA RegistryInvariant == RegSpec => []RegInv
BY RegInvInit, RegInvStep, PTL DEF RegSpec

\* The coordinator's maps hold what their Go types allow, in every reachable
\* state and between the two writes of every operation.
THEOREM RegistryTyped == RegSpec => []RegTypeOK
<1>1. RegInv => RegTypeOK
  BY Zenon DEF RegInv
<1> QED
  BY RegistryInvariant, <1>1, PTL

\* RegisterWorker and RegisterRegion write ahead: what the coordinator has in
\* memory is in its storage, whichever operation has failed half-way.
THEOREM StoreBacks == RegSpec => []StoreBacksMemory
<1>1. RegInv => StoreBacksMemory
  BY Zenon DEF RegInv
<1> QED
  BY RegistryInvariant, <1>1, PTL

\* However many RegisterRegion calls overlap, a region has one pair in memory.
THEOREM OnePair == RegSpec => []OnePairPerRegion
<1>1. RegInv => OnePairPerRegion
  BY Zenon DEF RegInv
<1> QED
  BY RegistryInvariant, <1>1, PTL

\* A pair's workers stay registered for as long as the pair does.
THEOREM PairWorkersRegistered == RegSpec => []PairsRegistered
<1>1. RegInv => PairsRegistered
  BY Zenon DEF RegInv
<1> QED
  BY RegistryInvariant, <1>1, PTL

-----------------------------------------------------------------------------
(* The tasks, whether or not the health monitor runs *)

\* Where processTasks is, and what it holds there: a task outside its idle
\* states, a TEE pair exactly on the way from selectTEEPair to the decrement.
ProcessorState ==
    /\ cur = NoTask <=> proc \in {"off", "idle", "exited"}
    /\ proc = "select" => RegionOf[cur] \in Regions
    /\ proc = "release" => picked # 0
    /\ picked # 0 =>
         /\ proc \in {"gather", "distribute", "release"}
         /\ RegionOf[cur] \in Regions
         /\ picked \in DOMAIN teePairs[RegionOf[cur]]
    /\ gathered # {} => proc = "distribute" /\ gathered \subseteq DOMAIN workerIDs[cur]

\* Each pair has its counter.
CountersMatchPairs == \A r \in Regions : Len(taskCount[r]) = Len(teePairs[r])

\* The inductive invariant.
TaskInv ==
    /\ TaskTypeOK
    /\ RegInv
    /\ ProcessorState
    /\ CountersMatchPairs
    /\ RunningIsExecuting
    /\ PairLoad

\* The new coordinator satisfies it.
LEMMA TaskInvInit == Init => TaskInv
<1> SUFFICES ASSUME Init PROVE TaskInv
  BY Zenon
<1>1. RegInv
  BY RegInvInit, Zenon DEF Init
<1>2. TaskTypeOK
  <2> USE DEF Init, TaskInit
  <2>1. taskStatus \in [TaskIDs -> Statuses] /\ taskOf \in [TaskIDs -> Tasks \cup {NoTask}]
    BY Zenon DEF Statuses
  <2>2. results \in [TaskIDs -> Seq(Workers)]
    OBVIOUS
  <2>3. workerIDs \in [Tasks -> Seq(Workers)]
    BY CoordinatorAssumption, Zenon
  <2>4. tasks \in Seq(Tasks) /\ call \in [Tasks -> {"idle", "sending", "accepted"}]
    OBVIOUS
  <2>5. /\ life \in {"open", "closing", "closed"}
        /\ proc \in {"off", "idle", "received", "exited"} \cup Executing
        /\ cur \in Tasks \cup {NoTask}
    BY Zenon
  <2>6. picked \in Nat /\ gathered \in SUBSET Nat /\ failed \in BOOLEAN /\ cleaner \in BOOLEAN
    BY Zenon
  <2> QED
    BY <2>1, <2>2, <2>3, <2>4, <2>5, <2>6, Zenon DEF TaskTypeOK
<1>3. ProcessorState /\ RunningIsExecuting
  BY Zenon DEF Init, TaskInit, ProcessorState, RunningIsExecuting, Running
<1>4. \A r \in Regions : taskCount[r] = <<>> /\ teePairs[r] = <<>>
  BY Zenon DEF Init, RegInit, NoPairs
<1>5. CountersMatchPairs /\ PairLoad
  BY <1>4 DEF CountersMatchPairs, PairLoad
<1> QED
  BY <1>1, <1>2, <1>3, <1>5, Zenon DEF TaskInv

\* A non-empty sequence of at most one element.
LEMMA OneElement ==
  ASSUME NEW S, NEW s \in Seq(S), s # <<>>, Len(s) <= 1
  PROVE  Len(s) = 1 /\ DOMAIN s = {1} /\ s[1] \in S
<1>1. Len(s) \in Nat \ {0}
  BY EmptySeq, Zenon
<1>2. Len(s) = 1
  BY <1>1
<1> QED
  BY <1>2, LenProperties, ElementOfSeq

\* A region that has a TEE pair has one, so selectTEEPair picks the first.
LEMMA PickedIsFirst ==
  TaskInv /\ SelectTEEPair =>
    /\ RegionOf[cur] \in Regions
    /\ Len(teePairs[RegionOf[cur]]) = 1
    /\ Len(taskCount[RegionOf[cur]]) = 1
    /\ picked' = 1
    /\ teePairs[RegionOf[cur]][1] \in Pair
<1> SUFFICES ASSUME TaskInv, SelectTEEPair
             PROVE  /\ RegionOf[cur] \in Regions
                    /\ Len(teePairs[RegionOf[cur]]) = 1
                    /\ Len(taskCount[RegionOf[cur]]) = 1
                    /\ picked' = 1
                    /\ teePairs[RegionOf[cur]][1] \in Pair
  BY Zenon
<1> DEFINE r == RegionOf[cur]
           counts == taskCount[r]
<1>1. r \in Regions
  BY Zenon DEF TaskInv, ProcessorState, SelectTEEPair
<1>2. Len(teePairs[r]) = 1 /\ teePairs[r][1] \in Pair
  <2>1. teePairs[r] \in Seq(Pair)
    BY <1>1, Zenon DEF TaskInv, RegInv, RegTypeOK
  <2>2. Len(teePairs[r]) <= 1
    BY <1>1, Zenon DEF TaskInv, RegInv, OnePairPerRegion
  <2>3. teePairs[r] # <<>>
    BY Zenon DEF SelectTEEPair
  <2> QED
    BY <2>1, <2>2, <2>3, OneElement, Zenon
<1>3. Len(counts) = 1
  BY <1>1, <1>2, Zenon DEF TaskInv, CountersMatchPairs
<1>4. DOMAIN counts = {1} /\ counts[1] \in Int
  <2>1. counts \in Seq(Int)
    BY <1>1, Zenon DEF TaskInv, RegInv, RegTypeOK
  <2>2. counts # <<>>
    BY <1>3
  <2> QED
    BY <1>3, <2>1, <2>2, OneElement
<1>5. picked' = LeastLoaded(counts)
  BY Zenon DEF SelectTEEPair
<1>6. LeastLoaded(counts) = 1
  <2> HIDE DEF counts
  <2> QED
    BY <1>4 DEF LeastLoaded
<1> QED
  BY <1>1, <1>2, <1>3, <1>5, <1>6, Zenon

\* The task half's types.
LEMMA TaskTypeStep == TaskInv /\ [Next]_vars => TaskTypeOK'
<1> SUFFICES ASSUME TaskInv, [Next]_vars PROVE TaskTypeOK'
  BY Zenon
<1>0. ASSUME SelectTEEPair
      PROVE  /\ cur \in Tasks
             /\ picked' = 1
             /\ teePairs[RegionOf[cur]][picked'] \in Seq(Workers)
  <2>1. cur \in Tasks
    BY <1>0, Zenon DEF TaskInv, TaskTypeOK, ProcessorState, SelectTEEPair
  <2>2. picked' = 1 /\ teePairs[RegionOf[cur]][1] \in Pair
    BY <1>0, PickedIsFirst, Zenon
  <2>3. ASSUME NEW p \in Pair PROVE p \in Seq(Workers)
    <3>1. PICK a \in Workers, b \in Workers : p = <<a, b>>
      BY DEF Pair
    <3> QED
      BY <3>1
  <2> QED
    BY <2>1, <2>2, <2>3, Zenon
<1> USE CoordinatorAssumption DEF TaskInv, TaskTypeOK, Statuses, Finished, Executing, procVars,
        Pending, Running, Complete, Failed
<1>1. ASSUME NEW t \in Tasks, SubmitTask(t) PROVE TaskTypeOK'
  BY <1>1 DEF SubmitTask
<1>2. ASSUME NEW t \in Tasks, SubmitSend(t) PROVE TaskTypeOK'
  BY <1>2 DEF SubmitSend
<1>3. ASSUME NEW t \in Tasks, SubmitCancel(t) PROVE TaskTypeOK'
  BY <1>3 DEF SubmitCancel, RemoveEntry
<1>4. CASE Receive
  BY <1>4 DEF Receive
<1>5. CASE BeginTask
  BY <1>5, Zenon DEF BeginTask
<1>6. CASE SkipTask
  BY <1>6, Zenon DEF SkipTask
<1>7. CASE SelectTEEPair
  <2>1. workerIDs' \in [Tasks -> Seq(Workers)]
    BY <1>0, <1>7, Zenon DEF SelectTEEPair
  <2> QED
    BY <1>0, <1>7, <2>1 DEF SelectTEEPair
<1>8. CASE NoTEEPair
  BY <1>8, Zenon DEF NoTEEPair
<1>9. CASE GatherWorkers
  <2>1. cur \in Tasks /\ DOMAIN workerIDs[cur] \subseteq Nat
    BY <1>9 DEF GatherWorkers, ProcessorState
  <2> QED
    BY <1>9, <2>1, Zenon DEF GatherWorkers, AfterHandleTask
<1>10. CASE Distribute
  BY <1>10, Zenon DEF Distribute, AfterHandleTask
<1>11. CASE ReleasePair
  BY <1>11, Zenon DEF ReleasePair
<1>12. CASE FinishTask
  BY <1>12, Zenon DEF FinishTask
<1>13. CASE ProcessorExits
  BY <1>13, Zenon DEF ProcessorExits
<1>14. ASSUME NEW old \in SUBSET TaskIDs, CleanupTasks(old) PROVE TaskTypeOK'
  BY <1>14 DEF CleanupTasks
<1>15. ASSUME NEW id \in TaskIDs, NEW w \in Workers, SetTaskResult(id, w) PROVE TaskTypeOK'
  BY <1>15 DEF SetTaskResult
<1>16. ASSUME NEW silent \in SUBSET Workers, CheckWorkerHealth(silent) PROVE TaskTypeOK'
  BY <1>16, Zenon DEF CheckWorkerHealth
<1>17. CASE StopSweep
  BY <1>17, Zenon DEF StopSweep
<1>18. CASE Restart
  <2>1. results' \in [TaskIDs -> Seq(Workers)]
    BY <1>18 DEF Restart
  <2>2. tasks' \in Seq(Tasks)
    BY <1>18 DEF Restart
  <2> QED
    BY <1>18, <2>1, <2>2, Zenon DEF Restart
<1>19. CASE Start \/ CleanerExits \/ Stop \/ StopAgain \/ UNCHANGED taskVars
  BY <1>19, ZenonT(30) DEF Start, CleanerExits, Stop, StopAgain, taskVars
<1> QED
  BY <1>1, <1>2, <1>3, <1>4, <1>5, <1>6, <1>7, <1>8, <1>9, <1>10, <1>11, <1>12, <1>13, <1>14, <1>15,
     <1>16, <1>17, <1>18, <1>19, Zenon DEF Next, ProcessorStep, vars, SubmitTimeout

\* RegInv does not depend on the counters, on a worker's status beyond its
\* registration, or on up, and more saved channels do no harm.
LEMMA RegInvMonotone ==
  ASSUME RegInv, RegTypeOK',
         UNCHANGED <<teePairs, savedWorkers, savedRegions, regPc, regID, regPair>>,
         Registered' = Registered, savedChannels \subseteq savedChannels'
  PROVE  RegInv'
<1> USE DEF RegInv
<1>1. StoreBacksMemory'
  BY Zenon DEF StoreBacksMemory
<1>2. OnePairPerRegion' /\ PairsRegistered'
  BY Zenon DEF OnePairPerRegion, PairsRegistered
<1>3. RegionInProgress'
  BY Zenon DEF RegionInProgress
<1> QED
  BY <1>1, <1>2, <1>3, Zenon

\* The registry's invariant survives the task half: processTasks changes only
\* counters and saved channels, the monitor only worker statuses, Stop only up.
LEMMA RegInvKept == TaskInv /\ [Next]_vars => RegInv'
<1> SUFFICES ASSUME TaskInv, [Next]_vars PROVE RegInv'
  BY Zenon
<1>0. RegInv /\ RegTypeOK
  BY Zenon DEF TaskInv, RegInv
<1>1. CASE [RegNext]_regVars
  BY <1>0, <1>1, RegInvStep, Zenon
<1>2. CASE SelectTEEPair
  <2> DEFINE r == RegionOf[cur]
  <2>1. r \in Regions /\ picked' = 1 /\ Len(taskCount[r]) = 1
    BY <1>2, PickedIsFirst, Zenon
  <2>2. taskCount[r] \in Seq(Int)
    BY <1>0, <2>1, Zenon DEF RegTypeOK
  <2>3. [taskCount[r] EXCEPT ![1] = @ + 1] \in Seq(Int)
    <3>1. 1 \in 1..Len(taskCount[r])
      BY <2>1
    <3>2. taskCount[r][1] + 1 \in Int
      BY <2>2, <3>1, ElementOfSeq
    <3> QED
      BY <2>2, <3>1, <3>2, ExceptSeq
  <2>4. taskCount' = [taskCount EXCEPT ![r] = [taskCount[r] EXCEPT ![1] = @ + 1]]
    BY <1>2, <2>1, Zenon DEF SelectTEEPair
  <2>5. RegTypeOK'
    BY <1>0, <1>2, <2>1, <2>3, <2>4 DEF RegTypeOK, SelectTEEPair
  <2> QED
    BY <1>0, <1>2, <2>5, RegInvMonotone, Zenon DEF SelectTEEPair, Registered
<1>3. CASE ReleasePair
  <2> DEFINE r == RegionOf[cur]
  <2>1. r \in Regions /\ picked \in DOMAIN teePairs[r]
    BY <1>3, Zenon DEF TaskInv, ProcessorState, ReleasePair
  <2>2. taskCount[r] \in Seq(Int) /\ teePairs[r] \in Seq(Pair)
    BY <1>0, <2>1, Zenon DEF RegTypeOK
  <2>3. picked \in 1..Len(taskCount[r])
    BY <2>1, <2>2, LenProperties, Zenon DEF TaskInv, CountersMatchPairs
  <2>4. [taskCount[r] EXCEPT ![picked] = @ - 1] \in Seq(Int)
    <3>1. taskCount[r][picked] - 1 \in Int
      BY <2>2, <2>3, ElementOfSeq
    <3> QED
      BY <2>2, <2>3, <3>1, ExceptSeq
  <2>5. taskCount' = [taskCount EXCEPT ![r] = [taskCount[r] EXCEPT ![picked] = @ - 1]]
    BY <1>3, Zenon DEF ReleasePair
  <2>6. RegTypeOK'
    BY <1>0, <1>3, <2>1, <2>4, <2>5, Zenon DEF RegTypeOK, ReleasePair
  <2> QED
    BY <1>0, <1>3, <2>6, RegInvMonotone, Zenon DEF ReleasePair, Registered
<1>4. CASE Distribute
  <2>1. cur \in Tasks /\ gathered \subseteq DOMAIN workerIDs[cur]
    BY <1>4, Zenon DEF TaskInv, TaskTypeOK, ProcessorState, Distribute
  <2>2. \A i \in gathered : workerIDs[cur][i] \in Workers
    <3>1. workerIDs[cur] \in Seq(Workers)
      BY <2>1, Zenon DEF TaskInv, TaskTypeOK
    <3> QED
      BY <2>1, <3>1, LenProperties, ElementOfSeq, Zenon
  <2>3. WorkerChannels \subseteq SUBSET Workers
    BY <2>2, Zenon DEF WorkerChannels, ChannelKey
  <2>4. savedChannels \subseteq savedChannels' /\ savedChannels' \subseteq SUBSET Workers
    BY <1>0, <1>4, <2>3, Zenon DEF RegTypeOK, Distribute
  <2>5. RegTypeOK'
    BY <1>0, <1>4, <2>4, Zenon DEF RegTypeOK, Distribute
  <2> QED
    BY <1>0, <1>4, <2>4, <2>5, RegInvMonotone, Zenon DEF Distribute, Registered
<1>5. ASSUME NEW silent \in SUBSET Workers, CheckWorkerHealth(silent) PROVE RegInv'
  <2>1. workers' \in [Workers -> WorkerStates] /\ Registered' = Registered
    BY <1>0, <1>5, Zenon DEF RegTypeOK, CheckWorkerHealth, Registered, WorkerStates
  <2>2. RegTypeOK'
    BY <1>0, <1>5, <2>1, Zenon DEF RegTypeOK, CheckWorkerHealth
  <2> QED
    BY <1>0, <1>5, <2>1, <2>2, RegInvMonotone, Zenon DEF CheckWorkerHealth
<1>6. CASE StopSweep \/ StopAgain
  <2>1. workers' \in [Workers -> WorkerStates] /\ Registered' = Registered
    BY <1>0, <1>6, Zenon DEF RegTypeOK, StopSweep, StopAgain, Registered, WorkerStates
  <2>2. RegTypeOK'
    BY <1>0, <1>6, <2>1, Zenon DEF RegTypeOK, StopSweep, StopAgain
  <2> QED
    BY <1>0, <1>6, <2>1, <2>2, RegInvMonotone, Zenon DEF StopSweep, StopAgain
<1> QED
  BY <1>1, <1>2, <1>3, <1>4, <1>5, <1>6, Zenon
     DEF Next, ProcessorStep, vars, RegNext, Restart, Start, SubmitTask, SubmitSend,
         SubmitCancel, SubmitTimeout, Receive, BeginTask, SkipTask, NoTEEPair,
         GatherWorkers, FinishTask, ProcessorExits, CleanupTasks, CleanerExits,
         SetTaskResult, Stop

\* Each pair keeps its counter: RegionAppend adds to both sequences, and the
\* increment and the decrement leave their lengths alone.
LEMMA CountersStep == TaskInv /\ [Next]_vars => CountersMatchPairs'
<1> SUFFICES ASSUME TaskInv, [Next]_vars PROVE CountersMatchPairs'
  BY Zenon
<1>0. \A r \in Regions : /\ taskCount[r] \in Seq(Int) /\ teePairs[r] \in Seq(Pair)
                         /\ Len(taskCount[r]) = Len(teePairs[r])
  BY Zenon DEF TaskInv, RegInv, RegTypeOK, CountersMatchPairs
<1>1. CASE RegionAppend
  <2>1. regPair \in Pair
    BY <1>1, Zenon DEF TaskInv, RegInv, RegionInProgress, RegionAppend
  <2>2. ASSUME NEW r \in Regions PROVE Len(taskCount'[r]) = Len(teePairs'[r])
    <3>1. CASE r = regID
      <4>1. taskCount'[r] = Append(taskCount[r], 0) /\ teePairs'[r] = Append(teePairs[r], regPair)
        BY <1>1, <2>2, <3>1, Zenon DEF RegionAppend, TaskInv, RegInv, RegTypeOK
      <4> HIDE DEF Pair
      <4> QED
        BY <1>0, <2>1, <2>2, <4>1, AppendProperties
    <3>2. CASE r # regID
      <4>1. taskCount'[r] = taskCount[r] /\ teePairs'[r] = teePairs[r]
        BY <1>1, <2>2, <3>2, Zenon DEF RegionAppend, TaskInv, RegInv, RegTypeOK
      <4> QED
        BY <1>0, <4>1, Zenon
    <3> QED
      BY <3>1, <3>2, Zenon
  <2> QED
    BY <2>2, Zenon DEF CountersMatchPairs
<1>2. CASE SelectTEEPair \/ ReleasePair
  <2>1. \A r \in Regions : taskCount[r] \in Seq(Int)
    BY <1>0, Zenon
  <2>2. PICK i, d : taskCount' = [taskCount EXCEPT ![RegionOf[cur]] =
                                   [taskCount[RegionOf[cur]] EXCEPT ![i] = d]]
    BY <1>2, Zenon DEF SelectTEEPair, ReleasePair
  <2>3. teePairs' = teePairs
    BY <1>2, Zenon DEF SelectTEEPair, ReleasePair
  <2>4. ASSUME NEW r \in Regions PROVE Len(taskCount'[r]) = Len(taskCount[r])
    <3>1. taskCount'[r] = taskCount[r] \/ taskCount'[r] = [taskCount[r] EXCEPT ![i] = d]
      BY <2>2, Zenon DEF TaskInv, RegInv, RegTypeOK
    <3>2. taskCount'[r] \in Seq(Int)
      BY RegInvKept, Zenon DEF RegInv, RegTypeOK
    <3>3. DOMAIN taskCount'[r] = DOMAIN taskCount[r]
      BY <3>1, Zenon
    <3> QED
      BY <2>1, <3>2, <3>3, LenProperties
  <2> QED
    BY <1>0, <2>3, <2>4, Zenon DEF CountersMatchPairs
<1>3. CASE Restart
  BY <1>3, Zenon DEF Restart, RegRestart, NoPairs, CountersMatchPairs
<1>4. CASE UNCHANGED <<taskCount, teePairs>>
  BY <1>4, Zenon DEF TaskInv, CountersMatchPairs
<1> QED
  BY <1>1, <1>2, <1>3, <1>4, Zenon
     DEF Next, RegStep, ProcessorStep, vars, regVars, Start, SubmitTask, SubmitSend, SubmitCancel,
         SubmitTimeout, Receive, BeginTask, SkipTask, NoTEEPair, GatherWorkers, Distribute,
         FinishTask, ProcessorExits, CleanupTasks, CleanerExits, SetTaskResult,
         CheckWorkerHealth, Stop, StopSweep, StopAgain, RegisterWorker, UnregisterWorker,
         RegisterTEEPair, SendMessage, RegisterRegion, RegionChannel, RegionChannelFails

\* processTasks walks its states in order, and nobody else moves it; the pair it
\* holds stays in c.teePairs, which only grows while the process lives.
LEMMA ProcessorStateStep == TaskInv /\ [Next]_vars => ProcessorState'
<1> SUFFICES ASSUME TaskInv, [Next]_vars PROVE ProcessorState'
  BY Zenon
<1>0. NoTask \notin Tasks /\ RegionOf \in [Tasks -> Regions \cup {"none"}]
  BY CoordinatorAssumption, Zenon
<1> USE DEF ProcessorState
<1>1. ProcessorState /\ cur \in Tasks \cup {NoTask}
  BY Zenon DEF TaskInv, TaskTypeOK
<1>2. CASE Receive
  <2>1. cur' \in Tasks
    BY <1>2, HeadTailProperties, Zenon DEF Receive, TaskInv, TaskTypeOK
  <2> QED
    BY <1>0, <1>1, <1>2, <2>1, Zenon DEF Receive
<1>3. CASE BeginTask
  <2>1. cur \in Tasks /\ picked = 0 /\ gathered = {}
    BY <1>1, <1>3, Zenon DEF BeginTask
  <2> QED
    BY <1>0, <1>1, <1>3, <2>1, Zenon DEF BeginTask
<1>4. CASE SkipTask
  BY <1>1, <1>4, Zenon DEF SkipTask
<1>5. CASE SelectTEEPair
  <2>1. picked' = 1 /\ RegionOf[cur] \in Regions /\ Len(teePairs[RegionOf[cur]]) = 1
    BY <1>5, PickedIsFirst, Zenon
  <2>2. teePairs[RegionOf[cur]] \in Seq(Pair)
    BY <2>1, Zenon DEF TaskInv, RegInv, RegTypeOK
  <2>3. picked' \in DOMAIN teePairs'[RegionOf[cur]]
    BY <1>5, <2>1, <2>2, LenProperties DEF SelectTEEPair
  <2>4. gathered' = {}
    BY <1>1, <1>5, Zenon DEF SelectTEEPair
  <2> QED
    BY <1>1, <1>5, <2>1, <2>3, <2>4, Zenon DEF SelectTEEPair
<1>6. CASE NoTEEPair
  BY <1>1, <1>6, Zenon DEF NoTEEPair
<1>7. CASE GatherWorkers
  <2>1. gathered' = {} \/ (proc' = "distribute" /\ gathered' \subseteq DOMAIN workerIDs'[cur'])
    BY <1>1, <1>7, Zenon DEF GatherWorkers
  <2> QED
    BY <1>1, <1>7, <2>1, Zenon DEF GatherWorkers, AfterHandleTask, regVars
<1>8. CASE Distribute
  BY <1>1, <1>8, Zenon DEF Distribute, AfterHandleTask
<1>9. CASE ReleasePair
  BY <1>1, <1>9, Zenon DEF ReleasePair
<1>10. CASE FinishTask
  BY <1>1, <1>10, Zenon DEF FinishTask
<1>11. CASE ProcessorExits
  BY <1>1, <1>11, Zenon DEF ProcessorExits, regVars
<1>12. CASE Start
  BY <1>1, <1>12, Zenon DEF Start, regVars
<1>13. CASE Restart
  BY <1>13, Zenon DEF Restart
<1>14. CASE RegionAppend /\ UNCHANGED taskVars
  <2>1. ASSUME NEW r \in Regions PROVE DOMAIN teePairs[r] \subseteq DOMAIN teePairs'[r]
    <3>1. teePairs[r] \in Seq(Pair) /\ regPair \in Pair
      BY <1>14, Zenon DEF TaskInv, RegInv, RegTypeOK, RegionInProgress, RegionAppend
    <3>2. teePairs'[r] = teePairs[r] \/ teePairs'[r] = Append(teePairs[r], regPair)
      BY <1>14, Zenon DEF TaskInv, RegInv, RegTypeOK, RegionAppend
    <3> QED
      BY <3>1, <3>2, AppendProperties, LenProperties
  <2> QED
    BY <1>1, <1>14, <2>1, Zenon DEF taskVars
<1>15. CASE UNCHANGED <<procVars, workerIDs, teePairs>>
  BY <1>1, <1>15, Zenon DEF procVars
<1> QED
  BY <1>2, <1>3, <1>4, <1>5, <1>6, <1>7, <1>8, <1>9, <1>10, <1>11, <1>12, <1>13, <1>14, <1>15, Zenon
     DEF Next, RegStep, ProcessorStep, vars, regVars, taskVars, procVars, SubmitTask, SubmitSend,
         SubmitCancel, SubmitTimeout, CleanupTasks, CleanerExits, SetTaskResult,
         CheckWorkerHealth, Stop, StopSweep, StopAgain, RegisterWorker, UnregisterWorker,
         RegisterTEEPair, SendMessage, RegisterRegion, RegionChannel, RegionChannelFails

\* Only BeginTask makes an entry Running, and FinishTask ends the entry of the
\* task that was executed whatever happened to it meanwhile.
LEMMA RunningStep == TaskInv /\ [Next]_vars => RunningIsExecuting'
<1> SUFFICES ASSUME TaskInv, [Next]_vars, NEW id \in TaskIDs, taskStatus'[id] = Running
             PROVE  proc' \in Executing /\ IDOf[cur'] = id
  BY Zenon DEF RunningIsExecuting
<1>0. /\ taskStatus \in [TaskIDs -> Statuses]
      /\ taskStatus[id] = Running => proc \in Executing /\ IDOf[cur] = id
  BY Zenon DEF TaskInv, TaskTypeOK, RunningIsExecuting
<1> USE DEF Executing, Pending, Running, Complete, Failed, Finished
<1>1. CASE BeginTask
  BY <1>0, <1>1, Zenon DEF BeginTask
<1>2. CASE Receive \/ SkipTask \/ ProcessorExits \/ Start
  BY <1>0, <1>2, Zenon DEF Receive, SkipTask, ProcessorExits, Start
<1>3. CASE SelectTEEPair \/ NoTEEPair \/ GatherWorkers \/ Distribute \/ ReleasePair
  BY <1>0, <1>3, Zenon
     DEF SelectTEEPair, NoTEEPair, GatherWorkers, Distribute, ReleasePair, AfterHandleTask
<1>4. CASE FinishTask
  BY <1>0, <1>4, Zenon DEF FinishTask
<1>5. CASE Restart
  BY <1>5, Zenon DEF Restart
<1>6. CASE /\ taskStatus'[id] = Running => taskStatus[id] = Running
           /\ UNCHANGED procVars
  BY <1>0, <1>6, Zenon DEF procVars
<1>7. ASSUME NEW t \in Tasks, SubmitTask(t) \/ SubmitSend(t) \/ SubmitCancel(t)
      PROVE  (taskStatus'[id] = Running => taskStatus[id] = Running) /\ UNCHANGED procVars
  BY <1>0, <1>7, Zenon DEF SubmitTask, SubmitSend, SubmitCancel, RemoveEntry
<1>8. ASSUME NEW i \in TaskIDs, NEW w \in Workers, SetTaskResult(i, w)
      PROVE  (taskStatus'[id] = Running => taskStatus[id] = Running) /\ UNCHANGED procVars
  BY <1>0, <1>8, Zenon DEF SetTaskResult
<1>9. ASSUME NEW old \in SUBSET TaskIDs, CleanupTasks(old)
      PROVE  (taskStatus'[id] = Running => taskStatus[id] = Running) /\ UNCHANGED procVars
  BY <1>0, <1>9, Zenon DEF CleanupTasks
<1>10. ASSUME NEW silent \in SUBSET Workers, CheckWorkerHealth(silent)
       PROVE  (taskStatus'[id] = Running => taskStatus[id] = Running) /\ UNCHANGED procVars
  BY <1>0, <1>10, Zenon DEF CheckWorkerHealth
<1>11. ASSUME CleanerExits \/ Stop \/ StopSweep \/ StopAgain \/ UNCHANGED taskVars
       PROVE  (taskStatus'[id] = Running => taskStatus[id] = Running) /\ UNCHANGED procVars
  BY <1>0, <1>11, Zenon DEF CleanerExits, Stop, StopSweep, StopAgain, taskVars, procVars
<1> QED
  BY <1>1, <1>2, <1>3, <1>4, <1>5, <1>6, <1>7, <1>8, <1>9, <1>10, <1>11, Zenon
     DEF Next, ProcessorStep, vars, SubmitTimeout

\* The counter of a pair follows the processor's hold on it: RegionAppend starts
\* at 0, selectTEEPair adds 1, the decrement takes it back, and the task cannot
\* be left behind in between.
LEMMA PairLoadStep == TaskInv /\ [Next]_vars => PairLoad'
<1> SUFFICES ASSUME TaskInv, [Next]_vars, NEW r \in Regions, NEW i \in DOMAIN taskCount'[r]
             PROVE  taskCount'[r][i] =
                      IF picked' = i /\ cur' # NoTask /\ RegionOf[cur'] = r THEN 1 ELSE 0
  BY Zenon DEF PairLoad
<1>0. /\ taskCount[r] \in Seq(Int) /\ taskCount \in [Regions -> Seq(Int)]
      /\ taskCount'[r] \in Seq(Int)
      /\ Len(taskCount[r]) = Len(teePairs[r])
  BY RegInvKept, Zenon DEF TaskInv, RegInv, RegTypeOK, CountersMatchPairs
<1>1. i \in DOMAIN taskCount[r] =>
        taskCount[r][i] = IF picked = i /\ cur # NoTask /\ RegionOf[cur] = r THEN 1 ELSE 0
  BY Zenon DEF TaskInv, PairLoad
<1>2. i \in Nat \ {0}
  BY <1>0, LenProperties
<1>3. ProcessorState
  BY Zenon DEF TaskInv
<1>4. CASE RegionAppend /\ UNCHANGED taskVars
  <2>1. CASE r = regID
    <3>1. teePairs[r] = <<>>
      BY <1>4, <2>1, Zenon DEF TaskInv, RegInv, RegionInProgress, RegionAppend
    <3>2. taskCount[r] = <<>>
      BY <1>0, <3>1, EmptySeq, Zenon
    <3>3. taskCount'[r] = <<0>>
      BY <1>0, <1>4, <2>1, <3>2 DEF RegionAppend
    <3>4. picked # 0 => RegionOf[cur] # r
      BY <1>3, <3>1 DEF ProcessorState
    <3> QED
      BY <1>2, <1>4, <3>3, <3>4 DEF taskVars
  <2>2. CASE r # regID
    BY <1>0, <1>1, <1>4, <2>2, Zenon DEF RegionAppend, taskVars
  <2> QED
    BY <2>1, <2>2, Zenon
<1>5. CASE SelectTEEPair
  <2>1. picked = 0 /\ cur # NoTask
    BY <1>3, <1>5, Zenon DEF ProcessorState, SelectTEEPair
  <2>2. taskCount' = [taskCount EXCEPT ![RegionOf[cur]] =
                        [taskCount[RegionOf[cur]] EXCEPT ![picked'] = @ + 1]]
    BY <1>5, Zenon DEF SelectTEEPair
  <2>3. cur' = cur
    BY <1>5, Zenon DEF SelectTEEPair
  <2>4. CASE RegionOf[cur] # r
    BY <1>0, <1>1, <2>1, <2>2, <2>3, <2>4, Zenon
  <2>5. CASE RegionOf[cur] = r
    <3>1. taskCount'[r] = [taskCount[r] EXCEPT ![picked'] = @ + 1]
      BY <1>0, <2>2, <2>5, Zenon
    <3>2. i \in DOMAIN taskCount[r] /\ taskCount[r][i] = 0
      BY <1>1, <1>2, <2>1, <3>1, Zenon
    <3> QED
      BY <2>1, <2>3, <2>5, <3>1, <3>2
  <2> QED
    BY <2>4, <2>5, Zenon
<1>6. CASE ReleasePair
  <2>1. picked # 0 /\ cur # NoTask
    BY <1>3, <1>6, Zenon DEF ProcessorState, ReleasePair
  <2>2. taskCount' = [taskCount EXCEPT ![RegionOf[cur]] =
                        [taskCount[RegionOf[cur]] EXCEPT ![picked] = @ - 1]]
    BY <1>6, Zenon DEF ReleasePair
  <2>3. cur' = cur /\ picked' = 0
    BY <1>6, Zenon DEF ReleasePair
  <2>4. CASE RegionOf[cur] # r
    BY <1>0, <1>1, <1>2, <2>2, <2>3, <2>4, Zenon
  <2>5. CASE RegionOf[cur] = r
    <3>1. taskCount'[r] = [taskCount[r] EXCEPT ![picked] = @ - 1]
      BY <1>0, <2>2, <2>5, Zenon
    <3>2. i \in DOMAIN taskCount[r] /\ taskCount[r][i] = IF picked = i THEN 1 ELSE 0
      BY <1>1, <2>1, <2>5, <3>1, Zenon
    <3> QED
      BY <1>2, <2>3, <3>1, <3>2
  <2> QED
    BY <2>4, <2>5, Zenon
<1>7. CASE Receive \/ SkipTask \/ FinishTask
  <2>1. picked = 0 /\ picked' = 0
    BY <1>3, <1>7, Zenon DEF ProcessorState, Receive, SkipTask, FinishTask
  <2>2. taskCount' = taskCount
    BY <1>7, Zenon DEF Receive, SkipTask, FinishTask, regVars
  <2> QED
    BY <1>1, <1>2, <2>1, <2>2, Zenon
<1>8. CASE Restart
  BY <1>8 DEF Restart, RegRestart, NoPairs
<1>9. CASE UNCHANGED <<taskCount, picked, cur>>
  BY <1>1, <1>9, Zenon
<1> QED
  BY <1>4, <1>5, <1>6, <1>7, <1>8, <1>9, Zenon
     DEF Next, RegStep, ProcessorStep, vars, regVars, taskVars, procVars, Start, SubmitTask,
         SubmitSend, SubmitCancel, SubmitTimeout, BeginTask, NoTEEPair, GatherWorkers, Distribute,
         ProcessorExits, CleanupTasks, CleanerExits, SetTaskResult, CheckWorkerHealth, Stop,
         StopSweep, StopAgain, RegisterWorker, UnregisterWorker, RegisterTEEPair, SendMessage,
         RegisterRegion, RegionChannel, RegionChannelFails

LEMMA CoordinatorInvariant == Spec => []TaskInv
<1>1. TaskInv /\ [Next]_vars => TaskInv'
  BY TaskTypeStep, RegInvKept, ProcessorStateStep, CountersStep, RunningStep, PairLoadStep, Zenon
     DEF TaskInv
<1> QED
  BY TaskInvInit, <1>1, PTL DEF Spec

\* The coordinator's maps, queue and counters are well typed under every
\* interleaving of its callers, its processor and its cleaner.
THEOREM CoordinatorTyped == Spec => []TypeOK
<1>1. TaskInv => TypeOK
  BY Zenon DEF TaskInv, RegInv, TypeOK
<1> QED
  BY CoordinatorInvariant, <1>1, PTL

\* An entry is Running only while processTasks executes its task: whatever
\* SubmitTask overwrites and the cleaner removes, none is left behind Running.
THEOREM RunningExecutes == Spec => []RunningIsExecuting
<1>1. TaskInv => RunningIsExecuting
  BY Zenon DEF TaskInv
<1> QED
  BY CoordinatorInvariant, <1>1, PTL

\* A TEE pair's TaskCount is exactly the number of tasks that use the pair, on
\* every path through processTasks, the failing ones included.
THEOREM PairLoadExact == Spec => []PairLoad
<1>1. TaskInv => PairLoad
  BY Zenon DEF TaskInv
<1> QED
  BY CoordinatorInvariant, <1>1, PTL

-----------------------------------------------------------------------------
(* Tasks with distinct IDs: a task keeps its own Pending entry from its admission to its start, the
   entries leave room in the channel, and a finished task is never run again *)

\* A task that was sent, and has not been received and finished, is in the
\* channel once or is the current one, and its call has returned.
QueueInv ==
    /\ \A i \in DOMAIN tasks : tasks[i] # cur /\ call[tasks[i]] = "accepted"
    /\ \A i, j \in DOMAIN tasks : tasks[i] = tasks[j] => i = j
    /\ cur # NoTask => call[cur] = "accepted"

\* An entry belongs to the task of its ID, which was submitted and not cancelled.
EntriesOwned ==
    \A id \in Entries :
        taskOf[id] \in Tasks /\ IDOf[taskOf[id]] = id /\ call[taskOf[id]] # "idle"

EntriesBounded == Cardinality(Entries) <= MaxTasks

OrderInv == TaskInv /\ QueueInv /\ EntriesOwned /\ EntriesBounded /\ WaitingIsPending

\* The part of the types that matters here.
LEMMA OrderTypes ==
  ASSUME TaskTypeOK
  PROVE  /\ tasks \in Seq(Tasks) /\ Len(tasks) \in Nat /\ DOMAIN tasks = 1..Len(tasks)
         /\ \A i \in DOMAIN tasks : tasks[i] \in Tasks
         /\ taskStatus \in [TaskIDs -> Statuses]
         /\ taskOf \in [TaskIDs -> Tasks \cup {NoTask}]
         /\ call \in [Tasks -> {"idle", "sending", "accepted"}]
         /\ cur \in Tasks \cup {NoTask}
         /\ IDOf \in [Tasks -> TaskIDs] /\ NoTask \notin Tasks
         /\ IsFiniteSet(TaskIDs) /\ MaxTasks \in Nat
<1>1. tasks \in Seq(Tasks)
  BY Zenon DEF TaskTypeOK
<1>2. Len(tasks) \in Nat /\ DOMAIN tasks = 1..Len(tasks) /\ \A i \in DOMAIN tasks : tasks[i] \in Tasks
  BY <1>1, LenProperties, ElementOfSeq, Zenon
<1> QED
  BY <1>1, <1>2, CoordinatorAssumption, Zenon DEF TaskTypeOK

LEMMA OrderInvInit == Init => OrderInv
<1> SUFFICES ASSUME Init PROVE OrderInv
  BY Zenon
<1>1. TaskInv
  BY TaskInvInit, Zenon
<1>2. /\ tasks = <<>> /\ cur = NoTask /\ proc = "off"
      /\ \A t \in Tasks : call[t] = "idle"
      /\ \A id \in TaskIDs : taskStatus[id] = "none"
  BY Zenon DEF Init, TaskInit
<1>3. Entries = {} /\ DOMAIN tasks = {}
  BY <1>2 DEF Entries
<1>4. QueueInv /\ EntriesOwned
  BY <1>2, <1>3, Zenon DEF QueueInv, EntriesOwned
<1>5. EntriesBounded
  BY <1>3, FS_EmptySet, CoordinatorAssumption DEF EntriesBounded
<1>6. WaitingIsPending
  BY <1>2, <1>3, Zenon DEF WaitingIsPending, Waiting, Range
<1> QED
  BY <1>1, <1>4, <1>5, <1>6, Zenon DEF OrderInv

-----------------------------------------------------------------------------
\* The steps that touch the channel, the current task or the calls.
LEMMA QueueStep == OrderInv /\ [Next]_vars => QueueInv'
<1> SUFFICES ASSUME OrderInv, [Next]_vars PROVE QueueInv'
  BY Zenon
<1>0. /\ tasks \in Seq(Tasks) /\ Len(tasks) \in Nat /\ DOMAIN tasks = 1..Len(tasks)
      /\ \A i \in DOMAIN tasks : tasks[i] \in Tasks
      /\ call \in [Tasks -> {"idle", "sending", "accepted"}]
      /\ cur \in Tasks \cup {NoTask} /\ NoTask \notin Tasks
  BY OrderTypes, Zenon DEF OrderInv, TaskInv
<1>1. QueueInv
  BY Zenon DEF OrderInv
<1>2. ASSUME NEW t \in Tasks, SubmitTask(t) PROVE QueueInv'
  <2>1. call[t] = "idle" /\ UNCHANGED <<tasks, cur>> /\ call' = [call EXCEPT ![t] = "sending"]
    BY <1>2, Zenon DEF SubmitTask, procVars
  <2> QED
    BY <1>0, <1>1, <2>1, Zenon DEF QueueInv
<1>3. ASSUME NEW t \in Tasks, SubmitCancel(t) \/ SubmitTimeout(t) PROVE QueueInv'
  <2>1. call[t] = "sending" /\ UNCHANGED <<tasks, cur>> /\ call' = [call EXCEPT ![t] = "idle"]
    BY <1>3, Zenon DEF SubmitCancel, SubmitTimeout, procVars
  <2> QED
    BY <1>0, <1>1, <2>1, Zenon DEF QueueInv
<1>4. ASSUME NEW t \in Tasks, SubmitSend(t) PROVE QueueInv'
  <2>1. /\ call[t] = "sending" /\ cur' = cur /\ tasks' = Append(tasks, t)
        /\ call' = [call EXCEPT ![t] = "accepted"]
    BY <1>4, Zenon DEF SubmitSend, procVars
  <2>2. /\ tasks' \in Seq(Tasks) /\ Len(tasks') = Len(tasks) + 1
        /\ \A i \in 1..Len(tasks) : tasks'[i] = tasks[i]
        /\ tasks'[Len(tasks) + 1] = t
    BY <1>0, <2>1, AppendProperties
  <2>3. DOMAIN tasks' = 1..(Len(tasks) + 1)
    BY <2>2, LenProperties, Zenon
  <2>4. \A i \in DOMAIN tasks' : i \in DOMAIN tasks \/ i = Len(tasks) + 1
    BY <1>0, <2>3
  <2>5. \A i \in DOMAIN tasks : tasks[i] # t
    BY <1>1, <2>1, Zenon DEF QueueInv
  <2>6. cur # t
    BY <1>0, <1>1, <2>1, Zenon DEF QueueInv
  <2>7. \A i, j \in DOMAIN tasks' : tasks'[i] = tasks'[j] => i = j
    BY <1>0, <1>1, <2>2, <2>4, <2>5, Zenon DEF QueueInv
  <2>8. \A i \in DOMAIN tasks' : tasks'[i] # cur' /\ call'[tasks'[i]] = "accepted"
    BY <1>0, <1>1, <2>1, <2>2, <2>4, <2>6 DEF QueueInv
  <2>9. cur' # NoTask => call'[cur'] = "accepted"
    BY <1>0, <1>1, <2>1, Zenon DEF QueueInv
  <2> QED
    BY <2>7, <2>8, <2>9, Zenon DEF QueueInv
<1>5. CASE Receive
  <2>1. tasks # <<>> /\ cur' = Head(tasks) /\ tasks' = Tail(tasks) /\ call' = call
    BY <1>5, Zenon DEF Receive
  <2>2. /\ cur' = tasks[1] /\ Len(tasks') = Len(tasks) - 1 /\ 1 \in DOMAIN tasks
        /\ tasks' \in Seq(Tasks)
        /\ \A i \in 1..Len(tasks') : tasks'[i] = tasks[i + 1]
    BY <1>0, <2>1, HeadTailProperties, EmptySeq
  <2>3. DOMAIN tasks' = 1..(Len(tasks) - 1)
    BY <2>2, LenProperties, Zenon
  <2>4. \A i \in DOMAIN tasks' : i + 1 \in DOMAIN tasks /\ i + 1 # 1 /\ tasks'[i] = tasks[i + 1]
    BY <1>0, <2>2, <2>3
  <2>5. \A i, j \in DOMAIN tasks' : i + 1 = j + 1 => i = j
    BY <2>3
  <2> QED
    BY <1>0, <1>1, <2>1, <2>2, <2>4, <2>5 DEF QueueInv
<1>6. CASE SkipTask \/ FinishTask
  <2>1. cur' = NoTask /\ UNCHANGED <<tasks, call>>
    BY <1>6, Zenon DEF SkipTask, FinishTask
  <2> QED
    BY <1>0, <1>1, <2>1, Zenon DEF QueueInv
<1>7. CASE Restart
  <2>1. tasks' = <<>> /\ cur' = NoTask
    BY <1>7, Zenon DEF Restart
  <2> QED
    BY <2>1 DEF QueueInv
<1>8. CASE UNCHANGED <<tasks, cur, call>>
  BY <1>1, <1>8, Zenon DEF QueueInv
<1> QED
  BY <1>2, <1>3, <1>4, <1>5, <1>6, <1>7, <1>8, Zenon
     DEF Next, ProcessorStep, vars, taskVars, procVars, Start, BeginTask, SelectTEEPair, NoTEEPair,
      GatherWorkers, Distribute, ReleasePair, ProcessorExits, CleanupTasks, CleanerExits,
      SetTaskResult, CheckWorkerHealth, Stop, StopSweep, StopAgain

-----------------------------------------------------------------------------
\* What a step can do to an entry: nothing, submit it, remove it, or take it on.
Cancelled(t) == SubmitCancel(t) \/ SubmitTimeout(t)

LEMMA EntryChange ==
  ASSUME OrderInv, [Next]_vars, ~HealthMonitor, NEW id \in TaskIDs
  PROVE  \/ taskStatus'[id] = taskStatus[id] /\ taskOf'[id] = taskOf[id]
         \/ /\ taskStatus'[id] = Pending
            /\ \E t \in Tasks : SubmitTask(t) /\ IDOf[t] = id /\ taskOf'[id] = t
         \/ /\ taskStatus'[id] = "none"
            /\ \/ \E t \in Tasks : Cancelled(t) /\ IDOf[t] = id
               \/ taskStatus[id] \in Finished
               \/ Restart
         \/ /\ taskStatus[id] # "none" /\ taskOf'[id] = taskOf[id]
            /\ \/ taskStatus[id] = Running /\ taskStatus'[id] \in Finished
               \/ BeginTask /\ IDOf[cur] = id /\ taskStatus'[id] = Running
               \/ FinishTask /\ IDOf[cur] = id /\ taskStatus'[id] \in Finished
<1>0. /\ taskStatus \in [TaskIDs -> Statuses]
      /\ taskOf \in [TaskIDs -> Tasks \cup {NoTask}]
      /\ IDOf \in [Tasks -> TaskIDs]
  BY OrderTypes, Zenon DEF OrderInv, TaskInv
<1>1. ASSUME NEW t \in Tasks, SubmitTask(t)
      PROVE  \/ taskStatus'[id] = taskStatus[id] /\ taskOf'[id] = taskOf[id]
             \/ taskStatus'[id] = Pending /\ IDOf[t] = id /\ taskOf'[id] = t
  BY <1>0, <1>1, Zenon DEF SubmitTask
<1>2. ASSUME NEW t \in Tasks, Cancelled(t)
      PROVE  \/ taskStatus'[id] = taskStatus[id] /\ taskOf'[id] = taskOf[id]
             \/ taskStatus'[id] = "none" /\ IDOf[t] = id
  BY <1>0, <1>2, Zenon DEF Cancelled, SubmitTimeout, SubmitCancel, RemoveEntry
<1>3. ASSUME NEW old \in SUBSET TaskIDs, CleanupTasks(old)
      PROVE  \/ taskStatus'[id] = taskStatus[id] /\ taskOf'[id] = taskOf[id]
             \/ taskStatus'[id] = "none" /\ taskStatus[id] \in Finished
  BY <1>0, <1>3, Zenon DEF CleanupTasks
<1>4. CASE Restart
  BY <1>4, Zenon DEF Restart
<1>5. CASE BeginTask
  <2>1. /\ taskStatus[IDOf[cur]] # "none" /\ taskOf' = taskOf
        /\ taskStatus' = [taskStatus EXCEPT ![IDOf[cur]] = Running]
    BY <1>5, Zenon DEF BeginTask
  <2> QED
    BY <1>0, <1>5, <2>1, Zenon
<1>6. CASE FinishTask
  <2>1. /\ taskOf' = taskOf
        /\ \/ taskStatus' = taskStatus
           \/ /\ taskStatus[IDOf[cur]] # "none"
              /\ \/ taskStatus' = [taskStatus EXCEPT ![IDOf[cur]] = Failed]
                 \/ taskStatus' = [taskStatus EXCEPT ![IDOf[cur]] = Complete]
    BY <1>6, Zenon DEF FinishTask
  <2> QED
    BY <1>0, <1>6, <2>1, Zenon DEF Finished
<1>7. ASSUME NEW i \in TaskIDs, NEW w \in Workers, SetTaskResult(i, w)
      PROVE  /\ taskOf'[id] = taskOf[id]
             /\ \/ taskStatus'[id] = taskStatus[id]
                \/ taskStatus[id] = Running /\ taskStatus'[id] \in Finished
  BY <1>0, <1>7, Zenon DEF SetTaskResult, Finished
<1>8. CASE StopSweep
  BY <1>0, <1>8, Zenon DEF StopSweep, Finished, Running
<1>9. CASE UNCHANGED <<taskStatus, taskOf>>
  BY <1>9, Zenon
<1>10. Running # "none"
  BY Zenon DEF Running
<1> QED
  BY <1>1, <1>2, <1>3, <1>4, <1>5, <1>6, <1>7, <1>8, <1>9, <1>10, Zenon
     DEF Cancelled, Next, ProcessorStep, vars, taskVars, procVars, Start, SubmitSend, Receive, SkipTask,
      SelectTEEPair, NoTEEPair, GatherWorkers, Distribute, ReleasePair, ProcessorExits,
      CleanerExits, CheckWorkerHealth, Stop, StopAgain

\* A call becomes idle again only with its entry removed, or in a new process.
LEMMA CallChange ==
  ASSUME OrderInv, [Next]_vars, NEW t \in Tasks
  PROVE  /\ call'[t] = "idle" => call[t] = "idle" \/ Cancelled(t) \/ Restart
         /\ call'[t] = "sending" => call[t] = "sending" \/ SubmitTask(t)
<1>0. call \in [Tasks -> {"idle", "sending", "accepted"}]
  BY OrderTypes, Zenon DEF OrderInv, TaskInv
<1>1. ASSUME NEW u \in Tasks, SubmitTask(u) \/ SubmitSend(u) \/ Cancelled(u)
      PROVE  /\ call'[t] = "idle" => call[t] = "idle" \/ Cancelled(t)
             /\ call'[t] = "sending" => call[t] = "sending" \/ SubmitTask(t)
  BY <1>0, <1>1, Zenon DEF SubmitTask, SubmitSend, Cancelled, SubmitCancel, SubmitTimeout
<1>2. CASE Restart
  BY <1>2, Zenon DEF Restart
<1>3. CASE call' = call
  BY <1>3, Zenon
<1> QED
  BY <1>1, <1>2, <1>3, Zenon
     DEF Cancelled, Next, ProcessorStep, vars, taskVars, procVars, Start, Receive, BeginTask, SkipTask,
      SelectTEEPair, NoTEEPair, GatherWorkers, Distribute, ReleasePair, FinishTask, ProcessorExits,
      CleanupTasks, CleanerExits, SetTaskResult, CheckWorkerHealth, Stop, StopSweep, StopAgain

\* A task waits after a step if it did before, or has just been submitted.
LEMMA WaitingChange ==
  ASSUME OrderInv, [Next]_vars, NEW t \in Tasks, t \in Waiting'
  PROVE  t \in Waiting \/ SubmitTask(t)
<1>0. /\ tasks \in Seq(Tasks) /\ Len(tasks) \in Nat /\ DOMAIN tasks = 1..Len(tasks)
  BY OrderTypes, Zenon DEF OrderInv, TaskInv
<1>1. CASE call'[t] = "sending"
  BY <1>1, CallChange, Zenon DEF Waiting
<1>2. CASE t \in Range(tasks')
  <2>1. CASE Receive
    <3>1. tasks # <<>> /\ tasks' = Tail(tasks)
      BY <2>1, Zenon DEF Receive
    <3>2. /\ Len(tasks') = Len(tasks) - 1 /\ tasks' \in Seq(Tasks)
          /\ \A i \in 1..Len(tasks') : tasks'[i] = tasks[i + 1]
      BY <1>0, <3>1, HeadTailProperties, Zenon
    <3>3. DOMAIN tasks' = 1..(Len(tasks) - 1)
      BY <3>2, LenProperties, Zenon
    <3>4. t \in Range(tasks)
      BY <1>0, <1>2, <3>2, <3>3 DEF Range
    <3> QED
      BY <3>4, Zenon DEF Waiting
  <2>2. ASSUME NEW u \in Tasks, SubmitSend(u) PROVE t \in Waiting
    <3>1. tasks' = Append(tasks, u) /\ call[u] = "sending"
      BY <2>2, Zenon DEF SubmitSend
    <3>2. /\ Len(tasks') = Len(tasks) + 1 /\ tasks' \in Seq(Tasks)
          /\ \A i \in 1..Len(tasks) : tasks'[i] = tasks[i]
          /\ tasks'[Len(tasks) + 1] = u
      BY <1>0, <3>1, AppendProperties
    <3>3. DOMAIN tasks' = 1..(Len(tasks) + 1)
      BY <3>2, LenProperties, Zenon
    <3>4. t \in Range(tasks) \/ t = u
      BY <1>0, <1>2, <3>2, <3>3 DEF Range
    <3> QED
      BY <3>1, <3>4, Zenon DEF Waiting
  <2>3. CASE tasks' = tasks
    BY <1>2, <2>3, Zenon DEF Waiting
  <2>4. CASE Restart
    BY <1>2, <2>4 DEF Restart, Range
  <2> QED
    BY <2>1, <2>2, <2>3, <2>4, Zenon
       DEF Next, ProcessorStep, vars, taskVars, procVars, Start, SubmitTask, SubmitCancel, SubmitTimeout,
        BeginTask, SkipTask, SelectTEEPair, NoTEEPair, GatherWorkers, Distribute, ReleasePair,
        FinishTask, ProcessorExits, CleanupTasks, CleanerExits, SetTaskResult, CheckWorkerHealth,
        Stop, StopSweep, StopAgain
<1>3. CASE proc' = "received" /\ cur' = t
  <2>1. CASE Receive
    <3>1. tasks # <<>> /\ cur' = tasks[1]
      BY <2>1, <1>0 DEF Receive
    <3>2. 1 \in DOMAIN tasks
      BY <1>0, <3>1, EmptySeq
    <3> QED
      BY <1>3, <3>1, <3>2, Zenon DEF Waiting, Range
  <2>2. CASE UNCHANGED <<proc, cur>>
    BY <1>3, <2>2, Zenon DEF Waiting
  <2> QED
    BY <1>3, <2>1, <2>2, Zenon
       DEF Next, ProcessorStep, vars, taskVars, procVars, Start, SubmitTask, SubmitSend, SubmitCancel,
        SubmitTimeout, BeginTask, SkipTask, SelectTEEPair, NoTEEPair, GatherWorkers, Distribute,
        ReleasePair, FinishTask, ProcessorExits, CleanupTasks, CleanerExits, SetTaskResult,
        CheckWorkerHealth, Stop, StopSweep, StopAgain, Restart, AfterHandleTask
<1> QED
  BY <1>1, <1>2, <1>3, Zenon DEF Waiting

-----------------------------------------------------------------------------
\* The entries' owners and their number.
LEMMA OwnersStep ==
  ASSUME OrderInv, [Next]_vars, ~HealthMonitor PROVE EntriesOwned'
<1>0. /\ taskStatus \in [TaskIDs -> Statuses] /\ IDOf \in [Tasks -> TaskIDs]
      /\ call \in [Tasks -> {"idle", "sending", "accepted"}]
  BY OrderTypes, Zenon DEF OrderInv, TaskInv
<1>1. SUFFICES ASSUME NEW id \in TaskIDs, taskStatus'[id] # "none"
               PROVE  taskOf'[id] \in Tasks /\ IDOf[taskOf'[id]] = id /\ call'[taskOf'[id]] # "idle"
  BY Zenon DEF EntriesOwned, Entries
<1>2. CASE \E t \in Tasks : SubmitTask(t) /\ IDOf[t] = id /\ taskOf'[id] = t
  <2>1. PICK t \in Tasks : SubmitTask(t) /\ IDOf[t] = id /\ taskOf'[id] = t
    BY <1>2, Zenon
  <2>2. call'[t] = "sending"
    BY <1>0, <2>1, Zenon DEF SubmitTask
  <2> QED
    BY <2>1, <2>2, Zenon
<1>3. CASE taskStatus[id] # "none" /\ taskOf'[id] = taskOf[id]
  <2>1. taskOf[id] \in Tasks /\ IDOf[taskOf[id]] = id /\ call[taskOf[id]] # "idle"
    BY <1>3, Zenon DEF OrderInv, EntriesOwned, Entries
  <2>2. ~Cancelled(taskOf[id])
    BY <1>0, <1>1, <2>1, Zenon DEF Cancelled, SubmitCancel, SubmitTimeout, RemoveEntry
  <2>3. ~Restart
    BY <1>1, Zenon DEF Restart
  <2> QED
    BY <1>3, <2>1, <2>2, <2>3, CallChange, Zenon
<1> QED
  BY <1>1, <1>2, <1>3, EntryChange, Zenon

LEMMA BoundStep ==
  ASSUME OrderInv, [Next]_vars, ~HealthMonitor PROVE EntriesBounded'
<1>0. /\ IsFiniteSet(TaskIDs) /\ MaxTasks \in Nat /\ IDOf \in [Tasks -> TaskIDs]
      /\ taskStatus \in [TaskIDs -> Statuses]
  BY OrderTypes, Zenon DEF OrderInv, TaskInv
<1>1. Entries \subseteq TaskIDs /\ Entries' \subseteq TaskIDs
  BY Zenon DEF Entries
<1>2. IsFiniteSet(Entries) /\ Cardinality(Entries) \in Nat
  BY <1>0, <1>1, FS_Subset, FS_CardinalityType, Zenon
<1>3. CASE \E t \in Tasks : SubmitTask(t)
  <2>1. PICK t \in Tasks : SubmitTask(t)
    BY <1>3, Zenon
  <2>2. /\ Cardinality(Entries) < MaxTasks
        /\ taskStatus' = [taskStatus EXCEPT ![IDOf[t]] = Pending]
    BY <2>1, Zenon DEF SubmitTask
  <2>3. Entries' \subseteq Entries \cup {IDOf[t]}
    BY <1>0, <2>2, Zenon DEF Entries
  <2>4. /\ IsFiniteSet(Entries \cup {IDOf[t]})
        /\ Cardinality(Entries \cup {IDOf[t]}) <= Cardinality(Entries) + 1
        /\ Cardinality(Entries \cup {IDOf[t]}) \in Nat
    <3>1. /\ IsFiniteSet(Entries \cup {IDOf[t]})
          /\ Cardinality(Entries \cup {IDOf[t]}) =
               IF IDOf[t] \in Entries THEN Cardinality(Entries) ELSE Cardinality(Entries) + 1
      BY <1>2, FS_AddElement, Zenon
    <3> QED
      BY <1>2, <3>1
  <2>5. Cardinality(Entries') <= Cardinality(Entries \cup {IDOf[t]}) /\ Cardinality(Entries') \in Nat
    BY <2>3, <2>4, FS_Subset, FS_CardinalityType, Zenon
  <2> QED
    BY <1>0, <1>2, <2>2, <2>4, <2>5 DEF EntriesBounded
<1>4. CASE ~\E t \in Tasks : SubmitTask(t)
  <2>1. ASSUME NEW id \in TaskIDs, taskStatus'[id] # "none" PROVE taskStatus[id] # "none"
    BY <1>4, <2>1, EntryChange, Zenon
  <2>2. Entries' \subseteq Entries
    BY <2>1, Zenon DEF Entries
  <2>3. Cardinality(Entries') <= Cardinality(Entries) /\ Cardinality(Entries') \in Nat
    BY <1>2, <2>2, FS_Subset, FS_CardinalityType, Zenon
  <2> QED
    BY <1>0, <1>2, <2>3 DEF OrderInv, EntriesBounded
<1> QED
  BY <1>3, <1>4, Zenon

\* Nothing but its own submission, cancellation and start touches the entry of a
\* task that waits.
LEMMA WaitingStep ==
  ASSUME DistinctIDs, OrderInv, [Next]_vars, ~HealthMonitor PROVE WaitingIsPending'
<1>0. /\ taskStatus \in [TaskIDs -> Statuses] /\ taskOf \in [TaskIDs -> Tasks \cup {NoTask}]
      /\ call \in [Tasks -> {"idle", "sending", "accepted"}] /\ IDOf \in [Tasks -> TaskIDs]
      /\ cur \in Tasks \cup {NoTask} /\ NoTask \notin Tasks
  BY OrderTypes, Zenon DEF OrderInv, TaskInv
<1>1. SUFFICES ASSUME NEW t \in Tasks, t \in Waiting'
               PROVE  taskStatus'[IDOf[t]] = Pending /\ taskOf'[IDOf[t]] = t
  BY Zenon DEF WaitingIsPending, Waiting
<1> DEFINE id == IDOf[t]
<1>2. id \in TaskIDs
  BY <1>0, Zenon
<1>3. CASE SubmitTask(t)
  BY <1>0, <1>3, Zenon DEF SubmitTask
<1>4. CASE t \in Waiting /\ ~SubmitTask(t)
  <2>1. taskStatus[id] = Pending /\ taskOf[id] = t
    BY <1>4, Zenon DEF OrderInv, WaitingIsPending
  <2>2. Pending # "none" /\ Pending # Running /\ Pending \notin Finished
    BY Zenon DEF Pending, Running, Finished, Complete, Failed
  <2>3. ~Cancelled(t)
    <3>1. SUFFICES ASSUME Cancelled(t) PROVE FALSE
      BY Zenon
    <3>2. call[t] = "sending" /\ call'[t] = "idle" /\ UNCHANGED <<tasks, proc, cur>>
      BY <1>0, <3>1, Zenon DEF Cancelled, SubmitCancel, SubmitTimeout, procVars
    <3>3. t \notin Range(tasks) /\ cur # t
      BY <1>0, <3>2, Zenon DEF OrderInv, QueueInv, Range
    <3> QED
      BY <1>1, <3>2, <3>3, Zenon DEF Waiting
  <2>4. ~Restart
    <3>1. SUFFICES ASSUME Restart PROVE FALSE
      BY Zenon
    <3>2. call'[t] = "idle" /\ tasks' = <<>> /\ proc' = "off"
      BY <3>1, Zenon DEF Restart
    <3> QED
      BY <1>1, <3>2 DEF Waiting, Range
  <2>5. cur = t => t \notin Range(tasks) /\ call[t] # "sending"
    BY <1>0 DEF OrderInv, QueueInv, Range
  <2>6. BeginTask => cur # t
    <3>1. SUFFICES ASSUME BeginTask, cur = t PROVE FALSE
      BY Zenon
    <3>2. UNCHANGED <<tasks, call>> /\ proc' # "received"
      BY <3>1, Zenon DEF BeginTask
    <3> QED
      BY <1>1, <2>5, <3>1, <3>2, Zenon DEF Waiting
  <2>7. FinishTask => cur # t
    <3>1. SUFFICES ASSUME FinishTask, cur = t PROVE FALSE
      BY Zenon
    <3>2. proc = "finish"
      BY <3>1, Zenon DEF FinishTask
    <3> QED
      BY <1>4, <2>5, <3>1, <3>2, Zenon DEF Waiting
  <2>8. \A u \in Tasks : IDOf[u] = id => u = t
    BY Zenon DEF DistinctIDs
  <2>9. BeginTask \/ FinishTask => cur \in Tasks
    BY <1>0, Zenon DEF BeginTask, FinishTask, OrderInv, TaskInv, ProcessorState
  <2> QED
    BY <1>2, <1>4, <2>1, <2>2, <2>3, <2>4, <2>6, <2>7, <2>8, <2>9, EntryChange, Zenon
<1> QED
  BY <1>1, <1>3, <1>4, WaitingChange, Zenon

LEMMA OrderInvStep ==
  ASSUME DistinctIDs, ~HealthMonitor PROVE OrderInv /\ [Next]_vars => OrderInv'
<1> SUFFICES ASSUME OrderInv, [Next]_vars PROVE OrderInv'
  BY Zenon
<1>1. TaskInv'
  BY TaskTypeStep, RegInvKept, ProcessorStateStep, CountersStep, RunningStep, PairLoadStep, Zenon
     DEF OrderInv, TaskInv
<1> QED
  BY <1>1, QueueStep, OwnersStep, BoundStep, WaitingStep, Zenon DEF OrderInv

LEMMA OrderInvariant == ASSUME DistinctIDs, ~HealthMonitor PROVE Spec => []OrderInv
<1>1. OrderInv /\ [Next]_vars => OrderInv'
  BY OrderInvStep, Zenon
<1> QED
  BY OrderInvInit, <1>1, PTL DEF Spec

\* With distinct IDs a task that was admitted and not yet begun has its own entry,
\* and that entry is Pending: processTasks never drops it as "cancelled/cleaned up".
THEOREM WaitingPending ==
  ASSUME DistinctIDs, ~HealthMonitor PROVE Spec => []WaitingIsPending
<1>1. OrderInv => WaitingIsPending
  BY Zenon DEF OrderInv
<1> QED
  BY OrderInvariant, <1>1, PTL

-----------------------------------------------------------------------------
\* The tasks in the channel have as many entries, and a submission in progress one
\* more.
LEMMA RoomForSubmission ==
  ASSUME DistinctIDs, OrderInv PROVE SubmissionNeverBlocks
<1>0. /\ Len(tasks) \in Nat /\ DOMAIN tasks = 1..Len(tasks)
      /\ \A i \in DOMAIN tasks : tasks[i] \in Tasks
      /\ IDOf \in [Tasks -> TaskIDs] /\ IsFiniteSet(TaskIDs) /\ MaxTasks \in Nat
  BY OrderTypes, Zenon DEF OrderInv, TaskInv
<1>1. SUFFICES ASSUME NEW t \in Tasks, call[t] = "sending" PROVE Len(tasks) < MaxTasks
  BY Zenon DEF SubmissionNeverBlocks
<1>2. ASSUME NEW u \in Tasks, u \in Waiting PROVE IDOf[u] \in Entries
  BY <1>0, <1>2, Zenon DEF OrderInv, WaitingIsPending, Entries, Pending
<1>3. IDOf[t] \in Entries
  BY <1>1, <1>2, Zenon DEF Waiting
<1>4. ASSUME NEW i \in 1..Len(tasks) PROVE IDOf[tasks[i]] \in Entries \ {IDOf[t]}
  <2>1. tasks[i] \in Tasks /\ tasks[i] \in Waiting
    BY <1>0, Zenon DEF Waiting, Range
  <2>2. tasks[i] # t
    BY <1>0, <1>1, Zenon DEF OrderInv, QueueInv
  <2> QED
    BY <1>2, <2>1, <2>2, Zenon DEF DistinctIDs
<1>5. ASSUME NEW i \in 1..Len(tasks), NEW j \in 1..Len(tasks), IDOf[tasks[i]] = IDOf[tasks[j]]
      PROVE  i = j
  BY <1>0, <1>5, Zenon DEF DistinctIDs, OrderInv, QueueInv
<1> DEFINE f == [i \in 1..Len(tasks) |-> IDOf[tasks[i]]]
<1>6. f \in Injection(1..Len(tasks), Entries \ {IDOf[t]})
  BY <1>4, <1>5, Zenon DEF Injection, IsInjective
<1> HIDE DEF f
<1>7. IsFiniteSet(Entries) /\ Cardinality(Entries) \in Nat
  BY <1>0, FS_Subset, FS_CardinalityType, Zenon DEF Entries
<1>8. /\ IsFiniteSet(Entries \ {IDOf[t]})
      /\ Cardinality(Entries \ {IDOf[t]}) = Cardinality(Entries) - 1
  BY <1>3, <1>7, FS_RemoveElement, Zenon
<1>9. Cardinality(1..Len(tasks)) <= Cardinality(Entries \ {IDOf[t]})
  BY <1>6, <1>8, FS_Injection, Zenon
<1>10. Cardinality(1..Len(tasks)) = Len(tasks)
  <2>1. Cardinality(1..Len(tasks)) = IF 1 > Len(tasks) THEN 0 ELSE Len(tasks) - 1 + 1
    BY <1>0, FS_Interval
  <2> QED
    BY <1>0, <2>1
<1> QED
  BY <1>0, <1>7, <1>8, <1>9, <1>10 DEF OrderInv, EntriesBounded

\* With distinct IDs the send of SubmitTask, after the task count was checked, never
\* finds the channel full: the five-second timeout is never the only way out.
THEOREM SubmissionRoom ==
  ASSUME DistinctIDs, ~HealthMonitor PROVE Spec => []SubmissionNeverBlocks
<1>1. OrderInv => SubmissionNeverBlocks
  BY RoomForSubmission, Zenon
<1> QED
  BY OrderInvariant, <1>1, PTL

\* With distinct IDs, from SubmitTask's check of the task count to the moment
\* processTasks takes it up, an admitted task finds room and keeps its entry.
THEOREM AdmittedUndisturbed ==
  ASSUME DistinctIDs, ~HealthMonitor PROVE Spec => []AdmittedWaits
<1>1. OrderInv => AdmittedWaits
  BY RoomForSubmission, Zenon DEF OrderInv, AdmittedWaits
<1> QED
  BY OrderInvariant, <1>1, PTL

\* With distinct IDs no step of the coordinator takes a Complete or Failed entry to
\* anything but its removal.
THEOREM FinishedStays ==
  ASSUME DistinctIDs, ~HealthMonitor PROVE Spec => FinishedStaysFinished
<1> DEFINE Kept == \A id \in TaskIDs : taskStatus[id] \in Finished =>
                       taskStatus'[id] \in Finished \cup {"none"}
<1>1. OrderInv /\ [Next]_vars => [Kept]_vars
  <2> SUFFICES ASSUME OrderInv, [Next]_vars, NEW id \in TaskIDs, taskStatus[id] \in Finished
               PROVE  taskStatus'[id] \in Finished \cup {"none"}
    BY Zenon
  <2>0. Pending \notin Finished /\ "none" \notin Finished
    BY Zenon DEF Finished, Pending, Complete, Failed
  <2>1. ASSUME NEW t \in Tasks, SubmitTask(t), IDOf[t] = id PROVE FALSE
    <3>1. call[t] = "idle"
      BY <2>1, Zenon DEF SubmitTask
    <3>2. taskOf[id] \in Tasks /\ IDOf[taskOf[id]] = id /\ call[taskOf[id]] # "idle"
      BY <2>0, Zenon DEF OrderInv, EntriesOwned, Entries
    <3> QED
      BY <2>1, <3>1, <3>2, Zenon DEF DistinctIDs
  <2>2. ~(BeginTask /\ IDOf[cur] = id)
    <3>1. SUFFICES ASSUME BeginTask, IDOf[cur] = id PROVE FALSE
      BY Zenon
    <3>2. proc = "received" /\ cur \in Tasks
      BY <3>1, OrderTypes, Zenon DEF BeginTask, OrderInv, TaskInv, ProcessorState
    <3>3. taskStatus[id] = Pending
      BY <3>1, <3>2, Zenon DEF OrderInv, WaitingIsPending, Waiting
    <3> QED
      BY <2>0, <3>3, Zenon
  <2> QED
    BY <2>1, <2>2, EntryChange, Zenon
<1> QED
  BY OrderInvariant, <1>1, PTL DEF Spec, FinishedStaysFinished

-----------------------------------------------------------------------------
(* The job server *)

\* The queue of the job server: no task twice, each with an entry of its own.
LEMMA ServerQueue ==
    ASSUME OrderInv
    PROVE  /\ JQWaiting \in Seq(Tasks)
           /\ \A i \in 1..Len(JQWaiting) : JQWaiting[i] \in Waiting /\ call[JQWaiting[i]] = "accepted"
           /\ \A i, j \in 1..Len(JQWaiting) : JQWaiting[i] = JQWaiting[j] => i = j
<1>0. /\ tasks \in Seq(Tasks) /\ Len(tasks) \in Nat /\ DOMAIN tasks = 1..Len(tasks)
      /\ \A i \in DOMAIN tasks : tasks[i] \in Tasks
      /\ cur \in Tasks \cup {NoTask}
  BY OrderTypes, Zenon DEF OrderInv, TaskInv
<1>1. \A i \in 1..Len(tasks) : tasks[i] \in Waiting /\ call[tasks[i]] = "accepted" /\ tasks[i] # cur
  BY <1>0, Zenon DEF OrderInv, QueueInv, Waiting, Range
<1>2. \A i, j \in 1..Len(tasks) : tasks[i] = tasks[j] => i = j
  BY <1>0, Zenon DEF OrderInv, QueueInv
<1>3. CASE proc = "received"
  <2>1. cur \in Tasks /\ cur # NoTask
    BY <1>0, <1>3, CoordinatorAssumption, Zenon DEF OrderInv, TaskInv, ProcessorState
  <2>2. cur \in Waiting /\ call[cur] = "accepted"
    BY <1>3, <2>1, Zenon DEF OrderInv, QueueInv, Waiting
  <2>3. <<cur>> \in Seq(Tasks) /\ Len(<<cur>>) = 1 /\ <<cur>>[1] = cur
    BY <2>1
  <2>4. /\ JQWaiting \in Seq(Tasks) /\ Len(JQWaiting) = Len(tasks) + 1
        /\ \A i \in 1..Len(JQWaiting) : JQWaiting[i] = IF i <= 1 THEN <<cur>>[i] ELSE tasks[i - 1]
    <3>1. JQWaiting = <<cur>> \o tasks
      BY <1>3, Zenon DEF JQWaiting
    <3> QED BY <1>0, <2>3, <3>1, ConcatProperties
  <2>5. JQWaiting[1] = cur
    BY <1>0, <2>3, <2>4
  <2>6. \A i \in 1..Len(JQWaiting) : i = 1 \/ (i - 1 \in 1..Len(tasks) /\ JQWaiting[i] = tasks[i - 1])
    BY <1>0, <2>4
  <2>7. \A i \in 1..Len(JQWaiting) : JQWaiting[i] \in Waiting /\ call[JQWaiting[i]] = "accepted"
    BY <1>1, <2>2, <2>5, <2>6
  <2>8. ASSUME NEW i \in 1..Len(JQWaiting), NEW j \in 1..Len(JQWaiting), JQWaiting[i] = JQWaiting[j] PROVE i = j
    <3>1. CASE i = 1 \/ j = 1
      BY <1>1, <2>5, <2>6, <2>8, <3>1, Zenon
    <3>2. CASE i # 1 /\ j # 1
      <4>1. i - 1 \in 1..Len(tasks) /\ j - 1 \in 1..Len(tasks) /\ tasks[i - 1] = tasks[j - 1]
        BY <2>6, <2>8, <3>2, Zenon
      <4>2. i - 1 = j - 1
        BY <1>2, <4>1, Zenon
      <4> QED BY <2>4, <4>2
    <3> QED BY <3>1, <3>2, Zenon
  <2> QED BY <2>4, <2>7, <2>8, Zenon
<1>4. CASE proc # "received"
  <2>1. JQWaiting = tasks
    BY <1>4, Zenon DEF JQWaiting
  <2> QED BY <1>0, <1>1, <1>2, <2>1, Zenon
<1> QED BY <1>3, <1>4, Zenon

\* A submission in progress has an entry beside those of the queue.
LEMMA ServerRoom ==
    ASSUME DistinctIDs, OrderInv, NEW t \in Tasks, call[t] = "sending"
    PROVE  Len(JQWaiting) < MaxTasks
<1> DEFINE q == JQWaiting
<1>0. /\ q \in Seq(Tasks) /\ Len(q) \in Nat
      /\ IDOf \in [Tasks -> TaskIDs] /\ IsFiniteSet(TaskIDs) /\ MaxTasks \in Nat
  BY OrderTypes, ServerQueue DEF OrderInv, TaskInv
<1>1. /\ \A i \in 1..Len(q) : q[i] \in Tasks /\ q[i] \in Waiting /\ call[q[i]] = "accepted"
      /\ \A i, j \in 1..Len(q) : q[i] = q[j] => i = j
  BY <1>0, ServerQueue, ElementOfSeq, Zenon
<1> HIDE DEF q
<1>2. ASSUME NEW u \in Tasks, u \in Waiting PROVE IDOf[u] \in Entries
  BY <1>0, <1>2, Zenon DEF OrderInv, WaitingIsPending, Entries, Pending
<1>3. IDOf[t] \in Entries
  BY <1>2, Zenon DEF Waiting
<1>4. ASSUME NEW i \in 1..Len(q) PROVE IDOf[q[i]] \in Entries \ {IDOf[t]}
  <2>1. q[i] # t
    BY <1>1, Zenon
  <2> QED
    BY <1>1, <1>2, <2>1, Zenon DEF DistinctIDs
<1>5. ASSUME NEW i \in 1..Len(q), NEW j \in 1..Len(q), IDOf[q[i]] = IDOf[q[j]] PROVE  i = j
  BY <1>1, <1>5, Zenon DEF DistinctIDs
<1> DEFINE f == [i \in 1..Len(q) |-> IDOf[q[i]]]
<1>6. f \in Injection(1..Len(q), Entries \ {IDOf[t]})
  BY <1>4, <1>5, Zenon DEF Injection, IsInjective
<1> HIDE DEF f
<1>7. IsFiniteSet(Entries) /\ Cardinality(Entries) \in Nat
  BY <1>0, FS_Subset, FS_CardinalityType, Zenon DEF Entries
<1>8. /\ IsFiniteSet(Entries \ {IDOf[t]})
      /\ Cardinality(Entries \ {IDOf[t]}) = Cardinality(Entries) - 1
  BY <1>3, <1>7, FS_RemoveElement, Zenon
<1>9. Cardinality(1..Len(q)) <= Cardinality(Entries \ {IDOf[t]})
  BY <1>6, <1>8, FS_Injection, Zenon
<1>10. Cardinality(1..Len(q)) = Len(q)
  <2>1. Cardinality(1..Len(q)) = IF 1 > Len(q) THEN 0 ELSE Len(q) - 1 + 1
    BY <1>0, FS_Interval
  <2> QED
    BY <1>0, <2>1
<1>11. Len(q) < MaxTasks
  BY <1>0, <1>7, <1>8, <1>9, <1>10 DEF OrderInv, EntriesBounded
<1> QED BY <1>11, Zenon DEF q

LEMMA ServerAccepts ==
    ASSUME DistinctIDs, OrderInv, NEW t \in Tasks, SubmitSend(t)
    PROVE  JQ!Accept(t)
<1>0. /\ tasks \in Seq(Tasks) /\ Len(tasks) \in Nat /\ DOMAIN tasks = 1..Len(tasks)
      /\ call \in [Tasks -> {"idle", "sending", "accepted"}] /\ cur \in Tasks \cup {NoTask} /\ NoTask \notin Tasks
  BY OrderTypes, Zenon DEF OrderInv, TaskInv
<1>1. /\ call[t] = "sending" /\ UNCHANGED <<cur, proc>> /\ tasks' = Append(tasks, t)
      /\ call' = [call EXCEPT ![t] = "accepted"]
  BY Zenon DEF SubmitSend, procVars
<1>2. Len(JQWaiting) < MaxTasks
  BY <1>1, ServerRoom, Zenon
<1>3. t \notin JQEnded
  BY <1>1, Zenon DEF JQEnded
<1>4. cur # t
  BY <1>0, <1>1, Zenon DEF OrderInv, QueueInv
<1>5. t # JQRunning
  BY <1>0, <1>4, Zenon DEF JQRunning
<1>6. \A k \in 1..Len(JQWaiting) : JQWaiting[k] # t
  BY <1>1, ServerQueue, Zenon
<1>7. JQWaiting' = Append(JQWaiting, t)
  <2>1. CASE proc = "received"
    <3>1. cur \in Tasks
      BY <1>0, <2>1, Zenon DEF OrderInv, TaskInv, ProcessorState
    <3>2. <<cur>> \o Append(tasks, t) = Append(<<cur>> \o tasks, t)
      BY <1>0, <3>1
    <3> QED BY <1>1, <2>1, <3>2, Zenon DEF JQWaiting
  <2> QED BY <1>1, <2>1, Zenon DEF JQWaiting
<1>8. JQRunning' = JQRunning
  BY <1>1, Zenon DEF JQRunning
<1>9. JQEnded' = JQEnded
  <2>1. /\ Len(tasks') = Len(tasks) + 1 /\ tasks' \in Seq(Tasks)
        /\ \A i \in 1..Len(tasks) : tasks'[i] = tasks[i]
        /\ tasks'[Len(tasks) + 1] = t
    BY <1>0, <1>1, AppendProperties
  <2>2. DOMAIN tasks' = 1..(Len(tasks) + 1)
    BY <2>1, LenProperties, Zenon
  <2>3. Range(tasks') = Range(tasks) \cup {t}
    BY <1>0, <2>1, <2>2 DEF Range
  <2>4. ASSUME NEW u \in Tasks PROVE u \in JQEnded' <=> u \in JQEnded
    BY <1>0, <1>1, <1>3, <2>3, Zenon DEF JQEnded
  <2> QED BY <2>4, Zenon DEF JQEnded
<1> QED BY <1>2, <1>3, <1>5, <1>6, <1>7, <1>8, <1>9, Zenon DEF JQ!Accept

LEMMA ServerReceives ==
    ASSUME OrderInv, Receive
    PROVE  UNCHANGED <<JQWaiting, JQRunning, JQEnded>>
<1>0. /\ tasks \in Seq(Tasks) /\ Len(tasks) \in Nat /\ DOMAIN tasks = 1..Len(tasks)
      /\ \A i \in DOMAIN tasks : tasks[i] \in Tasks
      /\ NoTask \notin Tasks
  BY OrderTypes, Zenon DEF OrderInv, TaskInv
<1>1. /\ proc = "idle" /\ tasks # <<>> /\ cur' = Head(tasks) /\ tasks' = Tail(tasks) /\ call' = call
      /\ proc' = "received"
  BY Zenon DEF Receive
<1>2. /\ cur' = tasks[1] /\ Len(tasks') = Len(tasks) - 1 /\ 1 \in DOMAIN tasks
      /\ tasks' \in Seq(Tasks)
      /\ \A i \in 1..Len(tasks') : tasks'[i] = tasks[i + 1]
  BY <1>0, <1>1, HeadTailProperties, EmptySeq
<1>3. cur = NoTask
  BY <1>1, Zenon DEF OrderInv, TaskInv, ProcessorState
<1>4. JQWaiting' = JQWaiting
  <2>1. <<Head(tasks)>> \o Tail(tasks) = tasks
    BY <1>0, <1>1
  <2> QED BY <1>1, <2>1, Zenon DEF JQWaiting
<1>5. JQRunning' = JQRunning
  BY <1>1, Zenon DEF JQRunning, Executing
<1>6. DOMAIN tasks' = 1..(Len(tasks) - 1)
  BY <1>2, LenProperties, Zenon
<1>7. Range(tasks) = Range(tasks') \cup {cur'}
  <2>1. ASSUME NEW i \in DOMAIN tasks PROVE tasks[i] \in Range(tasks') \cup {cur'}
    <3>1. CASE i = 1
      BY <1>2, <3>1, Zenon
    <3>2. CASE i # 1
      <4>1. i - 1 \in 1..Len(tasks') /\ (i - 1) + 1 = i
        BY <1>0, <1>2, <3>2
      <4>2. tasks'[i - 1] = tasks[i] /\ i - 1 \in DOMAIN tasks'
        BY <1>2, <1>6, <4>1, Zenon
      <4> QED BY <4>2, Zenon DEF Range
    <3> QED BY <3>1, <3>2, Zenon
  <2>2. ASSUME NEW i \in DOMAIN tasks' PROVE tasks'[i] \in Range(tasks)
    <3>1. i \in 1..Len(tasks') /\ i + 1 \in DOMAIN tasks
      BY <1>0, <1>2, <1>6
    <3> QED BY <1>2, <3>1, Zenon DEF Range
  <2>3. cur' \in Range(tasks)
    BY <1>2, Zenon DEF Range
  <2> QED BY <2>1, <2>2, <2>3, Zenon DEF Range
<1>8. JQEnded' = JQEnded
  BY <1>0, <1>1, <1>3, <1>7, Zenon DEF JQEnded
<1> QED BY <1>4, <1>5, <1>8, Zenon

LEMMA ServerBegins ==
    ASSUME OrderInv, BeginTask
    PROVE  JQ!Begin
<1>0. tasks \in Seq(Tasks) /\ cur \in Tasks
  BY OrderTypes, Zenon DEF OrderInv, TaskInv, ProcessorState, BeginTask
<1>1. proc = "received" /\ proc' \in {"gather", "select"} /\ UNCHANGED <<tasks, cur, call>>
  BY Zenon DEF BeginTask
<1>2. JQWaiting = <<cur>> \o tasks /\ JQWaiting' = tasks /\ JQRunning = NoTask /\ JQRunning' = cur
  BY <1>1, Zenon DEF JQWaiting, JQRunning, Executing
<1>3. <<cur>> \o tasks # <<>> /\ Head(<<cur>> \o tasks) = cur /\ Tail(<<cur>> \o tasks) = tasks
  BY <1>0
<1>4. JQEnded' = JQEnded
  BY <1>1, Zenon DEF JQEnded
<1> QED BY <1>2, <1>3, <1>4, Zenon DEF JQ!Begin

LEMMA ServerEnds ==
    ASSUME OrderInv, FinishTask
    PROVE  JQ!End
<1>0. cur \in Tasks /\ NoTask \notin Tasks /\ cur # NoTask
  BY OrderTypes, Zenon DEF OrderInv, TaskInv, ProcessorState, FinishTask
<1>1. proc = "finish" /\ proc' = "idle" /\ cur' = NoTask /\ UNCHANGED <<tasks, call>>
  BY Zenon DEF FinishTask
<1>2. JQRunning = cur /\ JQRunning' = NoTask /\ JQWaiting' = JQWaiting
  BY <1>1, Zenon DEF JQWaiting, JQRunning, Executing
<1>3. call[cur] = "accepted" /\ cur \notin Range(tasks)
  BY <1>0, Zenon DEF OrderInv, QueueInv, Range
<1>4. JQEnded' = JQEnded \cup {cur}
  BY <1>0, <1>1, <1>3, Zenon DEF JQEnded
<1> QED BY <1>0, <1>2, <1>4, Zenon DEF JQ!End

LEMMA ServerCrashes ==
    ASSUME Restart
    PROVE  JQ!Crash
<1>1. tasks' = <<>> /\ cur' = NoTask /\ proc' = "off" /\ call' = [t \in Tasks |-> "idle"]
  BY Zenon DEF Restart
<1> QED BY <1>1, Zenon DEF JQ!Crash, JQWaiting, JQRunning, JQEnded, Executing

\* Whatever leaves the channel, the calls and the current task alone and does not
\* take the processor out of what it does.
LEMMA ServerIdles ==
    ASSUME UNCHANGED <<tasks, cur, call>>,
           (proc = "received") = (proc' = "received"), (proc \in Executing) = (proc' \in Executing)
    PROVE  UNCHANGED <<JQWaiting, JQRunning, JQEnded>>
  BY Zenon DEF JQWaiting, JQRunning, JQEnded

LEMMA ServerCalls ==
    ASSUME OrderInv, NEW t \in Tasks, SubmitTask(t) \/ Cancelled(t)
    PROVE  UNCHANGED <<JQWaiting, JQRunning, JQEnded>>
<1>1. call \in [Tasks -> {"idle", "sending", "accepted"}]
  BY OrderTypes, Zenon DEF OrderInv, TaskInv
<1>2. /\ UNCHANGED <<tasks, cur, proc>> /\ call[t] # "accepted"
      /\ \E s \in {"idle", "sending"} : call' = [call EXCEPT ![t] = s]
  BY Zenon DEF SubmitTask, Cancelled, SubmitTimeout, SubmitCancel, procVars
<1>3. JQEnded' = JQEnded
  BY <1>1, <1>2, Zenon DEF JQEnded
<1> QED BY <1>2, <1>3, Zenon DEF JQWaiting, JQRunning

LEMMA ServerStep ==
    ASSUME DistinctIDs, OrderInv, [Next]_vars
    PROVE  [JQ!JobNext]_<<JQWaiting, JQRunning, JQEnded>>
<1> DEFINE Still == UNCHANGED <<JQWaiting, JQRunning, JQEnded>>
<1>1. ASSUME NEW t \in Tasks, SubmitSend(t) PROVE JQ!JobNext
  BY <1>1, ServerAccepts, Zenon DEF JQ!JobNext
<1>2. BeginTask \/ FinishTask \/ Restart => JQ!JobNext
  BY ServerBegins, ServerEnds, ServerCrashes, Zenon DEF JQ!JobNext
<1>3. ASSUME NEW t \in Tasks, SubmitTask(t) \/ SubmitCancel(t) \/ SubmitTimeout(t) PROVE Still
  BY <1>3, ServerCalls, Zenon DEF Cancelled
<1>4. Receive => Still
  BY ServerReceives, Zenon
<1>5. ~SkipTask
  <2>1. SUFFICES ASSUME SkipTask PROVE FALSE
    BY Zenon
  <2>2. proc = "received" /\ cur \in Tasks /\ taskStatus[IDOf[cur]] = "none"
    BY <2>1, OrderTypes, Zenon DEF SkipTask, OrderInv, TaskInv, ProcessorState
  <2> QED BY <2>2, Zenon DEF OrderInv, WaitingIsPending, Waiting, Pending
<1>6. CASE UNCHANGED <<tasks, cur, call, proc>>
  BY <1>6, ServerIdles, Zenon
<1>7. Start \/ ProcessorExits => Still
  <2> SUFFICES ASSUME Start \/ ProcessorExits PROVE Still
    BY Zenon
  <2>1. UNCHANGED <<tasks, cur, call>> /\ {proc, proc'} \subseteq {"off", "idle", "exited"}
    BY Zenon DEF Start, ProcessorExits
  <2>2. proc # "received" /\ proc' # "received" /\ proc \notin Executing /\ proc' \notin Executing
    BY <2>1, Zenon DEF Executing
  <2> QED BY <2>1, <2>2, ServerIdles
<1>8. SelectTEEPair \/ NoTEEPair \/ GatherWorkers \/ Distribute \/ ReleasePair => Still
  <2> SUFFICES ASSUME SelectTEEPair \/ NoTEEPair \/ GatherWorkers \/ Distribute \/ ReleasePair PROVE Still
    BY Zenon
  <2>1. UNCHANGED <<tasks, cur, call>> /\ {proc, proc'} \subseteq Executing
    BY Zenon
       DEF SelectTEEPair, NoTEEPair, GatherWorkers, Distribute, ReleasePair, Executing, AfterHandleTask
  <2>2. proc # "received" /\ proc' # "received" /\ proc \in Executing /\ proc' \in Executing
    BY <2>1, Zenon DEF Executing
  <2> QED BY <2>1, <2>2, ServerIdles, Zenon
<1> QED
  BY <1>1, <1>2, <1>3, <1>4, <1>5, <1>6, <1>7, <1>8, Zenon
     DEF Next, ProcessorStep, vars, taskVars, procVars, CleanupTasks, CleanerExits,
      SetTaskResult, CheckWorkerHealth, Stop, StopSweep, StopAgain

\* With distinct IDs the coordinator is a bounded first-in first-out job server:
\* SubmitTask's send accepts, processTasks' Running mark begins and its final
\* status ends a task, a new process forgets all, and every other step of the
\* registry, the processor, cleanup, SetTaskResult and Stop is none of its own.
THEOREM CoordinatorServes ==
    ASSUME DistinctIDs, ~HealthMonitor PROVE Spec => JobServer
<1>1. Init => JQ!JobInit
  <2> SUFFICES ASSUME Init PROVE JQ!JobInit
    BY Zenon
  <2>1. tasks = <<>> /\ cur = NoTask /\ proc = "off" /\ \A t \in Tasks : call[t] = "idle"
    BY Zenon DEF Init, TaskInit
  <2> QED BY <2>1, Zenon DEF JQ!JobInit, JQWaiting, JQRunning, JQEnded, Executing
<1>2. OrderInv /\ [Next]_vars => [JQ!JobNext]_(JQ!jobVars)
  BY ServerStep, Zenon DEF JQ!jobVars
<1> QED BY <1>1, <1>2, OrderInvariant, PTL DEF Spec, JobServer, JQ!JobSpec
=============================================================================
