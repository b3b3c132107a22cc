---------------------------- MODULE Coordinator -----------------------------
(***************************************************************************)
(* The task half of coordination.Coordinator composed with its registry.   *)
(* Actors: any number of SubmitTask callers (one per Task object), the     *)
(* processTasks goroutine (proc, cur, ...), the cleanupTasks goroutine,    *)
(* callers of SetTaskResult and Stop, the worker-health monitor, and every *)
(* operation of Registry.  A critical section of c.mu is one action; what  *)
(* a goroutine does between two sections interleaves with the others.      *)
(*                                                                         *)
(* taskStatus[id] = "none" stands for an ID that is not in the map.  Times *)
(* are abstracted: an entry's EndTime may be older than the cleanup        *)
(* interval or not whenever the ticker fires.                              *)
(***************************************************************************)
EXTENDS Registry, FiniteSets, Functions

CONSTANTS
    Tasks,          \* Task objects handed to SubmitTask
    NoTask,
    TaskIDs, IDOf,  \* Task.ID
    RegionOf,       \* Task.RegionID, or "none" for ""
    WorkerIDsOf,    \* Task.WorkerIDs as submitted
    MaxTasks, MinWorkers,
    HealthMonitor,  \* monitorWorkerHealth runs (Start does not launch it)
    MaxResults      \* bound: results kept per task

ASSUME CoordinatorAssumption ==
    /\ NoTask \notin Tasks
    /\ "none" \notin Regions
    /\ IDOf \in [Tasks -> TaskIDs]
    /\ RegionOf \in [Tasks -> Regions \cup {"none"}]
    /\ WorkerIDsOf \in [Tasks -> Seq(Workers)]
    /\ MaxTasks \in Nat /\ MinWorkers \in Nat /\ MaxResults \in Nat
    /\ HealthMonitor \in BOOLEAN
    /\ IsFiniteSet(TaskIDs)

VARIABLES
    life,        \* "open", "closing" once c.done is closed, "closed" after Stop
    tasks,       \* the channel c.tasks, of capacity MaxTasks
    taskStatus,  \* c.taskStatus[id].Status
    taskOf,      \* c.taskStatus[id].Task
    results,     \* c.taskStatus[id].Results, a result standing for its sender
    workerIDs,   \* Task.WorkerIDs, which handleRegionalTask overwrites
    call,        \* the SubmitTask call for a task: "idle" if none is running
    proc,        \* processTasks: the step it takes next
    cur,         \* the task it received
    picked,      \* index in c.teePairs of the pair it uses, 0 if none
    gathered,    \* the positions in its WorkerIDs that handleTask found
    failed,      \* executeTask's error is not nil
    cleaner      \* cleanupTasks is running

taskVars == <<life, tasks, taskStatus, taskOf, results, workerIDs, call,
              proc, cur, picked, gathered, failed, cleaner>>
procVars == <<proc, cur, picked, gathered, failed>>
vars == <<regVars, taskVars>>

Pending == "pending"
Running == "running"
Complete == "complete"
Failed == "failed"
Finished == {Complete, Failed}
Statuses == {"none", Pending, Running} \cup Finished

\* From taskInfo.Status = TaskStatusRunning to the update after executeTask.
Executing == {"select", "gather", "distribute", "release", "finish"}

Entries == {id \in TaskIDs : taskStatus[id] # "none"}

TaskTypeOK ==
    /\ life \in {"open", "closing", "closed"}
    /\ tasks \in Seq(Tasks)
    /\ taskStatus \in [TaskIDs -> Statuses]
    /\ taskOf \in [TaskIDs -> Tasks \cup {NoTask}]
    /\ results \in [TaskIDs -> Seq(Workers)]
    /\ workerIDs \in [Tasks -> Seq(Workers)]
    /\ call \in [Tasks -> {"idle", "sending", "accepted"}]
    /\ proc \in {"off", "idle", "received", "exited"} \cup Executing
    /\ cur \in Tasks \cup {NoTask}
    /\ picked \in Nat
    /\ gathered \in SUBSET Nat
    /\ failed \in BOOLEAN
    /\ cleaner \in BOOLEAN

\* The types of the registry's and of the tasks' state together.
TypeOK == RegTypeOK /\ TaskTypeOK

TaskInit ==
    /\ life = "open"
    /\ tasks = <<>>
    /\ taskStatus = [id \in TaskIDs |-> "none"]
    /\ taskOf = [id \in TaskIDs |-> NoTask]
    /\ results = [id \in TaskIDs |-> <<>>]
    /\ workerIDs = WorkerIDsOf
    /\ call = [t \in Tasks |-> "idle"]
    /\ proc = "off" /\ cur = NoTask /\ picked = 0
    /\ gathered = {} /\ failed = FALSE
    /\ cleaner = FALSE

Init == RegInit /\ TaskInit

\* Start launches the two goroutines.
Start ==
    /\ up
    /\ proc = "off"
    /\ proc' = "idle"
    /\ cleaner' = TRUE
    /\ UNCHANGED <<regVars, life, tasks, taskStatus, taskOf, results, workerIDs,
                   call, cur, picked, gathered, failed>>

-----------------------------------------------------------------------------
(* SubmitTask.                                                             *)

RemoveEntry(id) ==
    /\ taskStatus' = [taskStatus EXCEPT ![id] = "none"]
    /\ taskOf' = [taskOf EXCEPT ![id] = NoTask]
    /\ results' = [results EXCEPT ![id] = <<>>]

\* The admission check and the new entry, in one section of c.mu.
SubmitTask(t) ==
    /\ MuFree
    /\ call[t] = "idle"
    /\ Cardinality(Entries) < MaxTasks
    /\ taskStatus' = [taskStatus EXCEPT ![IDOf[t]] = Pending]
    /\ taskOf' = [taskOf EXCEPT ![IDOf[t]] = t]
    /\ results' = [results EXCEPT ![IDOf[t]] = <<>>]
    /\ call' = [call EXCEPT ![t] = "sending"]
    /\ UNCHANGED <<regVars, life, tasks, workerIDs, procVars, cleaner>>

\* case c.tasks <- task
SubmitSend(t) ==
    /\ up
    /\ call[t] = "sending"
    /\ Len(tasks) < MaxTasks
    /\ tasks' = Append(tasks, t)
    /\ call' = [call EXCEPT ![t] = "accepted"]
    /\ UNCHANGED <<regVars, life, taskStatus, taskOf, results, workerIDs,
                   procVars, cleaner>>

\* case <-ctx.Done(): the caller may give up at any time.
SubmitCancel(t) ==
    /\ MuFree
    /\ call[t] = "sending"
    /\ RemoveEntry(IDOf[t])
    /\ call' = [call EXCEPT ![t] = "idle"]
    /\ UNCHANGED <<regVars, life, tasks, workerIDs, procVars, cleaner>>

\* case <-time.After(c.config.TaskTimeout): the timer, started on entry to the
\* select, can only win when the send has been blocked on a full channel.
SubmitTimeout(t) ==
    /\ Len(tasks) = MaxTasks
    /\ SubmitCancel(t)

-----------------------------------------------------------------------------
(* The processTasks goroutine.                                             *)

\* Mutant: the newest task first.
ReceiveNewest ==
    /\ up
    /\ proc = "idle"
    /\ tasks # <<>>
    /\ cur' = tasks[Len(tasks)]
    /\ tasks' = SubSeq(tasks, 1, Len(tasks) - 1)
    /\ proc' = "received"
    /\ UNCHANGED <<regVars, life, taskStatus, taskOf, results, workerIDs, call,
                   picked, gathered, failed, cleaner>>

\* case task := <-c.tasks
Receive ==
    /\ up
    /\ proc = "idle"
    /\ tasks # <<>>
    /\ cur' = Head(tasks)
    /\ tasks' = Tail(tasks)
    /\ proc' = "received"
    /\ UNCHANGED <<regVars, life, taskStatus, taskOf, results, workerIDs, call,
                   picked, gathered, failed, cleaner>>

\* The entry is there: mark it Running and enter executeTask.
BeginTask ==
    /\ MuFree
    /\ proc = "received"
    /\ taskStatus[IDOf[cur]] # "none"
    /\ taskStatus' = [taskStatus EXCEPT ![IDOf[cur]] = Running]
    /\ proc' = IF RegionOf[cur] = "none" THEN "gather" ELSE "select"
    /\ UNCHANGED <<regVars, life, tasks, taskOf, results, workerIDs, call,
                   cur, picked, gathered, failed, cleaner>>

\* The entry is gone: "Task was cancelled/cleaned up", continue.
SkipTask ==
    /\ MuFree
    /\ proc = "received"
    /\ taskStatus[IDOf[cur]] = "none"
    /\ proc' = "idle"
    /\ cur' = NoTask
    /\ UNCHANGED <<regVars, life, tasks, taskStatus, taskOf, results, workerIDs,
                   call, picked, gathered, failed, cleaner>>

\* The first of the pairs with the fewest tasks.
LeastLoaded(counts) ==
    CHOOSE i \in DOMAIN counts :
        \A j \in DOMAIN counts :
            /\ counts[i] <= counts[j]
            /\ j < i => counts[i] < counts[j]

\* selectTEEPair under c.regionLock, and the new WorkerIDs of the task.
SelectTEEPair ==
    /\ up
    /\ proc = "select"
    /\ regPc = "idle"
    /\ teePairs[RegionOf[cur]] # <<>>
    /\ picked' = LeastLoaded(taskCount[RegionOf[cur]])
    /\ taskCount' = [taskCount EXCEPT ![RegionOf[cur]][picked'] = @ + 1]
    /\ workerIDs' = [workerIDs EXCEPT ![cur] = teePairs[RegionOf[cur]][picked']]
    /\ proc' = "gather"
    /\ UNCHANGED <<workers, teePairs, savedWorkers, savedRegions, savedChannels,
                   regPc, regID, regPair, muStuck, up,
                   life, tasks, taskStatus, taskOf, results, call,
                   cur, gathered, failed, cleaner>>

\* "no TEE pairs available for region"
NoTEEPair ==
    /\ up
    /\ proc = "select"
    /\ regPc = "idle"
    /\ teePairs[RegionOf[cur]] = <<>>
    /\ failed' = TRUE
    /\ proc' = "finish"
    /\ UNCHANGED <<regVars, life, tasks, taskStatus, taskOf, results, workerIDs,
                   call, cur, picked, gathered, cleaner>>

\* Mutant: an early return past the decrement.
AfterHandleTaskLeaks == "finish"

\* handleTask returns to handleRegionalTask or to executeTask.
AfterHandleTask == IF picked = 0 THEN "finish" ELSE "release"

\* handleTask looks the workers up and counts them.
GatherWorkers ==
    /\ MuFree
    /\ proc = "gather"
    /\ LET found == {i \in DOMAIN workerIDs[cur] : workerIDs[cur][i] \in Registered}
       IN  IF Cardinality(found) < MinWorkers
           THEN failed' = TRUE /\ proc' = AfterHandleTask /\ UNCHANGED gathered
           ELSE gathered' = found /\ proc' = "distribute" /\ UNCHANGED failed
    /\ UNCHANGED <<regVars, life, tasks, taskStatus, taskOf, results, workerIDs,
                   call, cur, picked, cleaner>>

\* The channels between the workers that were found.
WorkerChannels ==
    {ChannelKey(workerIDs[cur][ij[1]], workerIDs[cur][ij[2]]) :
        ij \in {p \in gathered \X gathered : p[1] < p[2]}}

\* The view, the channels between the workers, and the messages to them.  The
\* workers RegisterWorker makes have no message queue, so SendMessage takes its
\* default branch: the task is distributed only when there is nobody to send
\* it to.  The store answers ctx.Err() once Stop has cancelled c.ctx; a store
\* fault may come after some of the channels are saved.
Distribute ==
    /\ up
    /\ proc = "distribute"
    /\ \E fault \in {FALSE, StoreFaults} :
         /\ failed' = (fault \/ gathered # {})
         /\ IF life = "open" /\ NotFoundRecognised
            THEN IF fault
                 THEN \E saved \in SUBSET WorkerChannels :
                          savedChannels' = savedChannels \cup saved
                 ELSE savedChannels' = savedChannels \cup WorkerChannels
            ELSE UNCHANGED savedChannels
    /\ gathered' = {}
    /\ proc' = AfterHandleTask
    /\ UNCHANGED <<workers, teePairs, taskCount, savedWorkers, savedRegions,
                   regPc, regID, regPair, muStuck, up,
                   life, tasks, taskStatus, taskOf, results, workerIDs, call,
                   cur, picked, cleaner>>

\* atomic.AddInt32(&pair.TaskCount, -1)
ReleasePair ==
    /\ up
    /\ proc = "release"
    /\ taskCount' = [taskCount EXCEPT ![RegionOf[cur]][picked] = @ - 1]
    /\ picked' = 0
    /\ proc' = "finish"
    /\ UNCHANGED <<workers, teePairs, savedWorkers, savedRegions, savedChannels,
                   regPc, regID, regPair, muStuck, up,
                   life, tasks, taskStatus, taskOf, results, workerIDs, call,
                   cur, gathered, failed, cleaner>>

\* Mutant: an error returns before the status is updated.
FinishTaskEarlyReturn ==
    /\ MuFree
    /\ proc = "finish"
    /\ taskStatus' = IF failed \/ taskStatus[IDOf[cur]] = "none" THEN taskStatus
                     ELSE [taskStatus EXCEPT ![IDOf[cur]] = Complete]
    /\ proc' = "idle"
    /\ cur' = NoTask
    /\ failed' = FALSE
    /\ UNCHANGED <<regVars, life, tasks, taskOf, results, workerIDs, call,
                   picked, gathered, cleaner>>

\* Mutant: a failed task goes back to Pending for a retry.
FinishTaskRetry ==
    /\ MuFree
    /\ proc = "finish"
    /\ taskStatus' = IF taskStatus[IDOf[cur]] = "none" THEN taskStatus
                     ELSE [taskStatus EXCEPT ![IDOf[cur]] =
                             IF failed THEN Pending ELSE Complete]
    /\ proc' = "idle"
    /\ cur' = NoTask
    /\ failed' = FALSE
    /\ UNCHANGED <<regVars, life, tasks, taskOf, results, workerIDs, call,
                   picked, gathered, cleaner>>

\* The final status of whatever entry the ID has now.
FinishTask ==
    /\ MuFree
    /\ proc = "finish"
    /\ taskStatus' = IF taskStatus[IDOf[cur]] = "none" THEN taskStatus
                     ELSE [taskStatus EXCEPT ![IDOf[cur]] =
                             IF failed THEN Failed ELSE Complete]
    /\ proc' = "idle"
    /\ cur' = NoTask
    /\ failed' = FALSE
    /\ UNCHANGED <<regVars, life, tasks, taskOf, results, workerIDs, call,
                   picked, gathered, cleaner>>

\* case <-c.done
ProcessorExits ==
    /\ up
    /\ proc = "idle"
    /\ life # "open"
    /\ proc' = "exited"
    /\ UNCHANGED <<regVars, life, tasks, taskStatus, taskOf, results, workerIDs,
                   call, cur, picked, gathered, failed, cleaner>>

-----------------------------------------------------------------------------
(* The other callers and goroutines.                                       *)

\* Mutant: whatever is not running is swept, pending entries included.
CleanupTasksSweeping(old) ==
    /\ MuFree
    /\ cleaner
    /\ old # {} /\ \A id \in old : taskStatus[id] \notin {"none", Running}
    /\ taskStatus' = [id \in TaskIDs |-> IF id \in old THEN "none" ELSE taskStatus[id]]
    /\ taskOf' = [id \in TaskIDs |-> IF id \in old THEN NoTask ELSE taskOf[id]]
    /\ results' = [id \in TaskIDs |-> IF id \in old THEN <<>> ELSE results[id]]
    /\ UNCHANGED <<regVars, life, tasks, workerIDs, call, procVars, cleaner>>

\* Mutant: failed entries are never removed.
CleanupTasksKeepFailed(old) ==
    /\ MuFree
    /\ cleaner
    /\ old # {} /\ \A id \in old : taskStatus[id] = Complete
    /\ taskStatus' = [id \in TaskIDs |-> IF id \in old THEN "none" ELSE taskStatus[id]]
    /\ taskOf' = [id \in TaskIDs |-> IF id \in old THEN NoTask ELSE taskOf[id]]
    /\ results' = [id \in TaskIDs |-> IF id \in old THEN <<>> ELSE results[id]]
    /\ UNCHANGED <<regVars, life, tasks, workerIDs, call, procVars, cleaner>>

\* A tick of cleanupTasks removes the finished entries that are old enough.
CleanupTasks(old) ==
    /\ MuFree
    /\ cleaner
    /\ old # {} /\ \A id \in old : taskStatus[id] \in Finished
    /\ taskStatus' = [id \in TaskIDs |-> IF id \in old THEN "none" ELSE taskStatus[id]]
    /\ taskOf' = [id \in TaskIDs |-> IF id \in old THEN NoTask ELSE taskOf[id]]
    /\ results' = [id \in TaskIDs |-> IF id \in old THEN <<>> ELSE results[id]]
    /\ UNCHANGED <<regVars, life, tasks, workerIDs, call, procVars, cleaner>>

CleanerExits ==
    /\ up
    /\ cleaner
    /\ life # "open"
    /\ cleaner' = FALSE
    /\ UNCHANGED <<regVars, life, tasks, taskStatus, taskOf, results, workerIDs,
                   call, procVars>>

\* The result is appended whoever sent it, and counted against WorkerIDs.
SetTaskResult(id, w) ==
    /\ MuFree
    /\ taskStatus[id] = Running
    /\ Len(results[id]) < MaxResults
    /\ results' = [results EXCEPT ![id] = Append(@, w)]
    /\ taskStatus' = IF Len(results'[id]) = Len(workerIDs[taskOf[id]])
                     THEN [taskStatus EXCEPT ![id] = Complete]
                     ELSE taskStatus
    /\ UNCHANGED <<regVars, life, tasks, taskOf, workerIDs, call, procVars, cleaner>>

\* Active workers not heard of for WorkerTimeout are in error, and every task
\* that names one of them is Failed, whatever its status was.
CheckWorkerHealth(silent) ==
    /\ HealthMonitor
    /\ MuFree
    /\ life = "open"
    /\ silent # {} /\ \A w \in silent : workers[w] = "active"
    /\ workers' = [w \in Workers |-> IF w \in silent THEN "error" ELSE workers[w]]
    /\ taskStatus' = [id \in TaskIDs |->
                        IF /\ taskStatus[id] # "none"
                           /\ Range(workerIDs[taskOf[id]]) \cap silent # {}
                        THEN Failed ELSE taskStatus[id]]
    /\ UNCHANGED <<teePairs, taskCount, savedWorkers, savedRegions, savedChannels,
                   regPc, regID, regPair, muStuck, up,
                   life, tasks, taskOf, results, workerIDs, call, procVars, cleaner>>

\* Stop: cancel and close(c.done) come before the lock ...
Stop ==
    /\ up
    /\ life = "open"
    /\ life' = "closing"
    /\ UNCHANGED <<regVars, tasks, taskStatus, taskOf, results, workerIDs, call,
                   procVars, cleaner>>

\* ... then Running entries become Failed and the workers are stopped, which
\* panics if there is one (see UnregisterWorker).
StopSweep ==
    /\ MuFree
    /\ life = "closing"
    /\ life' = "closed"
    /\ taskStatus' = [id \in TaskIDs |->
                        IF taskStatus[id] = Running THEN Failed ELSE taskStatus[id]]
    /\ \/ Registered = {} /\ UNCHANGED <<workers, up>>
       \/ \E w \in Registered : workers' = [workers EXCEPT ![w] = "idle"] /\ up' = FALSE
    /\ UNCHANGED <<teePairs, taskCount, savedWorkers, savedRegions,
                   savedChannels, regPc, regID, regPair, muStuck,
                   tasks, taskOf, results, workerIDs, call, procVars, cleaner>>

\* A second Stop closes c.done again and panics.
StopAgain ==
    /\ up
    /\ life # "open"
    /\ up' = FALSE
    /\ UNCHANGED <<workers, teePairs, taskCount, savedWorkers, savedRegions,
                   savedChannels, regPc, regID, regPair, muStuck, taskVars>>

\* A new process has no task: the queue and the map live in memory only.
Restart ==
    /\ RegRestart
    /\ life' = "open"
    /\ tasks' = <<>>
    /\ taskStatus' = [id \in TaskIDs |-> "none"]
    /\ taskOf' = [id \in TaskIDs |-> NoTask]
    /\ results' = [id \in TaskIDs |-> <<>>]
    /\ workerIDs' = WorkerIDsOf
    /\ call' = [t \in Tasks |-> "idle"]
    /\ proc' = "off" /\ cur' = NoTask /\ picked' = 0
    /\ gathered' = {} /\ failed' = FALSE
    /\ cleaner' = FALSE

ProcessorStep ==
    \/ Receive \/ BeginTask \/ SkipTask \/ SelectTEEPair \/ NoTEEPair
    \/ GatherWorkers \/ Distribute \/ ReleasePair \/ FinishTask \/ ProcessorExits

Next ==
    \/ RegStep /\ UNCHANGED taskVars
    \/ Start
    \/ \E t \in Tasks : SubmitTask(t)
    \/ \E t \in Tasks : SubmitSend(t)
    \/ \E t \in Tasks : SubmitCancel(t)
    \/ \E t \in Tasks : SubmitTimeout(t)
    \/ ProcessorStep
    \/ \E old \in SUBSET TaskIDs : CleanupTasks(old)
    \/ CleanerExits
    \/ \E id \in TaskIDs, w \in Workers : SetTaskResult(id, w)
    \/ \E silent \in SUBSET Workers : CheckWorkerHealth(silent)
    \/ Stop
    \/ StopSweep
    \/ StopAgain
    \/ Restart

Spec == Init /\ [][Next]_vars

\* What the Go scheduler, mutexes without starvation and store calls that
\* return give: Start runs once, a caller past admission reaches its select,
\* the goroutines and a RegisterRegion inside its lock go on, and a ticker that
\* fires for ever ends up removing each entry that stays finished.
Fairness ==
    /\ WF_vars(Start)
    /\ \A t \in Tasks : WF_vars(SubmitSend(t))
    /\ WF_vars(ProcessorStep)
    /\ WF_vars((RegionChannel \/ RegionChannelFails \/ RegionAppend) /\ UNCHANGED taskVars)
    /\ \A id \in TaskIDs : WF_vars(\E old \in SUBSET TaskIDs : id \in old /\ CleanupTasks(old))
    /\ WF_vars(StopSweep)

FairSpec == Spec /\ Fairness

-----------------------------------------------------------------------------
(* Properties.                                                             *)

\* No two Task objects carry the same ID.
DistinctIDs == \A t, u \in Tasks : IDOf[t] = IDOf[u] => t = u

\* The tasks that have been admitted and not yet been begun.
Waiting ==
    {t \in Tasks : \/ call[t] = "sending"
                   \/ t \in Range(tasks)
                   \/ proc = "received" /\ cur = t}

\* An entry is Running only while processTasks executes a task with its ID: no
\* interleaving with SetTaskResult, Stop, the monitor, cleanup or a second
\* submission under the same ID leaves an entry Running that nobody will end.
RunningIsExecuting ==
    \A id \in TaskIDs :
        taskStatus[id] = Running => proc \in Executing /\ IDOf[cur] = id

\* The TaskCount of a TEE pair is 1 while processTasks uses the pair and 0
\* otherwise: every error path of handleRegionalTask gives the load back.
PairLoad ==
    \A r \in Regions : \A i \in DOMAIN taskCount[r] :
        taskCount[r][i] =
            IF picked = i /\ cur # NoTask /\ RegionOf[cur] = r THEN 1 ELSE 0

\* With distinct IDs, a task that was admitted and not begun has its own entry
\* and it is Pending: cleanup, SetTaskResult and Stop leave it alone.  So
\* processTasks never takes the branch for a vanished entry.
WaitingIsPending ==
    \A t \in Waiting : taskStatus[IDOf[t]] = Pending /\ taskOf[IDOf[t]] = t

\* With distinct IDs a submission that was admitted finds room in the channel
\* at once: the entries bound the queue, and the submission timeout never fires.
SubmissionNeverBlocks ==
    \A t \in Tasks : call[t] = "sending" => Len(tasks) < MaxTasks

\* With distinct IDs an admitted task waits for its turn undisturbed: SubmitTask
\* gets it into the channel, and nothing touches its entry before processTasks.
AdmittedWaits == WaitingIsPending /\ SubmissionNeverBlocks

\* With distinct IDs a finished task stays finished until it is removed: it is
\* never queued or run again.
FinishedStaysFinished ==
    [][\A id \in TaskIDs : taskStatus[id] \in Finished =>
          taskStatus'[id] \in Finished \cup {"none"}]_vars

\* Every place an admitted task takes among the MaxTasks is given back, unless
\* the coordinator is stopped or dies: the task is sent, received, executed,
\* finished and cleaned up, whatever fails on the way.
SlotReturned ==
    \A id \in TaskIDs :
        (taskStatus[id] # "none") ~> (taskStatus[id] = "none" \/ life # "open" \/ ~up)

-----------------------------------------------------------------------------
(* With distinct IDs the coordinator is a bounded FIFO job server.  A task *)
(* in the processor's hands is still waiting until it is marked Running.   *)

JQWaiting == IF proc = "received" THEN <<cur>> \o tasks ELSE tasks

JQRunning == IF proc \in Executing THEN cur ELSE NoTask

JQEnded ==
    {t \in Tasks : /\ call[t] = "accepted"
                   /\ t \notin Range(tasks)
                   /\ cur # t}

JQ == INSTANCE JobQueue WITH Jobs <- Tasks, NoJob <- NoTask, Capacity <- MaxTasks,
        waiting <- JQWaiting, running <- JQRunning, ended <- JQEnded

\* Every behaviour of the coordinator is a behaviour of the job server: tasks
\* run one at a time, in the order SubmitTask accepted them, each exactly once,
\* and at most MaxTasks wait.
JobServer == JQ!JobSpec

-----------------------------------------------------------------------------
(* What comments in the code say, and the code does not do.                *)

\* SetTaskResult: "Check if we have all results": a task that has them all is
\* Complete, and stays so until it is cleaned up.
CompleteStaysComplete ==
    [][\A id \in TaskIDs : taskStatus[id] = Complete =>
          taskStatus'[id] \in {Complete, "none"}]_vars

\* Stop: "Stop all workers ... Log error but continue cleanup": stopping the
\* workers does not end the process.
StopSurvives == [][life = "closing" /\ life' = "closed" => up']_vars
=============================================================================
