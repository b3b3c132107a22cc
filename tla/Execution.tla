------------------------------ MODULE Execution ------------------------------
(***************************************************************************)
(* Running an action on both TEEs of a pair: the VM's ExecuteInRegion and  *)
(* health check (vm/core.go) through node clients (compute/client.go), the *)
(* TEE client's ExecuteAction (tee/client.go) and the validator's          *)
(* ValidateRegionalAction (vm/tee_validator.go) straight to the nodes, and *)
(* the compute nodes with their task slots (compute/service.go).           *)
(*                                                                         *)
(* A call has a leg for each TEE.  A leg is an Execute at a node: it takes *)
(* a slot, runs the TEE (the Rust controller, which answers with any hash  *)
(* or an error), submits a task to the node's coordinator and gives the    *)
(* slot back.  NewComputeNode never starts that coordinator, so of its     *)
(* task table only the count matters: nothing is taken out.  A node client *)
(* runs the TEE through its own bridge first and compares.  A node may     *)
(* restart, and an answer may be lost.                                     *)
(***************************************************************************)
EXTENDS Naturals, FiniteSets

CONSTANTS
    Calls,         \* goroutines that call
    Nodes,         \* compute nodes
    RegionOf,      \* each node's region
    Hashes,        \* state hashes the TEEs can answer
    MaxSlots,      \* Config.MaxTasks of a node
    CoordCapacity  \* MaxTasks of a node's coordinator

VARIABLES
    call,          \* each call: its kind, nodes, region and outcome
    leg,           \* each call's execution at the node of each TEE
    activeTasks,   \* ComputeNode.activeTasks
    submitted,     \* tasks in the table of each node's coordinator
    served,        \* history: results each node has returned since it started
    pairGood       \* the success rate last reported for the pair is 1.0

execVars == <<call, leg, activeTasks, submitted, served, pairGood>>

TEEs == {"sgx", "sev"}
HealthRegion == "health-check"
NoHash == "none"

\* A node's capacities are not negative, and no region has the name that health
\* checks ask for.
ASSUME ExecutionAssumption ==
    /\ IsFiniteSet(Calls)
    /\ MaxSlots \in Nat /\ CoordCapacity \in Nat
    /\ NoHash \notin Hashes
    /\ \A n \in Nodes : RegionOf[n] # HealthRegion

Kinds == {"vm", "direct", "health"}
LegPcs == {"none", "local", "ask", "run", "coordinate", "ok", "failed"}

NoLeg == [pc |-> "none", local |-> NoHash, hash |-> NoHash]

ExecInit ==
    /\ \E n \in Nodes :
        call = [c \in Calls |-> [kind |-> "vm", node |-> [t \in TEEs |-> n],
                                 region |-> RegionOf[n], outcome |-> "idle"]]
    /\ leg = [c \in Calls |-> [t \in TEEs |-> NoLeg]]
    /\ activeTasks = [n \in Nodes |-> 0]
    /\ submitted = [n \in Nodes |-> 0]
    /\ served = [n \in Nodes |-> 0]
    /\ pairGood = TRUE

Running(c) == call[c].outcome = "running"

-----------------------------------------------------------------------------
(* Callers *)

Begin(c, kind, node, region, legs) ==
    /\ ~Running(c)
    /\ call' = [call EXCEPT ![c] = [kind |-> kind, node |-> node, region |-> region,
                                    outcome |-> "running"]]
    /\ leg' = [leg EXCEPT ![c] = legs]
    /\ UNCHANGED <<activeTasks, submitted, served, pairGood>>

At(pc) == [NoLeg EXCEPT !.pc = pc]

\* ExecuteInRegion, past its checks of the region's health, the selected pair and
\* the clients: both legs start at once.
ExecuteInRegion(c, node, region) ==
    Begin(c, "vm", node, region, [t \in TEEs |-> At("local")])

\* ExecuteAction and ValidateRegionalAction: SGX first, then SEV.  ExecuteAction
\* asks its default nodes for a region it does not know, or for none.
ExecuteAction(c, node, region) ==
    Begin(c, "direct", node, region, [t \in TEEs |-> IF t = "sgx" THEN At("ask") ELSE NoLeg])

\* checkTEEHealth, on the client of one TEE.
CheckTEEHealth(c, node) ==
    Begin(c, "health", node, HealthRegion, [t \in TEEs |-> IF t = "sgx" THEN At("local") ELSE NoLeg])

\* The second leg of a direct call.
AskSEV(c) ==
    /\ Running(c) /\ call[c].kind = "direct"
    /\ leg[c]["sgx"].pc = "ok" /\ leg[c]["sev"].pc = "none"
    /\ leg' = [leg EXCEPT ![c]["sev"] = At("ask")]
    /\ UNCHANGED <<call, activeTasks, submitted, served, pairGood>>

\* Mutant: only the SEV leg's result is looked at.
VerdictSEVOnly(c) ==
    IF leg[c]["sev"].pc = "failed" THEN "error" ELSE "ok"

\* What a call whose legs have ended returns.  VerifyAttestationPair, which runs
\* before the hashes are compared, compares nothing.
Verdict(c) ==
    IF \E t \in TEEs : leg[c][t].pc = "failed" THEN "error"
    ELSE IF call[c].kind = "health" \/ leg[c]["sgx"].hash = leg[c]["sev"].hash THEN "ok"
    ELSE "mismatch"

\* Mutant: the call waits for two successes.
ReturnOnSuccess(c) ==
    /\ Running(c)
    /\ \A t \in TEEs : leg[c][t].pc = "ok"
    /\ call' = [call EXCEPT ![c].outcome = Verdict(c)]
    /\ UNCHANGED <<leg, activeTasks, submitted, served, pairGood>>

\* The call returns.  ExecuteInRegion reports on the pair: an error, a success, or
\* a failed verification, which leaves the success rate alone.
Return(c) ==
    /\ Running(c)
    /\ CASE call[c].kind = "vm" -> \A t \in TEEs : leg[c][t].pc \in {"ok", "failed"}
         [] call[c].kind = "direct" -> leg[c]["sgx"].pc = "failed" \/ leg[c]["sev"].pc \in {"ok", "failed"}
         [] OTHER -> leg[c]["sgx"].pc \in {"ok", "failed"}
    /\ call' = [call EXCEPT ![c].outcome = Verdict(c)]
    /\ leg' = IF Verdict(c) = "ok" THEN leg ELSE [leg EXCEPT ![c] = [t \in TEEs |-> NoLeg]]
    /\ pairGood' = IF call[c].kind = "vm" /\ Verdict(c) # "mismatch" THEN Verdict(c) = "ok" ELSE pairGood
    /\ UNCHANGED <<activeTasks, submitted, served>>

-----------------------------------------------------------------------------
(* Legs *)

EndLeg(c, t, pc) ==
    leg' = [leg EXCEPT ![c][t] = IF pc = "failed" THEN At(pc) ELSE [@ EXCEPT !.pc = pc]]

\* NodeClient.Execute runs the TEE through its own bridge.
RunLocal(c, t) ==
    /\ leg[c][t].pc = "local"
    /\ \/ EndLeg(c, t, "failed")
       \/ \E h \in Hashes : leg' = [leg EXCEPT ![c][t] = [At("ask") EXCEPT !.local = h]]
    /\ UNCHANGED <<call, activeTasks, submitted, served, pairGood>>

\* ComputeNode.Execute admits a request for its own region when a slot is free.
Admits(n, region) == region = RegionOf[n] /\ activeTasks[n] < MaxSlots

Ask(c, t) ==
    LET n == call[c].node[t]
    IN  /\ leg[c][t].pc = "ask"
        /\ IF Admits(n, call[c].region)
           THEN /\ activeTasks' = [activeTasks EXCEPT ![n] = @ + 1]
                /\ EndLeg(c, t, "run")
           ELSE /\ EndLeg(c, t, "failed")
                /\ UNCHANGED activeTasks
        /\ UNCHANGED <<call, submitted, served, pairGood>>

ReleaseTaskSlot(n) == activeTasks' = [activeTasks EXCEPT ![n] = @ - 1]

\* Mutant: an error of the TEE leaves the slot taken.
RunTEELeaking(c, t) ==
    /\ leg[c][t].pc = "run"
    /\ \/ EndLeg(c, t, "failed")
       \/ \E h \in Hashes :
            leg' = [leg EXCEPT ![c][t].hash = h, ![c][t].pc = "coordinate"]
    /\ UNCHANGED <<call, activeTasks, submitted, served, pairGood>>

RunTEE(c, t) ==
    /\ leg[c][t].pc = "run"
    /\ \/ EndLeg(c, t, "failed") /\ ReleaseTaskSlot(call[c].node[t])
       \/ \E h \in Hashes :
            /\ leg' = [leg EXCEPT ![c][t].hash = h, ![c][t].pc = "coordinate"]
            /\ UNCHANGED activeTasks
    /\ UNCHANGED <<call, submitted, served, pairGood>>

\* SubmitTask refuses when the coordinator's table is full.
TableFull(n) == submitted[n] >= CoordCapacity

\* SubmitTask, the channel's one message, and the answer.  SubmitTask fails when
\* the table is full, and may when the caller's context has ended; the answer may
\* be lost; a node client then compares its own result with the node's, and a VM
\* leg that succeeds reports the pair good.  The slot is given back on every path.
Coordinate(c, t) ==
    LET n == call[c].node[t]
        l == leg[c][t]
    IN  /\ l.pc = "coordinate"
        /\ ReleaseTaskSlot(n)
        /\ \/ EndLeg(c, t, "failed") /\ UNCHANGED <<submitted, served, pairGood>>
           \/ /\ ~TableFull(n)
              /\ submitted' = [submitted EXCEPT ![n] = IF @ < CoordCapacity THEN @ + 1 ELSE @]
              /\ served' = [served EXCEPT ![n] = @ + 1]
              /\ \/ EndLeg(c, t, "failed") /\ UNCHANGED pairGood
                 \/ /\ EndLeg(c, t, IF l.local \in {NoHash, l.hash} THEN "ok" ELSE "failed")
                    /\ pairGood' = (pairGood \/ (call[c].kind = "vm" /\ l.local = l.hash))
        /\ UNCHANGED call

\* A node restarts: the executions it had are lost.
RestartNode(n) ==
    /\ submitted[n] > 0 \/ activeTasks[n] > 0
    /\ activeTasks' = [activeTasks EXCEPT ![n] = 0]
    /\ submitted' = [submitted EXCEPT ![n] = 0]
    /\ served' = [served EXCEPT ![n] = 0]
    /\ leg' = [c \in Calls |-> [t \in TEEs |->
                IF leg[c][t].pc \in {"run", "coordinate"} /\ call[c].node[t] = n
                THEN At("failed") ELSE leg[c][t]]]
    /\ UNCHANGED <<call, pairGood>>

LegStep(c, t) == RunLocal(c, t) \/ Ask(c, t) \/ RunTEE(c, t) \/ Coordinate(c, t)

CallStep(c) == AskSEV(c) \/ Return(c) \/ \E t \in TEEs : LegStep(c, t)

ExecNext ==
    \/ \E c \in Calls :
        \/ \E node \in [TEEs -> Nodes] :
            \/ \E n \in Nodes : ExecuteInRegion(c, node, RegionOf[n])
            \/ \E r \in {RegionOf[n] : n \in Nodes} \cup {""} : ExecuteAction(c, node, r)
            \/ CheckTEEHealth(c, node)
        \/ CallStep(c)
    \/ \E n \in Nodes : RestartNode(n)

\* A goroutine whose legs have ended goes on.  Nothing bounds the wait for a
\* controller process or a node: neither the bridge nor the calls set a deadline.
ExecFairness == \A c \in Calls : WF_execVars(AskSEV(c) \/ Return(c))

ExecSpec == ExecInit /\ [][ExecNext]_execVars /\ ExecFairness

-----------------------------------------------------------------------------
\* A node's activeTasks counts exactly the executions it is busy with, on every
\* path through Execute and across restarts, so no slot is lost.
SlotsAccounted ==
    \A n \in Nodes :
        activeTasks[n] = Cardinality({x \in Calls \X TEEs :
            leg[x[1]][x[2]].pc \in {"run", "coordinate"} /\ call[x[1]].node[x[2]] = n})

\* A call of ExecuteInRegion or ExecuteAction succeeds only when both TEEs have
\* answered with one hash, and with the hashes of the node clients' own runs.
AgreedExecution ==
    \A c \in Calls :
        call[c].outcome = "ok" /\ call[c].kind # "health" =>
            \E h \in Hashes : \A t \in TEEs :
                leg[c][t].pc = "ok" /\ leg[c][t].hash = h /\ leg[c][t].local \in {NoHash, h}

\* Between two restarts a node returns no more results than its coordinator's
\* table holds, however many slots are free: nothing empties the table.
NodeWearsOut == \A n \in Nodes : served[n] <= CoordCapacity

\* No health check succeeds: checkTEEHealth asks for the region "health-check",
\* which a node of any other region refuses.  MonitorTEEHealth therefore reports
\* every pair unhealthy.
HealthCheckFails ==
    \A c \in Calls : call[c].kind = "health" => call[c].outcome # "ok"

\* The outcome of a call is what its two legs justify: ExecuteInRegion and
\* ExecuteAction succeed on agreement only, and a health check never.
OutcomesJustified == AgreedExecution /\ HealthCheckFails

\* A node's two bounds: acquireTaskSlot's count is exact at all times, while the
\* places in its coordinator's table are used up.
NodesBounded == SlotsAccounted /\ NodeWearsOut

\* A leg of the call waits for a TEE or a node.
Waiting(c) == \E t \in TEEs : leg[c][t].pc \in {"local", "ask", "run", "coordinate"}

\* A call waits for its own two TEEs and nothing else: unless one of them hangs for
\* ever it returns, whatever fails, restarts, or hangs in the other calls.
CallEnds == \A c \in Calls : ~<>[]Waiting(c) => (Running(c) ~> ~Running(c))
=============================================================================
