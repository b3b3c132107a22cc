------------------------------- MODULE MCFleet -------------------------------
(***************************************************************************)
(* The balancer, execution on TEE pairs, the TEE executor, TEE pairs and   *)
(* the validators, for TLC.  They share no state, so a behaviour exercises *)
(* one of them: part says which.                                           *)
(***************************************************************************)
EXTENDS Balancer, Execution, TEEExecutor, Pairs, Validation, TLC

VARIABLE part

mcVars == <<balancerVars, execVars, executorVars, pairVars, subject, part>>

MCRegionOf == [n \in Nodes |-> "east"]

MCListed == [id : {"p", "q"}, ends : {<<"a", "b">>, <<"a", "c">>}]

Only(p) ==
    /\ part = p
    /\ UNCHANGED <<part, subject>>
    /\ p \notin {"selection", "balancer"} => UNCHANGED balancerVars
    /\ p \notin {"execution", "parallel"} => UNCHANGED execVars
    /\ p # "executor" => UNCHANGED executorVars
    /\ p # "pairs" => UNCHANGED managerVars
    /\ p # "pairMetrics" => UNCHANGED counts
    /\ p # "pairList" => UNCHANGED listVars

\* The calls that run ExecuteInRegion after the step, and what the TEEs have
\* answered by then to any call.
InRegion == {c \in Calls : call'[c].kind = "vm" /\ call'[c].outcome = "running"}
Answered == UNION {{leg'[c][t].local, leg'[c][t].hash} : c \in Calls, t \in TEEs} \ {NoHash}

FirstHash == CHOOSE h \in Hashes : TRUE

\* Execution has two parts.  In "execution" one call at a time runs
\* ExecuteInRegion, beside calls of the other kinds, and the TEEs answer with any
\* hash.  In "parallel" two calls of any kind meet at a node, whose slots and
\* table do not depend on what they answer: they answer with one hash.
\* The part "validation" is functions of an input: every input is an initial
\* state without a step.
MCInit ==
    /\ part \in {"selection", "balancer", "execution", "parallel", "executor",
                 "pairs", "pairMetrics", "pairList", "validation"}
    /\ BalancerInit /\ ExecInit /\ PairInit
    /\ ExecutorInit /\ (part # "executor" => clock = 0)
    /\ IF part = "validation" THEN ValidationInit ELSE subject = [sort |-> "none"]

MCNext ==
    \/ Only("selection") /\ PairNext
    \/ Only("balancer") /\ RegionNext
    \/ Only("execution") /\ ExecNext /\ Cardinality(InRegion) <= 1
    \/ Only("parallel") /\ ExecNext /\ Answered \subseteq {FirstHash}
    \/ Only("executor") /\ ExecutorNext
    \/ Only("pairs") /\ ManagerNext
    \/ Only("pairMetrics") /\ MetricsNext
    \/ Only("pairList") /\ ListNext

\* Only Execution has fairness; no call is running in an initial state.
MCSpec == MCInit /\ [][MCNext]_mcVars /\ ExecFairness
=============================================================================
