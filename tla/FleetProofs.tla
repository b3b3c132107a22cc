---------------------------- MODULE FleetProofs -----------------------------
(***************************************************************************)
(* The fleet of TEE pairs, for any number of callers, nodes, hashes, pairs *)
(* and regions and any capacities: execution on the two TEEs of a pair and *)
(* on the TEE executor, the selections of the balancer, and the books on   *)
(* the pairs.                                                              *)
(***************************************************************************)
EXTENDS Execution, TEEExecutor, Balancer, Pairs, Induction

(* Agreement of the two TEEs, exact slots, nodes that wear out and health checks that fail; at the
   end the TEE executor: fresh proofs and retries, for any window *)

LegRecord == [pc : LegPcs, local : Hashes \cup {NoHash}, hash : Hashes \cup {NoHash}]

AskedRegions == {RegionOf[n] : n \in Nodes} \cup {HealthRegion, ""}

Outcomes == {"idle", "running", "ok", "error", "mismatch"}

CallRecord == [kind : Kinds, node : [TEEs -> Nodes], region : AskedRegions, outcome : Outcomes]

RecordsOK ==
    /\ call \in [Calls -> CallRecord]
    /\ leg \in [Calls -> [TEEs -> LegRecord]]

\* A leg that is past its TEE has a hash, and one that succeeded agrees with the
\* client's own run.
LegOK(l) ==
    /\ l.pc \in {"coordinate", "ok"} => l.hash \in Hashes
    /\ l.pc = "ok" => l.local \in {NoHash, l.hash}

BusyPcs == {"run", "coordinate"}

\* A direct call asks its second node after the first has answered; a health check
\* never gets past its node's admission; a call that has returned is busy nowhere
\* and, if it succeeded, has two legs that agree.
CallOK(c) ==
    /\ call[c].kind = "direct" /\ leg[c]["sev"].pc # "none" => leg[c]["sgx"].pc = "ok"
    /\ call[c].kind = "health" =>
         /\ call[c].region = HealthRegion /\ call[c].outcome # "ok"
         /\ leg[c]["sev"].pc = "none" /\ leg[c]["sgx"].pc \notin BusyPcs \cup {"ok"}
    /\ ~Running(c) => \A t \in TEEs : leg[c][t].pc \notin BusyPcs \cup {"local", "ask"}
    /\ call[c].outcome = "ok" => \A t \in TEEs : leg[c][t].pc = "ok"
    /\ call[c].outcome = "ok" => leg[c]["sgx"].hash = leg[c]["sev"].hash

CallsInv == RecordsOK /\ \A c \in Calls : CallOK(c) /\ \A t \in TEEs : LegOK(leg[c][t])

-----------------------------------------------------------------------------
\* A step of a leg replaces the record of that leg; how, in the terms of CallOK.
LegChange(c, t, new) ==
    /\ leg' = [leg EXCEPT ![c][t] = new]
    /\ new \in LegRecord /\ LegOK(new)
    /\ leg[c][t].pc \in BusyPcs \cup {"local", "ask"}
    /\ new.pc \in BusyPcs \cup {"ask", "ok", "failed"}
    /\ leg[c][t].pc \in BusyPcs /\ new.pc \notin BusyPcs =>
         activeTasks' = [activeTasks EXCEPT ![call[c].node[t]] = @ - 1]
    /\ leg[c][t].pc \in BusyPcs /\ new.pc \in BusyPcs => UNCHANGED activeTasks
    /\ leg[c][t].pc \notin BusyPcs /\ new.pc \in BusyPcs =>
         /\ activeTasks' = [activeTasks EXCEPT ![call[c].node[t]] = @ + 1]
         /\ call[c].region = RegionOf[call[c].node[t]]
    /\ leg[c][t].pc \notin BusyPcs /\ new.pc \notin BusyPcs =>
         UNCHANGED activeTasks /\ new.pc # "ok"

LEMMA LegStepChange ==
  ASSUME CallsInv, NEW c \in Calls, NEW t \in TEEs, LegStep(c, t)
  PROVE  call' = call /\ \E new \in LegRecord : LegChange(c, t, new)
<1>0. leg \in [Calls -> [TEEs -> LegRecord]] /\ leg[c][t] \in LegRecord /\ LegOK(leg[c][t])
  BY Zenon DEF CallsInv, RecordsOK
<1> DEFINE l == leg[c][t]
           failed == At("failed")
<1>1. failed \in LegRecord /\ failed.pc = "failed" /\ LegOK(failed)
  BY Zenon DEF At, NoLeg, LegRecord, LegPcs, LegOK
<1>2. CASE RunLocal(c, t)
  <2>1. CASE EndLeg(c, t, "failed")
    <3>1. leg' = [leg EXCEPT ![c][t] = failed]
      BY <2>1, Zenon DEF EndLeg
    <3> QED
      BY <1>1, <1>2, <3>1, Zenon DEF RunLocal, LegChange, BusyPcs
  <2>2. ASSUME NEW h \in Hashes, leg' = [leg EXCEPT ![c][t] = [At("ask") EXCEPT !.local = h]]
        PROVE  \E new \in LegRecord : LegChange(c, t, new)
    <3> DEFINE new == [At("ask") EXCEPT !.local = h]
    <3>1. new \in LegRecord /\ new.pc = "ask" /\ LegOK(new)
      BY Zenon DEF At, NoLeg, LegRecord, LegPcs, LegOK
    <3> HIDE DEF new
    <3>2. leg' = [leg EXCEPT ![c][t] = new]
      BY <2>2, Zenon DEF new
    <3> QED
      BY <1>2, <3>1, <3>2, Zenon DEF RunLocal, LegChange, BusyPcs
  <2> QED
    BY <1>2, <2>1, <2>2, Zenon DEF RunLocal
<1>3. CASE Ask(c, t)
  <2>1. l.pc = "ask" /\ call' = call
    BY <1>3, Zenon DEF Ask
  <2>2. CASE Admits(call[c].node[t], call[c].region)
    <3> DEFINE new == [l EXCEPT !.pc = "run"]
    <3>1. new \in LegRecord /\ new.pc = "run" /\ LegOK(new)
      BY <1>0, Zenon DEF LegRecord, LegPcs, LegOK
    <3> HIDE DEF new
    <3>2. leg' = [leg EXCEPT ![c][t] = new]
      BY <1>3, <2>2, <1>0, Zenon DEF Ask, EndLeg, new
    <3>3. /\ activeTasks' = [activeTasks EXCEPT ![call[c].node[t]] = @ + 1]
          /\ call[c].region = RegionOf[call[c].node[t]]
      BY <1>3, <2>2, Zenon DEF Ask, Admits
    <3> QED
      BY <2>1, <3>1, <3>2, <3>3, Zenon DEF LegChange, BusyPcs
  <2>3. CASE ~Admits(call[c].node[t], call[c].region)
    <3>1. EndLeg(c, t, "failed") /\ activeTasks' = activeTasks
      BY <1>3, <2>3, Zenon DEF Ask
    <3>2. leg' = [leg EXCEPT ![c][t] = failed]
      BY <3>1, Zenon DEF EndLeg
    <3> QED
      BY <1>1, <2>1, <3>1, <3>2, Zenon DEF LegChange, BusyPcs
  <2> QED
    BY <2>1, <2>2, <2>3, Zenon
<1>4. CASE RunTEE(c, t)
  <2>1. l.pc = "run" /\ call' = call
    BY <1>4, Zenon DEF RunTEE
  <2>2. CASE EndLeg(c, t, "failed") /\ ReleaseTaskSlot(call[c].node[t])
    <3>1. leg' = [leg EXCEPT ![c][t] = failed]
      BY <2>2, Zenon DEF EndLeg
    <3> QED
      BY <1>1, <2>1, <2>2, <3>1, Zenon DEF LegChange, BusyPcs, ReleaseTaskSlot
  <2>3. ASSUME NEW h \in Hashes, UNCHANGED activeTasks,
               leg' = [leg EXCEPT ![c][t].hash = h, ![c][t].pc = "coordinate"]
        PROVE  \E new \in LegRecord : LegChange(c, t, new)
    <3> DEFINE new == [l EXCEPT !.hash = h, !.pc = "coordinate"]
    <3>1. new \in LegRecord /\ new.pc = "coordinate" /\ LegOK(new)
      BY <1>0, Zenon DEF LegRecord, LegPcs, LegOK
    <3> HIDE DEF new
    <3>2. leg' = [leg EXCEPT ![c][t] = new]
      BY <1>0, <2>3, Zenon DEF new
    <3> QED
      BY <2>1, <2>3, <3>1, <3>2, Zenon DEF LegChange, BusyPcs
  <2> QED
    BY <1>4, <2>1, <2>2, <2>3, Zenon DEF RunTEE
<1>5. CASE Coordinate(c, t)
  <2>1. l.pc = "coordinate" /\ call' = call /\ ReleaseTaskSlot(call[c].node[t])
    BY <1>5, Zenon DEF Coordinate
  <2>2. CASE EndLeg(c, t, "failed")
    <3>1. leg' = [leg EXCEPT ![c][t] = failed]
      BY <2>2, Zenon DEF EndLeg
    <3> QED
      BY <1>1, <2>1, <3>1, Zenon DEF LegChange, BusyPcs, ReleaseTaskSlot
  <2>3. CASE EndLeg(c, t, "ok") /\ l.local \in {NoHash, l.hash}
    <3> DEFINE new == [l EXCEPT !.pc = "ok"]
    <3>1. new \in LegRecord /\ new.pc = "ok" /\ LegOK(new)
      BY <1>0, <2>1, <2>3, Zenon DEF LegRecord, LegPcs, LegOK
    <3> HIDE DEF new
    <3>2. leg' = [leg EXCEPT ![c][t] = new]
      BY <1>0, <2>3, Zenon DEF EndLeg, new
    <3> QED
      BY <2>1, <3>1, <3>2, Zenon DEF LegChange, BusyPcs, ReleaseTaskSlot
  <2>4. EndLeg(c, t, "failed") \/ (EndLeg(c, t, "ok") /\ l.local \in {NoHash, l.hash})
    BY <1>5, Zenon DEF Coordinate
  <2> QED
    BY <2>1, <2>2, <2>3, <2>4, Zenon
<1> QED
  BY <1>2, <1>3, <1>4, <1>5, Zenon DEF LegStep

\* A call as it begins: running, and its legs are before their nodes.
BeginChange(c, kind, legs) ==
    /\ ~Running(c)
    /\ UNCHANGED <<activeTasks, submitted, served>>
    /\ leg' = [leg EXCEPT ![c] = legs]
    /\ legs \in [TEEs -> LegRecord]
    /\ \A t \in TEEs : legs[t].pc \in {"none", "local", "ask"}
    /\ kind \in {"direct", "health"} => legs["sev"].pc = "none"
    /\ \E region \in AskedRegions, node \in [TEEs -> Nodes] :
         /\ call' = [call EXCEPT ![c] = [kind |-> kind, node |-> node, region |-> region,
                                         outcome |-> "running"]]
         /\ kind = "health" => region = HealthRegion

LEMMA CallBegins ==
  ASSUME NEW c \in Calls, NEW node \in [TEEs -> Nodes],
         \/ \E n \in Nodes : ExecuteInRegion(c, node, RegionOf[n])
         \/ \E r \in {RegionOf[n] : n \in Nodes} \cup {""} : ExecuteAction(c, node, r)
         \/ CheckTEEHealth(c, node)
  PROVE  \E kind \in Kinds, legs \in [TEEs -> LegRecord] : BeginChange(c, kind, legs)
<1>1. ASSUME NEW pc \in {"none", "local", "ask"}
      PROVE  At(pc) \in LegRecord /\ At(pc).pc = pc
  BY Zenon DEF At, NoLeg, LegRecord, LegPcs
<1>2. NoLeg \in LegRecord /\ NoLeg.pc = "none"
  BY Zenon DEF NoLeg, LegRecord, LegPcs
<1>3. ASSUME NEW n \in Nodes, ExecuteInRegion(c, node, RegionOf[n])
      PROVE  \E kind \in Kinds, legs \in [TEEs -> LegRecord] : BeginChange(c, kind, legs)
  <2> DEFINE legs == [t \in TEEs |-> At("local")]
  <2>1. legs \in [TEEs -> LegRecord] /\ \A t \in TEEs : legs[t].pc = "local"
    BY <1>1, Zenon
  <2>2. /\ ~Running(c) /\ leg' = [leg EXCEPT ![c] = legs]
        /\ call' = [call EXCEPT ![c] = [kind |-> "vm", node |-> node, region |-> RegionOf[n],
                                        outcome |-> "running"]]
        /\ UNCHANGED <<activeTasks, submitted, served>>
    BY <1>3, Zenon DEF ExecuteInRegion, Begin
  <2> HIDE DEF legs
  <2>3. BeginChange(c, "vm", legs)
    BY <2>1, <2>2, Zenon DEF BeginChange, AskedRegions
  <2> QED
    BY <2>1, <2>3, Zenon DEF Kinds
<1>4. ASSUME NEW r \in {RegionOf[n] : n \in Nodes} \cup {""}, ExecuteAction(c, node, r)
      PROVE  \E kind \in Kinds, legs \in [TEEs -> LegRecord] : BeginChange(c, kind, legs)
  <2> DEFINE legs == [t \in TEEs |-> IF t = "sgx" THEN At("ask") ELSE NoLeg]
  <2>1. /\ legs \in [TEEs -> LegRecord] /\ \A t \in TEEs : legs[t].pc \in {"none", "ask"}
        /\ legs["sev"].pc = "none"
    BY <1>1, <1>2, Zenon DEF TEEs
  <2>2. /\ ~Running(c) /\ leg' = [leg EXCEPT ![c] = legs]
        /\ call' = [call EXCEPT ![c] = [kind |-> "direct", node |-> node, region |-> r,
                                        outcome |-> "running"]]
        /\ UNCHANGED <<activeTasks, submitted, served>>
    BY <1>4, Zenon DEF ExecuteAction, Begin
  <2> HIDE DEF legs
  <2>3. BeginChange(c, "direct", legs)
    BY <2>1, <2>2, Zenon DEF BeginChange, AskedRegions
  <2> QED
    BY <2>1, <2>3, Zenon DEF Kinds
<1>5. ASSUME CheckTEEHealth(c, node)
      PROVE  \E kind \in Kinds, legs \in [TEEs -> LegRecord] : BeginChange(c, kind, legs)
  <2> DEFINE legs == [t \in TEEs |-> IF t = "sgx" THEN At("local") ELSE NoLeg]
  <2>1. /\ legs \in [TEEs -> LegRecord] /\ \A t \in TEEs : legs[t].pc \in {"none", "local"}
        /\ legs["sev"].pc = "none"
    BY <1>1, <1>2, Zenon DEF TEEs
  <2>2. /\ ~Running(c) /\ leg' = [leg EXCEPT ![c] = legs]
        /\ call' = [call EXCEPT ![c] = [kind |-> "health", node |-> node, region |-> HealthRegion,
                                        outcome |-> "running"]]
        /\ UNCHANGED <<activeTasks, submitted, served>>
    BY <1>5, Zenon DEF CheckTEEHealth, Begin
  <2> HIDE DEF legs
  <2>3. BeginChange(c, "health", legs)
    BY <2>1, <2>2, Zenon DEF BeginChange, AskedRegions
  <2> QED
    BY <2>1, <2>3, Zenon DEF Kinds
<1> QED
  BY <1>3, <1>4, <1>5, Zenon

-----------------------------------------------------------------------------
\* What a call owes is kept by each step.
LEMMA CallsInvInit == ExecInit => CallsInv
<1> SUFFICES ASSUME ExecInit PROVE CallsInv
  BY Zenon
<1>1. PICK n \in Nodes :
        call = [c \in Calls |-> [kind |-> "vm", node |-> [t \in TEEs |-> n],
                                 region |-> RegionOf[n], outcome |-> "idle"]]
  BY Zenon DEF ExecInit
<1>2. leg = [c \in Calls |-> [t \in TEEs |-> NoLeg]]
  BY Zenon DEF ExecInit
<1>3. NoLeg \in LegRecord /\ NoLeg.pc = "none" /\ LegOK(NoLeg)
  BY Zenon DEF NoLeg, LegRecord, LegPcs, LegOK
<1>4. RecordsOK
  BY <1>1, <1>2, <1>3, Zenon DEF RecordsOK, CallRecord, AskedRegions, Outcomes, Kinds
<1>5. \A c \in Calls : \A t \in TEEs : leg[c][t] = NoLeg
  BY <1>2, Zenon
<1>6. \A c \in Calls : call[c].kind = "vm" /\ call[c].outcome = "idle"
  BY <1>1, Zenon
<1> QED
  BY <1>3, <1>4, <1>5, <1>6, Zenon DEF CallsInv, CallOK, BusyPcs, TEEs

LEMMA LegKeepsCalls ==
  ASSUME CallsInv, NEW c \in Calls, NEW t \in TEEs, LegStep(c, t) PROVE CallsInv'
<1>0. /\ call \in [Calls -> CallRecord] /\ leg \in [Calls -> [TEEs -> LegRecord]]
      /\ \A d \in Calls : CallOK(d) /\ \A u \in TEEs : LegOK(leg[d][u])
  BY Zenon DEF CallsInv, RecordsOK
<1>1. call' = call /\ \E new \in LegRecord : LegChange(c, t, new)
  BY LegStepChange, Zenon
<1>2. PICK new \in LegRecord : LegChange(c, t, new)
  BY <1>1, Zenon
<1>3. leg' = [leg EXCEPT ![c][t] = new] /\ LegOK(new)
  BY <1>2, Zenon DEF LegChange
<1>4. RecordsOK'
  BY <1>0, <1>1, <1>3, Zenon DEF RecordsOK
<1>5. leg'[c][t] = new /\ \A d \in Calls, u \in TEEs : d # c \/ u # t => leg'[d][u] = leg[d][u]
  BY <1>0, <1>3, Zenon
<1>6. \A d \in Calls : \A u \in TEEs : LegOK(leg'[d][u])
  BY <1>0, <1>3, <1>5, Zenon
<1>7. ASSUME NEW d \in Calls, d # c PROVE CallOK(d)'
  BY <1>0, <1>1, <1>5, <1>7 DEF CallOK, Running, TEEs
<1>8. CallOK(c)'
  <2>0. /\ leg[c][t].pc \in BusyPcs \cup {"local", "ask"}
        /\ new.pc \in BusyPcs \cup {"ask", "ok", "failed"}
        /\ leg[c][t].pc \notin BusyPcs /\ new.pc \in BusyPcs => call[c].region = RegionOf[call[c].node[t]]
        /\ leg[c][t].pc \notin BusyPcs /\ new.pc \notin BusyPcs => new.pc # "ok"
    BY <1>2, Zenon DEF LegChange
  <2>1. Running(c) /\ Running(c)' /\ call[c].outcome = "running"
    BY <1>0, <1>1, <2>0, Zenon DEF CallOK, Running
  <2>2. CASE call[c].kind = "direct"
    <3>1. t = "sev" => leg'[c]["sgx"].pc = "ok"
      BY <1>0, <1>5, <2>0, <2>2, Zenon DEF CallOK, TEEs, BusyPcs
    <3>2. t = "sgx" => leg'[c]["sev"].pc = "none"
      BY <1>0, <1>5, <2>0, <2>2, Zenon DEF CallOK, TEEs, BusyPcs
    <3> QED
      BY <1>1, <2>1, <2>2, <3>1, <3>2, Zenon DEF CallOK, TEEs, Running
  <2>3. CASE call[c].kind = "health"
    <3>1. /\ call[c].region = HealthRegion /\ leg[c]["sev"].pc = "none"
          /\ leg[c]["sgx"].pc \notin BusyPcs \cup {"ok"}
      BY <1>0, <2>3, Zenon DEF CallOK
    <3>2. t = "sgx"
      BY <2>0, <3>1, Zenon DEF TEEs, BusyPcs
    <3>3. call[c].node[t] \in Nodes
      BY <1>0, Zenon DEF CallRecord
    <3>4. new.pc \notin BusyPcs \cup {"ok"}
      BY <2>0, <3>1, <3>2, <3>3, ExecutionAssumption, Zenon
    <3>5. leg'[c]["sgx"].pc \notin BusyPcs \cup {"ok"} /\ leg'[c]["sev"].pc = "none"
      BY <1>5, <3>1, <3>2, <3>4, Zenon DEF TEEs
    <3> QED
      BY <1>1, <2>1, <2>3, <3>1, <3>5, Zenon DEF CallOK, Running
  <2>4. CASE call[c].kind \notin {"direct", "health"}
    BY <1>1, <2>1, <2>4, Zenon DEF CallOK, Running
  <2> QED
    BY <2>2, <2>3, <2>4, Zenon
<1> QED
  BY <1>4, <1>6, <1>7, <1>8, Zenon DEF CallsInv

LEMMA BeginKeepsCalls ==
  ASSUME CallsInv, NEW c \in Calls, NEW kind \in Kinds, NEW legs \in [TEEs -> LegRecord],
         BeginChange(c, kind, legs)
  PROVE  CallsInv'
<1>0. /\ call \in [Calls -> CallRecord] /\ leg \in [Calls -> [TEEs -> LegRecord]]
      /\ \A d \in Calls : CallOK(d) /\ \A u \in TEEs : LegOK(leg[d][u])
  BY Zenon DEF CallsInv, RecordsOK
<1>1. PICK region \in AskedRegions, node \in [TEEs -> Nodes] :
         /\ call' = [call EXCEPT ![c] = [kind |-> kind, node |-> node, region |-> region,
                                         outcome |-> "running"]]
         /\ kind = "health" => region = HealthRegion
  BY Zenon DEF BeginChange
<1>2. /\ leg' = [leg EXCEPT ![c] = legs]
      /\ \A t \in TEEs : legs[t].pc \in {"none", "local", "ask"}
      /\ kind \in {"direct", "health"} => legs["sev"].pc = "none"
  BY Zenon DEF BeginChange
<1> DEFINE new == [kind |-> kind, node |-> node, region |-> region, outcome |-> "running"]
<1>3. /\ new \in CallRecord /\ new.kind = kind /\ new.outcome = "running"
      /\ kind = "health" => new.region = HealthRegion
      /\ call' = [call EXCEPT ![c] = new]
  BY <1>1, Zenon DEF CallRecord, Outcomes
<1> HIDE DEF new
<1>4. call' \in [Calls -> CallRecord] /\ leg' \in [Calls -> [TEEs -> LegRecord]]
  BY <1>0, <1>2, <1>3, Zenon
<1>5. call'[c] = new /\ leg'[c] = legs /\ \A d \in Calls : d # c => call'[d] = call[d] /\ leg'[d] = leg[d]
  BY <1>0, <1>2, <1>3, Zenon
<1>6. \A d \in Calls : \A u \in TEEs : LegOK(leg'[d][u])
  BY <1>0, <1>2, <1>5, Zenon DEF LegOK
<1>7. ASSUME NEW d \in Calls, d # c PROVE CallOK(d)'
  BY <1>0, <1>5, <1>7 DEF CallOK, Running
<1>8. CallOK(c)'
  <2>1. /\ call'[c].kind = kind /\ call'[c].outcome = "running"
        /\ kind = "health" => call'[c].region = HealthRegion
    BY <1>3, <1>5, Zenon
  <2> QED
    BY <1>2, <1>5, <2>1, Zenon DEF CallOK, Running, BusyPcs, TEEs
<1> QED
  BY <1>4, <1>6, <1>7, <1>8, Zenon DEF CallsInv, RecordsOK

LEMMA AskKeepsCalls ==
  ASSUME CallsInv, NEW c \in Calls, AskSEV(c) PROVE CallsInv'
<1>0. /\ call \in [Calls -> CallRecord] /\ leg \in [Calls -> [TEEs -> LegRecord]]
      /\ \A d \in Calls : CallOK(d) /\ \A u \in TEEs : LegOK(leg[d][u])
  BY Zenon DEF CallsInv, RecordsOK
<1>1. At("ask") \in LegRecord /\ At("ask").pc = "ask" /\ LegOK(At("ask"))
  BY Zenon DEF At, NoLeg, LegRecord, LegPcs, LegOK
<1>2. /\ call' = call /\ leg' = [leg EXCEPT ![c]["sev"] = At("ask")]
      /\ Running(c) /\ call[c].kind = "direct" /\ leg[c]["sgx"].pc = "ok"
  BY Zenon DEF AskSEV
<1>3. /\ leg' \in [Calls -> [TEEs -> LegRecord]]
      /\ leg'[c]["sev"] = At("ask") /\ leg'[c]["sgx"] = leg[c]["sgx"]
      /\ \A d \in Calls : d # c => leg'[d] = leg[d]
  BY <1>0, <1>1, <1>2, Zenon DEF TEEs
<1>4. \A d \in Calls : \A u \in TEEs : LegOK(leg'[d][u])
  BY <1>0, <1>1, <1>3, Zenon DEF TEEs
<1>5. ASSUME NEW d \in Calls, d # c PROVE CallOK(d)'
  BY <1>0, <1>2, <1>3, <1>5, Zenon DEF CallOK, Running
<1>6. CallOK(c)'
  BY <1>2, <1>3, Zenon DEF CallOK, Running
<1> QED
  BY <1>0, <1>2, <1>3, <1>4, <1>5, <1>6, Zenon DEF CallsInv, RecordsOK

\* The legs of a call that can return have ended.
LEMMA ReturnEnded ==
  ASSUME CallsInv, NEW c \in Calls, Return(c)
  PROVE  /\ \A t \in TEEs : leg[c][t].pc \notin BusyPcs \cup {"local", "ask"}
         /\ Verdict(c) = "ok" =>
              /\ call[c].kind # "health" /\ leg[c]["sgx"].hash = leg[c]["sev"].hash
              /\ \A t \in TEEs : leg[c][t].pc = "ok"
         /\ Verdict(c) \in {"ok", "error", "mismatch"}
<1>0. call[c] \in CallRecord /\ CallOK(c)
  BY Zenon DEF CallsInv, RecordsOK
<1>1. CASE call[c].kind = "vm"
  <2>1. \A t \in TEEs : leg[c][t].pc \in {"ok", "failed"}
    BY <1>1, Zenon DEF Return
  <2> QED
    BY <1>1, <2>1, Zenon DEF Verdict, BusyPcs, TEEs
<1>2. CASE call[c].kind = "direct"
  <2>1. leg[c]["sgx"].pc = "failed" \/ leg[c]["sev"].pc \in {"ok", "failed"}
    BY <1>2, Zenon DEF Return
  <2>2. leg[c]["sev"].pc # "none" => leg[c]["sgx"].pc = "ok"
    BY <1>0, <1>2, Zenon DEF CallOK
  <2> QED
    BY <1>2, <2>1, <2>2, Zenon DEF Verdict, BusyPcs, TEEs
<1>3. CASE call[c].kind = "health"
  <2>1. leg[c]["sgx"].pc \in {"ok", "failed"}
    BY <1>3, Zenon DEF Return
  <2>2. leg[c]["sev"].pc = "none" /\ leg[c]["sgx"].pc # "ok"
    BY <1>0, <1>3, Zenon DEF CallOK
  <2> QED
    BY <1>3, <2>1, <2>2, Zenon DEF Verdict, BusyPcs, TEEs
<1> QED
  BY <1>0, <1>1, <1>2, <1>3, Zenon DEF CallRecord, Kinds

LEMMA ReturnKeepsCalls ==
  ASSUME CallsInv, NEW c \in Calls, Return(c) PROVE CallsInv'
<1>0. /\ call \in [Calls -> CallRecord] /\ leg \in [Calls -> [TEEs -> LegRecord]]
      /\ \A d \in Calls : CallOK(d) /\ \A u \in TEEs : LegOK(leg[d][u])
  BY Zenon DEF CallsInv, RecordsOK
<1>1. NoLeg \in LegRecord /\ NoLeg.pc = "none" /\ LegOK(NoLeg)
  BY Zenon DEF NoLeg, LegRecord, LegPcs, LegOK
<1> DEFINE none == [t \in TEEs |-> NoLeg]
<1>2. /\ call' = [call EXCEPT ![c].outcome = Verdict(c)]
      /\ leg' = IF Verdict(c) = "ok" THEN leg ELSE [leg EXCEPT ![c] = none]
  BY Zenon DEF Return
<1>3. none \in [TEEs -> LegRecord] /\ \A t \in TEEs : none[t] = NoLeg
  BY <1>1, Zenon
<1> HIDE DEF none
<1>4. /\ Verdict(c) = "ok" =>
           /\ call[c].kind # "health" /\ leg[c]["sgx"].hash = leg[c]["sev"].hash
           /\ \A t \in TEEs : leg[c][t].pc = "ok"
      /\ Verdict(c) \in {"ok", "error", "mismatch"}
  BY ReturnEnded, Zenon
<1>5. call'[c] = [call[c] EXCEPT !.outcome = Verdict(c)] /\ \A d \in Calls : d # c => call'[d] = call[d]
  BY <1>0, <1>2, Zenon
<1>6. /\ call'[c] \in CallRecord /\ call'[c].outcome = Verdict(c)
      /\ call'[c].kind = call[c].kind /\ call'[c].region = call[c].region
  <2> DEFINE r == call[c]
             v == Verdict(c)
  <2>1. r \in CallRecord /\ v \in Outcomes /\ call'[c] = [r EXCEPT !.outcome = v]
    BY <1>0, <1>4, <1>5, Zenon DEF Outcomes
  <2> HIDE DEF r, v
  <2>2. /\ call'[c] \in CallRecord /\ call'[c].outcome = v
        /\ call'[c].kind = r.kind /\ call'[c].region = r.region
    BY <2>1, Zenon DEF CallRecord
  <2> QED
    BY <2>2, Zenon DEF r, v
<1>7. call' \in [Calls -> CallRecord] /\ leg' \in [Calls -> [TEEs -> LegRecord]]
  <2>1. call' \in [Calls -> CallRecord]
    BY <1>0, <1>2, <1>5, <1>6, Zenon
  <2> QED
    BY <1>0, <1>2, <1>3, <2>1, Zenon
<1>8. /\ \A d \in Calls : d # c => leg'[d] = leg[d]
      /\ leg'[c] = IF Verdict(c) = "ok" THEN leg[c] ELSE none
  BY <1>0, <1>2, Zenon
<1>9. \A d \in Calls : \A u \in TEEs : LegOK(leg'[d][u])
  BY <1>0, <1>1, <1>3, <1>8, Zenon
<1>10. ASSUME NEW d \in Calls, d # c PROVE CallOK(d)'
  BY <1>0, <1>5, <1>8, <1>10 DEF CallOK, Running
<1>11. CallOK(c)'
  <2>1. CASE Verdict(c) = "ok"
    BY <1>4, <1>6, <1>8, <2>1, Zenon DEF CallOK, Running, BusyPcs, TEEs
  <2>2. CASE Verdict(c) # "ok"
    <3>1. \A t \in TEEs : leg'[c][t].pc = "none"
      BY <1>1, <1>3, <1>8, <2>2, Zenon
    <3>2. call[c].kind = "health" => call[c].region = HealthRegion
      BY <1>0, Zenon DEF CallOK
    <3> QED
      BY <1>6, <2>2, <3>1, <3>2, Zenon DEF CallOK, Running, BusyPcs, TEEs
  <2> QED
    BY <2>1, <2>2, Zenon
<1> QED
  BY <1>7, <1>9, <1>10, <1>11, Zenon DEF CallsInv, RecordsOK

LEMMA RestartKeepsCalls ==
  ASSUME CallsInv, NEW n \in Nodes, RestartNode(n) PROVE CallsInv'
<1>0. /\ call \in [Calls -> CallRecord] /\ leg \in [Calls -> [TEEs -> LegRecord]]
      /\ \A d \in Calls : CallOK(d) /\ \A u \in TEEs : LegOK(leg[d][u])
  BY Zenon DEF CallsInv, RecordsOK
<1> DEFINE failed == At("failed")
<1>1. failed \in LegRecord /\ failed.pc = "failed" /\ LegOK(failed)
  BY Zenon DEF At, NoLeg, LegRecord, LegPcs, LegOK
<1>2. /\ call' = call
      /\ leg' = [d \in Calls |-> [t \in TEEs |->
                  IF leg[d][t].pc \in BusyPcs /\ call[d].node[t] = n THEN failed ELSE leg[d][t]]]
  BY Zenon DEF RestartNode, BusyPcs
<1> HIDE DEF failed
<1>3. leg' \in [Calls -> [TEEs -> LegRecord]]
  BY <1>0, <1>1, <1>2, Zenon
<1>4. ASSUME NEW d \in Calls, NEW t \in TEEs
      PROVE  leg'[d][t] = leg[d][t] \/ (leg[d][t].pc \in BusyPcs /\ leg'[d][t] = failed)
  BY <1>2, Zenon
<1>5. \A d \in Calls : \A u \in TEEs : LegOK(leg'[d][u])
  BY <1>0, <1>1, <1>4, Zenon
<1>6. ASSUME NEW d \in Calls PROVE CallOK(d)'
  <2>1. CallOK(d) /\ call'[d] = call[d]
    BY <1>0, <1>2, Zenon
  <2>2. /\ leg'[d]["sgx"] = leg[d]["sgx"] \/ (leg[d]["sgx"].pc \in BusyPcs /\ leg'[d]["sgx"].pc = "failed")
        /\ leg'[d]["sev"] = leg[d]["sev"] \/ (leg[d]["sev"].pc \in BusyPcs /\ leg'[d]["sev"].pc = "failed")
    BY <1>1, <1>4, Zenon DEF TEEs
  <2> QED
    BY <2>1, <2>2, Zenon DEF CallOK, Running, BusyPcs, TEEs
<1> QED
  BY <1>0, <1>2, <1>3, <1>5, <1>6, Zenon DEF CallsInv, RecordsOK

LEMMA CallsInvStep == CallsInv /\ [ExecNext]_execVars => CallsInv'
<1> SUFFICES ASSUME CallsInv, [ExecNext]_execVars PROVE CallsInv'
  BY Zenon
<1>1. ASSUME NEW c \in Calls, NEW node \in [TEEs -> Nodes],
             \/ \E n \in Nodes : ExecuteInRegion(c, node, RegionOf[n])
             \/ \E r \in {RegionOf[n] : n \in Nodes} \cup {""} : ExecuteAction(c, node, r)
             \/ CheckTEEHealth(c, node)
      PROVE  CallsInv'
  BY <1>1, CallBegins, BeginKeepsCalls, Zenon
<1>2. ASSUME NEW c \in Calls, CallStep(c) PROVE CallsInv'
  BY <1>2, AskKeepsCalls, ReturnKeepsCalls, LegKeepsCalls, Zenon DEF CallStep
<1>3. ASSUME NEW n \in Nodes, RestartNode(n) PROVE CallsInv'
  BY <1>3, RestartKeepsCalls, Zenon
<1>4. CASE UNCHANGED execVars
  BY <1>4, Zenon DEF execVars, CallsInv, RecordsOK, CallOK, LegOK, Running
<1> QED
  BY <1>1, <1>2, <1>3, <1>4, Zenon DEF ExecNext

LEMMA CallsInvariant == ExecSpec => []CallsInv
  BY CallsInvInit, CallsInvStep, PTL DEF ExecSpec

\* A call that succeeded got one hash from both TEEs, and the node clients' own runs
\* gave the same: no interleaving of the two legs, failure or restart of a node lets
\* ExecuteInRegion or ExecuteAction accept anything else.
THEOREM ExecutionAgrees == ExecSpec => []AgreedExecution
<1>1. CallsInv => AgreedExecution
  <2> SUFFICES ASSUME CallsInv, NEW c \in Calls, call[c].outcome = "ok"
               PROVE  \E h \in Hashes : \A t \in TEEs :
                        leg[c][t].pc = "ok" /\ leg[c][t].hash = h /\ leg[c][t].local \in {NoHash, h}
    BY Zenon DEF AgreedExecution
  <2>1. /\ \A t \in TEEs : leg[c][t].pc = "ok" /\ LegOK(leg[c][t])
        /\ leg[c]["sgx"].hash = leg[c]["sev"].hash
    BY Zenon DEF CallsInv, CallOK
  <2> QED
    BY <2>1, Zenon DEF LegOK, TEEs
<1> QED
  BY CallsInvariant, <1>1, PTL

\* checkTEEHealth never succeeds on a node whose region is not named like the one it
\* asks for: the node refuses the request before it runs anything.
THEOREM HealthChecksFail == ExecSpec => []HealthCheckFails
<1>1. CallsInv => HealthCheckFails
  BY Zenon DEF CallsInv, CallOK, HealthCheckFails
<1> QED
  BY CallsInvariant, <1>1, PTL

\* For any nodes, regions and calls, ExecuteInRegion and ExecuteAction succeed only
\* on the agreement of both TEEs, and checkTEEHealth not at all.
THEOREM CallsJustified == ExecSpec => []OutcomesJustified
  BY ExecutionAgrees, HealthChecksFail, PTL DEF OutcomesJustified

-----------------------------------------------------------------------------
\* Results and the coordinator's table.
TableInv ==
    /\ submitted \in [Nodes -> Nat] /\ served \in [Nodes -> Nat]
    /\ \A n \in Nodes : served[n] <= submitted[n] /\ submitted[n] <= CoordCapacity

\* A compute node returns at most as many results as its coordinator's table has
\* places, since a task that was submitted stays in it: the coordinator is not started.
THEOREM NodesWearOut == ExecSpec => []NodeWearsOut
<1>0. CoordCapacity \in Nat
  BY ExecutionAssumption, Zenon
<1>1. ExecInit => TableInv
  BY <1>0 DEF ExecInit, TableInv
<1>2. TableInv /\ CallsInv /\ [ExecNext]_execVars => TableInv'
  <2> SUFFICES ASSUME TableInv, CallsInv, [ExecNext]_execVars PROVE TableInv'
    BY Zenon
  <2>1. ASSUME NEW c \in Calls, NEW t \in TEEs, Coordinate(c, t) PROVE TableInv'
    <3> DEFINE n == call[c].node[t]
    <3>1. n \in Nodes
      BY Zenon DEF CallsInv, RecordsOK, CallRecord
    <3> HIDE DEF n
    <3>2. \/ UNCHANGED <<submitted, served>>
          \/ /\ ~(submitted[n] >= CoordCapacity)
             /\ submitted' = [submitted EXCEPT ![n] = IF @ < CoordCapacity THEN @ + 1 ELSE @]
             /\ served' = [served EXCEPT ![n] = @ + 1]
      BY <2>1, Zenon DEF Coordinate, TableFull, n
    <3> QED
      BY <1>0, <3>1, <3>2 DEF TableInv
  <2>2. ASSUME NEW n \in Nodes, RestartNode(n) PROVE TableInv'
    BY <1>0, <2>2 DEF RestartNode, TableInv
  <2>3. CASE UNCHANGED <<submitted, served>>
    BY <2>3, Zenon DEF TableInv
  <2>4. ASSUME NEW c \in Calls, NEW t \in TEEs, LegStep(c, t) PROVE TableInv'
    <3>1. Coordinate(c, t) \/ UNCHANGED <<submitted, served>>
      BY <2>4, Zenon DEF LegStep, RunLocal, Ask, RunTEE
    <3> QED
      BY <2>1, <2>3, <3>1, Zenon
  <2>5. ASSUME NEW c \in Calls, AskSEV(c) \/ Return(c) PROVE TableInv'
    <3>1. UNCHANGED <<submitted, served>>
      BY <2>5, Zenon DEF AskSEV, Return
    <3> QED
      BY <2>3, <3>1, Zenon
  <2>6. ASSUME NEW c \in Calls, NEW node \in [TEEs -> Nodes],
               \/ \E r : ExecuteInRegion(c, node, r) \/ ExecuteAction(c, node, r)
               \/ CheckTEEHealth(c, node)
        PROVE  TableInv'
    <3>1. UNCHANGED <<submitted, served>>
      BY <2>6, Zenon DEF ExecuteInRegion, ExecuteAction, CheckTEEHealth, Begin
    <3> QED
      BY <2>3, <3>1, Zenon
  <2>7. CASE UNCHANGED execVars
    BY <2>3, <2>7, Zenon DEF execVars
  <2> QED
    BY <2>2, <2>4, <2>5, <2>6, <2>7, Zenon DEF ExecNext, CallStep
<1>3. TableInv => NodeWearsOut
  BY <1>0 DEF TableInv, NodeWearsOut
<1> QED
  BY CallsInvariant, <1>1, <1>2, <1>3, PTL DEF ExecSpec

-----------------------------------------------------------------------------
(* Slots: the executions a node is busy with change one at a time.         *)
InLeg(x, n) == leg[x[1]][x[2]].pc \in BusyPcs /\ call[x[1]].node[x[2]] = n
Busy(n) == {x \in Calls \X TEEs : InLeg(x, n)}

SlotsInv == activeTasks \in [Nodes -> Int] /\ \A n \in Nodes : activeTasks[n] = Cardinality(Busy(n))

LEMMA BusyFinite == ASSUME NEW n PROVE IsFiniteSet(Busy(n)) /\ Cardinality(Busy(n)) \in Nat
<1>1. IsFiniteSet(TEEs)
  <2>1. IsFiniteSet({"sgx"}) /\ IsFiniteSet({"sev"})
    BY FS_Singleton, Zenon
  <2>2. IsFiniteSet({"sgx"} \cup {"sev"})
    BY <2>1, FS_Union, Zenon
  <2>3. TEEs = {"sgx"} \cup {"sev"}
    BY Zenon DEF TEEs
  <2> QED
    BY <2>2, <2>3, Zenon
<1>2. IsFiniteSet(Calls \X TEEs)
  BY <1>1, ExecutionAssumption, FS_Product, Zenon
<1>3. Busy(n) \in SUBSET (Calls \X TEEs)
  BY Zenon DEF Busy
<1> QED
  BY <1>2, <1>3, FS_Subset, FS_CardinalityType, Zenon

\* A step that makes no leg busy and no busy leg idle leaves the slots alone.
LEMMA SlotsKept ==
  ASSUME SlotsInv, UNCHANGED activeTasks,
         \A c \in Calls, t \in TEEs :
            /\ leg'[c][t].pc \in BusyPcs <=> leg[c][t].pc \in BusyPcs
            /\ leg[c][t].pc \in BusyPcs => call'[c].node = call[c].node
  PROVE  SlotsInv'
<1>1. ASSUME NEW n \in Nodes PROVE Busy(n)' = Busy(n)
  <2>1. ASSUME NEW x \in Calls \X TEEs PROVE InLeg(x, n)' <=> InLeg(x, n)
    <3>1. x[1] \in Calls /\ x[2] \in TEEs
      BY Zenon
    <3> QED
      BY <3>1, Zenon DEF InLeg
  <2> QED
    BY <2>1, Zenon DEF Busy
<1> QED
  BY <1>1, Zenon DEF SlotsInv

LEMMA LegKeepsSlots ==
  ASSUME CallsInv, SlotsInv, NEW c \in Calls, NEW t \in TEEs, LegStep(c, t) PROVE SlotsInv'
<1>0. call \in [Calls -> CallRecord] /\ leg \in [Calls -> [TEEs -> LegRecord]]
  BY Zenon DEF CallsInv, RecordsOK
<1>1. call' = call /\ \E new \in LegRecord : LegChange(c, t, new)
  BY LegStepChange, Zenon
<1>2. PICK new \in LegRecord : LegChange(c, t, new)
  BY <1>1, Zenon
<1>3. leg' = [leg EXCEPT ![c][t] = new]
  BY <1>2, Zenon DEF LegChange
<1>4. leg'[c][t] = new /\ \A d \in Calls, u \in TEEs : d # c \/ u # t => leg'[d][u] = leg[d][u]
  BY <1>0, <1>3, Zenon
<1>m. PICK m \in Nodes : m = call[c].node[t]
  BY <1>0, Zenon DEF CallRecord
<1>5. PICK x \in Calls \X TEEs : x = <<c, t>>
  BY Zenon
<1>6. ASSUME NEW n \in Nodes, NEW y \in Calls \X TEEs, y # x PROVE InLeg(y, n)' <=> InLeg(y, n)
  <2>1. y[1] \in Calls /\ y[2] \in TEEs /\ (y[1] # c \/ y[2] # t)
    BY <1>5, <1>6
  <2> QED
    BY <1>1, <1>4, <2>1, Zenon DEF InLeg
<1>7. ASSUME NEW n \in Nodes
      PROVE  /\ InLeg(x, n)' <=> new.pc \in BusyPcs /\ m = n
             /\ InLeg(x, n) <=> leg[c][t].pc \in BusyPcs /\ m = n
  BY <1>1, <1>4, <1>5, <1>m, Zenon DEF InLeg
<1>8. ASSUME NEW n \in Nodes, n # m PROVE Busy(n)' = Busy(n)
  BY <1>6, <1>7, <1>8, Zenon DEF Busy
<1>9. CASE leg[c][t].pc \in BusyPcs /\ new.pc \in BusyPcs
  <2>1. \A n \in Nodes : Busy(n)' = Busy(n)
    BY <1>6, <1>7, <1>9, Zenon DEF Busy
  <2>2. activeTasks' = activeTasks
    BY <1>2, <1>9, Zenon DEF LegChange
  <2> QED
    BY <2>1, <2>2, Zenon DEF SlotsInv
<1>10. CASE leg[c][t].pc \notin BusyPcs /\ new.pc \notin BusyPcs
  <2>1. \A n \in Nodes : Busy(n)' = Busy(n)
    BY <1>6, <1>7, <1>10, Zenon DEF Busy
  <2>2. activeTasks' = activeTasks
    BY <1>2, <1>10, Zenon DEF LegChange
  <2> QED
    BY <2>1, <2>2, Zenon DEF SlotsInv
<1>11. CASE leg[c][t].pc \notin BusyPcs /\ new.pc \in BusyPcs
  <2>1. Busy(m)' = Busy(m) \cup {x} /\ x \notin Busy(m)
    BY <1>5, <1>6, <1>7, <1>11, Zenon DEF Busy
  <2>2. activeTasks' = [activeTasks EXCEPT ![m] = @ + 1]
    BY <1>2, <1>11, <1>m, Zenon DEF LegChange
  <2>3. Cardinality(Busy(m) \cup {x}) = Cardinality(Busy(m)) + 1
    BY <2>1, BusyFinite, FS_AddElement, Zenon
  <2>4. ASSUME NEW n \in Nodes PROVE activeTasks'[n] = Cardinality(Busy(n)')
    BY <1>8, <2>1, <2>2, <2>3, Zenon DEF SlotsInv
  <2> QED
    BY <2>2, <2>4 DEF SlotsInv
<1>12. CASE leg[c][t].pc \in BusyPcs /\ new.pc \notin BusyPcs
  <2>1. Busy(m)' = Busy(m) \ {x} /\ x \in Busy(m)
    BY <1>5, <1>6, <1>7, <1>12, Zenon DEF Busy
  <2>2. activeTasks' = [activeTasks EXCEPT ![m] = @ - 1]
    BY <1>2, <1>12, <1>m, Zenon DEF LegChange
  <2>3. Cardinality(Busy(m) \ {x}) = Cardinality(Busy(m)) - 1
    BY <2>1, BusyFinite, FS_RemoveElement, Zenon
  <2>4. ASSUME NEW n \in Nodes PROVE activeTasks'[n] = Cardinality(Busy(n)')
    BY <1>8, <2>1, <2>2, <2>3, Zenon DEF SlotsInv
  <2> QED
    BY <2>2, <2>4 DEF SlotsInv
<1> QED
  BY <1>9, <1>10, <1>11, <1>12, Zenon

LEMMA CallerKeepsSlots ==
  ASSUME CallsInv, SlotsInv, NEW c \in Calls,
         \/ \E kind \in Kinds, legs \in [TEEs -> LegRecord] : BeginChange(c, kind, legs)
         \/ AskSEV(c)
         \/ Return(c)
  PROVE  SlotsInv'
<1>0. call \in [Calls -> CallRecord] /\ leg \in [Calls -> [TEEs -> LegRecord]]
  BY Zenon DEF CallsInv, RecordsOK
<1>1. /\ \A d \in Calls : d # c => leg'[d] = leg[d] /\ call'[d] = call[d]
      /\ UNCHANGED activeTasks
  BY <1>0, Zenon DEF BeginChange, AskSEV, Return
<1>2. \A t \in TEEs : /\ leg'[c][t].pc \in BusyPcs <=> leg[c][t].pc \in BusyPcs
                      /\ leg[c][t].pc \in BusyPcs => call'[c].node = call[c].node
  <2>1. ASSUME NEW kind \in Kinds, NEW legs \in [TEEs -> LegRecord], BeginChange(c, kind, legs),
               NEW t \in TEEs
        PROVE  leg[c][t].pc \notin BusyPcs /\ leg'[c][t].pc \notin BusyPcs
    <3>1. leg[c][t].pc \notin BusyPcs
      BY <2>1, Zenon DEF BeginChange, CallsInv, CallOK
    <3>2. leg'[c][t] = legs[t] /\ legs[t].pc \in {"none", "local", "ask"}
      BY <1>0, <2>1, Zenon DEF BeginChange
    <3> QED
      BY <3>1, <3>2, Zenon DEF BusyPcs
  <2>2. ASSUME AskSEV(c), NEW t \in TEEs
        PROVE  /\ leg'[c][t].pc \in BusyPcs <=> leg[c][t].pc \in BusyPcs
               /\ call' = call
    <3>1. At("ask").pc = "ask"
      BY Zenon DEF At, NoLeg
    <3>2. /\ leg' = [leg EXCEPT ![c]["sev"] = At("ask")] /\ leg[c]["sev"].pc = "none" /\ call' = call
      BY <2>2, Zenon DEF AskSEV
    <3>3. leg'[c]["sev"] = At("ask") /\ leg'[c]["sgx"] = leg[c]["sgx"]
      BY <1>0, <3>2, Zenon DEF TEEs
    <3> QED
      BY <3>1, <3>2, <3>3, Zenon DEF BusyPcs, TEEs
  <2>3. ASSUME Return(c), NEW t \in TEEs
        PROVE  leg[c][t].pc \notin BusyPcs /\ leg'[c][t].pc \notin BusyPcs
    <3>1. leg[c][t].pc \notin BusyPcs
      BY <2>3, ReturnEnded, Zenon
    <3>2. leg'[c][t] = leg[c][t] \/ leg'[c][t] = NoLeg
      BY <1>0, <2>3, Zenon DEF Return
    <3> QED
      BY <3>1, <3>2 DEF NoLeg, BusyPcs
  <2> QED
    BY <2>1, <2>2, <2>3, Zenon
<1> QED
  BY <1>1, <1>2, SlotsKept, Zenon

LEMMA RestartKeepsSlots ==
  ASSUME CallsInv, SlotsInv, NEW n \in Nodes, RestartNode(n) PROVE SlotsInv'
<1>0. call \in [Calls -> CallRecord] /\ leg \in [Calls -> [TEEs -> LegRecord]]
  BY Zenon DEF CallsInv, RecordsOK
<1>1. /\ call' = call /\ activeTasks' = [activeTasks EXCEPT ![n] = 0]
      /\ leg' = [d \in Calls |-> [t \in TEEs |->
                  IF leg[d][t].pc \in BusyPcs /\ call[d].node[t] = n THEN At("failed") ELSE leg[d][t]]]
  BY Zenon DEF RestartNode, BusyPcs
<1>2. At("failed").pc \notin BusyPcs
  BY Zenon DEF At, NoLeg, BusyPcs
<1>3. ASSUME NEW m \in Nodes, NEW x \in Calls \X TEEs
      PROVE  InLeg(x, m)' <=> InLeg(x, m) /\ m # n
  <2>1. x[1] \in Calls /\ x[2] \in TEEs
    BY Zenon
  <2>2. leg'[x[1]][x[2]] = IF leg[x[1]][x[2]].pc \in BusyPcs /\ call[x[1]].node[x[2]] = n
                           THEN At("failed") ELSE leg[x[1]][x[2]]
    BY <1>1, <2>1, Zenon
  <2> QED
    BY <1>1, <1>2, <2>2, Zenon DEF InLeg
<1>4. Busy(n)' = {} /\ \A m \in Nodes : m # n => Busy(m)' = Busy(m)
  BY <1>3, Zenon DEF Busy
<1>5. Cardinality({}) = 0
  BY FS_EmptySet, Zenon
<1>6. ASSUME NEW m \in Nodes PROVE activeTasks'[m] = Cardinality(Busy(m)')
  BY <1>1, <1>4, <1>5, Zenon DEF SlotsInv
<1> QED
  BY <1>1, <1>6 DEF SlotsInv

\* activeTasks of a compute node is the number of executions it is busy with: every
\* path through Execute gives its slot back once, and a restart takes all of them.
THEOREM SlotsExact == ExecSpec => []SlotsAccounted
<1>1. ExecInit => SlotsInv
  <2> SUFFICES ASSUME ExecInit PROVE SlotsInv
    BY Zenon
  <2>1. NoLeg.pc \notin BusyPcs
    BY Zenon DEF NoLeg, BusyPcs
  <2>2. leg = [c \in Calls |-> [t \in TEEs |-> NoLeg]] /\ activeTasks = [n \in Nodes |-> 0]
    BY Zenon DEF ExecInit
  <2>3. ASSUME NEW n \in Nodes PROVE Busy(n) = {}
    BY <2>1, <2>2, Zenon DEF Busy, InLeg
  <2> QED
    BY <2>2, <2>3, FS_EmptySet DEF SlotsInv
<1>2. SlotsInv /\ CallsInv /\ [ExecNext]_execVars => SlotsInv'
  <2> SUFFICES ASSUME SlotsInv, CallsInv, [ExecNext]_execVars PROVE SlotsInv'
    BY Zenon
  <2>1. ASSUME NEW c \in Calls, NEW node \in [TEEs -> Nodes],
               \/ \E n \in Nodes : ExecuteInRegion(c, node, RegionOf[n])
               \/ \E r \in {RegionOf[n] : n \in Nodes} \cup {""} : ExecuteAction(c, node, r)
               \/ CheckTEEHealth(c, node)
        PROVE  SlotsInv'
    BY <2>1, CallBegins, CallerKeepsSlots, Zenon
  <2>2. ASSUME NEW c \in Calls, CallStep(c) PROVE SlotsInv'
    BY <2>2, CallerKeepsSlots, LegKeepsSlots, Zenon DEF CallStep
  <2>3. ASSUME NEW n \in Nodes, RestartNode(n) PROVE SlotsInv'
    BY <2>3, RestartKeepsSlots, Zenon
  <2>4. CASE UNCHANGED execVars
    BY <2>4, Zenon DEF execVars, SlotsInv, Busy, InLeg
  <2> QED
    BY <2>1, <2>2, <2>3, <2>4, Zenon DEF ExecNext
<1>3. SlotsInv => SlotsAccounted
  BY Zenon DEF SlotsInv, SlotsAccounted, Busy, InLeg, BusyPcs
<1> QED
  BY CallsInvariant, <1>1, <1>2, <1>3, PTL DEF ExecSpec

\* For any nodes and calls, acquireTaskSlot and releaseTaskSlot keep an exact count,
\* and a node's results stay within its coordinator's table.
THEOREM NodesKeepBounds == ExecSpec => []NodesBounded
  BY SlotsExact, NodesWearOut, PTL DEF NodesBounded

-----------------------------------------------------------------------------
(* The TEE executor.                                                       *)

\* A request that expired keeps the proof that has left the window, and one that
\* succeeded the proof that was inside it.
ExecutorInv ==
    /\ clock \in Int /\ proof \in [Requests -> SUBSET Int]
    /\ \A r \in Requests : \A t, u \in proof[r] : t = u
    /\ holder \subseteq Requests
    /\ \A r \in expired : proof[r] # {} /\ \A t \in proof[r] : clock - t > ProofWindow
    /\ expired \subseteq Requests
    /\ \A r \in holder, q \in holder : r = q
    /\ \A a \in accepted :
         /\ a.req \in Requests /\ a.at \in Int
         /\ \E t \in proof[a.req] : a.at - t <= ProofWindow /\ t - a.at <= ProofWindow

LEMMA ExecutorInvariant == ExecutorSpec => []ExecutorInv
<1>0. ProofWindow \in Nat /\ MaxClock \in Nat
  BY TEEExecutorAssumption, Zenon
<1>1. ExecutorInit => ExecutorInv
  BY <1>0 DEF ExecutorInit, ExecutorInv, Clock
<1>2. ExecutorInv /\ [ExecutorNext]_executorVars => ExecutorInv'
  <2> SUFFICES ASSUME ExecutorInv, [ExecutorNext]_executorVars
               PROVE  ExecutorInv'
    BY Zenon
  <2>1. CASE Tick
    <3>1. /\ clock' = clock + 1 /\ UNCHANGED <<proof, holder, accepted>>
          /\ expired' = expired \cup {r \in Requests \ holder :
                                         \E t \in proof[r] : clock + 1 - t > ProofWindow}
      BY <2>1, Zenon DEF Tick
    <3>2. ASSUME NEW r \in expired' PROVE proof'[r] # {} /\ r \in Requests
      BY <3>1, Zenon DEF ExecutorInv
    <3>3. ASSUME NEW r \in expired', NEW t \in proof'[r] PROVE clock' - t > ProofWindow
      <4>1. r \in Requests /\ t \in proof[r] /\ t \in Int /\ clock \in Int
        BY <3>1, <3>2, Zenon DEF ExecutorInv
      <4>2. CASE r \in expired
        <5>1. clock - t > ProofWindow
          BY <4>1, <4>2, Zenon DEF ExecutorInv
        <5> QED
          BY <1>0, <3>1, <4>1, <5>1
      <4>3. CASE r \notin expired
        <5>1. PICK u \in proof[r] : clock + 1 - u > ProofWindow
          BY <3>1, <4>3, Zenon
        <5>2. u = t
          BY <4>1, <5>1, Zenon DEF ExecutorInv
        <5> QED
          BY <1>0, <3>1, <4>1, <5>1, <5>2
      <4> QED
        BY <4>2, <4>3, Zenon
    <3> QED
      BY <3>1, <3>2, <3>3 DEF ExecutorInv
  <2>2. ASSUME NEW r \in Requests, Lock(r) PROVE ExecutorInv'
    BY <2>2, Zenon DEF Lock, ExecutorInv
  <2>3. CASE VerifyTime
    <3>1. UNCHANGED <<clock, accepted, expired>>
      BY <2>3, Zenon DEF VerifyTime
    <3>2. PICK r \in holder : Prove(r)
      BY <2>3, Zenon DEF VerifyTime
    <3>3. holder' = holder \/ holder' = {}
      BY <3>2, Zenon DEF Prove, Unlock
    <3>4. \/ proof' = proof
          \/ proof[r] = {} /\ \E t \in Int : proof' = [proof EXCEPT ![r] = {t}]
      BY <1>0, <3>2 DEF Prove, Clock
    <3>5. CASE proof' = proof
      BY <3>1, <3>3, <3>5, Zenon DEF ExecutorInv
    <3>6. ASSUME proof[r] = {}, NEW t \in Int, proof' = [proof EXCEPT ![r] = {t}]
          PROVE  ExecutorInv'
      <4>1. r \in Requests /\ r \notin expired
        BY <3>2, <3>6, Zenon DEF ExecutorInv
      <4>2. proof' \in [Requests -> SUBSET Int] /\ proof'[r] = {t}
        BY <3>6, <4>1 DEF ExecutorInv
      <4>3. \A q \in Requests : q # r => proof'[q] = proof[q]
        BY <3>6, Zenon DEF ExecutorInv
      <4>4. \A q \in Requests : \A u, v \in proof'[q] : u = v
        BY <4>2, <4>3 DEF ExecutorInv
      <4>5. \A q \in expired : proof'[q] = proof[q]
        BY <4>1, <4>3, Zenon DEF ExecutorInv
      <4>6. \A a \in accepted : proof'[a.req] = proof[a.req]
        BY <3>6, <4>3, Zenon DEF ExecutorInv
      <4> QED
        BY <3>1, <3>3, <4>2, <4>4, <4>5, <4>6, Zenon DEF ExecutorInv
    <3> QED
      BY <3>4, <3>5, <3>6, Zenon
  <2>4. CASE ExecuteSGX \/ ExecuteSEV
    BY <2>4, Zenon DEF ExecuteSGX, ExecuteSEV, RunController, Unlock, ExecutorInv
  <2>5. CASE Finish
    <3>1. UNCHANGED <<clock, proof, expired>> /\ holder' = {}
      BY <2>5, Zenon DEF Finish, Unlock
    <3>2. PICK r \in holder, t \in UNION {proof[q] : q \in holder} :
            accepted' = IF verifyResults(t)
                        THEN accepted \cup {[req |-> r, at |-> clock]} ELSE accepted
      BY <2>5, Zenon DEF Finish
    <3>3. r \in Requests /\ t \in proof[r] /\ t \in Int /\ clock \in Int
      BY <3>2 DEF ExecutorInv
    <3>4. ASSUME NEW a \in accepted', a \notin accepted
          PROVE  /\ a.req \in Requests /\ a.at \in Int
                 /\ \E u \in proof'[a.req] : a.at - u <= ProofWindow /\ u - a.at <= ProofWindow
      <4>1. /\ a.req = r /\ a.at = clock
            /\ clock - t <= ProofWindow /\ t - clock <= ProofWindow
        BY <3>2, <3>4 DEF verifyResults, verifyAttestation, Within
      <4> QED
        BY <3>1, <3>3, <4>1, Zenon
    <3> QED
      BY <3>1, <3>4, Zenon DEF ExecutorInv
  <2>6. CASE UNCHANGED executorVars
    BY <2>6, Zenon DEF executorVars, ExecutorInv
  <2> QED
    BY <2>1, <2>2, <2>3, <2>4, <2>5, <2>6, Zenon DEF ExecutorNext
<1> QED
  BY <1>1, <1>2, PTL DEF ExecutorSpec

\* The successes of one request lie within twice the window of each other, whatever
\* the window: Execute keeps the proof that the first attempt left in it.
THEOREM RetriesStayClose == ExecutorSpec => []RetriesClose
<1>1. ExecutorInv => RetriesClose
  <2> SUFFICES ASSUME ExecutorInv, NEW a \in accepted, NEW b \in accepted, a.req = b.req
               PROVE  a.at - b.at <= 2 * ProofWindow
    BY Zenon DEF RetriesClose
  <2>1. PICK t \in proof[a.req] : a.at - t <= ProofWindow
    BY Zenon DEF ExecutorInv
  <2>2. PICK u \in proof[b.req] : u - b.at <= ProofWindow
    BY Zenon DEF ExecutorInv
  <2>3. a.at \in Int /\ b.at \in Int /\ t \in Int /\ t = u
    BY <2>1, <2>2 DEF ExecutorInv
  <2> QED
    BY <2>1, <2>2, <2>3, TEEExecutorAssumption
<1> QED
  BY ExecutorInvariant, <1>1, PTL

\* Execute never accepts a request whose proof left the window between two attempts:
\* it keeps the proof it finds, and the clock does not go back.
THEOREM ExpiredStaysRefused == ExecutorSpec => RetryExpires
<1>0. ProofWindow \in Nat
  BY TEEExecutorAssumption, Zenon
<1>1. ExecutorInv /\ [ExecutorNext]_executorVars =>
        [\A a \in accepted' \ accepted : a.req \notin expired]_executorVars
  <2> SUFFICES ASSUME ExecutorInv, [ExecutorNext]_executorVars, NEW a \in accepted' \ accepted
               PROVE  a.req \notin expired
    BY Zenon
  <2>1. Finish
    BY Zenon
       DEF ExecutorNext, executorVars, Tick, Lock, VerifyTime, ExecuteSGX, ExecuteSEV, RunController
  <2>2. PICK r \in holder, t \in UNION {proof[q] : q \in holder} :
          accepted' = IF verifyResults(t)
                      THEN accepted \cup {[req |-> r, at |-> clock]} ELSE accepted
    BY <2>1, Zenon DEF Finish
  <2>3. a.req = r /\ clock - t <= ProofWindow
    BY <2>2 DEF verifyResults, verifyAttestation, Within
  <2>4. t \in proof[r] /\ t \in Int /\ clock \in Int
    BY <2>2 DEF ExecutorInv
  <2> QED
    BY <1>0, <2>3, <2>4 DEF ExecutorInv
<1> QED
  BY ExecutorInvariant, <1>1, PTL DEF ExecutorSpec, RetryExpires

-----------------------------------------------------------------------------
(* The balancer *)

PairStep(pm, best, i) ==
    IF Eligible(pm[i]) /\ (best = None \/ pm[i].load < pm[best].load) THEN i ELSE best

PairSoFar(pm, n, best) ==
    /\ best \in 0..n
    /\ best # None => Eligible(pm[best])
    /\ \A i \in 1..n : Eligible(pm[i]) => best # None /\ pm[best].load <= pm[i].load

PairLoop == INSTANCE FoldTheory WITH Op <- PairStep, Inv <- PairSoFar

LEMMA LeastP == PairLoop!LeastExists
  BY LeastNumber, Zenon DEF PairLoop!LeastExists

LEMMA SelectIsFold ==
    SelectOptimalPair = PairLoop!Folded(pairMetrics, None, [i \in DOMAIN pairMetrics |-> i])
  BY Zenon
     DEF SelectOptimalPair, PairStep, FoldLeft, MapThenFoldSet, Max, PairLoop!Folded, PairLoop!Results,
         PairLoop!After, PairLoop!Top

LEMMA EntryFields ==
    ASSUME NEW e \in Entry
    PROVE  /\ e.id \in TEEPairs /\ e.load \in 0..2 /\ e.good \in BOOLEAN /\ e.recent \in BOOLEAN
           /\ e.sgx \in BOOLEAN /\ e.sev \in BOOLEAN
           /\ e.tasks \in 0..MaxProcessed /\ e.failed \in 0..MaxProcessed
  BY Zenon DEF Entry

LEMMA EntryAt ==
    ASSUME NEW pm \in Seq(Entry), NEW i \in 1..Len(pm)
    PROVE  pm[i] \in Entry /\ pm[i].load \in 0..2
<1>1. pm[i] \in Entry
  OBVIOUS
<1> QED BY <1>1, EntryFields, Zenon

LEMMA PairStepOK ==
    ASSUME NEW pm \in Seq(Entry), NEW n \in 1..Len(pm), NEW best, PairSoFar(pm, n - 1, best)
    PROVE  PairSoFar(pm, n, PairStep(pm, best, n))
<1>1. \A i \in 1..Len(pm) : pm[i].load \in 0..2
  BY EntryAt, Zenon
<1>2. best \in 0..(n - 1) /\ n \in 1..Len(pm) /\ Len(pm) \in Nat
  BY DEF PairSoFar
<1> QED BY <1>1, <1>2 DEF PairSoFar, PairStep, None

LEMMA SelectedBest ==
    ASSUME pairMetrics \in Seq(Entry)
    PROVE  PairSoFar(pairMetrics, Len(pairMetrics), SelectOptimalPair)
<1> DEFINE s == [i \in DOMAIN pairMetrics |-> i]
           n == Len(pairMetrics)
           pm == pairMetrics
<1>1. n \in Nat /\ DOMAIN s = 1..n /\ \A i \in 1..n : s[i] = i
  OBVIOUS
<1>2. PairSoFar(pm, 0, None)
  BY DEF PairSoFar, None
<1>3. ASSUME NEW i \in 1..n, NEW a, PairSoFar(pm, i - 1, a) PROVE PairSoFar(pm, i, PairStep(pm, a, s[i]))
  BY <1>1, <1>3, PairStepOK, Zenon
<1> HIDE DEF s, n
<1>4. PairSoFar(pm, n, PairLoop!Folded(pm, None, s))
  BY <1>1, <1>2, <1>3, PairLoop!LoopInvariant, LeastP, Zenon
<1> QED BY <1>4, SelectIsFold, Zenon DEF n, s

-----------------------------------------------------------------------------
(* The records *)

\* A record names one endpoint, and counts as recent only after a good report.
RecordOK(e, report) == e.sgx # e.sev /\ e.failed <= e.tasks /\ (e.recent => report[e.id])

ReportsOK(pm, report) ==
    /\ pm \in Seq(Entry) /\ report \in [TEEPairs -> BOOLEAN]
    /\ \A i, j \in 1..Len(pm) : pm[i].id = pm[j].id => i = j
    /\ \A i \in 1..Len(pm) : RecordOK(pm[i], report)

\* Replacing a record by one of the same pair, with the report that goes with it.
LEMMA RecordReplaced ==
    ASSUME NEW pm, NEW report, ReportsOK(pm, report), NEW i \in 1..Len(pm),
           NEW e \in Entry, e.id = pm[i].id, NEW b \in BOOLEAN,
           RecordOK(e, [report EXCEPT ![e.id] = b])
    PROVE  ReportsOK([pm EXCEPT ![i] = e], [report EXCEPT ![e.id] = b])
<1> DEFINE q == [pm EXCEPT ![i] = e]
           rep == [report EXCEPT ![e.id] = b]
<1>0. pm \in Seq(Entry) /\ report \in [TEEPairs -> BOOLEAN] /\ e.id \in TEEPairs
  BY EntryFields, Zenon DEF ReportsOK
<1>1. q \in Seq(Entry) /\ Len(q) = Len(pm)
  BY <1>0
<1>2. rep \in [TEEPairs -> BOOLEAN]
  BY <1>0, Zenon
<1>3. q[i] = e /\ \A k \in 1..Len(pm) : k # i => q[k] = pm[k]
  BY <1>0
<1>4. \A k \in 1..Len(pm) : q[k].id = pm[k].id
  BY <1>3, Zenon
<1>5. \A x, y \in 1..Len(q) : q[x].id = q[y].id => x = y
  BY <1>1, <1>4, Zenon DEF ReportsOK
<1>6. ASSUME NEW k \in 1..Len(q) PROVE RecordOK(q[k], rep)
  <2>1. CASE k = i
    BY <2>1, <1>3, Zenon
  <2>2. CASE k # i
    <3>1. q[k] = pm[k] /\ pm[k].id # e.id /\ pm[k] \in Entry
      BY <1>0, <1>1, <1>3, <2>2 DEF ReportsOK
    <3>2. rep[pm[k].id] = report[pm[k].id]
      BY <1>0, <3>1, EntryFields, Zenon
    <3>3. RecordOK(pm[k], report)
      BY <1>1, Zenon DEF ReportsOK
    <3> QED BY <3>1, <3>2, <3>3, Zenon DEF RecordOK
  <2> QED BY <2>1, <2>2, Zenon
<1> HIDE DEF q, rep
<1>7. ReportsOK(q, rep)
  BY <1>1, <1>2, <1>5, <1>6, Zenon DEF ReportsOK
<1> QED BY <1>7, Zenon DEF q, rep

\* A record of a pair that has none yet.
LEMMA RecordAppended ==
    ASSUME NEW pm, NEW report, ReportsOK(pm, report),
           NEW e \in Entry, \A i \in 1..Len(pm) : pm[i].id # e.id, NEW b \in BOOLEAN,
           RecordOK(e, [report EXCEPT ![e.id] = b])
    PROVE  ReportsOK(Append(pm, e), [report EXCEPT ![e.id] = b])
<1> DEFINE q == Append(pm, e)
           rep == [report EXCEPT ![e.id] = b]
<1>0. pm \in Seq(Entry) /\ report \in [TEEPairs -> BOOLEAN] /\ e.id \in TEEPairs
  BY EntryFields, Zenon DEF ReportsOK
<1>1. q \in Seq(Entry) /\ Len(q) = Len(pm) + 1 /\ Len(pm) \in Nat
  BY <1>0
<1>2. rep \in [TEEPairs -> BOOLEAN]
  BY <1>0, Zenon
<1>3. q[Len(pm) + 1] = e /\ \A k \in 1..Len(pm) : q[k] = pm[k]
  BY <1>0
<1>4. \A k \in 1..Len(q) : k \in 1..Len(pm) \/ k = Len(pm) + 1
  BY <1>1
<1>5. \A x, y \in 1..Len(q) : q[x].id = q[y].id => x = y
  <2> HIDE DEF q
  <2> SUFFICES ASSUME NEW x \in 1..Len(q), NEW y \in 1..Len(q), q[x].id = q[y].id PROVE x = y
    BY Zenon
  <2> QED BY <1>3, <1>4, Zenon DEF ReportsOK
<1>6. ASSUME NEW k \in 1..Len(q) PROVE RecordOK(q[k], rep)
  <2>1. CASE k = Len(pm) + 1
    BY <2>1, <1>3, Zenon
  <2>2. CASE k \in 1..Len(pm)
    <3>1. q[k] = pm[k] /\ pm[k].id # e.id /\ pm[k] \in Entry
      BY <1>0, <1>3, <2>2
    <3>2. rep[pm[k].id] = report[pm[k].id]
      BY <1>0, <3>1, EntryFields, Zenon
    <3>3. RecordOK(pm[k], report)
      BY <2>2, Zenon DEF ReportsOK
    <3> QED BY <3>1, <3>2, <3>3, Zenon DEF RecordOK
  <2> QED BY <1>4, <2>1, <2>2, Zenon
<1> HIDE DEF q, rep
<1>7. ReportsOK(q, rep)
  BY <1>1, <1>2, <1>5, <1>6, Zenon DEF ReportsOK
<1> QED BY <1>7, Zenon DEF q, rep

-----------------------------------------------------------------------------
(* The steps *)

Checks == TEEPairs \X {"sgx", "sev"}

PairsInv ==
    /\ ReportsOK(pairMetrics, lastReport)
    /\ checking \in [Monitors -> Seq(Checks)]

LEMMA SetInOrder ==
    ASSUME NEW S, IsFiniteSet(S), NEW i \in 1..Cardinality(S) PROVE SetToSeq(S)[i] \in S
<1>1. \E f : f \in [1..Cardinality(S) -> S] /\ IsInjective(f)
  BY FS_CardinalityType, Zenon DEF ExistsBijection, Bijection, Injection
<1>2. SetToSeq(S) \in [1..Cardinality(S) -> S]
  BY <1>1, Zenon DEF SetToSeq, SetToSeqs
<1> QED BY <1>2, Zenon

LEMMA ChecksInOrder ==
    FlattenSeq([i \in 1..Cardinality(TEEPairs) |->
        LET p == SetToSeq(TEEPairs)[i] IN <<<<p, "sgx">>, <<p, "sev">>>>]) \in Seq(Checks)
<1> DEFINE n == Cardinality(TEEPairs)
           ss == [i \in 1..n |-> LET p == SetToSeq(TEEPairs)[i] IN <<<<p, "sgx">>, <<p, "sev">>>>]
<1>1. n \in Nat
  BY FS_CardinalityType, BalancerAssumption, Zenon
<1>2. ASSUME NEW i \in 1..n PROVE ss[i] \in Seq(Checks)
  <2>1. SetToSeq(TEEPairs)[i] \in TEEPairs
    BY SetInOrder, BalancerAssumption, Zenon
  <2> QED BY <2>1 DEF Checks
<1>3. ss \in Seq(Seq(Checks))
  <2>1. ss = [i \in 1..n |-> ss[i]]
    BY Zenon
  <2> HIDE DEF ss, n
  <2>2. ss \in [1..n -> Seq(Checks)]
    BY <1>2, <2>1, Zenon
  <2> QED BY <1>1, <2>2
<1> HIDE DEF ss
<1>4. FlattenSeq(ss) \in Seq(Checks)
  BY <1>3, FlattenType, Zenon
<1> QED BY <1>4, Zenon DEF ss

LEMMA MinIn ==
    ASSUME NEW n \in Nat, NEW t \in SUBSET (1..n), t # {} PROVE Min(t) \in t
<1>1. t \subseteq 0..n
  OBVIOUS
<1>2. PICK x \in t : \A y \in t : x <= y
  BY <1>1, LeastNumber, Zenon
<1> QED BY <1>2, Zenon DEF Min

\* UpdatePairMetrics leaves one record of each pair.
LEMMA UpdateKeeps ==
    ASSUME ReportsOK(pairMetrics, lastReport), NEW e \in Entry, NEW b \in BOOLEAN,
           RecordOK(e, [lastReport EXCEPT ![e.id] = b])
    PROVE  ReportsOK(UpdatePairMetrics(e.id, e), [lastReport EXCEPT ![e.id] = b])
<1> DEFINE own == {i \in DOMAIN pairMetrics : pairMetrics[i].id = e.id}
<1>1. pairMetrics \in Seq(Entry) /\ Len(pairMetrics) \in Nat /\ DOMAIN pairMetrics = 1..Len(pairMetrics)
  BY DEF ReportsOK
<1>2. CASE own = {}
  <2>1. \A i \in 1..Len(pairMetrics) : pairMetrics[i].id # e.id
    BY <1>1, <1>2, Zenon
  <2>2. UpdatePairMetrics(e.id, e) = Append(pairMetrics, e)
    BY <1>2, Zenon DEF UpdatePairMetrics
  <2> QED BY <2>1, <2>2, RecordAppended
<1>3. CASE own # {}
  <2>1. Min(own) \in own
    <3>1. own \in SUBSET (1..Len(pairMetrics))
      BY <1>1, Zenon
    <3> HIDE DEF own
    <3> QED BY <1>1, <1>3, <3>1, MinIn, Zenon
  <2>2. UpdatePairMetrics(e.id, e) = [pairMetrics EXCEPT ![Min(own)] = e]
    BY <1>3, Zenon DEF UpdatePairMetrics
  <2>3. Min(own) \in 1..Len(pairMetrics) /\ e.id = pairMetrics[Min(own)].id
    BY <1>1, <2>1, Zenon
  <2> HIDE DEF own
  <2> QED BY <2>2, <2>3, RecordReplaced
<1> QED BY <1>2, <1>3, Zenon

LEMMA TickKeeps == ASSUME PairsInv, NEW m \in Monitors, MonitorTick(m) PROVE PairsInv'
<1>1. checking' \in [Monitors -> Seq(Checks)]
  BY ChecksInOrder, Zenon DEF MonitorTick, PairsInv
<1> QED BY <1>1, Zenon DEF MonitorTick, PairsInv

LEMMA Bound == MaxProcessed \in Nat
  BY BalancerAssumption, Zenon

LEMMA StatusType ==
    ASSUME NEW p \in TEEPairs, NEW tee, NEW healthy \in BOOLEAN
    PROVE  Status(p, tee, healthy) \in Entry /\ Status(p, tee, healthy).id = p
<1>1. 0 \in 0..MaxProcessed /\ 0 \in 0..2 /\ 2 \in 0..2
  BY Bound
<1> DEFINE z == 0
           l == IF healthy THEN 0 ELSE 2
           a == tee = "sgx"
           b == tee = "sev"
<1>2. z \in 0..MaxProcessed /\ l \in 0..2 /\ a \in BOOLEAN /\ b \in BOOLEAN
  BY <1>1, Zenon
<1>3. Status(p, tee, healthy) = [id |-> p, good |-> healthy, load |-> l, recent |-> healthy,
                                 sgx |-> a, sev |-> b, tasks |-> z, failed |-> z]
  BY Zenon DEF Status
<1> HIDE DEF z, l, a, b
<1> QED BY <1>2, <1>3 DEF Entry

LEMMA CheckKeeps ==
    ASSUME PairsInv, NEW m \in Monitors, NEW healthy \in BOOLEAN, CheckTEE(m, healthy) PROVE PairsInv'
<1> DEFINE x == checking[m][1]
           p == x[1]
           e == Status(p, x[2], healthy)
<1>1. checking[m] \in Seq(Checks) /\ checking[m] # <<>>
  BY Zenon DEF PairsInv, CheckTEE
<1>2. x \in Checks
  BY <1>1
<1>3. p \in TEEPairs /\ x[2] \in {"sgx", "sev"}
  BY <1>2, Zenon DEF Checks
<1>4. e \in Entry /\ e.id = p
  BY <1>3, StatusType, Zenon
<1>5. RecordOK(e, [lastReport EXCEPT ![e.id] = healthy])
  <2>1. lastReport \in [TEEPairs -> BOOLEAN]
    BY Zenon DEF PairsInv, ReportsOK
  <2>2. [lastReport EXCEPT ![p] = healthy][p] = healthy
    BY <1>3, <2>1, Zenon
  <2>3. e.sgx # e.sev
    BY <1>3, Zenon DEF Status
  <2>4. e.failed = 0 /\ e.tasks = 0
    BY Zenon DEF Status
  <2>5. e.recent = healthy
    BY Zenon DEF Status
  <2> HIDE DEF e
  <2> QED BY <1>4, <2>2, <2>3, <2>4, <2>5 DEF RecordOK
<1>6. ReportsOK(pairMetrics, lastReport)
  BY Zenon DEF PairsInv
<1> HIDE DEF e
<1>7. ReportsOK(UpdatePairMetrics(e.id, e), [lastReport EXCEPT ![e.id] = healthy])
  BY <1>4, <1>5, <1>6, UpdateKeeps, Zenon
<1>8. pairMetrics' = UpdatePairMetrics(e.id, e) /\ lastReport' = [lastReport EXCEPT ![e.id] = healthy]
  BY <1>4, Zenon DEF CheckTEE, e
<1>9. checking' \in [Monitors -> Seq(Checks)]
  <2>1. Tail(checking[m]) \in Seq(Checks)
    BY <1>1
  <2> QED BY <2>1, Zenon DEF CheckTEE, PairsInv
<1> QED BY <1>7, <1>8, <1>9, Zenon DEF PairsInv

\* A record changed in place, the pair's report staying what it was.
LEMMA RecordKept ==
    ASSUME NEW pm, NEW report, ReportsOK(pm, report), NEW i \in 1..Len(pm),
           NEW e \in Entry, e.id = pm[i].id, RecordOK(e, report)
    PROVE  ReportsOK([pm EXCEPT ![i] = e], report)
<1>1. report \in [TEEPairs -> BOOLEAN] /\ e.id \in TEEPairs
  BY EntryFields, Zenon DEF ReportsOK
<1>2. report[e.id] \in BOOLEAN /\ report = [report EXCEPT ![e.id] = report[e.id]]
  BY <1>1, Zenon
<1> DEFINE b == report[e.id]
<1> HIDE DEF b
<1>3. b \in BOOLEAN /\ report = [report EXCEPT ![e.id] = b]
  BY <1>2, Zenon DEF b
<1>4. RecordOK(e, [report EXCEPT ![e.id] = b])
  BY <1>3, Zenon
<1>5. ReportsOK([pm EXCEPT ![i] = e], [report EXCEPT ![e.id] = b])
  BY <1>3, <1>4, RecordReplaced, Zenon
<1> QED BY <1>3, <1>5, Zenon

\* A record with some of its fields changed.
LEMMA EntryWith ==
    ASSUME NEW e \in Entry, NEW tasks \in 0..MaxProcessed, NEW failed \in 0..MaxProcessed,
           NEW good \in BOOLEAN, NEW recent \in BOOLEAN
    PROVE  /\ [e EXCEPT !.tasks = tasks, !.recent = recent, !.good = good] \in Entry
           /\ [e EXCEPT !.tasks = tasks, !.failed = failed] \in Entry
           /\ [e EXCEPT !.recent = recent] \in Entry
  BY Zenon DEF Entry

LEMMA TaskKeeps ==
    ASSUME PairsInv, NEW i \in DOMAIN pairMetrics, NEW success \in BOOLEAN, TaskDone(i, success)
    PROVE  PairsInv'
<1> DEFINE e == pairMetrics[i]
<1>1. ReportsOK(pairMetrics, lastReport) /\ i \in 1..Len(pairMetrics) /\ pairMetrics \in Seq(Entry)
  BY DEF PairsInv, ReportsOK
<1>2. e \in Entry /\ RecordOK(e, lastReport)
  BY <1>1 DEF ReportsOK
<1>3. e.tasks \in 0..MaxProcessed /\ e.failed \in 0..MaxProcessed /\ e.id \in TEEPairs /\ MaxProcessed \in Nat
  BY <1>2, EntryFields, BalancerAssumption, Zenon
<1>4. e.failed <= e.tasks /\ e.tasks < MaxProcessed
  BY <1>2, Zenon DEF RecordOK, TaskDone
<1> DEFINE t == e.tasks + 1
           f == e.failed + 1
<1>5. t \in 0..MaxProcessed /\ f \in 0..MaxProcessed /\ e.failed <= t /\ f <= t
  BY <1>3, <1>4
<1>6. UNCHANGED checking
  BY Zenon DEF TaskDone
<1>7. CASE success
  <2> DEFINE g == Above(t, e.failed)
             d == [e EXCEPT !.tasks = t, !.recent = TRUE, !.good = g]
  <2>1. g \in BOOLEAN
    BY DEF Above
  <2>2. pairMetrics' = [pairMetrics EXCEPT ![i] = d] /\ lastReport' = [lastReport EXCEPT ![e.id] = TRUE]
    BY <1>7, Zenon DEF TaskDone
  <2> HIDE DEF t, f, e
  <2>3. d \in Entry
    <3> HIDE DEF g
    <3> QED BY <1>2, <1>3, <1>5, <2>1, EntryWith, Zenon
  <2>4. d.id = e.id /\ d.sgx = e.sgx /\ d.sev = e.sev /\ d.failed = e.failed /\ d.tasks = t
    BY <1>2, Zenon DEF Entry
  <2> HIDE DEF d, g
  <2>5. lastReport \in [TEEPairs -> BOOLEAN]
    BY <1>1, Zenon DEF ReportsOK
  <2>6. RecordOK(d, [lastReport EXCEPT ![d.id] = TRUE])
    BY <1>2, <1>3, <1>5, <2>4, <2>5, Zenon DEF RecordOK
  <2>7. d.id = pairMetrics[i].id
    BY <2>4, Zenon DEF e
  <2>8. ReportsOK([pairMetrics EXCEPT ![i] = d], [lastReport EXCEPT ![d.id] = TRUE])
    BY <1>1, <2>3, <2>6, <2>7, RecordReplaced, Zenon
  <2> QED BY <1>6, <2>2, <2>4, <2>8, Zenon DEF PairsInv
<1>8. CASE ~success
  <2> DEFINE d == [e EXCEPT !.tasks = t, !.failed = f]
  <2>2. pairMetrics' = [pairMetrics EXCEPT ![i] = d] /\ lastReport' = lastReport
    BY <1>8, Zenon DEF TaskDone
  <2> HIDE DEF t, f, e
  <2>3. d \in Entry
    BY <1>2, <1>3, <1>5, EntryWith, Zenon
  <2>4. d.id = e.id /\ d.sgx = e.sgx /\ d.sev = e.sev /\ d.failed = f /\ d.tasks = t /\ d.recent = e.recent
    BY <1>2, Zenon DEF Entry
  <2> HIDE DEF d
  <2>6. RecordOK(d, lastReport)
    BY <1>2, <1>3, <1>5, <2>4, Zenon DEF RecordOK
  <2>7. d.id = pairMetrics[i].id
    BY <2>4, Zenon DEF e
  <2>8. ReportsOK([pairMetrics EXCEPT ![i] = d], lastReport)
    BY <1>1, <2>3, <2>6, <2>7, RecordKept, Zenon
  <2> QED BY <1>6, <2>2, <2>8, Zenon DEF PairsInv
<1> QED BY <1>7, <1>8, Zenon

LEMMA AgeKeeps ==
    ASSUME PairsInv, NEW i \in DOMAIN pairMetrics, AgePair(i) PROVE PairsInv'
<1> DEFINE e == pairMetrics[i]
           d == [e EXCEPT !.recent = FALSE]
<1>1. ReportsOK(pairMetrics, lastReport) /\ i \in 1..Len(pairMetrics) /\ pairMetrics \in Seq(Entry)
  BY DEF PairsInv, ReportsOK
<1>2. e \in Entry /\ RecordOK(e, lastReport)
  BY <1>1 DEF ReportsOK
<1>3. pairMetrics' = [pairMetrics EXCEPT ![i] = d] /\ UNCHANGED <<lastReport, checking>>
  BY Zenon DEF AgePair
<1> HIDE DEF e
<1>4. d \in Entry
  BY <1>2, Zenon DEF Entry
<1>5. d.id = e.id /\ d.sgx = e.sgx /\ d.sev = e.sev /\ d.failed = e.failed /\ d.tasks = e.tasks /\ ~d.recent
  BY <1>2, Zenon DEF Entry
<1> HIDE DEF d
<1>6. RecordOK(d, lastReport)
  BY <1>2, <1>5, Zenon DEF RecordOK
<1>7. d.id = pairMetrics[i].id
  BY <1>5, Zenon DEF e
<1>8. ReportsOK([pairMetrics EXCEPT ![i] = d], lastReport)
  BY <1>1, <1>4, <1>6, <1>7, RecordKept, Zenon
<1> QED BY <1>3, <1>8, Zenon DEF PairsInv

\* What CollectMetrics makes of a record.
Collected(e) == [e EXCEPT !.load = 0, !.good = e.tasks = 0 \/ Above(e.tasks, e.failed)]

LEMMA CollectedRecord ==
    ASSUME NEW e \in Entry
    PROVE  /\ Collected(e) \in Entry
           /\ \A report : RecordOK(e, report) => RecordOK(Collected(e), report)
           /\ Collected(e).id = e.id
<1> DEFINE g == e.tasks = 0 \/ Above(e.tasks, e.failed)
           z == 0
           d == [e EXCEPT !.load = z, !.good = g]
<1>1. g \in BOOLEAN /\ z \in 0..2
  BY DEF Above
<1>2. Collected(e) = d
  BY Zenon DEF Collected
<1> HIDE DEF g, z
<1>3. d \in Entry
  BY <1>1, Zenon DEF Entry
<1>4. d.id = e.id /\ d.sgx = e.sgx /\ d.sev = e.sev /\ d.failed = e.failed /\ d.tasks = e.tasks /\ d.recent = e.recent
  BY Zenon DEF Entry
<1> HIDE DEF d
<1> QED BY <1>2, <1>3, <1>4, Zenon DEF RecordOK

LEMMA CollectKeeps == ASSUME PairsInv, CollectMetrics PROVE PairsInv'
<1> DEFINE pm == pairMetrics
           q == [i \in DOMAIN pm |-> Collected(pm[i])]
<1>1. ReportsOK(pm, lastReport) /\ pm \in Seq(Entry) /\ Len(pm) \in Nat /\ DOMAIN pm = 1..Len(pm)
  BY DEF PairsInv, ReportsOK
<1>2. pairMetrics' = q /\ UNCHANGED <<lastReport, checking>>
  BY Zenon DEF CollectMetrics, Collected
<1>3. ASSUME NEW i \in 1..Len(pm)
      PROVE  q[i] = Collected(pm[i]) /\ pm[i] \in Entry /\ RecordOK(pm[i], lastReport)
  BY <1>1 DEF ReportsOK
<1>4. q \in Seq(Entry) /\ Len(q) = Len(pm)
  <2>1. \A i \in 1..Len(pm) : Collected(pm[i]) \in Entry
    BY <1>3, CollectedRecord, Zenon
  <2>2. q \in [1..Len(pm) -> Entry]
    BY <1>1, <2>1, Zenon
  <2> HIDE DEF q
  <2> QED BY <1>1, <2>2
<1> HIDE DEF q
<1>5. \A i \in 1..Len(q) : q[i].id = pm[i].id /\ RecordOK(q[i], lastReport)
  BY <1>3, <1>4, CollectedRecord, Zenon
<1>6. ReportsOK(q, lastReport)
  BY <1>1, <1>4, <1>5, Zenon DEF ReportsOK
<1> QED BY <1>2, <1>6, Zenon DEF PairsInv

LEMMA PairsStep == PairsInv /\ [BalancerNext]_balancerVars => PairsInv'
<1> SUFFICES ASSUME PairsInv, [BalancerNext]_balancerVars PROVE PairsInv'
  BY Zenon
<1>1. ASSUME PairNext PROVE PairsInv'
  BY <1>1, TickKeeps, CheckKeeps, AgeKeeps, TaskKeeps, CollectKeeps, Zenon DEF PairNext
<1>2. ASSUME RegionNext PROVE PairsInv'
  <2>1. UNCHANGED <<pairMetrics, checking, lastReport>>
    BY <1>2, Zenon DEF RegionNext, AddRegion, RemoveRegion, UpdateRegionMetrics, AgeRegion
  <2> QED BY <2>1, Zenon DEF PairsInv
<1>3. ASSUME UNCHANGED balancerVars PROVE PairsInv'
  BY <1>3, Zenon DEF PairsInv, balancerVars
<1> QED BY <1>1, <1>2, <1>3, Zenon DEF BalancerNext

-----------------------------------------------------------------------------
(* The regions *)

RegionsOK ==
    /\ DOMAIN held \subseteq BRegions /\ IsFiniteSet(DOMAIN held)
    /\ DOMAIN regionMetrics \subseteq BRegions
    /\ \A r \in DOMAIN regionMetrics : regionMetrics[r] \in RegionMetrics

LEMMA AddKeeps ==
    ASSUME RegionsOK, NEW r \in BRegions, NEW healthy, AddRegion(r, healthy) PROVE RegionsOK'
<1>1. DOMAIN held' = DOMAIN held \cup {r}
  BY Zenon DEF AddRegion
<1>2. IsFiniteSet(DOMAIN held')
  BY <1>1, FS_AddElement, Zenon DEF RegionsOK
<1> QED BY <1>1, <1>2, Zenon DEF RegionsOK, AddRegion

LEMMA RemoveKeeps ==
    ASSUME RegionsOK, NEW r \in BRegions, RemoveRegion(r) PROVE RegionsOK'
<1>1. DOMAIN held' = DOMAIN held \ {r}
  BY Zenon DEF RemoveRegion
<1>2. IsFiniteSet(DOMAIN held')
  BY <1>1, FS_RemoveElement, Zenon DEF RegionsOK
<1>3. /\ DOMAIN regionMetrics' = DOMAIN regionMetrics \ {r}
      /\ \A x \in DOMAIN regionMetrics' : regionMetrics'[x] = regionMetrics[x]
  BY Zenon DEF RemoveRegion
<1> QED BY <1>1, <1>2, <1>3, Zenon DEF RegionsOK

LEMMA MetricsKeep ==
    ASSUME RegionsOK, NEW r \in BRegions, NEW m \in RegionMetrics, UpdateRegionMetrics(r, m)
    PROVE  RegionsOK'
<1>1. /\ DOMAIN regionMetrics' = DOMAIN regionMetrics \cup {r}
      /\ \A x \in DOMAIN regionMetrics' : regionMetrics'[x] = IF x = r THEN m ELSE regionMetrics[x]
  BY Zenon DEF UpdateRegionMetrics
<1> QED BY <1>1, Zenon DEF RegionsOK, UpdateRegionMetrics

LEMMA AgeRegionKeeps ==
    ASSUME RegionsOK, NEW r \in DOMAIN regionMetrics, AgeRegion(r) PROVE RegionsOK'
<1>1. [regionMetrics[r] EXCEPT !.recent = FALSE] \in RegionMetrics
  BY Zenon DEF RegionsOK, RegionMetrics
<1>2. /\ DOMAIN regionMetrics' = DOMAIN regionMetrics
      /\ \A x \in DOMAIN regionMetrics :
            regionMetrics'[x] = IF x = r THEN [regionMetrics[r] EXCEPT !.recent = FALSE] ELSE regionMetrics[x]
  BY Zenon DEF AgeRegion
<1> QED BY <1>1, <1>2, Zenon DEF RegionsOK, AgeRegion

LEMMA RegionsStep == RegionsOK /\ [BalancerNext]_balancerVars => RegionsOK'
<1> SUFFICES ASSUME RegionsOK, [BalancerNext]_balancerVars PROVE RegionsOK'
  BY Zenon
<1>1. ASSUME RegionNext PROVE RegionsOK'
  BY <1>1, AddKeeps, RemoveKeeps, MetricsKeep, AgeRegionKeeps, Zenon DEF RegionNext
<1>2. ASSUME PairNext PROVE RegionsOK'
  <2>1. UNCHANGED <<held, regionMetrics>>
    BY <1>2, Zenon DEF PairNext, MonitorTick, CheckTEE, AgePair, TaskDone, CollectMetrics
  <2> QED BY <2>1, Zenon DEF RegionsOK
<1>3. ASSUME UNCHANGED balancerVars PROVE RegionsOK'
  BY <1>3, Zenon DEF RegionsOK, balancerVars
<1> QED BY <1>1, <1>2, <1>3, Zenon DEF BalancerNext

\* The two loops over the regions in an order.
LoadStep(order, best, r) ==
    IF Serviceable(r) /\ regionMetrics[r].load < (IF best = "" THEN 2 ELSE regionMetrics[best].load)
    THEN r ELSE best

PlaceStep(order, best, r) ==
    IF Serviceable(r) /\ (best = "" \/ Score(r) > Score(best)) THEN r ELSE best

\* Among the first n regions best is a serviceable one, and "" if there is none.
Picked(order, n, best) ==
    /\ best # "" => Serviceable(best) /\ \E i \in 1..n : best = order[i]
    /\ \A i \in 1..n : Serviceable(order[i]) => best # ""

LeastLoad(order, n, best) ==
    /\ Picked(order, n, best)
    /\ \A i \in 1..n : Serviceable(order[i]) => regionMetrics[best].load <= regionMetrics[order[i]].load

BestScore(order, n, best) ==
    /\ Picked(order, n, best)
    /\ \A i \in 1..n : Serviceable(order[i]) => Score(best) >= Score(order[i])

LoadLoop == INSTANCE FoldTheory WITH Op <- LoadStep, Inv <- LeastLoad
PlaceLoop == INSTANCE FoldTheory WITH Op <- PlaceStep, Inv <- BestScore

LEMMA LeastL == LoadLoop!LeastExists
  BY LeastNumber, Zenon DEF LoadLoop!LeastExists

LEMMA LeastS == PlaceLoop!LeastExists
  BY LeastNumber, Zenon DEF PlaceLoop!LeastExists

LEMMA ByLoadIsFold == \A order : SelectRegionByLoad(order) = LoadLoop!Folded(order, "", order)
  BY Zenon
     DEF SelectRegionByLoad, LoadStep, FoldLeft, MapThenFoldSet, Max, LoadLoop!Folded,
         LoadLoop!Results, LoadLoop!After, LoadLoop!Top

LEMMA ByPlaceIsFold == \A order : SelectRegionWithLocation(order) = PlaceLoop!Folded(order, "", order)
  BY Zenon
     DEF SelectRegionWithLocation, PlaceStep, FoldLeft, MapThenFoldSet, Max, PlaceLoop!Folded,
         PlaceLoop!Results, PlaceLoop!After, PlaceLoop!Top

LEMMA ServiceableLoad ==
    ASSUME RegionsOK, NEW r, Serviceable(r)
    PROVE  regionMetrics[r] \in RegionMetrics /\ regionMetrics[r].load \in 0..1
<1>1. regionMetrics[r] \in RegionMetrics /\ regionMetrics[r].load <= 1
  BY Zenon DEF Serviceable, isRegionHealthy, isRegionWithinThresholds, RegionsOK
<1>2. regionMetrics[r].load \in 0..2
  BY <1>1, Zenon DEF RegionMetrics
<1> QED BY <1>1, <1>2

LEMMA ScoreNumber ==
    ASSUME RegionsOK, NEW r, Serviceable(r) PROVE Score(r) \in Int
<1> DEFINE x == regionMetrics[r].load
           y == regionMetrics[r].latency
<1>1. x \in 0..1 /\ y \in 0..1
  BY ServiceableLoad, Zenon DEF RegionMetrics
<1>2. Score(r) = 4 * (10 - <<0, 8, 10>>[x + 1]) + 3 * (10 - 10 * y) + 30
  BY Zenon DEF Score
<1> HIDE DEF x, y
<1>3. <<0, 8, 10>>[x + 1] \in Int
  <2>1. CASE x = 0
    BY <2>1
  <2>2. CASE x = 1
    BY <2>2
  <2> QED BY <1>1, <2>1, <2>2
<1> QED BY <1>1, <1>2, <1>3

LEMMA UpTo == ASSUME NEW n \in Nat, n # 0 PROVE 1..n = (1..(n - 1)) \cup {n}
  OBVIOUS

\* Taking the next region, or not, when it may be taken and must be if it is the first.
LEMMA PickedNext ==
    ASSUME NEW order, NEW n \in Nat, n # 0, NEW best, Picked(order, n - 1, best), NEW next,
           order[n] # "",
           \/ next = order[n] /\ Serviceable(order[n])
           \/ next = best /\ (Serviceable(order[n]) => best # "")
    PROVE  Picked(order, n, next)
<1>1. 1..n = (1..(n - 1)) \cup {n}
  BY UpTo, Zenon
<1> QED BY <1>1, Zenon DEF Picked

LEMMA BelowBoth == ASSUME NEW u \in Int, NEW v \in Int, NEW w \in Int, u < v, v <= w PROVE u <= w
  OBVIOUS

LEMMA NotBelow == ASSUME NEW u \in Int, NEW v \in Int, ~(u < v) PROVE v <= u
  OBVIOUS

LEMMA NotAbove == ASSUME NEW u \in Int, NEW v \in Int, ~(u > v) PROVE v >= u
  OBVIOUS

LEMMA AboveBoth == ASSUME NEW u \in Int, NEW v \in Int, NEW w \in Int, u > v, v >= w PROVE u >= w
  OBVIOUS

LEMMA Same == ASSUME NEW u \in Int PROVE u <= u /\ u >= u
  OBVIOUS

Load(r) == regionMetrics[r].load

LEMMA LoadNumber ==
    ASSUME RegionsOK, NEW r, Serviceable(r) PROVE Load(r) \in Int /\ Load(r) < 2
<1>1. Load(r) \in 0..1
  BY ServiceableLoad, Zenon DEF Load
<1> QED BY <1>1

LEMMA LoadStepIs ==
    ASSUME RegionsOK, NEW order, NEW best, NEW r
    PROVE  LoadStep(order, best, r)
             = IF Serviceable(r) /\ (best = "" \/ Load(r) < Load(best)) THEN r ELSE best
<1>1. CASE ~Serviceable(r)
  BY <1>1, Zenon DEF LoadStep
<1>2. CASE Serviceable(r) /\ best = ""
  <2>1. Load(r) < 2
    BY <1>2, LoadNumber, Zenon
  <2> QED BY <1>2, <2>1, Zenon DEF LoadStep, Load
<1>3. CASE Serviceable(r) /\ best # ""
  BY <1>3, Zenon DEF LoadStep, Load
<1> QED BY <1>1, <1>2, <1>3, Zenon

LEMMA LoadStepOK ==
    ASSUME RegionsOK, NEW order, NEW n \in Nat, n # 0, order[n] \in BRegions,
           NEW best, LeastLoad(order, n - 1, best)
    PROVE  LeastLoad(order, n, LoadStep(order, best, order[n]))
<1> DEFINE r == order[n]
           next == LoadStep(order, best, r)
<1>1. 1..n = (1..(n - 1)) \cup {n}
  BY UpTo, Zenon
<1>2. r # ""
  BY BalancerAssumption, Zenon
<1>3. Picked(order, n - 1, best)
  BY Zenon DEF LeastLoad
<1>5. best # "" => Serviceable(best)
  BY <1>3, Zenon DEF Picked
<1>6. \A i \in 1..(n - 1) : Serviceable(order[i]) => best # "" /\ Load(best) <= Load(order[i])
  BY <1>3, Zenon DEF LeastLoad, Picked, Load
<1>7. CASE Serviceable(r) /\ (best = "" \/ Load(r) < Load(best))
  <2>1. next = r
    BY <1>7, LoadStepIs, Zenon
  <2>2. Picked(order, n, next)
    BY <1>2, <1>3, <1>7, <2>1, PickedNext, Zenon
  <2>3. ASSUME NEW i \in 1..n, Serviceable(order[i]) PROVE Load(r) <= Load(order[i])
    <3>1. CASE i = n
      <4>1. Load(r) \in Int
        BY <1>7, LoadNumber, Zenon
      <4> QED BY <3>1, <4>1, Same, Zenon
    <3>2. CASE i \in 1..(n - 1)
      <4>1. best # "" /\ Load(best) <= Load(order[i])
        BY <1>6, <2>3, <3>2, Zenon
      <4>2. Load(r) \in Int /\ Load(best) \in Int /\ Load(order[i]) \in Int
        BY <1>5, <1>7, <2>3, <4>1, LoadNumber, Zenon
      <4>3. Load(r) < Load(best)
        BY <1>7, <4>1, Zenon
      <4> QED BY <4>1, <4>2, <4>3, BelowBoth, Zenon
    <3> QED BY <1>1, <3>1, <3>2, Zenon
  <2>4. \A i \in 1..n : Serviceable(order[i]) => Load(next) <= Load(order[i])
    BY <2>1, <2>3, Zenon
  <2> QED BY <2>2, <2>4, Zenon DEF LeastLoad, Load
<1>8. CASE ~(Serviceable(r) /\ (best = "" \/ Load(r) < Load(best)))
  <2>1. next = best
    BY <1>8, LoadStepIs, Zenon
  <2>2. Serviceable(r) => best # "" /\ ~(Load(r) < Load(best))
    BY <1>8, Zenon
  <2>3. Picked(order, n, next)
    BY <1>2, <1>3, <2>1, <2>2, PickedNext, Zenon
  <2>4. ASSUME NEW i \in 1..n, Serviceable(order[i]) PROVE Load(best) <= Load(order[i])
    <3>1. CASE i = n
      <4>1. Load(r) \in Int /\ Load(best) \in Int
        BY <1>5, <2>2, <2>4, <3>1, LoadNumber, Zenon
      <4>2. ~(Load(r) < Load(best))
        BY <2>2, <2>4, <3>1, Zenon
      <4> QED BY <3>1, <4>1, <4>2, NotBelow, Zenon
    <3>2. CASE i \in 1..(n - 1)
      BY <1>6, <2>4, <3>2, Zenon
    <3> QED BY <1>1, <3>1, <3>2, Zenon
  <2>5. \A i \in 1..n : Serviceable(order[i]) => Load(next) <= Load(order[i])
    BY <2>1, <2>4, Zenon
  <2> QED BY <2>3, <2>5, Zenon DEF LeastLoad, Load
<1> QED BY <1>7, <1>8, Zenon

LEMMA PlaceStepOK ==
    ASSUME RegionsOK, NEW order, NEW n \in Nat, n # 0, order[n] \in BRegions,
           NEW best, BestScore(order, n - 1, best)
    PROVE  BestScore(order, n, PlaceStep(order, best, order[n]))
<1> DEFINE r == order[n]
           next == PlaceStep(order, best, r)
<1>1. 1..n = (1..(n - 1)) \cup {n}
  BY UpTo, Zenon
<1>2. r # ""
  BY BalancerAssumption, Zenon
<1>3. Picked(order, n - 1, best)
  BY Zenon DEF BestScore
<1>5. best # "" => Serviceable(best)
  BY <1>3, Zenon DEF Picked
<1>6. \A i \in 1..(n - 1) : Serviceable(order[i]) => best # "" /\ Score(best) >= Score(order[i])
  BY <1>3, Zenon DEF BestScore, Picked
<1>7. CASE Serviceable(r) /\ (best = "" \/ Score(r) > Score(best))
  <2>1. next = r
    BY <1>7, Zenon DEF PlaceStep
  <2>2. Picked(order, n, next)
    BY <1>2, <1>3, <1>7, <2>1, PickedNext, Zenon
  <2>3. ASSUME NEW i \in 1..n, Serviceable(order[i]) PROVE Score(r) >= Score(order[i])
    <3>1. CASE i = n
      <4>1. Score(r) \in Int
        BY <1>7, ScoreNumber, Zenon
      <4> QED BY <3>1, <4>1, Same, Zenon
    <3>2. CASE i \in 1..(n - 1)
      <4>1. best # "" /\ Score(best) >= Score(order[i])
        BY <1>6, <2>3, <3>2, Zenon
      <4>2. Score(r) \in Int /\ Score(best) \in Int /\ Score(order[i]) \in Int
        BY <1>5, <1>7, <2>3, <4>1, ScoreNumber, Zenon
      <4>3. Score(r) > Score(best)
        BY <1>7, <4>1, Zenon
      <4> QED BY <4>1, <4>2, <4>3, AboveBoth, Zenon
    <3> QED BY <1>1, <3>1, <3>2, Zenon
  <2>4. \A i \in 1..n : Serviceable(order[i]) => Score(next) >= Score(order[i])
    BY <2>1, <2>3, Zenon
  <2> QED BY <2>2, <2>4, Zenon DEF BestScore
<1>8. CASE ~(Serviceable(r) /\ (best = "" \/ Score(r) > Score(best)))
  <2>1. next = best
    BY <1>8, Zenon DEF PlaceStep
  <2>2. Serviceable(r) => best # "" /\ ~(Score(r) > Score(best))
    BY <1>8, Zenon
  <2>3. Picked(order, n, next)
    BY <1>2, <1>3, <2>1, <2>2, PickedNext, Zenon
  <2>4. ASSUME NEW i \in 1..n, Serviceable(order[i]) PROVE Score(best) >= Score(order[i])
    <3>1. CASE i = n
      <4>1. Score(r) \in Int /\ Score(best) \in Int
        BY <1>5, <2>2, <2>4, <3>1, ScoreNumber, Zenon
      <4>2. ~(Score(r) > Score(best))
        BY <2>2, <2>4, <3>1, Zenon
      <4> QED BY <3>1, <4>1, <4>2, NotAbove, Zenon
    <3>2. CASE i \in 1..(n - 1)
      BY <1>6, <2>4, <3>2, Zenon
    <3> QED BY <1>1, <3>1, <3>2, Zenon
  <2>5. \A i \in 1..n : Serviceable(order[i]) => Score(next) >= Score(order[i])
    BY <2>1, <2>4, Zenon
  <2> QED BY <2>3, <2>5, Zenon DEF BestScore
<1> QED BY <1>7, <1>8, Zenon

LEMMA LoopsPick ==
    ASSUME RegionsOK, NEW n \in Nat, NEW order \in [1..n -> BRegions]
    PROVE  /\ LeastLoad(order, n, SelectRegionByLoad(order))
           /\ BestScore(order, n, SelectRegionWithLocation(order))
<1>1. DOMAIN order = 1..n /\ \A i \in 1..n : order[i] \in BRegions /\ i \in Nat /\ i # 0
  OBVIOUS
<1>2. Picked(order, 0, "") /\ LeastLoad(order, 0, "") /\ BestScore(order, 0, "")
  BY DEF Picked, LeastLoad, BestScore
<1>3. ASSUME NEW i \in 1..n, NEW a, LeastLoad(order, i - 1, a)
      PROVE  LeastLoad(order, i, LoadStep(order, a, order[i]))
  BY <1>1, <1>3, LoadStepOK, Zenon
<1>4. ASSUME NEW i \in 1..n, NEW a, BestScore(order, i - 1, a)
      PROVE  BestScore(order, i, PlaceStep(order, a, order[i]))
  BY <1>1, <1>4, PlaceStepOK, Zenon
<1>5. LeastLoad(order, n, LoadLoop!Folded(order, "", order))
  BY <1>1, <1>2, <1>3, LoadLoop!LoopInvariant, LeastL, Zenon
<1>6. BestScore(order, n, PlaceLoop!Folded(order, "", order))
  BY <1>1, <1>2, <1>4, PlaceLoop!LoopInvariant, LeastS, Zenon
<1> QED BY <1>5, <1>6, ByLoadIsFold, ByPlaceIsFold, Zenon

LEMMA BestOfAll ==
    ASSUME NEW n, NEW order, \A i \in 1..n : order[i] \in DOMAIN held,
           \A r \in DOMAIN held : \E i \in 1..n : order[i] = r,
           NEW x, LeastLoad(order, n, x), NEW y, BestScore(order, n, y)
    PROVE  ChosenBest(x, y)
<1> DEFINE able == {r \in DOMAIN held : Serviceable(r)}
<1>1. Picked(order, n, x) /\ Picked(order, n, y)
  BY Zenon DEF LeastLoad, BestScore
<1>2. x # "" => x \in able
  BY <1>1, Zenon DEF Picked
<1>3. y # "" => y \in able
  BY <1>1, Zenon DEF Picked
<1>4. \A r \in able : x # "" /\ y # ""
  BY <1>1, Zenon DEF Picked
<1>5. \A r \in able : regionMetrics[x].load <= regionMetrics[r].load
  BY Zenon DEF LeastLoad
<1>6. \A r \in able : Score(y) >= Score(r)
  BY Zenon DEF BestScore
<1>7. CASE able = {}
  BY <1>2, <1>3, <1>7, Zenon DEF ChosenBest
<1>8. CASE able # {}
  <2>1. x \in able /\ y \in able
    BY <1>2, <1>3, <1>4, <1>8, Zenon
  <2> QED BY <1>5, <1>6, <1>8, <2>1, Zenon DEF ChosenBest
<1> QED BY <1>7, <1>8, Zenon

LEMMA ChosenRight == ASSUME RegionsOK PROVE RegionChosen
<1> SUFFICES ASSUME NEW order \in [1..Cardinality(DOMAIN held) -> DOMAIN held], IsInjective(order)
             PROVE  ChosenBest(SelectRegionByLoad(order), SelectRegionWithLocation(order))
  BY Zenon DEF RegionChosen
<1>0. PICK n : n = Cardinality(DOMAIN held)
  BY Zenon
<1>1. n \in Nat /\ IsFiniteSet(DOMAIN held) /\ DOMAIN held \subseteq BRegions
  BY <1>0, FS_CardinalityType, Zenon DEF RegionsOK
<1>2. order \in [1..n -> DOMAIN held]
  BY <1>0, Zenon
<1>3. \A r \in DOMAIN held : \E i \in 1..n : order[i] = r
  <2>1. Cardinality(1..n) = n
    BY <1>1, FS_Interval
  <2>2. order \in Injection(1..n, DOMAIN held)
    BY <1>2, Zenon DEF Injection
  <2>3. order \in Surjection(1..n, DOMAIN held)
    BY <1>0, <1>1, <2>1, <2>2, FS_Injection, Zenon
  <2> QED BY <2>3, Zenon DEF Surjection
<1>4. order \in [1..n -> BRegions]
  BY <1>1, <1>2, Zenon
<1>5. \A i \in 1..n : order[i] \in DOMAIN held
  BY <1>2, Zenon
<1>6. LeastLoad(order, n, SelectRegionByLoad(order)) /\ BestScore(order, n, SelectRegionWithLocation(order))
  BY <1>1, <1>4, LoopsPick, Zenon
<1> QED BY <1>3, <1>5, <1>6, BestOfAll, Zenon

\* The pair SelectOptimalPair returns is what the records justify.
LEMMA SelectionRight ==
    ASSUME PairsInv PROVE OneRecordPerPair /\ NoWrap /\ FailedCheckExcludes /\ HealthyPreferred /\ OneEndpoint
<1> DEFINE pm == pairMetrics
           n == Len(pairMetrics)
           b == SelectOptimalPair
<1>1. pm \in Seq(Entry) /\ DOMAIN pm = 1..n /\ n \in Nat
  BY DEF PairsInv, ReportsOK
<1>2. PairSoFar(pm, n, b)
  BY <1>1, SelectedBest, Zenon
<1>3. \A i \in 1..n : RecordOK(pm[i], lastReport)
  BY Zenon DEF PairsInv, ReportsOK
<1>4. OneRecordPerPair /\ NoWrap
  BY <1>1, <1>3, Zenon DEF OneRecordPerPair, NoWrap, PairsInv, ReportsOK, RecordOK
<1>5. ASSUME b # None PROVE b \in 1..n /\ Eligible(pm[b]) /\ RecordOK(pm[b], lastReport)
  <2>1. b \in 1..n /\ Eligible(pm[b])
    BY <1>1, <1>2, <1>5 DEF PairSoFar, None
  <2> QED BY <1>3, <2>1, Zenon
<1>6. FailedCheckExcludes
  <2> HIDE DEF b
  <2>1. b # None => lastReport[pm[b].id]
    BY <1>5, Zenon DEF RecordOK, Eligible
  <2> QED BY <2>1, Zenon DEF FailedCheckExcludes, b
<1>7. OneEndpoint
  <2> HIDE DEF b
  <2>1. b # None => pm[b].sgx # pm[b].sev
    BY <1>5, Zenon DEF RecordOK
  <2> QED BY <2>1, Zenon DEF OneEndpoint, b
<1>8. HealthyPreferred
  <2> SUFFICES ASSUME GetHealthyPairs # {} PROVE b # None /\ pm[b].id \in GetHealthyPairs
    BY Zenon DEF HealthyPreferred
  <2>1. PICK i \in 1..n : Eligible(pm[i]) /\ pm[i].load < 1
    BY <1>1, Zenon DEF GetHealthyPairs, Range
  <2>2. b # None /\ pm[b].load <= pm[i].load
    BY <1>2, <2>1, Zenon DEF PairSoFar
  <2>3. b \in 1..n /\ Eligible(pm[b])
    BY <1>5, <2>2, Zenon
  <2> HIDE DEF b
  <2>4. pm[b].load \in 0..2 /\ pm[i].load \in 0..2
    BY <1>1, <2>3, EntryAt, Zenon
  <2>5. pm[b].load < 1
    BY <2>1, <2>2, <2>4
  <2>6. pm[b] \in Range(pairMetrics)
    BY <1>1, <2>3, Zenon DEF Range
  <2> QED BY <2>2, <2>3, <2>5, <2>6, Zenon DEF GetHealthyPairs
<1> QED BY <1>4, <1>6, <1>7, <1>8, Zenon

\* What SelectOptimalPair and the selections of a region return is what the reports
\* of the monitors and the tasks justify (regions/balancer.go), for every number of
\* pairs, regions and monitors.
THEOREM SelectionsJustified == BalancerSpec => []SelectionJustified
<1>1. BalancerInit => PairsInv /\ RegionsOK
  <2> SUFFICES ASSUME BalancerInit PROVE PairsInv /\ RegionsOK
    BY Zenon
  <2>1. ReportsOK(<<>>, [p \in TEEPairs |-> FALSE])
    BY DEF ReportsOK
  <2>2. <<>> \in Seq(Checks)
    OBVIOUS
  <2>3. PairsInv
    BY <2>1, <2>2, Zenon DEF BalancerInit, PairsInv
  <2>4. RegionsOK
    BY FS_EmptySet, Zenon DEF BalancerInit, RegionsOK
  <2> QED BY <2>3, <2>4, Zenon
<1>2. PairsInv /\ RegionsOK => SelectionJustified
  <2> SUFFICES ASSUME PairsInv, RegionsOK PROVE SelectionJustified
    BY Zenon
  <2>1. BalancerTypeOK
    BY Zenon DEF PairsInv, RegionsOK, ReportsOK, BalancerTypeOK, Checks
  <2> QED BY <2>1, SelectionRight, ChosenRight, Zenon DEF SelectionJustified
<1> QED BY <1>1, <1>2, PairsStep, RegionsStep, PTL DEF BalancerSpec

-----------------------------------------------------------------------------
(* The books on the pairs *)

\* RemoveTEEPair's loop over a list for a pair, c = <<pair, list>>.
KeepStep(c, kept, q) == IF q.ends = c[1].ends THEN kept ELSE Append(kept, q)

Distinct(list) == \A i, j \in DOMAIN list : list[i].ends = list[j].ends => i = j

\* What is kept of the first n entries are some of them.
KeptSoFar(c, n, kept) ==
    /\ kept \in Seq(Listed) /\ Distinct(kept)
    /\ \A j \in DOMAIN kept : \E i \in 1..n : kept[j] = c[2][i]

KeepLoop == INSTANCE FoldTheory WITH Op <- KeepStep, Inv <- KeptSoFar

LEMMA LeastK == KeepLoop!LeastExists
  BY LeastNumber, Zenon DEF KeepLoop!LeastExists

LEMMA KeptIsFold ==
    \A list, p : NewPairs(p, list) = KeepLoop!Folded(<<p, list>>, <<>>, list)
  BY DEF NewPairs, KeepStep, FoldLeft, MapThenFoldSet, Max, KeepLoop!Folded, KeepLoop!Results,
         KeepLoop!After, KeepLoop!Top

LEMMA AppendApart ==
    ASSUME NEW list \in Seq(Listed), Distinct(list), NEW p \in Listed,
           \A i \in DOMAIN list : list[i].ends # p.ends
    PROVE  Append(list, p) \in Seq(Listed) /\ Distinct(Append(list, p))
<1> DEFINE t == Append(list, p)
<1>1. /\ t \in Seq(Listed) /\ Len(t) = Len(list) + 1 /\ DOMAIN t = 1..Len(t) /\ DOMAIN list = 1..Len(list)
      /\ Len(list) \in Nat /\ t[Len(t)] = p /\ \A i \in 1..Len(list) : t[i] = list[i]
  OBVIOUS
<1> HIDE DEF t
<1>2. ASSUME NEW i \in DOMAIN t, NEW j \in DOMAIN t, t[i].ends = t[j].ends PROVE i = j
  <2>1. CASE i \in DOMAIN list /\ j \in DOMAIN list
    BY <1>1, <1>2, <2>1, Zenon DEF Distinct
  <2>2. CASE i = Len(t) /\ j \in DOMAIN list
    BY <1>1, <1>2, <2>2, Zenon
  <2>3. CASE i \in DOMAIN list /\ j = Len(t)
    BY <1>1, <1>2, <2>3, Zenon
  <2> QED BY <1>1, <2>1, <2>2, <2>3
<1> QED BY <1>1, <1>2, Zenon DEF Distinct, t

LEMMA KeepStepOK ==
    ASSUME NEW list \in Seq(Listed), Distinct(list), NEW p, NEW n \in 1..Len(list), NEW kept,
           KeptSoFar(<<p, list>>, n - 1, kept)
    PROVE  KeptSoFar(<<p, list>>, n, KeepStep(<<p, list>>, kept, list[n]))
<1> DEFINE q == list[n]
<1>0. n \in DOMAIN list /\ DOMAIN list = 1..Len(list) /\ q \in Listed /\ Len(list) \in Nat
  OBVIOUS
<1>1. kept \in Seq(Listed) /\ Distinct(kept) /\ \A j \in DOMAIN kept : \E i \in 1..(n - 1) : kept[j] = list[i]
  BY Zenon DEF KeptSoFar
<1>2. CASE q.ends = p.ends
  <2>1. KeepStep(<<p, list>>, kept, q) = kept
    BY <1>2, Zenon DEF KeepStep
  <2> QED BY <1>0, <1>1, <2>1 DEF KeptSoFar
<1>3. CASE q.ends # p.ends
  <2> DEFINE t == Append(kept, q)
  <2>1. KeepStep(<<p, list>>, kept, q) = t
    BY <1>3, Zenon DEF KeepStep
  <2>2. \A j \in DOMAIN kept : kept[j].ends # q.ends
    <3> SUFFICES ASSUME NEW j \in DOMAIN kept, kept[j].ends = q.ends PROVE FALSE
      BY Zenon
    <3>1. PICK i \in 1..(n - 1) : kept[j] = list[i]
      BY <1>1, Zenon
    <3>2. i \in DOMAIN list /\ i # n
      BY <1>0
    <3> QED BY <1>0, <3>1, <3>2, Zenon DEF Distinct
  <2>3. t \in Seq(Listed) /\ Distinct(t)
    BY <1>0, <1>1, <2>2, AppendApart, Zenon
  <2>4. ASSUME NEW j \in DOMAIN t PROVE \E i \in 1..n : t[j] = list[i]
    <3>1. CASE j \in DOMAIN kept
      <4>1. t[j] = kept[j]
        BY <1>0, <1>1, <3>1
      <4>2. PICK i \in 1..(n - 1) : kept[j] = list[i]
        BY <1>1, <3>1, Zenon
      <4> QED BY <1>0, <4>1, <4>2
    <3>2. CASE j \notin DOMAIN kept
      <4>1. t[j] = q
        BY <1>0, <1>1, <3>2
      <4> QED BY <1>0, <4>1
    <3> QED BY <3>1, <3>2, Zenon
  <2> HIDE DEF t
  <2> QED BY <2>1, <2>3, <2>4, Zenon DEF KeptSoFar
<1> QED BY <1>2, <1>3, Zenon

LEMMA KeptApart ==
    ASSUME NEW list \in Seq(Listed), Distinct(list), NEW p
    PROVE  NewPairs(p, list) \in Seq(Listed) /\ Distinct(NewPairs(p, list))
<1> DEFINE c == <<p, list>>
<1>1. NewPairs(p, list) = KeepLoop!Folded(c, <<>>, list)
  BY KeptIsFold, Zenon
<1>0. Len(list) \in Nat /\ DOMAIN list = 1..Len(list)
  OBVIOUS
<1>2. PICK n \in Nat : n = Len(list) /\ DOMAIN list = 1..n
  BY <1>0, Zenon
<1>3. KeptSoFar(c, 0, <<>>)
  <2>1. DOMAIN <<>> = {} /\ <<>> \in Seq(Listed)
    OBVIOUS
  <2> QED BY <2>1, Zenon DEF KeptSoFar, Distinct
<1>4. \A i \in 1..n : \A a : KeptSoFar(c, i - 1, a) => KeptSoFar(c, i, KeepStep(c, a, list[i]))
  BY <1>2, KeepStepOK, Zenon
<1> HIDE DEF c
<1>5. KeptSoFar(c, n, KeepLoop!Folded(c, <<>>, list))
  BY <1>2, <1>3, <1>4, LeastK, KeepLoop!LoopInvariant, Zenon
<1> QED BY <1>1, <1>5, Zenon DEF KeptSoFar

-----------------------------------------------------------------------------
CountsOK(m) ==
    /\ m.processed \in Nat /\ m.failed \in Nat /\ m.error.of = m.failed /\ m.error.in \in Nat
    /\ m.failed = 0 \/ m.error.in <= m.processed
    /\ m.status = "active" => AtMost(m.error, 10)

Metrics == [processed : Nat, failed : Nat, streak : Nat, success : [of : Int, in : Nat],
            error : [of : Nat, in : Nat], status : {"active", "degraded", "failed"}]

BooksInv ==
    /\ DOMAIN pairInfo \subseteq measured \cap DOMAIN storedInfo
    /\ counts \in Metrics /\ CountsOK(counts)
    /\ replaced \in BOOLEAN
    /\ ~replaced => teePairs \in Seq(Listed) /\ Distinct(teePairs)

Rates(t) == t.error.of = t.failed /\ (t.failed = 0 \/ t.error.in <= t.processed)

LEMMA MetricsRecord ==
    ASSUME NEW m \in Metrics, NEW a \in Nat, NEW b \in Nat, NEW d \in Nat,
           NEW e \in [of : Int, in : Nat], NEW f \in [of : Nat, in : Nat]
    PROVE  /\ [m EXCEPT !.processed = a, !.streak = d, !.success = e] \in Metrics
           /\ [m EXCEPT !.processed = a, !.failed = b, !.streak = d, !.error = f] \in Metrics
  BY Zenon DEF Metrics

LEMMA TaskKept ==
    ASSUME NEW m \in Metrics, CountsOK(m), NEW success \in BOOLEAN
    PROVE  TaskCounted(m, success) \in Metrics /\ Rates(TaskCounted(m, success))
<1> DEFINE e == [of |-> m.processed + 1 - m.failed, in |-> m.processed + 1]
           f == [of |-> m.failed + 1, in |-> m.processed + 1]
           a == m.processed + 1
           b == m.failed + 1
           d == m.streak + 1
           t == [m EXCEPT !.processed = a, !.streak = 0, !.success = e]
           u == [m EXCEPT !.processed = a, !.failed = b, !.streak = d, !.error = f]
<1>1. m.processed \in Nat /\ m.failed \in Nat /\ m.streak \in Nat /\ m.error \in [of : Nat, in : Nat]
  BY Zenon DEF Metrics
<1>2. a \in Nat /\ b \in Nat /\ d \in Nat /\ e \in [of : Int, in : Nat] /\ f \in [of : Nat, in : Nat]
  BY <1>1
<1>3. f.of = b /\ f.in = a /\ a <= a
  BY <1>1
<1>4. TaskCounted(m, success) = IF success THEN t ELSE u
  BY Zenon DEF TaskCounted, Processed, Failed, Metrics
<1>5. m.error.of = m.failed /\ (m.failed = 0 \/ m.error.in <= a)
  BY <1>1 DEF CountsOK
<1> HIDE DEF a, b, d, e, f
<1>6. t \in Metrics /\ u \in Metrics
  BY <1>2, MetricsRecord, Zenon
<1>7. t.error = m.error /\ t.failed = m.failed /\ t.processed = a
  BY Zenon DEF Metrics
<1>8. u.error = f /\ u.failed = b /\ u.processed = a
  BY Zenon DEF Metrics
<1> HIDE DEF t, u
<1>9. Rates(t)
  BY <1>5, <1>7, Zenon DEF Rates
<1>10. Rates(u)
  BY <1>3, <1>8, Zenon DEF Rates
<1> QED BY <1>4, <1>6, <1>9, <1>10, Zenon

LEMMA StatusKept ==
    ASSUME NEW t \in Metrics, Rates(t)
    PROVE  updateStatus(t) \in Metrics /\ CountsOK(updateStatus(t))
<1> DEFINE s == IF t.streak >= 3 THEN "failed"
                ELSE IF AtMost(t.error, 10) /\ AtLeast(t.success, 90) THEN "active"
                ELSE "degraded"
           u == [t EXCEPT !.status = s]
<1>1. updateStatus(t) = u
  BY Zenon DEF updateStatus
<1>2. s \in {"active", "degraded", "failed"} /\ (s = "active" => AtMost(t.error, 10))
  BY Zenon
<1> HIDE DEF s
<1>3. /\ u \in Metrics /\ u.status = s /\ u.processed = t.processed /\ u.failed = t.failed /\ u.error = t.error
      /\ t.processed \in Nat /\ t.failed \in Nat /\ t.error.in \in Nat
  BY <1>2, Zenon DEF Metrics
<1> HIDE DEF u
<1> QED BY <1>1, <1>2, <1>3, Zenon DEF CountsOK, Rates

LEMMA ResetKept == ResetMetrics \in Metrics /\ CountsOK(ResetMetrics)
  BY DEF ResetMetrics, Metrics, CountsOK, AtMost

LEMMA ManagerKeeps ==
    ASSUME BooksInv, ManagerNext
    PROVE  DOMAIN pairInfo' \subseteq measured' \cap DOMAIN storedInfo'
  BY Zenon
     DEF BooksInv, ManagerNext, CreateRefused, CreatePair, UpdatePairStatus, SetPairMetrics,
         CloseManager,
         Records, NoInfo

LEMMA ListKeeps ==
    ASSUME BooksInv, ListNext
    PROVE  replaced' \in BOOLEAN /\ (~replaced' => teePairs' \in Seq(Listed) /\ Distinct(teePairs'))
<1>1. PICK p \in Listed : AddTEEPair(p) \/ RemoveTEEPair(p) \/ UpdateTEEPair(p)
  BY Zenon DEF ListNext
<1>2. ASSUME AddTEEPair(p) PROVE ~replaced' => teePairs' \in Seq(Listed) /\ Distinct(teePairs')
  <2>1. CASE \E i \in DOMAIN teePairs : teePairs[i].ends = p.ends
    BY <1>2, <2>1, Zenon DEF BooksInv, AddTEEPair
  <2>2. CASE \A i \in DOMAIN teePairs : teePairs[i].ends # p.ends
    <3>1. teePairs' = Append(teePairs, p) /\ replaced' = replaced
      BY <1>2, <2>2, Zenon DEF AddTEEPair
    <3> QED BY <2>2, <3>1, AppendApart, Zenon DEF BooksInv
  <2> QED BY <2>1, <2>2, Zenon
<1>3. ASSUME RemoveTEEPair(p) PROVE ~replaced' => teePairs' \in Seq(Listed) /\ Distinct(teePairs')
  <2>1. /\ replaced' = replaced
        /\ teePairs' = NewPairs(p, teePairs)
    BY <1>3, Zenon DEF RemoveTEEPair
  <2>2. ASSUME ~replaced PROVE teePairs' \in Seq(Listed) /\ Distinct(teePairs')
    <3>1. teePairs \in Seq(Listed) /\ Distinct(teePairs)
      BY <2>2, Zenon DEF BooksInv
    <3> QED BY <2>1, <3>1, KeptApart, Zenon
  <2> QED BY <2>1, <2>2, Zenon
<1>4. ASSUME UpdateTEEPair(p) PROVE replaced' = TRUE
  BY <1>4, Zenon DEF UpdateTEEPair
<1>5. replaced' \in BOOLEAN
  BY <1>1, Zenon DEF AddTEEPair, RemoveTEEPair, UpdateTEEPair, BooksInv
<1> QED BY <1>1, <1>2, <1>3, <1>4, <1>5, Zenon

LEMMA BooksStep == BooksInv /\ [PairsNext]_pairVars => BooksInv'
<1> SUFFICES ASSUME BooksInv, [PairsNext]_pairVars PROVE BooksInv'
  BY Zenon
<1>1. ASSUME ManagerNext, UNCHANGED <<counts, listVars>> PROVE BooksInv'
  BY <1>1, ManagerKeeps, Zenon DEF BooksInv, listVars
<1>2. ASSUME MetricsNext, UNCHANGED <<managerVars, listVars>> PROVE BooksInv'
  <2>1. counts' \in Metrics /\ CountsOK(counts')
    <3>1. CASE Reset
      BY <3>1, ResetKept, Zenon DEF Reset
    <3>2. ASSUME NEW success \in BOOLEAN, CountTask(success) PROVE counts' \in Metrics /\ CountsOK(counts')
      BY <3>2, TaskKept, StatusKept, Zenon DEF CountTask, BooksInv
    <3> QED BY <1>2, <3>1, <3>2, Zenon DEF MetricsNext
  <2> QED BY <1>2, <2>1, Zenon DEF BooksInv, managerVars, listVars
<1>3. ASSUME ListNext, UNCHANGED <<managerVars, counts>> PROVE BooksInv'
  BY <1>3, ListKeeps, Zenon DEF BooksInv, managerVars
<1>4. ASSUME UNCHANGED pairVars PROVE BooksInv'
  BY <1>4, Zenon DEF BooksInv, pairVars, managerVars, listVars
<1> QED BY <1>1, <1>2, <1>3, <1>4, Zenon DEF PairsNext

LEMMA EarnedOK == ASSUME NEW m \in Metrics, CountsOK(m) PROVE
    /\ m.status = "active" => 10 * m.failed <= m.processed
    /\ IsHealthy(m) => 20 * m.failed <= m.processed
<1>1. /\ m.processed \in Nat /\ m.failed \in Nat /\ m.error.of = m.failed /\ m.error.in \in Nat
      /\ m.failed = 0 \/ m.error.in <= m.processed
  BY Zenon DEF CountsOK
<1>2. m.status = "active" => 100 * m.error.of <= 10 * m.error.in
  BY Zenon DEF CountsOK, AtMost
<1>3. IsHealthy(m) => 100 * m.error.of <= 5 * m.error.in
  BY Zenon DEF IsHealthy, AtMost
<1> QED BY <1>1, <1>2, <1>3

\* However pairs are created, updated, measured, listed and closed, in any order
\* and with any IDs and numbers of tasks: PairManager's records, the rates it
\* keeps and a region's list of pairs agree as BooksAgree says, and an active
\* status was earned.
THEOREM BooksAlwaysAgree == PairSpec => []BooksAgree
<1>1. PairInit => BooksInv
  <2> SUFFICES ASSUME PairInit PROVE BooksInv
    BY Zenon
  <2>1. DOMAIN pairInfo = {}
    BY Zenon DEF PairInit, NoInfo
  <2>2. teePairs = <<>> /\ teePairs \in Seq(Listed) /\ Distinct(teePairs)
    BY DEF PairInit, Distinct
  <2> QED BY <2>1, <2>2, ResetKept, Zenon DEF PairInit, BooksInv
<1>2. BooksInv => BooksAgree
  <2> SUFFICES ASSUME BooksInv PROVE BooksAgree
    BY Zenon
  <2>1. ListedIsBacked
    BY DEF BooksInv, ListedIsBacked, ListPairs, GetMetrics
  <2>2. ActiveIsEarned
    BY EarnedOK, Zenon DEF BooksInv, ActiveIsEarned
  <2>3. EndpointsApart
    BY Zenon DEF BooksInv, EndpointsApart, Distinct
  <2> QED BY <2>1, <2>2, <2>3, Zenon DEF BooksAgree
<1> QED BY <1>1, <1>2, BooksStep, PTL DEF PairSpec

LEMMA OnlyCreateLists ==
    ASSUME NEW q \in PairIDs, [PairsNext]_pairVars, <<"sgx", q>> \in workers, q \notin GetPairInfo
    PROVE  q \notin GetPairInfo'
  BY ZenonT(30) DEF PairsNext, ManagerNext, CreateRefused, CreatePair, UpdatePairStatus, SetPairMetrics,
                    CloseManager, Records, NoInfo, GetPairInfo, Registrable, pairVars, managerVars

\* A pair whose CreatePair failed between its two workers never gets a record:
\* every later CreatePair is refused for the first worker, and nothing else lists
\* a pair.
THEOREM HalfCreatedAlwaysStays == PairSpec => HalfCreatedStays
<1>1. [PairsNext]_pairVars => [StaysUnlisted]_managerVars
  BY OnlyCreateLists, Zenon DEF StaysUnlisted
<1> QED BY <1>1, PTL DEF PairSpec, HalfCreatedStays
=============================================================================
