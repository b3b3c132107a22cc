------------------------------ MODULE Verifier ------------------------------
(***************************************************************************)
(* Verification of actions before they are executed: StateVerifier and     *)
(* BatchVerifier (verifier/), and ShuttleVM.ValidateTransaction with the   *)
(* attestation checks it makes (vm/core.go).  What is verified is the      *)
(* state under the keys of storage/storage.go, which its writers go on     *)
(* changing between the steps of a verification.                           *)
(*                                                                         *)
(* An attestation is its enclave, its time, its data and whether it        *)
(* carries a measurement.  Sizes are within their limits.                  *)
(***************************************************************************)
EXTENDS Integers, Sequences

CONSTANTS
    VRegions, VIDs, Enclaves, Digests,
    MaxNow,     \* bound: the clock
    MaxAge,     \* ValidateTransaction: the oldest attestation it takes
    MaxBatch,   \* MaxBatchSize
    Batches     \* the action lists that are submitted for verification

Now == 0..MaxNow

Attestation == [enclave : Enclaves, time : Now, data : Digests, measured : BOOLEAN]

ActionKinds == {"create", "send", "input", "createRegion", "updateRegion"}

VAction == [kind : ActionKinds, region : VRegions, id : VIDs, atts : Attestation \X Attestation]

ASSUME VerifierAssumption ==
    /\ {MaxNow, MaxAge, MaxBatch} \subseteq Nat
    /\ Batches \subseteq Seq(VAction)

VARIABLES
    vObjects,  \* the <<region, id>> with a record under makeObjectKey
    vRegions,  \* the regions with a record under RegionKey
    vNow,      \* the clock
    vPc,       \* the verification: idle, analyze, verify, constraints, validate
    batch,     \* its actions
    pos,       \* the action it looks at next
    created,   \* objectModifications: the IDs marked created
    regMods,   \* regionModifications: absent, created or teeUpdated
    queue,     \* eventQueue: the times of the events per IDTo
    seen,      \* attestationsSeen
    verdict    \* "" while it runs; "ok" (VerifyBatch), "admitted"
               \* (ValidateTransaction) or the error it returned

jobVars == <<vPc, batch, pos, created, regMods, queue, seen, verdict>>
verVars == <<vObjects, vRegions, vNow, jobVars>>

Errors == {"limit", "duplicateAction", "duplicateAttestation", "conflict",
           "timestamp", "state", "attestation"}

VerTypeOK ==
    /\ vObjects \subseteq VRegions \X VIDs
    /\ vRegions \subseteq VRegions
    /\ vNow \in Now
    /\ vPc \in {"idle", "analyze", "verify", "constraints", "validate"}
    /\ batch \in Batches \cup {<<>>}
    /\ pos \in 1..(Len(batch) + 1)
    /\ created \subseteq VIDs
    /\ regMods \in [VRegions -> {"absent", "created", "teeUpdated"}]
    /\ queue \in [VIDs -> Seq(Now)]
    /\ seen \subseteq Enclaves \X Now
    /\ verdict \in {"", "ok", "admitted"} \cup Errors

NoTracking ==
    /\ created' = {}
    /\ regMods' = [r \in VRegions |-> "absent"]
    /\ queue' = [id \in VIDs |-> <<>>]
    /\ seen' = {}

VerInit ==
    /\ vObjects = {} /\ vRegions = {} /\ vNow = 0
    /\ vPc = "idle" /\ batch = <<>> /\ pos = 1 /\ verdict = ""
    /\ created = {} /\ regMods = [r \in VRegions |-> "absent"]
    /\ queue = [id \in VIDs |-> <<>>] /\ seen = {}

Tracked == <<created, regMods, queue, seen>>
Written == <<vObjects, vRegions, vNow>>

\* The verification returns; the tracking maps stay until the next one.
Return(v) == vPc' = "idle" /\ verdict' = v /\ UNCHANGED <<batch, pos>>

Step(pc) == vPc' = pc /\ UNCHANGED <<batch, verdict>>

-----------------------------------------------------------------------------
(* The writers of the state (storage.go), and the clock.                   *)

WriteObject(r, id) ==
    /\ vObjects' = vObjects \cup {<<r, id>>}
    /\ UNCHANGED <<vRegions, vNow, jobVars>>

SetRegionRecord(r) ==
    /\ vRegions' = vRegions \cup {r}
    /\ UNCHANGED <<vObjects, vNow, jobVars>>

Tick ==
    /\ vNow < MaxNow
    /\ vNow' = vNow + 1
    /\ UNCHANGED <<vObjects, vRegions, jobVars>>

-----------------------------------------------------------------------------
(* VerifyStateTransition on one action; sizes are left out.                *)

\* storage.GetObject and storage.GetRegion.
HasObject(a) == <<a.region, a.id>> \in vObjects
HasRegion(a) == a.region \in vRegions

\* It makes a channel of its own, sends one message into it and compares nothing.
VerifyAttestationPair(a) == TRUE

verifyCreateObject(a) == ~HasObject(a)

verifyEvent(a) == HasObject(a) /\ HasRegion(a) /\ VerifyAttestationPair(a)

verifySetInputObject(a) == HasObject(a)

VerifyStateTransition(a) ==
    CASE a.kind = "create" -> verifyCreateObject(a)
      [] a.kind = "send" -> verifyEvent(a)
      [] a.kind = "input" -> verifySetInputObject(a)
      [] OTHER -> FALSE

-----------------------------------------------------------------------------
(* VerifyBatch.                                                            *)

\* Mutant: the maps of the last batch are kept when a batch begins.
StartBatchKeeping(b) ==
    /\ vPc = "idle"
    /\ IF Len(b) > MaxBatch
       THEN Return("limit") /\ UNCHANGED Tracked
       ELSE /\ vPc' = "analyze" /\ batch' = b /\ pos' = 1 /\ verdict' = ""
            /\ UNCHANGED Tracked
    /\ UNCHANGED Written

StartBatch(b) ==
    /\ vPc = "idle"
    /\ IF Len(b) > MaxBatch
       THEN Return("limit") /\ UNCHANGED Tracked
       ELSE /\ vPc' = "analyze" /\ batch' = b /\ pos' = 1 /\ verdict' = ""
            /\ NoTracking
    /\ UNCHANGED Written

AttIDs(a) == <<<<a.atts[1].enclave, a.atts[1].time>>, <<a.atts[2].enclave, a.atts[2].time>>>>

\* What analyzeActions answers for an action, given the actions before it.
\* objectModifications and eventQueue have the ID alone as their key.
\* objectModifications holds only created entries, so the conflict that
\* SetInputObject looks for does not arise.
Analysis(a) ==
    CASE a.kind = "create" -> IF a.id \in created THEN "duplicateAction" ELSE ""
      [] a.kind = "send" ->
           IF AttIDs(a)[1] \in seen \/ AttIDs(a)[2] \in seen \cup {AttIDs(a)[1]}
           THEN "duplicateAttestation" ELSE ""
      [] a.kind = "createRegion" ->
           IF regMods[a.region] = "created" THEN "duplicateAction" ELSE ""
      [] a.kind = "updateRegion" ->
           CASE regMods[a.region] = "teeUpdated" -> "duplicateAction"
             [] regMods[a.region] = "created" -> "conflict"
             [] OTHER -> ""
      [] OTHER -> ""

Track(a) ==
    /\ created' = IF a.kind = "create" THEN created \cup {a.id} ELSE created
    /\ regMods' = CASE a.kind = "createRegion" -> [regMods EXCEPT ![a.region] = "created"]
                    [] a.kind = "updateRegion" -> [regMods EXCEPT ![a.region] = "teeUpdated"]
                    [] OTHER -> regMods
    /\ queue' = IF a.kind = "send" THEN [queue EXCEPT ![a.id] = Append(@, a.atts[1].time)]
                ELSE queue
    /\ seen' = IF a.kind = "send" THEN seen \cup {AttIDs(a)[1], AttIDs(a)[2]} ELSE seen

Analyze ==
    /\ vPc = "analyze" /\ pos <= Len(batch)
    /\ IF Analysis(batch[pos]) # ""
       THEN Return(Analysis(batch[pos])) /\ UNCHANGED Tracked
       ELSE Track(batch[pos]) /\ pos' = pos + 1 /\ Step("analyze")
    /\ UNCHANGED Written

Analyzed ==
    /\ vPc = "analyze" /\ pos > Len(batch)
    /\ pos' = 1 /\ Step("verify")
    /\ UNCHANGED <<Written, Tracked>>

\* Whatever passes VerifyStateTransition as a creation was marked created by the
\* analysis, which verifyCreateInBatch takes for a duplicate.
verifyCreateInBatch(a) == a.id \notin created

VerifyAction ==
    /\ vPc = "verify" /\ pos <= Len(batch)
    /\ LET a == batch[pos]
       IN  CASE ~VerifyStateTransition(a) -> Return("state")
             [] VerifyStateTransition(a) /\ a.kind = "create" /\ ~verifyCreateInBatch(a) ->
                  Return("duplicateAction")
             [] OTHER -> pos' = pos + 1 /\ Step("verify")
    /\ UNCHANGED <<Written, Tracked>>

Verified ==
    /\ vPc = "verify" /\ pos > Len(batch)
    /\ Step("constraints")
    /\ UNCHANGED <<pos, Written, Tracked>>

\* verifyBatchConstraints: each event against the one before it.
InOrder == \A id \in VIDs : \A i \in 2..Len(queue[id]) : queue[id][i - 1] <= queue[id][i]

BatchConstraints ==
    /\ vPc = "constraints"
    /\ Return(IF InOrder THEN "ok" ELSE "timestamp")
    /\ UNCHANGED <<Written, Tracked>>

-----------------------------------------------------------------------------
(* ValidateTransaction.                                                    *)

StartValidate(b) ==
    /\ vPc = "idle"
    /\ vPc' = "validate" /\ batch' = b /\ pos' = 1 /\ verdict' = ""
    /\ UNCHANGED <<Written, Tracked>>

Recent(t) == vNow - t <= MaxAge /\ t - vNow <= MaxAge

\* The expected measurement is empty; the signature checks accept everything.
verifySGXAttestation(att) == ~att.measured
verifySEVAttestation(att) == ~att.measured

verifyTEEExecution(a) ==
    /\ a.atts[1].time = a.atts[2].time
    /\ Recent(a.atts[1].time)
    /\ verifySGXAttestation(a.atts[1]) /\ verifySEVAttestation(a.atts[2])
    /\ a.atts[1].data = a.atts[2].data

ValidateAction ==
    /\ vPc = "validate" /\ pos <= Len(batch)
    /\ LET a == batch[pos]
       IN  CASE a.kind = "send" /\ ~verifyTEEExecution(a) -> Return("attestation")
             [] a.kind = "send" /\ verifyTEEExecution(a) /\ ~VerifyStateTransition(a) -> Return("state")
             [] a.kind # "send" /\ ~VerifyStateTransition(a) -> Return("state")
             [] OTHER -> pos' = pos + 1 /\ Step("validate")
    /\ UNCHANGED <<Written, Tracked>>

Validated ==
    /\ vPc = "validate" /\ pos > Len(batch)
    /\ Return("admitted")
    /\ UNCHANGED <<Written, Tracked>>

JobStep ==
    \/ \E b \in Batches : StartBatch(b) \/ StartValidate(b)
    \/ Analyze \/ Analyzed \/ VerifyAction \/ Verified \/ BatchConstraints
    \/ ValidateAction \/ Validated

VerNext ==
    \/ \E r \in VRegions, id \in VIDs : WriteObject(r, id)
    \/ \E r \in VRegions : SetRegionRecord(r)
    \/ Tick
    \/ JobStep

VerSpec == VerInit /\ [][VerNext]_verVars

-----------------------------------------------------------------------------
(* Properties.                                                             *)

SendsOf(b) == {i \in DOMAIN b : b[i].kind = "send"}

\* The state has what the actions of a list need, when the list was accepted and
\* ever after, although each action was verified at another moment.
TargetsExist(b) ==
    \A i \in DOMAIN b :
        /\ b[i].kind \in {"send", "input"} => <<b[i].region, b[i].id>> \in vObjects
        /\ b[i].kind = "send" => b[i].region \in vRegions

Repeated(b) ==
    \E i, j \in SendsOf(b), m, n \in {1, 2} :
        <<i, m>> # <<j, n>> /\ AttIDs(b[i])[m] = AttIDs(b[j])[n]

OutOfOrder(b) ==
    \E i, j \in SendsOf(b) :
        i < j /\ b[i].id = b[j].id /\ b[i].atts[1].time > b[j].atts[1].time

\* Two actions that analyzeActions takes for one: creations of an ID, creations of
\* a region, or updates of a region.
SameChange(b) ==
    \E i, j \in DOMAIN b :
        /\ i < j /\ b[i].kind = b[j].kind
        /\ \/ b[i].kind = "create" /\ b[i].id = b[j].id
           \/ b[i].kind \in {"createRegion", "updateRegion"} /\ b[i].region = b[j].region

\* A batch VerifyBatch accepts has its targets, uses no attestation twice and has
\* the events of an object in the order of their times.
AcceptedBatch ==
    verdict = "ok" => TargetsExist(batch) /\ ~Repeated(batch) /\ ~OutOfOrder(batch)

\* The maps of a batch verifier are those of the current batch: an error about
\* attestations, times, conflicts or duplicates is justified by the batch it
\* rejects, not by what an earlier one left behind.  A creation is its own
\* duplicate, so ErrDuplicateAction says that two actions make one change or that
\* one creates an object.
RejectionJustified ==
    /\ verdict = "duplicateAttestation" => Repeated(batch)
    /\ verdict = "timestamp" => OutOfOrder(batch)
    /\ verdict = "duplicateAction" =>
         SameChange(batch) \/ \E i \in DOMAIN batch : batch[i].kind = "create"
    /\ verdict = "conflict" =>
         \E i, j \in DOMAIN batch : /\ batch[i].kind = "createRegion"
                                    /\ batch[j].kind = "updateRegion"
                                    /\ batch[i].region = batch[j].region

\* "duplicate action in batch" (batch.go:25): a batch rejected with it has two
\* actions that make one change.
DuplicateIsTwo == verdict = "duplicateAction" => SameChange(batch)

\* The events of a transaction that ValidateTransaction admits have their
\* targets, and the attestations of the two TEEs agree in time and data.
AdmittedTransaction ==
    verdict = "admitted" =>
        /\ TargetsExist(batch)
        /\ \A i \in SendsOf(batch) : /\ batch[i].atts[1].time = batch[i].atts[2].time
                                     /\ batch[i].atts[1].data = batch[i].atts[2].data

\* What VerifyBatch and ValidateTransaction decide is justified by the batch they
\* were given: an acceptance by what it guarantees, an error of the batch's own
\* checks by what the batch holds.
VerdictJustified == VerTypeOK /\ AcceptedBatch /\ RejectionJustified /\ AdmittedTransaction
=============================================================================
