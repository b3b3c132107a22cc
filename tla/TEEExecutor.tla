---------------------------- MODULE TEEExecutor -----------------------------
(***************************************************************************)
(* The TEE executor (tee/executor.go) and the Rust connector it runs both  *)
(* TEEs with.  Execute holds the executor's mutex to the end; it asks the  *)
(* time servers for a time proof unless the request has one, and leaves    *)
(* the proof in the request, which its caller may try again.  The clock    *)
(* and the servers' time move on their own; a result is its state hash.    *)
(***************************************************************************)
EXTENDS Integers, FiniteSets

CONSTANTS
    Requests,   \* *core.ExecutionRequest objects
    Results,    \* what a TEE can answer
    ProofWindow,     \* the five minutes of verifyAttestation
    MaxClock    \* bound: the clock

ASSUME TEEExecutorAssumption == ProofWindow \in Nat /\ MaxClock \in Nat

VARIABLES
    clock,
    proof,      \* each request's TimeProof: a set of at most one time
    holder,     \* the request in Execute: a set of at most one
    step,       \* where it is
    answers,    \* the TEEs' results so far
    accepted,   \* history: the request and the moment of each success
    expired     \* history: requests whose proof left the window outside Execute

executorVars == <<clock, proof, holder, step, answers, accepted, expired>>

Clock == 0..MaxClock
Within(t) == clock - t <= ProofWindow /\ t - clock <= ProofWindow

NoAnswers == [t \in {} |-> t]

ExecutorInit ==
    /\ clock \in Clock
    /\ proof = [r \in Requests |-> {}]
    /\ holder = {} /\ step = "prove" /\ answers = NoAnswers
    /\ accepted = {} /\ expired = {}

Tick ==
    /\ clock < MaxClock
    /\ clock' = clock + 1
    /\ expired' = expired \cup {r \in Requests \ holder : \E t \in proof[r] : clock + 1 - t > ProofWindow}
    /\ UNCHANGED <<proof, holder, step, answers, accepted>>

\* Execute takes the mutex.
Lock(r) ==
    /\ holder = {}
    /\ holder' = {r} /\ step' = "prove" /\ answers' = NoAnswers
    /\ UNCHANGED <<clock, proof, accepted, expired>>

\* It returns, with an error unless the step says otherwise.
Unlock == holder' = {}

\* Mutant: the time is asked for on every attempt.
ProveAlways(r) ==
    \/ \E t \in Clock : proof' = [proof EXCEPT ![r] = {t}] /\ step' = "sgx" /\ UNCHANGED holder
    \/ Unlock /\ UNCHANGED <<proof, step>>

\* VerifyExecutionTime, for a request without a proof: a time, or an error.  The
\* time is the servers' and need not be this machine's.
Prove(r) ==
    \/ /\ proof[r] # {}
       /\ step' = "sgx" /\ UNCHANGED <<proof, holder>>
    \/ /\ proof[r] = {}
       /\ \/ \E t \in Clock : proof' = [proof EXCEPT ![r] = {t}] /\ step' = "sgx" /\ UNCHANGED holder
          \/ Unlock /\ UNCHANGED <<proof, step>>

VerifyTime ==
    /\ step = "prove"
    /\ \E r \in holder : Prove(r)
    /\ UNCHANGED <<clock, answers, accepted, expired>>

\* ExecuteSGX, then ExecuteSEV: the controller answers or fails.
RunController(tee, next) ==
    /\ holder # {} /\ step = tee
    /\ \/ \E res \in Results :
            /\ answers' = [t \in DOMAIN answers \cup {tee} |-> IF t = tee THEN res ELSE answers[t]]
            /\ step' = next /\ UNCHANGED holder
       \/ Unlock /\ UNCHANGED <<answers, step>>
    /\ UNCHANGED <<clock, proof, accepted, expired>>

ExecuteSGX == RunController("sgx", "sev")
ExecuteSEV == RunController("sev", "verify")

\* Mutant: the attestation may be ahead of the clock by any time.
verifyAttestationAhead(t) == clock - t <= ProofWindow

\* verifyAttestation: the attestations carry the proof's time.  (Enclave and
\* measurement are always set, the data may be missing, which is a failure.)
verifyAttestation(t) == Within(t)

verifyResults(t) == answers["sgx"] = answers["sev"] /\ verifyAttestation(t)

Finish ==
    /\ step = "verify"
    /\ \E r \in holder, t \in UNION {proof[q] : q \in holder} :
        accepted' = IF verifyResults(t)
                    THEN accepted \cup {[req |-> r, at |-> clock]}
                    ELSE accepted
    /\ Unlock
    /\ UNCHANGED <<clock, proof, step, answers, expired>>

ExecutorNext ==
    \/ Tick
    \/ \E r \in Requests : Lock(r)
    \/ VerifyTime \/ ExecuteSGX \/ ExecuteSEV \/ Finish

ExecutorSpec == ExecutorInit /\ [][ExecutorNext]_executorVars

-----------------------------------------------------------------------------
\* However often a request is tried again, its successes lie within twice the
\* window: every attempt is judged by the time that the first one left in it.
RetriesClose == \A a, b \in accepted : a.req = b.req => a.at - b.at <= 2 * ProofWindow

\* A request whose proof has left the window never succeeds again: Execute keeps
\* the proof it finds, so a retry is refused for as long as the caller goes on.
RetryExpires ==
    [][\A a \in accepted' \ accepted : a.req \notin expired]_executorVars
=============================================================================
