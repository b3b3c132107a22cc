----------------------------- MODULE Validation -----------------------------
(***************************************************************************)
(* The checks an attestation pair, a code blob, a configuration, an        *)
(* enclave record and a regional key meet on their way through actions/,   *)
(* vm/, core/ and regions/.  Each is a predicate of one value; subject is  *)
(* the value checked, and the properties compare checks that different     *)
(* packages make of the same thing.                                        *)
(***************************************************************************)
EXTENDS Integers, Sequences, Functions

CONSTANTS
    Instants,       \* timestamps, in half seconds; 0 is the zero time
    TimeWindow,         \* five minutes, in half seconds
    Sizes,          \* code sizes in bytes
    MaxCodeSize,    \* config.MaxCodeSize
    Digits,         \* hex digits an enclave ID is made of
    Parts           \* path components of region IDs and keys

VARIABLE subject    \* the value the checks look at

\* The separator of pairKey is no hex digit.
ASSUME ValidationAssumption == Instants \subseteq Nat /\ ":" \notin Digits

-----------------------------------------------------------------------------
(* Attestation pairs: actions/shuttle.go, vm/core.go, core/.  A byte slice *)
(* is empty or not, the data a value.                                      *)

Attestation ==
    [id : BOOLEAN, measurement : BOOLEAN, signature : BOOLEAN, time : Instants, data : {"d", "e"}]
Result == [sort : {"result"}, atts : Attestation \X Attestation, now : {0, 2 * TimeWindow}, hash : {"d"}]

\* verifyAttestationPair of actions/.
verifyAttestationPair(a) ==
    /\ a[1].id /\ a[2].id
    /\ a[1].time = a[2].time
    /\ a[1].data = a[2].data
    /\ a[1].measurement /\ a[2].measurement
    /\ a[1].signature /\ a[2].signature

\* validateTimestamp, and the window of verifyTEEExecution: five minutes in
\* either direction, the ends included.
validateTimestamp(t, now) == now - t <= TimeWindow /\ t - now <= TimeWindow

\* verifySGXAttestation and verifySEVAttestation expect an empty measurement;
\* the signature checks accept everything.
verifyTEEAttestation(att) == ~att.measurement

verifyTEEExecution(r) ==
    LET a == r.atts IN
    /\ a[1].time = a[2].time
    /\ validateTimestamp(a[1].time, r.now)
    /\ verifyTEEAttestation(a[1]) /\ verifyTEEAttestation(a[2])
    /\ a[1].data = a[2].data
    /\ r.hash = a[1].data /\ r.hash = a[2].data

\* TEEAttestation.Validate of core/.
ValidateAttestation(att) == att.id /\ att.measurement /\ att.time # 0 /\ att.signature

\* GetTimeUTC formats whole seconds.
GetTimeUTC(att) == att.time \div 2

\* Event.Validate, as far as its attestations go.
ValidateEvent(a) ==
    /\ ValidateAttestation(a[1]) /\ ValidateAttestation(a[2])
    /\ GetTimeUTC(a[1]) = GetTimeUTC(a[2])

-----------------------------------------------------------------------------
(* Code: actions/shuttle.go and vm/code_validator.go.  What decides is its *)
(* size, whether it starts with the header's magic, the header's format    *)
(* and TEE type, and what the body is.                                     *)

Raw == 1
Wasm == 2
Custom == 3
SGX == 1
SEV == 2
Bodies == {"empty", "short", "wasm", "table", "cut"}
Code == [sort : {"code"}, size : Sizes, start : {"zero", "magic", "other"},
         format : 0..4, tee : 0..3, body : Bodies]

\* The magic starts with a zero byte.
validateCode(c) == c.size > 0 /\ c.start = "other"

\* NewCodeValidator's RegisterTEEFormat calls.
teeFormats(tee) == IF tee = SGX THEN {Wasm} ELSE IF tee = SEV THEN {Wasm, Custom} ELSE {}

isValidTEEType(tee) == tee \in {SGX, SEV}
isFormatSupportedByTEE(format, tee) == format \in teeFormats(tee)

ValidateRaw(body) == body # "empty"
ValidateWasm(body) == body = "wasm"
\* Four bytes of table size, then that many bytes at least: the WASM magic
\* read as a size is far beyond any body.
ValidateCustom(body) == body = "table"

ValidateCode(c) ==
    /\ c.size <= MaxCodeSize /\ c.size >= 16 /\ c.start = "magic"
    /\ isValidTEEType(c.tee) /\ isFormatSupportedByTEE(c.format, c.tee)
    /\ CASE c.format = Raw -> ValidateRaw(c.body)
         [] c.format = Wasm -> ValidateWasm(c.body)
         [] c.format = Custom -> ValidateCustom(c.body)

\* CreateCode puts the header before the body.
CreateCode(c) == [c EXCEPT !.start = "magic", !.size = @ + 16]

-----------------------------------------------------------------------------
(* Region configurations (regions/config.go).  An enclave ID is a sequence *)
(* of hex digits; the limits, the load balancer and the location are each  *)
(* in range or not.                                                        *)

\* The sequences of at most n elements.
SeqOf(S, n) == UNION {[1..m -> S] : m \in 0..n}

EnclaveIDs == SeqOf(Digits, 2)
Config == [sort : {"config"}, id : BOOLEAN, pairs : SeqOf([sgx : EnclaveIDs, sev : EnclaveIDs], 2),
           limits : BOOLEAN, balancer : BOOLEAN, location : BOOLEAN]

\* Mutant: the two IDs are joined without a separator.
pairKeyJoined(p) == p.sgx \o p.sev

\* The key under which a pair is seen, "%x:%x".
pairKey(p) == p.sgx \o <<":">> \o p.sev

\* RegionConfig.Validate; what follows its first return is never reached.
ValidateConfig(c) ==
    /\ c.id
    /\ c.pairs # <<>>
    /\ \A i \in DOMAIN c.pairs :
         /\ c.pairs[i].sgx # <<>> /\ c.pairs[i].sev # <<>>
         /\ \A j \in 1..(i - 1) : pairKey(c.pairs[j]) # pairKey(c.pairs[i])
    /\ c.limits /\ c.balancer /\ c.location

-----------------------------------------------------------------------------
(* Pair configurations (regions/config.go, regions/types.go), in percent   *)
(* and seconds.                                                            *)

NewTEEPairConfig ==
    [capacity |-> 100, minSuccess |-> 95, maxError |-> 5, maxLatency |-> 5, interval |-> 30,
     maxCPU |-> 80, maxMemory |-> 80, renewal |-> TRUE, period |-> 3600, maxAge |-> 86400]
\* Resource limits and attestation settings keep their zero values.
DefaultTEEPairConfig ==
    [capacity |-> 100, minSuccess |-> 95, maxError |-> 5, maxLatency |-> 5, interval |-> 30,
     maxCPU |-> 0, maxMemory |-> 0, renewal |-> FALSE, period |-> 0, maxAge |-> 0]
PairConfig == [sort : {"pair"}, named : BOOLEAN, from : {NewTEEPairConfig, DefaultTEEPairConfig}]

Share(x) == x > 0 /\ x <= 100

\* TEEPairConfig.Validate; named says the ID and the endpoints are not empty.
ValidatePair(p) ==
    LET c == p.from IN
    /\ p.named /\ c.capacity > 0
    /\ Share(c.minSuccess) /\ c.maxError >= 0 /\ c.maxError < 100 /\ c.maxLatency > 0
    /\ c.interval > 0
    /\ Share(c.maxCPU) /\ Share(c.maxMemory)
    /\ c.renewal => c.period > 0 /\ c.maxAge > c.period

-----------------------------------------------------------------------------
(* Enclave records (core/tee_types.go) and regional keys                   *)
(* (core/regional_helpers.go), a key being its components between slashes. *)

Enclave == [sort : {"enclave"}, filled : BOOLEAN, from : Instants, until : Instants, type : {"SGX", "SEV", ""}]

\* EnclaveInfo.Validate; filled says the IDs and the measurement are not empty.
ValidateEnclave(e) ==
    /\ e.filled /\ e.from # 0 /\ e.until # 0
    /\ ~(e.from > e.until)
    /\ e.type # ""

IsValid(e, at) == ~(at < e.from) /\ ~(at > e.until)

Paths == SeqOf(Parts, 2) \ {<<>>}
RegionalKey == [sort : {"key"}, region : Paths, key : Paths]

MakeRegionalKey(region, key) == <<"r">> \o region \o key

ParseRegionalKey(k) ==
    IF Len(k) < 3 \/ k[1] # "r" THEN <<>> ELSE <<<<k[2]>>, <<k[3]>>>>

-----------------------------------------------------------------------------
ValidationInit ==
    \/ subject \in Result
    \/ subject \in Code
    \/ subject \in Config
    \/ subject \in PairConfig
    \/ subject \in Enclave
    \/ subject \in RegionalKey

ValidationSpec == ValidationInit /\ [][FALSE]_subject

About(sort) == subject.sort = sort

-----------------------------------------------------------------------------
(* Properties.                                                             *)

\* No attestation pair passes both the check of the actions, which want a
\* measurement, and that of the VM, which wants none.
NoPairPassesBoth ==
    About("result") => ~(verifyAttestationPair(subject.atts) /\ verifyTEEExecution(subject))

\* An attestation pair the actions accept with a time that is set is one
\* Event.Validate accepts, though that compares the times in whole seconds.
ActionPairsMakeEvents ==
    About("result") /\ verifyAttestationPair(subject.atts) /\ subject.atts[1].time # 0
        => ValidateEvent(subject.atts)

\* No code passes both validateCode of the actions and the VM's CodeValidator:
\* the magic starts with the byte validateCode refuses.  So what CreateCode
\* makes can be created by no action.
NoCodePassesBoth ==
    About("code") => ~(validateCode(subject) /\ ValidateCode(subject)) /\ ~validateCode(CreateCode(subject))

\* Accepted code can run in a TEE: it is never raw, and WASM on SGX.
AcceptedCodeRuns ==
    About("code") /\ ValidateCode(subject)
        => subject.format # Raw /\ (subject.tee = SGX => subject.body = "wasm")

\* A valid region configuration lists no TEE pair twice, and no configuration
\* with distinct pairs is refused as having duplicates.
DuplicatesFound ==
    About("config") /\ subject.id /\ subject.limits /\ subject.balancer /\ subject.location =>
        (ValidateConfig(subject)
            <=> /\ subject.pairs # <<>> /\ IsInjective(subject.pairs)
                /\ \A i \in DOMAIN subject.pairs : <<>> \notin {subject.pairs[i].sgx, subject.pairs[i].sev})

\* Of the two ways to make a pair configuration only NewTEEPairConfig makes one
\* that Validate accepts.
OneDefaultValid ==
    About("pair") /\ subject.named => (ValidatePair(subject) <=> subject.from = NewTEEPairConfig)

\* A valid enclave record is valid at some time.
ValidSometime ==
    About("enclave") /\ ValidateEnclave(subject) => \E at \in Instants : IsValid(subject, at)

\* A regional key is read back as it was made exactly when neither the region
\* nor the key contains a slash.
ReadBack ==
    About("key") =>
        (ParseRegionalKey(MakeRegionalKey(subject.region, subject.key)) = <<subject.region, subject.key>>
            <=> Len(subject.region) = 1 /\ Len(subject.key) = 1)

\* The checks that actions/, vm/, core/ and regions/ make of one thing: which agree,
\* which exclude each other, and what their acceptance is worth.
ChecksCompared ==
    /\ NoPairPassesBoth /\ ActionPairsMakeEvents
    /\ NoCodePassesBoth /\ AcceptedCodeRuns
    /\ DuplicatesFound /\ OneDefaultValid /\ ValidSometime /\ ReadBack
=============================================================================
