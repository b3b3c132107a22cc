---------------------------- MODULE CrossRegion ----------------------------
(***************************************************************************)
(* Cross-region intents: building and validating one (xregion/types.go),   *)
(* its encoding and execution (actions/cross_region.go), and the parallel  *)
(* confirmation of its regions (RegionProcessor of xregion/coordinator.go).*)
(*                                                                         *)
(* A key is a number, its first eight bytes are key \div 10, and the keys  *)
(* below 10 are shorter than eight bytes.  A map of region to changes is a *)
(* function; the order in which a Go map is ranged over is a parameter, a  *)
(* sequence of its keys.                                                   *)
(***************************************************************************)
EXTENDS Naturals, FiniteSets, Sequences, FiniteSetsExt, Iteration

CONSTANTS
    XInputs,     \* the intents, with the keys the coordinator's store holds
    XRegions,    \* the regions ProcessRegions is given, in order
    XLimit       \* maxConcurrent, which NewRegionProcessor wants positive

XChange == [key : Nat, op : STRING, value : STRING, source : STRING, target : STRING]

ASSUME XAssumption ==
    /\ \A x \in XInputs :
        /\ IsFiniteSet(DOMAIN x.intent.changes)
        /\ \A r \in DOMAIN x.intent.changes : x.intent.changes[r] \in Seq(XChange)
    /\ XRegions \in Seq(STRING)
    /\ XLimit \in Nat \ {0}

NoRegion == ""

VARIABLES
    input,       \* the intent under way and the coordinator's keys
    tried,       \* initOnce has run
    chainKeys,   \* the keys of the chain's state: set, removed or as before
    xOutcome,    \* how the last Execute ended
    at,          \* ProcessRegions: the index of the next region
    phase,       \* "none", "loop", "wait", and how it returned: "ok" or "error"
    task,        \* the goroutine of each region that has one
    cancelled,   \* the errgroup's context is done
    xErr,        \* errgroup.err is set
    signed       \* the signature passed to ProcessRegions is not empty

xVars == <<input, tried, chainKeys, xOutcome, at, phase, task, cancelled, xErr, signed>>

-----------------------------------------------------------------------------
(* Building and validating an intent *)

NewCrossRegionIntent(source, targets) ==
    [source |-> source, targets |-> targets, duration |-> 0,
     signatures |-> [r \in {} |-> FALSE], changes |-> [r \in {} |-> <<>>]]

AddStateChange(intent, region, change) ==
    LET old == intent.changes
    IN  [intent EXCEPT !.changes =
            [r \in DOMAIN old \cup {region} |->
                IF r # region THEN old[r]
                ELSE (IF r \in DOMAIN old THEN old[r] ELSE <<>>) \o <<change>>]]

Orders(changes) == SetToSeqs(DOMAIN changes)

\* The changes with their regions, in the order they are ranged over.
Ranged(changes, order) ==
    FlattenSeq([i \in DOMAIN order |->
        [j \in DOMAIN changes[order[i]] |-> [region |-> order[i], change |-> changes[order[i]][j]]]])

\* A transfer in must follow, in this order, a transfer out of its key, and the
\* last such one must be to its region.
ValidateStateChanges(changes, order) ==
    LET all == Ranged(changes, order)
        Out(i, key) == {j \in 1..(i - 1) : all[j].change.op = "out" /\ all[j].change.key = key}
    IN  \A i \in DOMAIN all :
            LET c == all[i].change
            IN  /\ c.op = "out" => c.target # NoRegion
                /\ c.op = "in" => /\ c.source # NoRegion
                                  /\ Out(i, c.key) # {}
                                  /\ all[Max(Out(i, c.key))].change.target = all[i].region

\* The regions that must have signed have, whatever they signed.
SignaturesPresent(intent) ==
    /\ intent.source \in DOMAIN intent.signatures
    /\ Range(intent.targets) \subseteq DOMAIN intent.signatures

\* VerifySignature, which needs no coordinator: no signature is empty.
SignaturesValid(intent) == \A r \in DOMAIN intent.signatures : intent.signatures[r]

\* What ValidateBasic checks before the signatures.
ValidateShape(intent, order) ==
    /\ intent.duration > 0
    /\ DOMAIN intent.changes # {}
    /\ ValidateStateChanges(intent.changes, order)

-----------------------------------------------------------------------------
(* The encoding *)

\* Unpacking with required set refuses the zero value of a field, the number of
\* the operation set among them.
Required(c) == c.op # "set" /\ c.source # NoRegion /\ c.target # NoRegion /\ c.value # NoRegion

\* Unmarshal accepts what Marshal made of the intent.
Decodes(intent) ==
    /\ intent.source # NoRegion /\ intent.targets # <<>> /\ intent.duration # 0
    /\ DOMAIN intent.changes # {} /\ DOMAIN intent.signatures # {}
    /\ \A r \in DOMAIN intent.signatures : intent.signatures[r]
    /\ \A r \in DOMAIN intent.changes :
        /\ intent.changes[r] # <<>>
        /\ \A i \in DOMAIN intent.changes[r] : Required(intent.changes[r][i])

-----------------------------------------------------------------------------
(* Execution *)

Prefix(key) == key \div 10
Short(key) == key < 10
KeysOf(changes) == {changes[i].key : i \in DOMAIN changes}

\* Slicing the first eight bytes of a short key panics, if keys are compared.
PrefixPanics(changes) == Len(changes) > 1 /\ \E k \in KeysOf(changes) : Short(k)

\* The ranges, one for each prefix: from the least key to the greatest.
groupChangesByPrefix(changes) ==
    {[start |-> Min(ks), end |-> Max(ks)] :
        ks \in {{k \in KeysOf(changes) : Prefix(k) = p} : p \in {Prefix(k) : k \in KeysOf(changes)}}}

getRequiredRanges(intent) ==
    UNION {{[region |-> r, start |-> g.start, end |-> g.end] : g \in groupChangesByPrefix(intent.changes[r])} :
              r \in DOMAIN intent.changes}

\* RequestRangeProof: the keys of the coordinator's store in a range.
RequestRangeProof(range, stored) == {k \in stored : range.start <= k /\ k <= range.end}

\* Every change is in the proof kept for its region, the one of its last range.
Covered(intent, stored) ==
    \A r \in DOMAIN intent.changes :
        LET ranges == {g \in getRequiredRanges(intent) : g.region = r}
            last == CHOOSE g \in ranges : \A h \in ranges : h.start <= g.start
        IN  ranges # {} => KeysOf(intent.changes[r]) \subseteq RequestRangeProof(last, stored)

\* The changes of a region by key, as the grouping has sorted them in place: Place
\* is how many are not after the one at j.
SortedByKey(changes) ==
    LET Place(j) == Cardinality({i \in DOMAIN changes :
                        \/ changes[i].key < changes[j].key
                        \/ changes[i].key = changes[j].key /\ i <= j})
    IN  [n \in DOMAIN changes |-> changes[CHOOSE j \in DOMAIN changes : Place(j) = n]]

\* Only sets and transfers out do anything.
AppliedChange(ks, c) ==
    [ks EXCEPT ![c.key] = IF c.op = "set" THEN c.value ELSE IF c.op = "out" THEN "removed" ELSE @]

AppliedRegion(changes, keys) == FoldLeft(AppliedChange, keys, SortedByKey(changes))

Applied(intent, order, keys) ==
    FoldLeft(LAMBDA ks, r : AppliedRegion(intent.changes[r], ks), keys, order)

StateKeys(intent) ==
    UNION {{c.key : c \in {x \in Range(intent.changes[r]) : x.op \in {"set", "out"}}} : r \in DOMAIN intent.changes}

\* Execute once there is a coordinator.
ExecuteWith(intent, order, stored, keys) ==
    IF \E r \in DOMAIN intent.changes : PrefixPanics(intent.changes[r])
    THEN [outcome |-> "panic", keys |-> keys]
    ELSE IF ~Covered(intent, stored) THEN [outcome |-> "refused", keys |-> keys]
    ELSE [outcome |-> "ok", keys |-> Applied(intent, order, keys)]

\* GetCoordinator makes its store of a nil database, which panics in initOnce.
CoordinatorMade(i) == FALSE

\* Execute.  verifySignatures is the first to ask for the coordinator; the second
\* time it is nil, which VerifySignature does not mind and NewRegionProcessor
\* refuses.
Execute(order) ==
    LET i == input.intent
        Ends(o) == xOutcome' = o /\ UNCHANGED chainKeys
    IN  /\ \/ /\ ~(ValidateShape(i, order) /\ SignaturesPresent(i))
              /\ Ends("refused") /\ UNCHANGED tried
           \/ /\ ValidateShape(i, order) /\ SignaturesPresent(i)
              /\ tried' = TRUE
              /\ \/ ~CoordinatorMade(i) /\ ~tried /\ Ends("panic")
                 \/ (CoordinatorMade(i) \/ tried) /\ ~SignaturesValid(i) /\ Ends("refused")
                 \/ ~CoordinatorMade(i) /\ tried /\ SignaturesValid(i) /\ Ends("refused")
                 \/ /\ CoordinatorMade(i) /\ SignaturesValid(i)
                    /\ xOutcome' = ExecuteWith(i, order, input.stored, chainKeys).outcome
                    /\ chainKeys' = ExecuteWith(i, order, input.stored, chainKeys).keys
        /\ UNCHANGED <<input, at, phase, task, cancelled, xErr, signed>>

-----------------------------------------------------------------------------
(* ProcessRegions *)

Held == {r \in DOMAIN task : task[r] \in {"started", "confirmed", "failed"}}
Unprocessed == UNCHANGED <<input, tried, chainKeys, xOutcome, signed>>

ProcessRegions ==
    /\ phase = "none"
    /\ phase' = IF XRegions = <<>> THEN "ok" ELSE "loop"
    /\ UNCHANGED <<at, task, cancelled, xErr>> /\ Unprocessed

Acquires == Cardinality(Held) < XLimit

\* The loop acquires the semaphore and starts a goroutine for the next region,
StartRegion ==
    /\ phase = "loop" /\ Acquires
    /\ task' = [r \in DOMAIN task \cup {XRegions[at]} |-> IF r = XRegions[at] THEN "started" ELSE task[r]]
    /\ at' = at + 1
    /\ phase' = IF at = Len(XRegions) THEN "wait" ELSE "loop"
    /\ UNCHANGED <<cancelled, xErr>> /\ Unprocessed

\* or gives up if the context is done, leaving the goroutines.
AcquireFails ==
    /\ phase = "loop" /\ cancelled
    /\ phase' = "error"
    /\ UNCHANGED <<at, task, cancelled, xErr>> /\ Unprocessed

\* Mutant: a region that finds the context done ends without an error.
ConfirmQuietly(r) ==
    /\ r \in DOMAIN task /\ task[r] = "started"
    /\ task' = [task EXCEPT ![r] = IF ~cancelled /\ ~signed THEN "failed" ELSE "confirmed"]
    /\ UNCHANGED <<at, phase, cancelled, xErr>> /\ Unprocessed

\* A goroutine fails if the context is done or ConfirmIntent refuses its signature,
Confirm(r) ==
    /\ r \in DOMAIN task /\ task[r] = "started"
    /\ task' = [task EXCEPT ![r] = IF cancelled \/ ~signed THEN "failed" ELSE "confirmed"]
    /\ UNCHANGED <<at, phase, cancelled, xErr>> /\ Unprocessed

\* Mutant: a failed region keeps its place.
ReleaseConfirmed(r) ==
    /\ r \in DOMAIN task /\ task[r] = "confirmed"
    /\ task' = [task EXCEPT ![r] = "ended"]
    /\ UNCHANGED <<at, phase, cancelled, xErr>> /\ Unprocessed

\* releases the semaphore,
Release(r) ==
    /\ r \in DOMAIN task /\ task[r] \in {"confirmed", "failed"}
    /\ task' = [task EXCEPT ![r] = IF @ = "failed" THEN "reporting" ELSE "ended"]
    /\ UNCHANGED <<at, phase, cancelled, xErr>> /\ Unprocessed

\* and the errgroup then keeps the error and cancels the context.
Report(r) ==
    /\ r \in DOMAIN task /\ task[r] = "reporting"
    /\ task' = [task EXCEPT ![r] = "refused"]
    /\ cancelled' = TRUE /\ xErr' = TRUE
    /\ UNCHANGED <<at, phase>> /\ Unprocessed

Wait ==
    /\ phase = "wait" /\ \A r \in DOMAIN task : task[r] \in {"ended", "refused"}
    /\ phase' = IF xErr THEN "error" ELSE "ok"
    /\ cancelled' = TRUE
    /\ UNCHANGED <<at, task, xErr>> /\ Unprocessed

\* The caller's context ends.
CancelCaller ==
    /\ ~cancelled /\ phase \notin {"ok", "error"}
    /\ cancelled' = TRUE
    /\ UNCHANGED <<at, phase, task, xErr>> /\ Unprocessed

-----------------------------------------------------------------------------
XInit ==
    /\ input \in XInputs
    /\ tried = FALSE /\ xOutcome = "none"
    /\ chainKeys = [k \in UNION {KeysOf(input.intent.changes[r]) : r \in DOMAIN input.intent.changes} |-> "before"]
    /\ at = 1 /\ phase = "none"
    /\ task = [r \in {} |-> "none"]
    /\ cancelled = FALSE /\ xErr = FALSE /\ signed \in BOOLEAN

ExecuteNext == \E order \in Orders(input.intent.changes) : Execute(order)

ProcessNext ==
    \/ ProcessRegions \/ StartRegion \/ AcquireFails \/ Wait \/ CancelCaller
    \/ \E r \in DOMAIN task : Confirm(r) \/ Release(r) \/ Report(r)

\* The loop and the goroutines are scheduled; the caller need not cancel.
ProcessFairness ==
    /\ WF_xVars(StartRegion) /\ WF_xVars(AcquireFails) /\ WF_xVars(Wait)
    /\ \A r \in Range(XRegions) : WF_xVars(Confirm(r) \/ Release(r) \/ Report(r))

XSpec == XInit /\ [][ExecuteNext \/ ProcessNext]_xVars /\ ProcessFairness

-----------------------------------------------------------------------------
\* No cross-region action changes the chain's state: the first well-formed one
\* panics while the coordinator is made, and every later one is refused.
NeverApplied == xOutcome # "ok" /\ \A k \in DOMAIN chainKeys : chainKeys[k] = "before"

\* Whether ValidateStateChanges accepts a transfer depends on the order in which
\* the map of regions is ranged over, and on nothing else: of two regions with one
\* key going out of the one into the other, just the orders with the source first
\* pass; without transfers in, every order gives the same answer.
TransferNeedsOrder ==
    LET cs == input.intent.changes
        InTo(r) == \E c \in Range(cs[r]) : c.op = "in"
    IN  /\ (\A r \in DOMAIN cs : ~InTo(r)) =>
                \A o1, o2 \in Orders(cs) : ValidateStateChanges(cs, o1) = ValidateStateChanges(cs, o2)
        /\ \A r, q \in DOMAIN cs :
                r # q /\ InTo(r) /\ (\A c \in Range(cs[r]) : c.op # "out")
                    => ~ValidateStateChanges(cs, <<r>> \o SetToSeq(DOMAIN cs \ {r}))

\* An intent that sets a key does not survive its own encoding: the decoder takes
\* the operation's number 0 for a missing field.
SetNeverDecodes ==
    Decodes(input.intent) =>
        \A r \in DOMAIN input.intent.changes :
            \A c \in Range(input.intent.changes[r]) : c.op # "set"

\* Execute changes a key only if StateKeys declared it, and only if the key is
\* already in the coordinator's store, and each region's keys have one prefix:
\* of a region with several only the last range's proof is kept.
ChangesDeclared ==
    \A order \in Orders(input.intent.changes) :
        LET done == ExecuteWith(input.intent, order, input.stored, chainKeys)
        IN  /\ {k \in DOMAIN chainKeys : done.keys[k] # chainKeys[k]} \subseteq StateKeys(input.intent) \cap input.stored
            /\ done.outcome = "ok" =>
                \A r \in DOMAIN input.intent.changes :
                    \A k, l \in KeysOf(input.intent.changes[r]) : Prefix(k) = Prefix(l)

\* The order in which the regions are applied shows in the state only where two
\* regions change one key.
OrderShowsOnSharedKeys ==
    LET cs == input.intent.changes
        Disjoint == \A r, q \in DOMAIN cs : r # q => KeysOf(cs[r]) \cap KeysOf(cs[q]) = {}
    IN  Disjoint => \A o1, o2 \in Orders(cs) : Applied(input.intent, o1, chainKeys) = Applied(input.intent, o2, chainKeys)

\* ProcessRegions never has more regions at work than its limit, although a failed
\* one gives its place back before its failure cancels the rest.
WithinLimit == Cardinality(Held) <= XLimit

\* It returns without an error only when every region was confirmed and none is
\* at work any more.
AllConfirmed ==
    phase = "ok" =>
        /\ XRegions = <<>> \/ signed
        /\ DOMAIN task = Range(XRegions)
        /\ \A r \in DOMAIN task : task[r] = "ended"

\* What cross-region intents come to: what validation, encoding and execution do
\* with one in every order of its regions, and what ProcessRegions confirms.
IntentsJustified ==
    /\ NeverApplied /\ SetNeverDecodes /\ TransferNeedsOrder
    /\ ChangesDeclared /\ OrderShowsOnSharedKeys
    /\ WithinLimit /\ AllConfirmed

\* ProcessRegions returns, and the goroutines it may leave behind end.
ProcessEnds ==
    /\ (phase = "loop") ~> (phase \in {"ok", "error"})
    /\ \A r \in Range(XRegions) :
        (r \in DOMAIN task) ~> (r \in DOMAIN task /\ task[r] \in {"ended", "refused"})
=============================================================================
