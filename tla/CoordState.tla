----------------------------- MODULE CoordState -----------------------------
(***************************************************************************)
(* The coordination state: MerkleStore with its view and its cache of      *)
(* range proofs (coordination/state/types.go, cache.go), and               *)
(* CoordStateManager with its change sets, batches and record of accesses  *)
(* (manager.go).                                                           *)
(*                                                                         *)
(* A view is its contents; its root, a hash of them, is modelled by the    *)
(* contents themselves.  Every commit makes a view of the database, which  *)
(* nothing here writes, and the changes of this commit alone, so the roots *)
(* recur.  A proof is the range it is of, the view it was made from and    *)
(* the view its entries were listed from.                                  *)
(***************************************************************************)
EXTENDS Naturals, FiniteSets, Sequences, Iteration

CONSTANTS
    SKeys, SValues,
    Ranges,      \* the ranges asked for
    RangeKey,    \* RangeKey[r] is the string start + "-" + end
    Readers,     \* goroutines in GetRangeProof, GetValue or SyncState
    OpLists,     \* the lists of puts and deletes that are committed
    MaxRoots     \* RangeCache.size

Unset == "unset"

Database == [k \in SKeys |-> Unset]

VARIABLES
    view,        \* MerkleStore.view
    cached,      \* RangeCache.entries: functions of <<root, key>>
    reader,      \* what each reader has read so far
    accessed,    \* CoordStateManager.accessed: the keys read and written
    during,      \* history: the views there have been since each reader began
    left,        \* history: the roots left while a reader was at work on them
    applied      \* history: the operations of the last commit and its kind

coordVars == <<view, cached, reader, accessed, during, left, applied>>

NoProof == [range |-> "none", view |-> Database, entries |-> Database]

\* A reader of a range: its range, the root it read and its proof.  A reader of
\* values: the keys it has yet to verify, the first one's value and proof.
NotReading == [pc |-> "idle", range |-> "none", root |-> Database, proof |-> NoProof,
               keys |-> <<>>, value |-> Unset]

Op == [key : SKeys, value : SValues \cup {Unset}]   \* Unset: a deletion

ASSUME CoordAssumption ==
    /\ RangeKey \in [Ranges -> STRING]
    /\ OpLists \subseteq Seq(Op) \ {<<>>}
    /\ MaxRoots \in Nat \ {0}
    /\ "none" \notin Ranges

CoordInit ==
    /\ view = Database /\ left = {}
    /\ cached = [x \in {} |-> NoProof]
    /\ reader = [r \in Readers |-> NotReading]
    /\ during = [r \in Readers |-> {}]
    /\ applied = [kind |-> "none", ops |-> <<>>]
    /\ accessed = [reads |-> {}, writes |-> {}]

-----------------------------------------------------------------------------
(* The cache *)

Roots == {x[1] : x \in DOMAIN cached}

\* Mutant: proofs are found under any root.
CacheGetAnyRoot(r, root) == {cached[x] : x \in {y \in DOMAIN cached : y[2] = RangeKey[r]}}

\* The proofs cached for a range under a root: at most one.
CacheGet(r, root) == {cached[x] : x \in DOMAIN cached \cap {<<root, RangeKey[r]>>}}

\* Put, and evictLeastUsed when there are too many roots: one with the fewest
\* proofs goes, with all of them.
Size(c, root) == Cardinality({x \in DOMAIN c : x[1] = root})

evictLeastUsed(c) ==
    LET roots == {x[1] : x \in DOMAIN c}
        least == {root \in roots : \A other \in roots : Size(c, root) <= Size(c, other)}
    IN  {[x \in {y \in DOMAIN c : y[1] # root} |-> c[x]] : root \in least}

CachePut(proof, root) ==
    LET key == <<root, RangeKey[proof.range]>>
        c == [x \in DOMAIN cached \cup {key} |-> IF x = key THEN proof ELSE cached[x]]
    IN  IF Cardinality({x[1] : x \in DOMAIN c}) > MaxRoots THEN evictLeastUsed(c) ELSE {c}

-----------------------------------------------------------------------------
(* GetRangeProof *)

Unread == UNCHANGED <<view, left, applied>>

\* It reads the root of the view,
GetRoot(c, r) ==
    /\ reader[c].pc = "idle"
    /\ reader' = [reader EXCEPT ![c] = [NotReading EXCEPT !.pc = "look", !.range = r, !.root = view]]
    /\ during' = [during EXCEPT ![c] = {view}]
    /\ UNCHANGED <<cached, accessed>> /\ Unread

\* looks in the cache,
LookUp(c) ==
    /\ reader[c].pc = "look"
    /\ \/ /\ CacheGet(reader[c].range, reader[c].root) = {}
          /\ reader' = [reader EXCEPT ![c].pc = "prove"]
       \/ \E p \in CacheGet(reader[c].range, reader[c].root) :
            reader' = [reader EXCEPT ![c] = [@ EXCEPT !.pc = "done", !.proof = p]]
    /\ UNCHANGED <<cached, during, accessed>> /\ Unread

\* makes a proof of the view that there is by now,
ProveRange(c) ==
    /\ reader[c].pc = "prove"
    /\ LET p == [NoProof EXCEPT !.range = reader[c].range, !.view = view]
       IN  reader' = [reader EXCEPT ![c] = [@ EXCEPT !.pc = "list", !.proof = p]]
    /\ UNCHANGED <<cached, during, accessed>> /\ Unread

\* lists the entries of the view there is then,
ListEntries(c) ==
    /\ reader[c].pc = "list"
    /\ LET p == [reader[c].proof EXCEPT !.entries = view]
       IN  reader' = [reader EXCEPT ![c] = [@ EXCEPT !.pc = "put", !.proof = p]]
    /\ UNCHANGED <<cached, during, accessed>> /\ Unread

\* and caches it under the root it read first.
PutProof(c) ==
    /\ reader[c].pc = "put"
    /\ cached' \in CachePut(reader[c].proof, reader[c].root)
    /\ reader' = [reader EXCEPT ![c].pc = "done"]
    /\ UNCHANGED <<during, accessed>> /\ Unread

\* GetRangeProof, GetValue and SyncState return, the last two also with an error.
ReturnProof(c) ==
    /\ reader[c].pc \in {"done", "refused"} \/ (reader[c].pc = "value" /\ reader[c].keys = <<>>)
    /\ reader' = [reader EXCEPT ![c] = NotReading]
    /\ during' = [during EXCEPT ![c] = {}]
    /\ UNCHANGED <<cached, accessed>> /\ Unread

-----------------------------------------------------------------------------
(* GetValue and SyncState *)

trackAccess(keys, isWrite) ==
    accessed' = IF isWrite THEN [accessed EXCEPT !.writes = @ \cup keys]
                ELSE [accessed EXCEPT !.reads = @ \cup keys]

BeginRead(c, keys) ==
    /\ reader[c].pc = "idle"
    /\ reader' = [reader EXCEPT ![c] = [NotReading EXCEPT !.pc = "value", !.keys = keys]]
    /\ during' = [during EXCEPT ![c] = {view}]
    /\ UNCHANGED cached /\ Unread

GetValue(c, k) == BeginRead(c, <<k>>) /\ trackAccess({k}, FALSE)

\* The root it reads for its request is used no more.
SyncState(c, keys) == BeginRead(c, keys) /\ UNCHANGED accessed

\* Of the next key, the value,
ReadValue(c) ==
    /\ reader[c].pc = "value" /\ reader[c].keys # <<>>
    /\ reader' = [reader EXCEPT ![c] = [@ EXCEPT !.pc = "proof", !.value = view[Head(reader[c].keys)]]]
    /\ UNCHANGED <<cached, during, accessed>> /\ Unread

\* then the proof,
ReadProof(c) ==
    /\ reader[c].pc = "proof"
    /\ LET p == [reader[c].proof EXCEPT !.view = view]
       IN  reader' = [reader EXCEPT ![c] = [@ EXCEPT !.pc = "verify", !.proof = p]]
    /\ UNCHANGED <<cached, during, accessed>> /\ Unread

VerifyProof(c) == reader[c].proof.view[Head(reader[c].keys)] = reader[c].value

\* and the one against the other.
Verify(c) ==
    /\ reader[c].pc = "verify"
    /\ \/ /\ VerifyProof(c)
          /\ reader' = [reader EXCEPT ![c].pc = "verified"]
       \/ /\ ~VerifyProof(c)
          /\ reader' = [reader EXCEPT ![c] = [NotReading EXCEPT !.pc = "refused"]]
    /\ UNCHANGED <<cached, during, accessed>> /\ Unread

NextKey(c) ==
    /\ reader[c].pc = "verified"
    /\ reader' = [reader EXCEPT ![c] = [NotReading EXCEPT !.pc = "value", !.keys = Tail(reader[c].keys)]]
    /\ UNCHANGED <<cached, during, accessed>> /\ Unread

-----------------------------------------------------------------------------
(* Changes *)

\* MerkleStore.Commit replaces the view and empties the cache.
Commit(new) ==
    /\ view' = new
    /\ cached' = [x \in {} |-> NoProof]
    /\ during' = [c \in Readers |-> IF reader[c].pc = "idle" THEN {} ELSE during[c] \cup {new}]
    /\ left' = IF new # view /\ \E c \in Readers : reader[c].root = view /\ reader[c].range # "none"
               THEN left \cup {view} ELSE left
    /\ UNCHANGED reader

KeysOfOps(s) == {s[i].key : i \in DOMAIN s}

\* Of the operations the deletions, the updates or both, applied one after the
\* other: deletions is a set of what op.value = Unset may be.
ApplyOps(s, deletions, base) ==
    FoldLeft(LAMBDA c, op : IF (op.value = Unset) \in deletions THEN [c EXCEPT ![op.key] = op.value] ELSE c,
             base, s)

AppliedInOrder(s) == ApplyOps(s, BOOLEAN, Database)

\* A StateChange keeps its updates and its deletions in two maps, and
\* CommitChanges lists the updates first.
UpdatesThenDeletions(s) == ApplyOps(s, {TRUE}, ApplyOps(s, {FALSE}, Database))

CommitChanges(s) ==
    /\ trackAccess(KeysOfOps(s), TRUE)
    /\ Commit(UpdatesThenDeletions(s))
    /\ applied' = [kind |-> "changes", ops |-> s]

CommitBatch(s) ==
    /\ trackAccess(KeysOfOps(s), TRUE)
    /\ Commit(AppliedInOrder(s))
    /\ applied' = [kind |-> "batch", ops |-> s]

\* The view cannot be made: the keys stay recorded.
CommitFails(s) ==
    /\ trackAccess(KeysOfOps(s), TRUE)
    /\ UNCHANGED <<view, cached, reader, during, left, applied>>

RangeStep(c) ==
    \/ \E r \in Ranges : GetRoot(c, r)
    \/ LookUp(c) \/ ProveRange(c) \/ ListEntries(c) \/ PutProof(c) \/ ReturnProof(c)

ValueStep(c) ==
    \/ \E k \in SKeys : GetValue(c, k)
    \/ SyncState(c, SetToSeq(SKeys))
    \/ ReadValue(c) \/ ReadProof(c) \/ Verify(c) \/ NextKey(c) \/ ReturnProof(c)

CoordNext ==
    \/ \E c \in Readers : RangeStep(c) \/ ValueStep(c)
    \/ \E s \in OpLists : CommitChanges(s) \/ CommitBatch(s) \/ CommitFails(s)

CoordSpec == CoordInit /\ [][CoordNext]_coordVars

-----------------------------------------------------------------------------
\* A range proof that GetRangeProof returns was made, and its entries listed, from
\* views of the time of the call, and it is of the range that was asked for if no
\* other range has the same cache key, although Commit replaces the view between
\* its steps.  What the cache cannot exclude: a root that was left while a reader
\* was at work on it, and has come back, may have that reader's late proof.
ProofCurrent ==
    \A c \in Readers :
        reader[c].pc = "done" =>
            /\ reader[c].root \notin left => {reader[c].proof.view, reader[c].proof.entries} \subseteq during[c]
            /\ (\A r \in Ranges : RangeKey[r] = RangeKey[reader[c].range] => r = reader[c].range)
                   => reader[c].proof.range = reader[c].range

\* The cache never holds more roots than its size, although readers put proofs
\* under roots that are no longer the view's.
CacheBounded == Cardinality(Roots) <= MaxRoots

\* A value that GetValue or Sync accepts is the one the key has in the view that
\* proved it, although a commit may come between reading the two.
ValueProved ==
    \A c \in Readers :
        reader[c].pc = "verified" => reader[c].value = reader[c].proof.view[Head(reader[c].keys)]

LastOutcome(k) ==
    LET own == {i \in DOMAIN applied.ops : applied.ops[i].key = k}
    IN  IF \/ own = {}
           \/ applied.kind = "changes" /\ \E i \in own : applied.ops[i].value = Unset
        THEN Unset
        ELSE applied.ops[Max(own)].value

\* After CommitChanges a key that was both put and deleted is gone, in whichever
\* order the caller did it; after CommitBatch the last operation on it counts.
\* Keys that the last commit did not name have lost what earlier commits put.
ViewOfLastCommit == \A k \in SKeys : view[k] = LastOutcome(k)

\* Every key that has a value was recorded as written, whichever goroutine
\* committed it and however many commits failed before.
WritesRecorded == {k \in SKeys : view[k] # Unset} \subseteq accessed.writes

\* What CoordStateManager and MerkleStore hand out and record while commits
\* replace the view: proofs of their time and range from a bounded cache, values
\* that their proofs are of, and the outcome of the last commit.
ReadsProved == ProofCurrent /\ CacheBounded /\ ValueProved /\ ViewOfLastCommit /\ WritesRecorded
=============================================================================
