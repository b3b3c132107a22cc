------------------------------- MODULE MCLive -------------------------------
(***************************************************************************)
(* Cross-region actions, workers and channels, the life of the processes,  *)
(* the faucet and the registration of regions, for TLC.  They share no     *)
(* state, so a behaviour exercises one of them: part says which.           *)
(***************************************************************************)
EXTENDS CrossRegion, SecureChannels, Lifecycle, Faucet, Registry, TLC

VARIABLE part

mcVars == <<xVars, secVars, lifeVars, connVars, nodeVars, faucetVars, regVars, part>>

Change(key, op, value, source, target) ==
    [key |-> key, op |-> op, value |-> value, source |-> source, target |-> target]

\* Changes of keys with two prefixes and of a key too short for one, some of
\* them malformed.
MCChanges ==
    {Change(11, "set", "v", "", ""), Change(21, "set", "v", "r1", "r2"),
     Change(11, "out", "v", "r1", "r2"), Change(12, "out", "", "r1", ""),
     Change(11, "in", "v", "r1", "r2"), Change(11, "in", "v", "", "r2"),
     Change(5, "delete", "v", "r1", "r2")}

Lists(n) == UNION {[1..k -> MCChanges] : k \in 0..n}

MCIntent(changes) ==
    [source |-> "r1", targets |-> <<"r2">>, duration |-> 5,
     signatures |-> [r \in {"r1", "r2"} |-> TRUE], changes |-> changes]

Simple == MCIntent("r1" :> <<Change(11, "out", "v", "r1", "r2")>>)

\* Up to two changes in the source and one in the target, and intents whose
\* duration, signatures or regions are wrong.
MCXInputs ==
    [intent : {MCIntent(cs) : cs \in {<<>>} \cup {"r1" :> s : s \in Lists(2)} \cup {"r2" :> s : s \in Lists(1)}
                                     \cup {"r1" :> s @@ "r2" :> t : s \in Lists(2), t \in Lists(1)}},
     stored : {{11, 12}, {5, 11, 21}}]
    \cup [intent : {[Simple EXCEPT !.duration = 0],
                    [Simple EXCEPT !.signatures = "r1" :> TRUE],
                    [Simple EXCEPT !.signatures = "r1" :> TRUE @@ "r2" :> FALSE],
                    AddStateChange(NewCrossRegionIntent("r1", <<>>), "r2", Change(11, "out", "v", "r1", "r2"))},
          stored : {{11}}]

MCXRegions == <<"r1", "r2", "r3">>

\* Two messages of one peer that ask for a reply, and one of another that does not.
MCPeer == <<"p", "p", "q">>
MCWants == <<"reply", "reply", "none">>

MCClaims ==
    [pairs : {<<>>, <<[sgx |-> "a", sev |-> "b"]>>}, now : {0, 2, 3},
     atts : LET A == [enclave : {"a", "b"}, time : {0, 1}, signature : {TRUE}] IN A \X A]

\* Two requests for one address over one connection.
MCAddressOf == [r \in FaucetRequests |-> "a"]
MCRemoteAddr == [r \in FaucetRequests |-> "c"]

Only(p) ==
    /\ part = p
    /\ UNCHANGED part
    /\ p \notin {"intents", "regions"} => UNCHANGED xVars
    /\ p \notin {"channels", "worker"} => UNCHANGED secVars
    /\ p # "vm" => UNCHANGED lifeVars
    /\ p # "connections" => UNCHANGED connVars
    /\ p # "node" => UNCHANGED nodeVars
    /\ p # "faucet" => UNCHANGED faucetVars
    /\ p # "registry" => UNCHANGED regVars

\* The coordinator's process has ended.
CoordinatorDown ==
    /\ workers = NoWorkers /\ teePairs = NoPairs /\ taskCount = NoPairs
    /\ savedWorkers = {} /\ savedRegions = NoPairs /\ savedChannels = {}
    /\ regPc = "idle" /\ regID = "none" /\ regPair = <<>>
    /\ muStuck = FALSE /\ up = FALSE

\* The part "claims" is a function of its input: every input is an initial state
\* without a step.  In the part "faucet" either the initial transfer is retried or
\* the limiter gets a token back for the second request: a result that a given-up
\* transfer leaves on the stream meets one handler, and two handlers meet each other.
MCInit ==
    /\ part \in {"intents", "regions", "channels", "worker", "claims",
                 "vm", "connections", "node", "faucet", "registry"}
    /\ NodeInit /\ FaucetInit
    /\ ConnInit /\ (part # "connections" => keeps = "client")
    /\ XInit /\ (part # "intents" => input = [intent |-> Simple, stored |-> {11, 12}])
             /\ (part # "regions" => signed)
    /\ SecInit /\ (part # "claims" => claim = CHOOSE c \in Claims : TRUE)
    /\ LifeInit /\ (part # "vm" => ~verifyOnly)
    /\ IF part = "registry" THEN RegInit ELSE CoordinatorDown

MCNext ==
    \/ Only("intents") /\ ExecuteNext
    \/ Only("regions") /\ ProcessNext
    \/ Only("channels") /\ ChannelNext
    \/ Only("worker") /\ WorkerNext
    \/ Only("vm") /\ LifeNext
    \/ Only("connections") /\ ConnNext
    \/ Only("node") /\ NodeNext
    \/ Only("faucet") /\ FaucetNext /\ (attempt' = 0 \/ refills' = 0)
    \/ Only("registry") /\ RegNext

\* Nothing that is to be scheduled fairly is possible where the other parts leave
\* the variables of a part, so its fairness demands nothing of their behaviours.
MCSpec ==
    /\ MCInit /\ [][MCNext]_mcVars
    /\ ProcessFairness /\ WorkerFairness
    /\ LifeFairness /\ NodeFairness /\ FaucetFairness /\ RegFairness
=============================================================================
