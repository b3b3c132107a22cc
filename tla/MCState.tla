------------------------------- MODULE MCState -------------------------------
(***************************************************************************)
(* What the system stores, for TLC: balances, chain objects, verification, *)
(* the stores, the coordinator's state manager and the region manager.     *)
(* They share no state, so a behaviour exercises one of them: part says    *)
(* which.                                                                  *)
(***************************************************************************)
EXTENDS Balances, ChainObjects, Verifier, Stores, CoordState, Regions, TLC

VARIABLE part

mcVars == <<balVars, chainVars, verVars, storesVars, coordVars, regionVars, part>>

Tx(kind, id, code, time) ==
    [kind |-> kind, region |-> "east", id |-> id, code |-> code, time |-> time]

\* Two creations of x, an object under the name of x's input object, events of x
\* by both ways, its input object, and an enclave.
MCTxs ==
    {Tx("create", "x", "c1", 1), Tx("execCreate", "x", "c2", 1),
     Tx("create", "input:x", "c1", 1),
     Tx("send", "x", "c1", 1), Tx("execSend", "x", "c2", 1),
     Tx("input", "x", "c1", 1), Tx("enclave", "enclave/e", "c1", 1)}

MCInputID == "x" :> "input:x"

Att(e, t, d) == [enclave |-> e, time |-> t, data |-> d, measured |-> FALSE]

Act(kind, region, id, a1, a2) ==
    [kind |-> kind, region |-> region, id |-> id, atts |-> <<a1, a2>>]

Unmeasured == Att("sgx", 0, "d1")

MCActions ==
    {Act("create", "east", "x", Unmeasured, Unmeasured),
     Act("input", "east", "x", Unmeasured, Unmeasured),
     Act("createRegion", "east", "x", Unmeasured, Unmeasured),
     Act("updateRegion", "east", "x", Unmeasured, Unmeasured),
     Act("send", "east", "x", Att("sgx", 0, "d1"), Att("sev", 0, "d1")),
     Act("send", "east", "x", Att("sgx", 1, "d1"), Att("sev", 1, "d1")),
     Act("send", "east", "x", Att("sgx", 1, "d1"), Att("sgx", 0, "d2")),
     Act("send", "east", "x", [Unmeasured EXCEPT !.measured = TRUE], Att("sev", 0, "d1"))}

\* The actions of which two in one batch may disturb each other: those that are
\* tracked by object and attestation, and those that are tracked by region.
OfObjects ==
    {a \in MCActions : /\ a.kind \in {"create", "send"}
                       /\ a.atts[2] # Att("sgx", 0, "d2") /\ ~a.atts[1].measured}
OfRegions == {a \in MCActions : a.kind \in {"createRegion", "updateRegion"}}

\* No action, any action, two that leave tracks, and a list over the limit.
MCBatches ==
    {<<>>} \cup [1..1 -> MCActions] \cup [1..2 -> OfObjects] \cup [1..2 -> OfRegions]
        \cup {[i \in 1..3 |-> Act("input", "east", "x", Unmeasured, Unmeasured)]}

MCRangeKey == [r \in Ranges |-> r]
Write(k, v) == [key |-> k, value |-> v]

\* A write, and a list whose deletion comes before the writes of its key.
MCOpLists == {<<Write("k1", "v")>>, <<Write("k1", Unset), Write("k1", "v"), Write("k2", "v")>>}

Only(p) ==
    /\ part = p
    /\ UNCHANGED part
    /\ p # "balances" => UNCHANGED balVars
    /\ p \notin {"chain", "enclaves"} => UNCHANGED chainVars
    /\ p # "verifier" => UNCHANGED verVars
    /\ p # "routes" => UNCHANGED routeVars
    /\ p # "coordination" => UNCHANGED stateVars
    /\ p # "configs" => UNCHANGED configVars
    /\ p # "listing" => UNCHANGED iter
    /\ p \notin {"ranges", "values"} => UNCHANGED coordVars
    /\ p \notin {"regions", "health"} => UNCHANGED regionVars

\* The executors that run an action of a kind after the step.
Executing(kind) == {e \in Executors : run'[e] # Idle /\ run'[e].tx.kind = kind}

\* The pairs the region manager has met after the step.
PairsWithin(P) == named' \cup DOMAIN metrics' \cup UNION (configs' \cup cache' \cup saved'.config) \subseteq P

\* ChainObjects has two parts: "chain" without the action on an enclave, whose
\* object no other action reads or writes, and "enclaves" with it and without
\* events.  Regions has two: "regions" with one pair, where writes fail, without
\* the verdicts of HealthChecker, and "health" with them, where the IDs are those
\* the verdicts and GetRegionHealth use, under a constant load and before anything
\* ages, without failing writes and without the monitor.
MCInit ==
    /\ part \in {"balances", "chain", "enclaves", "verifier", "routes", "coordination", "configs",
                 "listing", "ranges", "values", "regions", "health"}
    /\ BalInit /\ ChainInit /\ VerInit /\ CoordInit /\ RegionsInit
    /\ StoresInit /\ (part # "listing" => iter.all = {})

MCNext ==
    \/ Only("balances") /\ BalNext
    \/ Only("chain") /\ ChainNext /\ Executing("enclave") = {}
    \/ Only("enclaves") /\ ChainNext /\ Executing("send") \cup Executing("execSend") = {}
    \/ Only("verifier") /\ VerNext
    \/ Only("routes") /\ RouteNext
    \/ Only("coordination") /\ StateNext
    \/ Only("configs") /\ ConfigNext
    \/ Only("listing") /\ IterStep
    \/ Only("ranges") /\ ((\E c \in Readers : RangeStep(c)) \/ \E s \in OpLists : CommitBatch(s))
    \/ Only("values") /\ (\/ ValueStep("c1")
                          \/ \E s \in OpLists : CommitBatch(s) \/ CommitChanges(s) \/ CommitFails(s))
    \/ Only("regions") /\ RegionsNext /\ PairsWithin({"p"}) /\ DOMAIN saved'.states \subseteq {"p"}
    \/ /\ Only("health") /\ RegionsNext /\ PairsWithin({"healthy", ""}) /\ faults' = 0
       /\ monitor' = ManagerIdle /\ \A k \in DOMAIN metrics' : metrics'[k].load = 0
       /\ \A k \in DOMAIN states' : states'[k].recent /\ states'[k].errors < 2

MCSpec == MCInit /\ [][MCNext]_mcVars
=============================================================================
