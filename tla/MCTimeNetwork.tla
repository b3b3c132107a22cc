--------------------------- MODULE MCTimeNetwork ---------------------------
(***************************************************************************)
(* Three instances of TimeNetwork.  "ids": one call, in a region "east"    *)
(* whose servers include two with one ID and one with a wrong key, and a   *)
(* server of "west" that has an ID of "east" too.  "calls": two calls, of  *)
(* two servers.  "stop": one call, of two servers, while the network is    *)
(* started and stopped.                                                    *)
(*                                                                         *)
(* The servers "b" and "b2" differ in nothing but their names, and so do   *)
(* the calls: "b" is added before "b2", and the first call is made first.  *)
(***************************************************************************)
EXTENDS TimeNetwork, TLC

VARIABLE instance

mcVars == <<vars, instance>>

FiveServers == {"a", "b", "b2", "bad", "wa"}
FiveIDs == "a" :> "A" @@ "b" :> "B" @@ "b2" :> "B" @@ "bad" :> "C" @@ "wa" :> "A"
FiveRegions == [s \in FiveServers |-> IF s = "wa" THEN "west" ELSE "east"]

FirstCall == CHOOSE c \in Calls : TRUE

\* Whether the server is one of "east" after the step.
Added(s) == \E i \in DOMAIN servers'["east"] : servers'["east"][i] = s

MCInit == Init /\ instance \in {"ids", "calls", "stop"}

MCNext ==
    /\ Next
    /\ UNCHANGED instance
    /\ IF instance = "ids"
       THEN Len(servers'["west"]) <= 1 /\ (Added("b2") => Added("b"))
       ELSE servers'["east"] \in {<<>>, <<"a">>, <<"a", "b">>} /\ servers'["west"] = <<>>
    /\ instance # "calls" \/ pc'[FirstCall] = "idle" => \A c \in Calls : c = FirstCall \/ pc'[c] = "idle"
    /\ instance # "stop" => lastCall' = "none"

MCSpec == MCInit /\ [][MCNext]_mcVars /\ Fairness
=============================================================================
