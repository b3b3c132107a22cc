--------------------------- MODULE VerifiedProofs ---------------------------
(***************************************************************************)
(* What is served with a proof.  A verified time lies within its call and  *)
(* its proofs come from a quorum of servers, for any servers and IDs,      *)
(* however many of them share an ID, and any regions, calls, quorum and    *)
(* latency.  What the coordinator's state returns is proved against a root *)
(* that was current, for any keys, commits, readers and size of the cache. *)
(***************************************************************************)
EXTENDS TimeNetwork, CoordState, Induction

(* The time.  The induction carries where the answers are: every time that is on its way to a call,
   or was accepted by it, was read between the beginning of the call and now *)

\* The bound on AddServer, which makes positions of servers Positions.
ServersBounded == \A r \in Regions : Len(servers[r]) <= MaxServers

\* A call under way has a region and began in the past.
CallsBegun ==
    \A c \in Calls : pc[c] # "idle" => region[c] \in Regions /\ begin[c] <= now

\* Answers are no older than the call and no newer than the clock; a call that
\* was not made has none.
AnswersWithinCall ==
    \A c \in Calls :
        /\ pc[c] \in {"idle", "check"} => inbox[c] = {} /\ collected[c] = <<>>
        /\ \A resp \in inbox[c] : begin[c] <= resp[2] /\ resp[2] <= now
        /\ \A i \in 1..Len(collected[c]) :
             begin[c] <= collected[c][i][2] /\ collected[c][i][2] <= now

TimeInv ==
    /\ TypeOK
    /\ ServersBounded
    /\ CallsBegun
    /\ AnswersWithinCall
    /\ TimeWithinCall

\* The initial state of a new network satisfies the invariant.
LEMMA TimeInvInit == Init => TimeInv
<1> SUFFICES ASSUME Init PROVE TimeInv
    BY Zenon
<1> USE TimeNetworkAssumption
<1>1. /\ <<>> \in Seq(Servers) /\ Len(<<>>) = 0
      /\ <<>> \in Seq(Responses)
    BY EmptySeq, Zenon
<1>2. TypeOK
  <2>1. /\ servers \in [Regions -> Seq(Servers)]
        /\ collected \in [Calls -> Seq(Responses)]
        /\ \A c \in Calls : Len(collected[c]) <= QuorumSize
      BY <1>1 DEF Init
  <2>2. 0 \in 0..MaxTime
      OBVIOUS
  <2> QED
      BY <2>1, <2>2, Zenon DEF Init, TypeOK
<1>3. ServersBounded /\ CallsBegun /\ AnswersWithinCall /\ TimeWithinCall
    BY <1>1 DEF Init, ServersBounded, CallsBegun, AnswersWithinCall, TimeWithinCall
<1> QED
    BY <1>2, <1>3, Zenon DEF TimeInv

\* Collect changes a call by moving one answer of its inbox to the accepted
\* ones, or by dropping it.
LEMMA CollectEffect ==
    ASSUME TypeOK, NEW c \in Calls, Collect(c)
    PROVE  \E resp \in inbox[c] :
              /\ inbox' = [inbox EXCEPT ![c] = inbox[c] \ {resp}]
              /\ \/ collected' = collected
                 \/ collected' = [collected EXCEPT ![c] = Append(collected[c], resp)]
BY Zenon DEF Collect

\* Every step keeps the types.
LEMMA TypeStep == TimeInv /\ [Next]_vars => TypeOK'
<1> SUFFICES ASSUME TimeInv, [Next]_vars PROVE TypeOK'
    BY Zenon
<1> USE TimeNetworkAssumption DEF TimeInv
<1>1. ASSUME NEW s \in Servers, AddServer(s) PROVE TypeOK'
  <2>1. RegionOf[s] \in Regions /\ servers[RegionOf[s]] \in Seq(Servers)
      BY Zenon DEF TypeOK
  <2>2. Append(servers[RegionOf[s]], s) \in Seq(Servers)
      BY <2>1, AppendProperties, Zenon
  <2> QED
      BY <1>1, <2>1, <2>2, Zenon DEF AddServer, TypeOK, callVars
<1>2. CASE Start
    BY <1>2, Zenon DEF Start, TypeOK, callVars
<1>3. CASE Stop
    BY <1>3, Zenon DEF Stop, TypeOK, callVars
<1>4. CASE CheckerExits
    BY <1>4, Zenon DEF CheckerExits, TypeOK, callVars
<1>5. CASE Tick
    BY <1>5 DEF Tick, TypeOK, netVars, callVars
<1>6. ASSUME NEW c \in Calls, NEW r \in Regions, GetVerifiedTimestamp(c, r) PROVE TypeOK'
  <2>1. DOMAIN servers[r] \subseteq Positions
      BY LenProperties DEF TypeOK, ServersBounded, Positions
  <2> QED
      BY <1>6, <2>1, Zenon DEF GetVerifiedTimestamp, Return, TypeOK, netVars
<1>7. ASSUME NEW c \in Calls, CheckHealth(c) PROVE TypeOK'
  <2>1. asked' \in [Calls -> SUBSET Positions]
    <3> DEFINE healthy == {i \in asked[c] : servers[region[c]][i] \notin Mismatched}
    <3>1. healthy \in SUBSET Positions
        BY Zenon DEF TypeOK
    <3>2. asked' = asked \/ asked' = [asked EXCEPT ![c] = healthy]
        BY <1>7, Zenon DEF CheckHealth
    <3> HIDE DEF healthy
    <3> QED
        BY <3>1, <3>2, Zenon DEF TypeOK
  <2>2. deadline' \in [Calls -> Nat]
    <3>1. deadline' = deadline \/ deadline' = [deadline EXCEPT ![c] = now + MaxLatency]
        BY <1>7, Zenon DEF CheckHealth
    <3>2. now + MaxLatency \in Nat /\ deadline \in [Calls -> Nat]
        BY DEF TypeOK
    <3> QED
        BY <3>1, <3>2, Zenon
  <2>3. pc' \in [Calls -> {"idle", "check", "collect", "returned", "failed"}]
    <3>1. pc' = [pc EXCEPT ![c] = "failed"] \/ pc' = [pc EXCEPT ![c] = "collect"]
        BY <1>7, Zenon DEF CheckHealth, Return
    <3>2. pc \in [Calls -> {"idle", "check", "collect", "returned", "failed"}]
        BY Zenon DEF TypeOK
    <3> QED
        BY <3>1, <3>2, Zenon
  <2> QED
      BY <1>7, <2>1, <2>2, <2>3, Zenon DEF CheckHealth, TypeOK, netVars
<1>8. ASSUME NEW c \in Calls, NEW i \in Positions, Respond(c, i) PROVE TypeOK'
  <2>1. <<i, now>> \in Responses
      BY Zenon DEF TypeOK, Responses
  <2> QED
      BY <1>8, <2>1, Zenon DEF Respond, TypeOK, netVars
<1>9. ASSUME NEW c \in Calls, Collect(c) PROVE TypeOK'
  <2>1. PICK resp \in inbox[c] :
           /\ inbox' = [inbox EXCEPT ![c] = inbox[c] \ {resp}]
           /\ \/ collected' = collected
              \/ collected' = [collected EXCEPT ![c] = Append(collected[c], resp)]
      BY <1>9, CollectEffect, Zenon
  <2>2. resp \in Responses /\ collected[c] \in Seq(Responses) /\ Len(collected[c]) < QuorumSize
      BY <1>9, Zenon DEF TypeOK, Collect
  <2>3. /\ Append(collected[c], resp) \in Seq(Responses)
        /\ Len(Append(collected[c], resp)) = Len(collected[c]) + 1
        /\ Len(collected[c]) \in Nat
      BY <2>2, AppendProperties, LenProperties
  <2>4. /\ collected' \in [Calls -> Seq(Responses)]
        /\ \A d \in Calls : Len(collected'[d]) <= QuorumSize
    <3>1. CASE collected' = collected
        BY <3>1, Zenon DEF TypeOK
    <3>2. CASE collected' = [collected EXCEPT ![c] = Append(collected[c], resp)]
      <4>1. collected' \in [Calls -> Seq(Responses)]
          BY <3>2, <2>3, Zenon DEF TypeOK
      <4>2. ASSUME NEW d \in Calls PROVE Len(collected'[d]) <= QuorumSize
        <5>1. CASE d = c
          <6>1. collected'[d] = Append(collected[c], resp)
              BY <3>2, <5>1, Zenon DEF TypeOK
          <6> QED
              BY <6>1, <2>2, <2>3
        <5>2. CASE d # c
          <6>1. collected'[d] = collected[d]
              BY <3>2, <5>2, Zenon DEF TypeOK
          <6> QED
              BY <6>1, Zenon DEF TypeOK
        <5> QED
            BY <5>1, <5>2, Zenon
      <4> QED
          BY <4>1, <4>2, Zenon
    <3> QED
        BY <2>1, <3>1, <3>2, Zenon
  <2>5. inbox' \in [Calls -> SUBSET Responses]
      BY <2>1, Zenon DEF TypeOK
  <2> QED
      BY <1>9, <2>4, <2>5, Zenon DEF Collect, TypeOK, netVars
<1>10. ASSUME NEW c \in Calls, Timeout(c) \/ Cancel(c) PROVE TypeOK'
    BY <1>10, Zenon DEF Timeout, Cancel, Return, TypeOK, netVars
<1>11. ASSUME NEW c \in Calls, Finish(c) PROVE TypeOK'
    BY <1>11, Zenon DEF Finish, Return, TypeOK, netVars
<1>12. CASE UNCHANGED vars
    BY <1>12, Zenon DEF vars, netVars, callVars, TypeOK
<1> QED
    BY <1>1, <1>2, <1>3, <1>4, <1>5, <1>6, <1>7, <1>8, <1>9, <1>10, <1>11, <1>12, Zenon DEF Next

\* What a step does to the answers of a call.  Only its own actions touch them,
\* and of those Respond adds the present time.
LEMMA AnswersStep == TimeInv /\ [Next]_vars => AnswersWithinCall'
<1> SUFFICES ASSUME TimeInv, [Next]_vars PROVE AnswersWithinCall'
    BY Zenon
<1> USE TimeNetworkAssumption DEF TimeInv
<1>1. CASE UNCHANGED callVars /\ now' \in Int /\ now <= now'
    BY <1>1 DEF AnswersWithinCall, callVars, TypeOK, Responses
<1>2. ASSUME NEW c \in Calls, NEW r \in Regions, GetVerifiedTimestamp(c, r)
      PROVE  AnswersWithinCall'
  <2>1. /\ begin' = [begin EXCEPT ![c] = now]
        /\ UNCHANGED <<now, inbox, collected>>
        /\ pc[c] = "idle"
        /\ \A d \in Calls \ {c} : pc'[d] = pc[d]
      BY <1>2, Zenon DEF GetVerifiedTimestamp, Return, TypeOK
  <2>2. inbox[c] = {} /\ collected[c] = <<>> /\ Len(collected[c]) = 0
      BY <2>1, EmptySeq, Zenon DEF AnswersWithinCall
  <2>3. ASSUME NEW d \in Calls
        PROVE  /\ pc'[d] \in {"idle", "check"} => inbox'[d] = {} /\ collected'[d] = <<>>
               /\ \A resp \in inbox'[d] : begin'[d] <= resp[2] /\ resp[2] <= now'
               /\ \A i \in 1..Len(collected'[d]) :
                    begin'[d] <= collected'[d][i][2] /\ collected'[d][i][2] <= now'
    <3>1. CASE d = c
        BY <2>1, <2>2, <3>1
    <3>2. CASE d # c
      <4>1. begin'[d] = begin[d] /\ pc'[d] = pc[d]
          BY <2>1, <3>2, Zenon DEF TypeOK
      <4> QED
          BY <2>1, <4>1, Zenon DEF AnswersWithinCall
    <3> QED
        BY <3>1, <3>2, Zenon
  <2> QED
      BY <2>3, Zenon DEF AnswersWithinCall
<1>3. ASSUME NEW c \in Calls, CheckHealth(c) PROVE AnswersWithinCall'
  <2>1. /\ UNCHANGED <<now, begin, inbox, collected>>
        /\ pc[c] = "check"
        /\ pc' = [pc EXCEPT ![c] = "failed"] \/ pc' = [pc EXCEPT ![c] = "collect"]
      BY <1>3, Zenon DEF CheckHealth, Return
  <2>2. \A d \in Calls : pc'[d] \in {"idle", "check"} => pc[d] \in {"idle", "check"}
      BY <2>1, Zenon DEF TypeOK
  <2> QED
      BY <2>1, <2>2, Zenon DEF AnswersWithinCall
<1>4. ASSUME NEW c \in Calls, NEW i \in Positions, Respond(c, i) PROVE AnswersWithinCall'
  <2>1. /\ inbox' = [inbox EXCEPT ![c] = inbox[c] \cup {<<i, now>>}]
        /\ UNCHANGED <<now, pc, begin, collected>>
        /\ pc[c] \notin {"idle", "check"}
      BY <1>4, Zenon DEF Respond
  <2>2. begin[c] <= now /\ now <= now
      BY <2>1 DEF CallsBegun, TypeOK
  <2>3. \A d \in Calls : \A resp \in inbox'[d] : begin[d] <= resp[2] /\ resp[2] <= now
      BY <2>1, <2>2 DEF AnswersWithinCall, TypeOK
  <2>4. \A d \in Calls : pc[d] \in {"idle", "check"} => inbox'[d] = {}
      BY <2>1, Zenon DEF AnswersWithinCall, TypeOK
  <2> QED
      BY <2>1, <2>3, <2>4, Zenon DEF AnswersWithinCall
<1>5. ASSUME NEW c \in Calls, Collect(c) PROVE AnswersWithinCall'
  <2>1. PICK resp \in inbox[c] :
           /\ inbox' = [inbox EXCEPT ![c] = inbox[c] \ {resp}]
           /\ \/ collected' = collected
              \/ collected' = [collected EXCEPT ![c] = Append(collected[c], resp)]
      BY <1>5, CollectEffect, Zenon
  <2>2. UNCHANGED <<now, pc, begin>> /\ pc[c] = "collect"
      BY <1>5, Zenon DEF Collect
  <2>3. begin[c] <= resp[2] /\ resp[2] <= now
      BY Zenon DEF AnswersWithinCall
  <2>4. \A d \in Calls : inbox'[d] \subseteq inbox[d]
      BY <2>1, Zenon DEF TypeOK
  <2>5. ASSUME NEW d \in Calls, NEW i \in 1..Len(collected'[d])
        PROVE  begin[d] <= collected'[d][i][2] /\ collected'[d][i][2] <= now
    <3>1. CASE collected'[d] = collected[d]
        BY <3>1, Zenon DEF AnswersWithinCall
    <3>2. CASE d = c /\ collected'[c] = Append(collected[c], resp)
      <4>1. collected[c] \in Seq(Responses) /\ resp \in Responses
          BY Zenon DEF TypeOK
      <4>2. /\ Len(collected'[c]) = Len(collected[c]) + 1
            /\ Len(collected[c]) \in Nat
            /\ \A j \in 1..Len(collected[c]) : collected'[c][j] = collected[c][j]
            /\ collected'[c][Len(collected[c]) + 1] = resp
          BY <3>2, <4>1, AppendProperties, LenProperties
      <4>3. CASE i = Len(collected[c]) + 1
          BY <3>2, <4>2, <4>3, <2>3, Zenon
      <4>4. CASE i \in 1..Len(collected[c])
          BY <3>2, <4>2, <4>4, Zenon DEF AnswersWithinCall
      <4> QED
          BY <3>2, <4>2, <4>3, <4>4
    <3> QED
        BY <2>1, <3>1, <3>2, Zenon DEF TypeOK
  <2>6. \A d \in Calls : pc[d] \in {"idle", "check"} => inbox'[d] = {} /\ collected'[d] = <<>>
      BY <2>1, <2>2, <2>4, Zenon DEF AnswersWithinCall, TypeOK
  <2> QED
      BY <2>2, <2>4, <2>5, <2>6, Zenon DEF AnswersWithinCall
<1>6. ASSUME NEW c \in Calls, Timeout(c) \/ Cancel(c) \/ Finish(c)
      PROVE  AnswersWithinCall'
  <2>1. /\ UNCHANGED <<now, begin, inbox, collected>>
        /\ pc[c] = "collect"
        /\ pc' = [pc EXCEPT ![c] = "failed"] \/ pc' = [pc EXCEPT ![c] = "returned"]
      BY <1>6, Zenon DEF Timeout, Cancel, Finish, Return
  <2>2. \A d \in Calls : pc'[d] \in {"idle", "check"} => pc[d] \in {"idle", "check"}
      BY <2>1, Zenon DEF TypeOK
  <2> QED
      BY <2>1, <2>2, Zenon DEF AnswersWithinCall
<1>7. CASE Start \/ Stop \/ CheckerExits \/ Tick \/ UNCHANGED vars \/ \E s \in Servers : AddServer(s)
  <2>1. UNCHANGED callVars
      BY <1>7, Zenon DEF Start, Stop, CheckerExits, Tick, AddServer, vars
  <2>2. now' = now \/ now' = now + 1
      BY <1>7, Zenon DEF Start, Stop, CheckerExits, Tick, AddServer, vars
  <2> QED
      BY <1>1, <2>1, <2>2 DEF TypeOK
<1> QED
    BY <1>2, <1>3, <1>4, <1>5, <1>6, <1>7, Zenon DEF Next

\* The other conjuncts.  Finish is the one step that returns a time; it takes it
\* from the accepted answers.
LEMMA RestStep == TimeInv /\ [Next]_vars => (ServersBounded /\ CallsBegun /\ TimeWithinCall)'
<1> SUFFICES ASSUME TimeInv, [Next]_vars
             PROVE  ServersBounded' /\ CallsBegun' /\ TimeWithinCall'
    BY Zenon
<1> USE TimeNetworkAssumption DEF TimeInv
<1>1. ASSUME NEW s \in Servers, AddServer(s)
      PROVE  ServersBounded' /\ CallsBegun' /\ TimeWithinCall'
  <2>1. RegionOf[s] \in Regions /\ servers[RegionOf[s]] \in Seq(Servers)
      BY Zenon DEF TypeOK
  <2>2. /\ Len(Append(servers[RegionOf[s]], s)) = Len(servers[RegionOf[s]]) + 1
        /\ Len(servers[RegionOf[s]]) \in Nat
      BY <2>1, AppendProperties, LenProperties
  <2>3. Len(servers[RegionOf[s]]) < MaxServers
      BY <1>1, Zenon DEF AddServer
  <2>4. ASSUME NEW r \in Regions PROVE Len(servers'[r]) <= MaxServers
    <3>1. CASE r = RegionOf[s]
      <4>1. servers'[r] = Append(servers[RegionOf[s]], s)
          BY <1>1, <3>1, Zenon DEF AddServer, TypeOK
      <4> QED
          BY <4>1, <2>2, <2>3
    <3>2. CASE r # RegionOf[s]
      <4>1. servers'[r] = servers[r]
          BY <1>1, <3>2, Zenon DEF AddServer, TypeOK
      <4> QED
          BY <4>1, Zenon DEF ServersBounded
    <3> QED
        BY <3>1, <3>2, Zenon
  <2> QED
      BY <1>1, <2>4, Zenon DEF AddServer, callVars, ServersBounded, CallsBegun, TimeWithinCall
<1>2. CASE Start \/ Stop \/ CheckerExits \/ Tick \/ UNCHANGED vars
  <2>1. UNCHANGED <<servers, callVars>> /\ (now' = now \/ now' = now + 1)
      BY <1>2, Zenon DEF Start, Stop, CheckerExits, Tick, netVars, vars
  <2> QED
      BY <2>1 DEF callVars, TypeOK, ServersBounded, CallsBegun, TimeWithinCall
<1>3. ASSUME NEW c \in Calls, NEW r \in Regions, GetVerifiedTimestamp(c, r)
      PROVE  ServersBounded' /\ CallsBegun' /\ TimeWithinCall'
  <2>1. ServersBounded' /\ TimeWithinCall'
      BY <1>3, Zenon
         DEF GetVerifiedTimestamp, Return, TypeOK, netVars, ServersBounded, TimeWithinCall
  <2>2. CallsBegun'
      BY <1>3 DEF GetVerifiedTimestamp, Return, TypeOK, CallsBegun
  <2> QED
      BY <2>1, <2>2, Zenon
<1>4. ASSUME NEW c \in Calls, CheckHealth(c)
      PROVE  ServersBounded' /\ CallsBegun' /\ TimeWithinCall'
  <2>1. /\ UNCHANGED <<servers, now, region, begin, result>>
        /\ pc[c] = "check"
        /\ pc' = [pc EXCEPT ![c] = "failed"] \/ pc' = [pc EXCEPT ![c] = "collect"]
      BY <1>4, Zenon DEF CheckHealth, Return, netVars
  <2> QED
      BY <2>1, Zenon DEF TypeOK, ServersBounded, CallsBegun, TimeWithinCall
<1>5. ASSUME NEW c \in Calls, (\E i \in Positions : Respond(c, i)) \/ Collect(c)
      PROVE  ServersBounded' /\ CallsBegun' /\ TimeWithinCall'
  <2>1. UNCHANGED <<servers, now, pc, region, begin, result>>
      BY <1>5, Zenon DEF Respond, Collect, netVars
  <2> QED
      BY <2>1, Zenon DEF ServersBounded, CallsBegun, TimeWithinCall
<1>6. ASSUME NEW c \in Calls, Timeout(c) \/ Cancel(c)
      PROVE  ServersBounded' /\ CallsBegun' /\ TimeWithinCall'
  <2>1. /\ UNCHANGED <<servers, now, region, begin, result>>
        /\ pc[c] = "collect"
        /\ pc' = [pc EXCEPT ![c] = "failed"]
      BY <1>6, Zenon DEF Timeout, Cancel, Return, netVars
  <2> QED
      BY <2>1, Zenon DEF TypeOK, ServersBounded, CallsBegun, TimeWithinCall
<1>7. ASSUME NEW c \in Calls, Finish(c)
      PROVE  ServersBounded' /\ CallsBegun' /\ TimeWithinCall'
  <2>1. UNCHANGED <<servers, now, region, begin>> /\ pc[c] = "collect"
      BY <1>7, Zenon DEF Finish, netVars
  <2>2. CASE pc' = [pc EXCEPT ![c] = "failed"] /\ UNCHANGED result
      BY <2>1, <2>2, Zenon DEF TypeOK, ServersBounded, CallsBegun, TimeWithinCall
  <2>3. ASSUME NEW t \in Times(c), NEW from,
               pc' = [pc EXCEPT ![c] = "returned"],
               result' = [result EXCEPT ![c] = [time |-> t, end |-> now, from |-> from]]
        PROVE  ServersBounded' /\ CallsBegun' /\ TimeWithinCall'
    <3>1. begin[c] <= t /\ t <= now
      <4>1. collected[c] \in Seq(Responses) /\ DOMAIN collected[c] = 1..Len(collected[c])
          BY LenProperties, Zenon DEF TypeOK
      <4> QED
          BY <4>1 DEF Times, AnswersWithinCall
    <3>2. \A d \in Calls : pc'[d] = "returned" =>
             begin'[d] <= result'[d].time /\ result'[d].time <= result'[d].end
        BY <2>1, <2>3, <3>1, Zenon DEF TypeOK, TimeWithinCall
    <3> QED
        BY <2>1, <2>3, <3>2, Zenon DEF TypeOK, ServersBounded, CallsBegun, TimeWithinCall
  <2> QED
      BY <1>7, <2>2, <2>3, Zenon DEF Finish, Return
<1> QED
    BY <1>1, <1>2, <1>3, <1>4, <1>5, <1>6, <1>7, Zenon DEF Next

LEMMA TimeInvariant == Spec => []TimeInv
<1>1. TimeInv /\ [Next]_vars => TimeInv'
    BY TypeStep, AnswersStep, RestStep, Zenon DEF TimeInv
<1> QED
    BY TimeInvInit, <1>1, PTL DEF Spec

\* The network's servers, responses and calls are well typed at every moment.
THEOREM TimeNetworkTyped == Spec => []TypeOK
<1>1. TimeInv => TypeOK
    BY Zenon DEF TimeInv
<1> QED
    BY TimeInvariant, <1>1, PTL

\* GetVerifiedTimestamp returns a time that was read while it ran, whatever
\* servers are added, however many calls overlap and however late answers come.
THEOREM VerifiedTimeSafe == Spec => []TimeWithinCall
<1>1. TimeInv => TimeWithinCall
    BY Zenon DEF TimeInv
<1> QED
    BY TimeInvariant, <1>1, PTL

-----------------------------------------------------------------------------
(* The quorum.  The induction follows each answer from the server that was asked to the accepted
   answers, and needs that an accepted answer's server was the first of its ID in the region: it
   stays the first, because lists only grow *)

\* AddServer files a server under its own region.
HomeServers ==
    \A r \in Regions : \A i \in 1..Len(servers[r]) : RegionOf[servers[r][i]] = r

\* Servers that are asked and answers refer to servers of the call's region.
Placed(c) ==
    IF pc[c] = "idle" THEN asked[c] = {}
    ELSE /\ \A i \in asked[c] : i \in 1..Len(servers[region[c]])
         /\ \A p \in inbox[c] : p[1] \in 1..Len(servers[region[c]])
         /\ \A k \in 1..Len(collected[c]) :
              collected[c][k][1] \in 1..Len(servers[region[c]])

\* A server that is asked answers once.
AnswersOnce(c) ==
    /\ \A p \in inbox[c] : p[1] \notin asked[c]
    /\ \A p, q \in inbox[c] : p[1] = q[1] => p = q
    /\ \A k \in 1..Len(collected[c]) :
         /\ collected[c][k][1] \notin asked[c]
         /\ \A p \in inbox[c] : collected[c][k][1] # p[1]
    /\ \A k, l \in 1..Len(collected[c]) :
         collected[c][k][1] = collected[c][l][1] => k = l

\* The server at a position of a list is the first of its ID there.
FirstOfID(list, p) ==
    \E i \in 1..Len(list) :
        /\ list[i] = list[p]
        /\ \A j \in 1..(i - 1) : IDOf[list[j]] # IDOf[list[p]]

\* What findServer and the signature check leave of the answers.
AcceptedFirst(c) ==
    \A k \in 1..Len(collected[c]) :
        /\ servers[region[c]][collected[c][k][1]] \notin Mismatched
        /\ FirstOfID(servers[region[c]], collected[c][k][1])

QuorumReached(c) == pc[c] = "returned" => Len(collected[c]) = QuorumSize

CallInv(c) == Placed(c) /\ AnswersOnce(c) /\ AcceptedFirst(c) /\ QuorumReached(c)

QuorumInv == TimeInv /\ HomeServers /\ \A c \in Calls : CallInv(c)

\* Nothing is asked or answered in a new network.
LEMMA QuorumInvInit == Init => QuorumInv
<1> SUFFICES ASSUME Init PROVE QuorumInv
    BY Zenon
<1>1. TimeInv
    BY TimeInvInit, Zenon
<1>2. /\ \A c \in Calls : pc[c] = "idle" /\ asked[c] = {} /\ inbox[c] = {} /\ Len(collected[c]) = 0
      /\ \A r \in Regions : Len(servers[r]) = 0
    BY EmptySeq, Zenon DEF Init
<1>3. HomeServers /\ \A c \in Calls : CallInv(c)
    BY <1>2 DEF HomeServers, CallInv, Placed, AnswersOnce, AcceptedFirst, QuorumReached
<1> QED
    BY <1>1, <1>3, Zenon DEF QuorumInv

\* What the proofs below use of the types.
LEMMA QuorumTypes ==
  ASSUME TimeInv
  PROVE  /\ \A r \in Regions : servers[r] \in Seq(Servers) /\ Len(servers[r]) \in Nat
         /\ \A c \in Calls :
              /\ collected[c] \in Seq(Responses) /\ Len(collected[c]) \in Nat
              /\ pc[c] # "idle" => region[c] \in Regions
              /\ pc[c] \in {"idle", "check"} => inbox[c] = {} /\ Len(collected[c]) = 0
              /\ inbox[c] \subseteq Responses
<1>1. \A r \in Regions : servers[r] \in Seq(Servers) /\ Len(servers[r]) \in Nat
    BY LenProperties, Zenon DEF TimeInv, TypeOK
<1>2. ASSUME NEW c \in Calls
      PROVE  collected[c] \in Seq(Responses) /\ Len(collected[c]) \in Nat /\ inbox[c] \subseteq Responses
    BY LenProperties, Zenon DEF TimeInv, TypeOK
<1>3. ASSUME NEW c \in Calls
      PROVE  /\ pc[c] # "idle" => region[c] \in Regions
             /\ pc[c] \in {"idle", "check"} => inbox[c] = {} /\ Len(collected[c]) = 0
    BY EmptySeq, Zenon DEF TimeInv, CallsBegun, AnswersWithinCall
<1> QED
    BY <1>1, <1>2, <1>3, Zenon

\* An accepted answer's server is healthy and the first of its ID: findServer
\* returned the server itself, and no other region has it.
LEMMA CollectAccepts ==
  ASSUME QuorumInv, NEW c \in Calls, Collect(c)
  PROVE  \E resp \in inbox[c] :
            /\ inbox' = [inbox EXCEPT ![c] = inbox[c] \ {resp}]
            /\ \/ collected' = collected
               \/ /\ collected' = [collected EXCEPT ![c] = Append(collected[c], resp)]
                  /\ servers[region[c]][resp[1]] \notin Mismatched
                  /\ FirstOfID(servers[region[c]], resp[1])
<1>1. pc[c] = "collect" /\ region[c] \in Regions
    BY QuorumTypes, Zenon DEF Collect, QuorumInv
<1>2. PICK resp \in inbox[c] :
         /\ inbox' = [inbox EXCEPT ![c] = inbox[c] \ {resp}]
         /\ \E s \in FindServer(IDOf[servers[region[c]][resp[1]]]) :
              collected' = IF s = servers[region[c]][resp[1]] /\ s \notin Mismatched
                           THEN [collected EXCEPT ![c] = Append(collected[c], resp)]
                           ELSE collected
    BY Zenon DEF Collect
<1> DEFINE signer == servers[region[c]][resp[1]]
<1>3. CASE collected' = collected
    BY <1>2, <1>3, Zenon
<1>4. CASE collected' # collected
  <2>1. /\ signer \in FindServer(IDOf[signer]) /\ signer \notin Mismatched
        /\ collected' = [collected EXCEPT ![c] = Append(collected[c], resp)]
      BY <1>2, <1>4, Zenon
  <2>2. PICK r \in Regions :
           \E i \in DOMAIN servers[r] :
              /\ servers[r][i] = signer
              /\ \A j \in 1..(i - 1) : IDOf[servers[r][j]] # IDOf[signer]
      BY <2>1, Zenon DEF FindServer
  <2>3. PICK i \in 1..Len(servers[r]) :
           /\ servers[r][i] = signer
           /\ \A j \in 1..(i - 1) : IDOf[servers[r][j]] # IDOf[signer]
    <3>1. DOMAIN servers[r] = 1..Len(servers[r])
        BY QuorumTypes, LenProperties, Zenon DEF QuorumInv
    <3> QED
        BY <2>2, <3>1, Zenon
  <2>4. resp[1] \in 1..Len(servers[region[c]])
      BY <1>1, Zenon DEF QuorumInv, CallInv, Placed
  <2>5. r = region[c]
      BY <1>1, <2>3, <2>4 DEF QuorumInv, HomeServers
  <2>6. FirstOfID(servers[region[c]], resp[1])
      BY <2>3, <2>5, Zenon DEF FirstOfID
  <2> QED
      BY <1>2, <2>1, <2>6, Zenon
<1> QED
    BY <1>3, <1>4, Zenon

-----------------------------------------------------------------------------
\* The steps.

\* A call none of whose own state changes, while the lists do not.
LEMMA CallKept ==
  ASSUME NEW c \in Calls, CallInv(c), servers' = servers,
         pc'[c] = pc[c], region'[c] = region[c], asked'[c] = asked[c],
         inbox'[c] = inbox[c], collected'[c] = collected[c]
  PROVE  CallInv(c)'
<1>1. Placed(c)' /\ AnswersOnce(c)'
    BY DEF CallInv, Placed, AnswersOnce
<1>2. AcceptedFirst(c)' /\ QuorumReached(c)'
    BY Zenon DEF CallInv, AcceptedFirst, QuorumReached
<1> QED
    BY <1>1, <1>2, Zenon DEF CallInv

\* A longer list keeps positions, and the first server of an ID stays the first.
LEMMA AddServerStep ==
  ASSUME QuorumInv, NEW s \in Servers, AddServer(s)
  PROVE  HomeServers' /\ \A c \in Calls : CallInv(c)'
<1>1. RegionOf[s] \in Regions /\ servers \in [Regions -> Seq(Servers)]
    BY TimeNetworkAssumption, Zenon DEF QuorumInv, TimeInv, TypeOK
<1>2. /\ servers' = [servers EXCEPT ![RegionOf[s]] = Append(servers[RegionOf[s]], s)]
      /\ UNCHANGED <<pc, region, asked, inbox, collected>>
    BY Zenon DEF AddServer, callVars
<1>3. ASSUME NEW r \in Regions
      PROVE  /\ Len(servers[r]) \in Nat /\ Len(servers'[r]) \in Nat
             /\ Len(servers[r]) <= Len(servers'[r])
             /\ \A i \in 1..Len(servers[r]) : servers'[r][i] = servers[r][i]
             /\ \A i \in 1..Len(servers'[r]) :
                  i \in 1..Len(servers[r]) \/ (r = RegionOf[s] /\ servers'[r][i] = s)
  <2> DEFINE list == servers[r]
  <2>1. list \in Seq(Servers) /\ Len(list) \in Nat
      BY <1>1, LenProperties, Zenon
  <2>2. CASE r = RegionOf[s]
    <3>1. servers'[r] = Append(list, s)
        BY <1>1, <1>2, <2>2, Zenon
    <3> HIDE DEF list
    <3>2. /\ Len(Append(list, s)) = Len(list) + 1
          /\ \A i \in 1..Len(list) : Append(list, s)[i] = list[i]
          /\ Append(list, s)[Len(list) + 1] = s
        BY <2>1, AppendProperties
    <3>3. \A i \in 1..(Len(list) + 1) : i \in 1..Len(list) \/ i = Len(list) + 1
        BY <2>1
    <3>4. list = servers[r]
        BY Zenon DEF list
    <3> QED
        BY <2>1, <2>2, <3>1, <3>2, <3>3, <3>4
  <2>3. CASE r # RegionOf[s]
    <3>1. servers'[r] = servers[r]
        BY <1>1, <1>2, <2>3, Zenon
    <3> QED
        BY <2>1, <3>1
  <2> QED
      BY <2>2, <2>3, Zenon
<1>4. HomeServers'
    BY <1>3 DEF HomeServers, QuorumInv
<1>5. ASSUME NEW c \in Calls PROVE CallInv(c)'
  <2>1. CallInv(c)
      BY Zenon DEF QuorumInv
  <2>2. pc[c] # "idle" => region[c] \in Regions
      BY QuorumTypes, Zenon DEF QuorumInv
  <2>3. Placed(c)' /\ AnswersOnce(c)' /\ QuorumReached(c)'
      BY <1>2, <1>3, <2>1, <2>2 DEF CallInv, Placed, AnswersOnce, QuorumReached
  <2>4. ASSUME NEW k \in 1..Len(collected[c])
        PROVE  /\ servers'[region[c]][collected[c][k][1]] \notin Mismatched
               /\ FirstOfID(servers[region[c]], collected[c][k][1])'
    <3> DEFINE r == region[c]
    <3> DEFINE p == collected[c][k][1]
    <3>1. pc[c] # "idle"
        BY QuorumTypes DEF QuorumInv
    <3>2. r \in Regions /\ p \in 1..Len(servers[r])
        BY <2>1, <2>2, <3>1, Zenon DEF CallInv, Placed
    <3>3. servers[r][p] \notin Mismatched
        BY <2>1, Zenon DEF CallInv, AcceptedFirst
    <3>4. PICK i \in 1..Len(servers[r]) :
             /\ servers[r][i] = servers[r][p]
             /\ \A j \in 1..(i - 1) : IDOf[servers[r][j]] # IDOf[servers[r][p]]
        BY <2>1, Zenon DEF CallInv, AcceptedFirst, FirstOfID
    <3> HIDE DEF r, p
    <3>5. /\ i \in 1..Len(servers'[r])
          /\ servers'[r][i] = servers'[r][p] /\ servers'[r][p] = servers[r][p]
          /\ \A j \in 1..(i - 1) : IDOf[servers'[r][j]] # IDOf[servers'[r][p]]
      <4>1. /\ Len(servers[r]) \in Nat /\ Len(servers'[r]) \in Nat
            /\ Len(servers[r]) <= Len(servers'[r])
            /\ \A n \in 1..Len(servers[r]) : servers'[r][n] = servers[r][n]
          BY <1>3, <3>2, Zenon
      <4>2. \A j \in 1..(i - 1) : j \in 1..Len(servers[r])
          BY <3>4, <4>1
      <4>3. i \in 1..Len(servers'[r])
          BY <3>4, <4>1
      <4> QED
          BY <3>2, <3>4, <4>1, <4>2, <4>3, Zenon
    <3>6. r' = r /\ p' = p
        BY <1>2, Zenon DEF r, p
    <3> QED
        BY <3>3, <3>5, <3>6, Zenon DEF FirstOfID, r, p
  <2>5. AcceptedFirst(c)'
      BY <1>2, <2>4, Zenon DEF AcceptedFirst
  <2> QED
      BY <2>3, <2>5, Zenon DEF CallInv
<1> QED
    BY <1>4, <1>5, Zenon

\* A call begins with the whole list of its region.
LEMMA BeginCallStep ==
  ASSUME QuorumInv, NEW c \in Calls, NEW r \in Regions, GetVerifiedTimestamp(c, r)
  PROVE  \A d \in Calls : CallInv(d)'
<1>1. /\ pc[c] = "idle" /\ UNCHANGED <<servers, inbox, collected>>
      /\ region' = [region EXCEPT ![c] = r]
      /\ \/ pc' = [pc EXCEPT ![c] = "failed"] /\ asked' = asked
         \/ pc' = [pc EXCEPT ![c] = "check"] /\ asked' = [asked EXCEPT ![c] = DOMAIN servers[r]]
    BY Zenon DEF GetVerifiedTimestamp, Return, netVars
<1>2. /\ inbox[c] = {} /\ Len(collected[c]) = 0 /\ asked[c] = {}
      /\ DOMAIN servers[r] = 1..Len(servers[r])
    BY <1>1, QuorumTypes, LenProperties, Zenon DEF QuorumInv, CallInv, Placed
<1>3. /\ pc'[c] \in {"failed", "check"} /\ region'[c] = r
      /\ asked'[c] \subseteq 1..Len(servers[r])
    BY <1>1, <1>2, Zenon DEF QuorumInv, TimeInv, TypeOK
<1>4. CallInv(c)'
    BY <1>1, <1>2, <1>3 DEF CallInv, Placed, AnswersOnce, AcceptedFirst, QuorumReached
<1>5. ASSUME NEW d \in Calls \ {c} PROVE CallInv(d)'
  <2>1. pc'[d] = pc[d] /\ region'[d] = region[d] /\ asked'[d] = asked[d]
      BY <1>1, Zenon DEF QuorumInv, TimeInv, TypeOK
  <2> QED
      BY <1>1, <2>1, CallKept, Zenon DEF QuorumInv
<1> QED
    BY <1>4, <1>5, Zenon

\* The health check narrows the servers that are asked.
LEMMA CheckHealthStep ==
  ASSUME QuorumInv, NEW c \in Calls, CheckHealth(c)
  PROVE  \A d \in Calls : CallInv(d)'
<1>1. /\ pc[c] = "check" /\ UNCHANGED <<servers, region, inbox, collected>>
      /\ pc' = [pc EXCEPT ![c] = "failed"] \/ pc' = [pc EXCEPT ![c] = "collect"]
    BY Zenon DEF CheckHealth, Return, netVars
<1>2. /\ asked'[c] \subseteq asked[c]
      /\ \A d \in Calls \ {c} : asked'[d] = asked[d]
  <2> DEFINE healthy == {i \in asked[c] : servers[region[c]][i] \notin Mismatched}
  <2>1. healthy \subseteq asked[c]
      BY Zenon
  <2>2. asked' = asked \/ asked' = [asked EXCEPT ![c] = healthy]
      BY Zenon DEF CheckHealth
  <2> HIDE DEF healthy
  <2> QED
      BY <2>1, <2>2 DEF QuorumInv, TimeInv, TypeOK
<1>3. pc'[c] \in {"failed", "collect"} /\ \A d \in Calls \ {c} : pc'[d] = pc[d]
    BY <1>1, Zenon DEF QuorumInv, TimeInv, TypeOK
<1>4. CallInv(c)'
  <2>1. CallInv(c) /\ inbox[c] = {} /\ Len(collected[c]) = 0
      BY <1>1, QuorumTypes, Zenon DEF QuorumInv
  <2> QED
      BY <1>1, <1>2, <1>3, <2>1, Zenon DEF CallInv, Placed, AnswersOnce, AcceptedFirst, QuorumReached
<1>5. ASSUME NEW d \in Calls \ {c} PROVE CallInv(d)'
    BY <1>1, <1>2, <1>3, CallKept, Zenon DEF QuorumInv
<1> QED
    BY <1>4, <1>5, Zenon

\* An answer takes the place of its question.
LEMMA RespondStep ==
  ASSUME QuorumInv, NEW c \in Calls, NEW i \in Positions, Respond(c, i)
  PROVE  \A d \in Calls : CallInv(d)'
<1>1. /\ pc[c] # "idle" /\ i \in asked[c] /\ UNCHANGED <<servers, pc, region, collected>>
      /\ asked' = [asked EXCEPT ![c] = asked[c] \ {i}]
      /\ inbox' = [inbox EXCEPT ![c] = inbox[c] \cup {<<i, now>>}]
    BY Zenon DEF Respond, netVars
<1>2. /\ asked'[c] = asked[c] \ {i} /\ inbox'[c] = inbox[c] \cup {<<i, now>>}
      /\ \A d \in Calls \ {c} : asked'[d] = asked[d] /\ inbox'[d] = inbox[d]
    BY <1>1, Zenon DEF QuorumInv, TimeInv, TypeOK
<1>3. CallInv(c)'
  <2>1. CallInv(c)
      BY Zenon DEF QuorumInv
  <2>2. Placed(c)'
      BY <1>1, <1>2, <2>1 DEF CallInv, Placed
  <2>3. AnswersOnce(c)'
      BY <1>1, <1>2, <2>1 DEF CallInv, AnswersOnce
  <2>4. AcceptedFirst(c)' /\ QuorumReached(c)'
      BY <1>1, <2>1, Zenon DEF CallInv, AcceptedFirst, QuorumReached
  <2> QED
      BY <2>2, <2>3, <2>4, Zenon DEF CallInv
<1>4. ASSUME NEW d \in Calls \ {c} PROVE CallInv(d)'
    BY <1>1, <1>2, CallKept, Zenon DEF QuorumInv
<1> QED
    BY <1>3, <1>4, Zenon

\* The end of a call; one that returns a time has its quorum.
LEMMA EndStep ==
  ASSUME QuorumInv, NEW c \in Calls, Timeout(c) \/ Cancel(c) \/ Finish(c)
  PROVE  \A d \in Calls : CallInv(d)'
<1>1. /\ pc[c] = "collect" /\ UNCHANGED <<servers, region, asked, inbox, collected>>
      /\ \/ pc' = [pc EXCEPT ![c] = "failed"]
         \/ pc' = [pc EXCEPT ![c] = "returned"] /\ Len(collected[c]) = QuorumSize
    BY Zenon DEF Timeout, Cancel, Finish, Return, netVars
<1>2. /\ pc'[c] \in {"failed", "returned"} /\ (pc'[c] = "returned" => Len(collected[c]) = QuorumSize)
      /\ \A d \in Calls \ {c} : pc'[d] = pc[d]
    BY <1>1, Zenon DEF QuorumInv, TimeInv, TypeOK
<1>3. CallInv(c)'
  <2>1. CallInv(c)
      BY Zenon DEF QuorumInv
  <2>2. Placed(c)' /\ AnswersOnce(c)'
      BY <1>1, <1>2, <2>1 DEF CallInv, Placed, AnswersOnce
  <2>3. AcceptedFirst(c)' /\ QuorumReached(c)'
      BY <1>1, <1>2, <2>1, Zenon DEF CallInv, AcceptedFirst, QuorumReached
  <2> QED
      BY <2>2, <2>3, Zenon DEF CallInv
<1>4. ASSUME NEW d \in Calls \ {c} PROVE CallInv(d)'
    BY <1>1, <1>2, CallKept, Zenon DEF QuorumInv
<1> QED
    BY <1>3, <1>4, Zenon

\* An accepted answer was in the inbox: no other one has its position.
LEMMA CollectStep ==
  ASSUME QuorumInv, NEW c \in Calls, Collect(c)
  PROVE  \A d \in Calls : CallInv(d)'
<1>1. /\ pc[c] = "collect" /\ UNCHANGED <<servers, pc, region, asked>>
    BY Zenon DEF Collect, netVars
<1>2. PICK resp \in inbox[c] :
         /\ inbox' = [inbox EXCEPT ![c] = inbox[c] \ {resp}]
         /\ \/ collected' = collected
            \/ /\ collected' = [collected EXCEPT ![c] = Append(collected[c], resp)]
               /\ servers[region[c]][resp[1]] \notin Mismatched
               /\ FirstOfID(servers[region[c]], resp[1])
    BY CollectAccepts, Zenon
<1>3. /\ inbox'[c] = inbox[c] \ {resp}
      /\ \A d \in Calls \ {c} : inbox'[d] = inbox[d] /\ collected'[d] = collected[d]
    BY <1>2, Zenon DEF QuorumInv, TimeInv, TypeOK
<1>4. CallInv(c)
    BY Zenon DEF QuorumInv
<1>5. CASE collected' = collected
  <2>1. Placed(c)' /\ AnswersOnce(c)'
      BY <1>1, <1>3, <1>4, <1>5 DEF CallInv, Placed, AnswersOnce
  <2>2. AcceptedFirst(c)' /\ QuorumReached(c)'
      BY <1>1, <1>4, <1>5, Zenon DEF CallInv, AcceptedFirst, QuorumReached
  <2> QED
      BY <1>1, <1>3, <2>1, <2>2, CallKept, Zenon DEF CallInv, QuorumInv
<1>6. CASE /\ collected' = [collected EXCEPT ![c] = Append(collected[c], resp)]
           /\ servers[region[c]][resp[1]] \notin Mismatched
           /\ FirstOfID(servers[region[c]], resp[1])
  <2> DEFINE n == Len(collected[c])
  <2>1. /\ n \in Nat
        /\ Len(collected'[c]) = n + 1
        /\ \A k \in 1..n : collected'[c][k] = collected[c][k]
        /\ collected'[c][n + 1] = resp
    <3>1. collected[c] \in Seq(Responses) /\ resp \in Responses /\ n \in Nat
        BY QuorumTypes, Zenon DEF QuorumInv
    <3>2. collected'[c] = Append(collected[c], resp)
        BY <1>6, Zenon DEF QuorumInv, TimeInv, TypeOK
    <3> QED
        BY <3>1, <3>2, AppendProperties
  <2>2. \A k \in 1..(n + 1) : k \in 1..n \/ k = n + 1
      BY <2>1
  <2>3. Placed(c)'
      BY <1>1, <1>3, <1>4, <2>1, <2>2, Zenon DEF CallInv, Placed
  <2>4. AnswersOnce(c)'
    <3>1. /\ resp[1] \notin asked[c]
          /\ \A p \in inbox[c] : p # resp => p[1] # resp[1]
          /\ \A k \in 1..n : collected[c][k][1] # resp[1]
        BY <1>4, Zenon DEF CallInv, AnswersOnce
    <3>2. \A k, l \in 1..(n + 1) : collected'[c][k][1] = collected'[c][l][1] => k = l
      <4>1. \A k, l \in 1..n : collected[c][k][1] = collected[c][l][1] => k = l
          BY <1>4, Zenon DEF CallInv, AnswersOnce
      <4>2. \A k \in 1..n : collected'[c][k][1] # collected'[c][n + 1][1]
          BY <2>1, <3>1, Zenon
      <4>3. \A k, l \in 1..n : collected'[c][k][1] = collected'[c][l][1] => k = l
          BY <2>1, <4>1, Zenon
      <4> QED
          BY <2>2, <4>2, <4>3, Zenon
    <3>3. ASSUME NEW k \in 1..(n + 1)
          PROVE  /\ collected'[c][k][1] \notin asked[c]
                 /\ \A p \in inbox'[c] : collected'[c][k][1] # p[1]
      <4>1. CASE k \in 1..n
        <5>1. collected'[c][k] = collected[c][k]
            BY <2>1, <4>1, Zenon
        <5>2. /\ collected[c][k][1] \notin asked[c]
              /\ \A p \in inbox[c] : collected[c][k][1] # p[1]
            BY <1>4, <4>1, Zenon DEF CallInv, AnswersOnce
        <5> QED
            BY <1>3, <5>1, <5>2, Zenon
      <4>2. CASE k = n + 1
        <5>1. collected'[c][k] = resp
            BY <2>1, <4>2, Zenon
        <5> QED
            BY <1>3, <3>1, <5>1, Zenon
      <4> QED
          BY <2>2, <4>1, <4>2, Zenon
    <3> QED
        BY <1>1, <1>3, <1>4, <2>1, <3>2, <3>3, Zenon DEF CallInv, AnswersOnce
  <2>5. AcceptedFirst(c)'
    <3>1. ASSUME NEW k \in 1..(n + 1)
          PROVE  /\ servers[region[c]][collected'[c][k][1]] \notin Mismatched
                 /\ FirstOfID(servers[region[c]], collected'[c][k][1])
        BY <1>4, <1>6, <2>1, <2>2, Zenon DEF CallInv, AcceptedFirst
    <3>2. \A r, p : FirstOfID(r, p) => FirstOfID(r, p)'
        BY <1>1, Zenon DEF FirstOfID
    <3> QED
        BY <1>1, <2>1, <3>1, <3>2, Zenon DEF AcceptedFirst
  <2>6. QuorumReached(c)'
      BY <1>1, Zenon DEF QuorumReached
  <2> QED
      BY <1>1, <1>3, <2>3, <2>4, <2>5, <2>6, CallKept, Zenon DEF CallInv, QuorumInv
<1> QED
    BY <1>2, <1>5, <1>6, Zenon

LEMMA QuorumInvStep == QuorumInv /\ [Next]_vars => QuorumInv'
<1> SUFFICES ASSUME QuorumInv, [Next]_vars PROVE QuorumInv'
    BY Zenon
<1>1. TimeInv'
    BY TypeStep, AnswersStep, RestStep, Zenon DEF QuorumInv, TimeInv
<1>2. CASE servers' = servers
  <2>1. HomeServers'
      BY <1>2, Zenon DEF QuorumInv, HomeServers
  <2>2. CASE UNCHANGED callVars
    <3>1. UNCHANGED <<pc, region, asked, inbox, collected>>
        BY <2>2, Zenon DEF callVars
    <3>2. \A c \in Calls : CallInv(c)'
        BY <1>2, <3>1, CallKept, Zenon DEF QuorumInv
    <3> QED
        BY <1>1, <2>1, <3>2, Zenon DEF QuorumInv
  <2>3. CASE ~UNCHANGED callVars
    <3>1. \/ \E c \in Calls, r \in Regions : GetVerifiedTimestamp(c, r)
          \/ \E c \in Calls, i \in Positions : Respond(c, i)
          \/ \E c \in Calls : CheckHealth(c) \/ Collect(c) \/ Timeout(c) \/ Cancel(c) \/ Finish(c)
        BY <2>3, Zenon DEF Next, vars, Start, Stop, CheckerExits, Tick, AddServer
    <3>2. \A c \in Calls : CallInv(c)'
        BY <3>1, BeginCallStep, RespondStep, CheckHealthStep, CollectStep, EndStep, Zenon
    <3> QED
        BY <1>1, <2>1, <3>2, Zenon DEF QuorumInv
  <2> QED
      BY <2>2, <2>3, Zenon
<1>3. CASE servers' # servers
  <2>1. PICK s \in Servers : AddServer(s)
      BY <1>3, Zenon DEF Next, vars, netVars, Start, Stop, CheckerExits, Tick, GetVerifiedTimestamp,
                  CheckHealth, Respond, Collect, Timeout, Cancel, Finish
  <2> QED
      BY <1>1, <2>1, AddServerStep, Zenon DEF QuorumInv
<1> QED
    BY <1>2, <1>3, Zenon

-----------------------------------------------------------------------------
\* In a list without repetitions, positions that are first of the same ID are equal.
LEMMA FirstPositions ==
  ASSUME NEW list, Len(list) \in Nat, NEW p \in 1..Len(list), NEW q \in 1..Len(list),
         \A i, j \in 1..Len(list) : list[i] = list[j] => i = j,
         FirstOfID(list, p), FirstOfID(list, q), IDOf[list[p]] = IDOf[list[q]]
  PROVE  p = q
<1>1. ASSUME NEW x \in 1..Len(list), FirstOfID(list, x)
      PROVE  \A j \in 1..(x - 1) : IDOf[list[j]] # IDOf[list[x]]
  <2>1. PICK i \in 1..Len(list) :
           /\ list[i] = list[x]
           /\ \A j \in 1..(i - 1) : IDOf[list[j]] # IDOf[list[x]]
      BY <1>1, Zenon DEF FirstOfID
  <2>2. i = x
      BY <2>1, Zenon
  <2> QED
      BY <2>1, <2>2, Zenon
<1>2. ~(p < q) /\ ~(q < p)
  <2>1. p < q => p \in 1..(q - 1)
      OBVIOUS
  <2>2. q < p => q \in 1..(p - 1)
      OBVIOUS
  <2> QED
      BY <1>1, <2>1, <2>2, Zenon
<1> QED
    BY <1>2

\* A bijection counts the values of a function with different values.
LEMMA ValuesCounted ==
  ASSUME NEW n \in Nat, NEW f, f = [k \in 1..n |-> f[k]], \A k, l \in 1..n : f[k] = f[l] => k = l
  PROVE  Cardinality({f[k] : k \in 1..n}) = n
<1> DEFINE V == {f[k] : k \in 1..n}
<1>1. f \in [1..n -> V]
    BY Zenon
<1>2. f \in Injection(1..n, V)
    BY <1>1, Zenon DEF Injection, IsInjective
<1>3. \A v \in V : \E k \in 1..n : f[k] = v
    BY Zenon
<1> HIDE DEF V
<1>4. f \in Surjection(1..n, V)
    BY <1>1, <1>3, Zenon DEF Surjection
<1>5. ExistsBijection(1..n, V)
    BY <1>2, <1>4, Zenon DEF ExistsBijection, Bijection
<1>6. Cardinality(V) = n
    BY <1>5, FS_CountingElements, Zenon
<1> QED
    BY <1>6, Zenon DEF V

\* Distinct positions that are first of their ID have distinct IDs, unless a
\* server is on the list twice.
LEMMA QuorumImplied ==
  ASSUME QuorumInv PROVE QuorumOfServers
<1> SUFFICES ASSUME NEW c \in Calls, pc[c] = "returned",
                    \A i, j \in DOMAIN servers[region[c]] :
                        servers[region[c]][i] = servers[region[c]][j] => i = j
             PROVE  LET signers == {servers[region[c]][collected[c][i][1]] : i \in DOMAIN collected[c]}
                    IN  /\ Cardinality({IDOf[s] : s \in signers}) = QuorumSize
                        /\ signers \cap Mismatched = {}
    BY Zenon DEF QuorumOfServers
<1> DEFINE list == servers[region[c]]
<1> DEFINE at(k) == collected[c][k][1]
<1> DEFINE signers == {list[at(k)] : k \in DOMAIN collected[c]}
<1> DEFINE f == [k \in 1..QuorumSize |-> IDOf[list[at(k)]]]
<1>1. /\ DOMAIN list = 1..Len(list) /\ Len(list) \in Nat
      /\ DOMAIN collected[c] = 1..QuorumSize /\ Len(collected[c]) = QuorumSize
      /\ QuorumSize \in Nat
    BY QuorumTypes, LenProperties, TimeNetworkAssumption, Zenon
       DEF QuorumInv, CallInv, QuorumReached
<1>2. \A i, j \in 1..Len(list) : list[i] = list[j] => i = j
    BY <1>1, Zenon
<1>3. \A k \in 1..QuorumSize : at(k) \in 1..Len(list)
    BY <1>1, Zenon DEF QuorumInv, CallInv, Placed
<1>4. \A k \in 1..QuorumSize : list[at(k)] \notin Mismatched /\ FirstOfID(list, at(k))
    BY <1>1, Zenon DEF QuorumInv, CallInv, AcceptedFirst
<1>5. \A k, l \in 1..QuorumSize : at(k) = at(l) => k = l
    BY <1>1, Zenon DEF QuorumInv, CallInv, AnswersOnce
<1>6. {IDOf[s] : s \in signers} = {f[k] : k \in 1..QuorumSize}
  <2>1. signers = {list[at(k)] : k \in 1..QuorumSize}
      BY <1>1, Zenon
  <2>2. \A k \in 1..QuorumSize : f[k] = IDOf[list[at(k)]]
      BY Zenon
  <2> HIDE DEF f, at, list, signers
  <2> QED
      BY <2>1, <2>2
<1>7. f = [k \in 1..QuorumSize |-> f[k]]
    BY Zenon
<1>8. \A k \in 1..QuorumSize : f[k] = IDOf[list[at(k)]]
    BY Zenon
<1>9. signers \cap Mismatched = {}
    BY <1>1, <1>4
<1> HIDE DEF list, at, f, signers
<1>10. ASSUME NEW k \in 1..QuorumSize, NEW l \in 1..QuorumSize, f[k] = f[l]
       PROVE  k = l
  <2>1. IDOf[list[at(k)]] = IDOf[list[at(l)]]
      BY <1>8, <1>10, Zenon
  <2>2. at(k) = at(l)
      BY <1>1, <1>2, <1>3, <1>4, <2>1, FirstPositions, Zenon
  <2> QED
      BY <1>5, <2>2, Zenon
<1>11. Cardinality({f[k] : k \in 1..QuorumSize}) = QuorumSize
    BY <1>1, <1>7, <1>10, ValuesCounted
<1> QED
    BY <1>6, <1>9, <1>11, Zenon DEF signers, list, at

\* A verified time is signed by QuorumSize healthy servers with different IDs,
\* whatever servers share an ID, whenever they are added and however answers are
\* delayed: AddServer only appends, findServer returns the first of an ID, and
\* GetVerifiedTimestamp asks each server once.
THEOREM TimeQuorum == Spec => []QuorumOfServers
<1>1. QuorumInv => QuorumOfServers
    BY QuorumImplied, Zenon
<1> QED
    BY <1>1, QuorumInvInit, QuorumInvStep, PTL DEF Spec

-----------------------------------------------------------------------------
(* The coordinator's state *)

Views == [SKeys -> SValues \cup {Unset}]

\* The loop over the operations; c = <<operations, deletions, base>>.
ApplyStep(c, f, op) == IF (op.value = Unset) \in c[2] THEN [f EXCEPT ![op.key] = op.value] ELSE f

Acts(c, i, k) == c[1][i].key = k /\ (c[1][i].value = Unset) \in c[2]

\* Of the first n operations i is the last one that counts for k.
LastOp(c, n, i, k) == Acts(c, i, k) /\ \A j \in 1..n : j > i => ~Acts(c, j, k)

AppliedSoFar(c, n, f) ==
    /\ f \in Views
    /\ \A k \in SKeys : \/ f[k] = c[3][k] /\ \A i \in 1..n : ~Acts(c, i, k)
                        \/ \E i \in 1..n : LastOp(c, n, i, k) /\ f[k] = c[1][i].value

ApplyLoop == INSTANCE FoldTheory WITH Op <- ApplyStep, Inv <- AppliedSoFar

LEMMA LeastA == ApplyLoop!LeastExists
  BY LeastNumber, Zenon DEF ApplyLoop!LeastExists

LEMMA ApplyIsFold ==
    \A s, deletions, from : ApplyOps(s, deletions, from) = ApplyLoop!Folded(<<s, deletions, from>>, from, s)
  BY DEF ApplyOps, ApplyStep, FoldLeft, MapThenFoldSet, Max, ApplyLoop!Folded, ApplyLoop!Results,
         ApplyLoop!After, ApplyLoop!Top

LEMMA ApplyStepOK ==
    ASSUME NEW c, NEW n \in Nat, n # 0, NEW f, AppliedSoFar(c, n - 1, f), c[1][n] \in Op
    PROVE  AppliedSoFar(c, n, ApplyStep(c, f, c[1][n]))
<1> DEFINE op == c[1][n]
           g == ApplyStep(c, f, op)
           v == op.value
           h == op.key
<1>0. 1..n = (1..(n - 1)) \cup {n} /\ \A i \in 1..(n - 1) : n > i /\ i \in Nat /\ ~(n > n)
  OBVIOUS
<1>1. h \in SKeys /\ v \in SValues \cup {Unset} /\ f \in Views
  BY Zenon DEF Op, AppliedSoFar
<1>2. CASE (v = Unset) \in c[2]
  <2>1. g = [f EXCEPT ![h] = v]
    BY <1>2, Zenon DEF ApplyStep
  <2>2. g \in Views /\ g[h] = v /\ \A k \in SKeys : k # h => g[k] = f[k]
    BY <1>1, <2>1, Zenon DEF Views
  <2>3. \A k \in SKeys : Acts(c, n, k) <=> k = h
    BY <1>2, Zenon DEF Acts
  <2>4. LastOp(c, n, n, h)
    BY <1>0, <1>1, <2>3 DEF LastOp
  <2>5. ASSUME NEW k \in SKeys, k # h
        PROVE  \/ g[k] = c[3][k] /\ \A i \in 1..n : ~Acts(c, i, k)
               \/ \E i \in 1..n : LastOp(c, n, i, k) /\ g[k] = c[1][i].value
    <3>1. ~Acts(c, n, k) /\ g[k] = f[k]
      BY <2>2, <2>3, <2>5, Zenon
    <3>2. \A i \in 1..(n - 1) : LastOp(c, n - 1, i, k) => LastOp(c, n, i, k)
      BY <1>0, <3>1, Zenon DEF LastOp
    <3>3. \/ f[k] = c[3][k] /\ \A i \in 1..(n - 1) : ~Acts(c, i, k)
          \/ \E i \in 1..(n - 1) : LastOp(c, n - 1, i, k) /\ f[k] = c[1][i].value
      BY Zenon DEF AppliedSoFar
    <3> HIDE DEF g
    <3> QED BY <1>0, <3>1, <3>2, <3>3, Zenon
  <2>6. n \in 1..n
    OBVIOUS
  <2>7. \A k \in SKeys : \/ g[k] = c[3][k] /\ \A i \in 1..n : ~Acts(c, i, k)
                         \/ \E i \in 1..n : LastOp(c, n, i, k) /\ g[k] = c[1][i].value
    <3> HIDE DEF g, h
    <3> QED BY <2>2, <2>4, <2>5, <2>6, Zenon
  <2> QED BY <2>2, <2>7, Zenon DEF AppliedSoFar
<1>3. CASE (v = Unset) \notin c[2]
  <2>1. g = f
    BY <1>3, Zenon DEF ApplyStep
  <2>2. \A k \in SKeys : ~Acts(c, n, k)
    BY <1>3, Zenon DEF Acts
  <2>3. \A k \in SKeys : \A i \in 1..(n - 1) : LastOp(c, n - 1, i, k) => LastOp(c, n, i, k)
    BY <1>0, <2>2, Zenon DEF LastOp
  <2>4. \A k \in SKeys : \/ f[k] = c[3][k] /\ \A i \in 1..n : ~Acts(c, i, k)
                         \/ \E i \in 1..n : LastOp(c, n, i, k) /\ f[k] = c[1][i].value
    BY <1>0, <2>2, <2>3, Zenon DEF AppliedSoFar
  <2> QED BY <1>1, <2>1, <2>4 DEF AppliedSoFar
<1> QED BY <1>2, <1>3, Zenon

LEMMA ApplyRight ==
    ASSUME NEW s \in Seq(Op), NEW deletions, NEW from \in Views
    PROVE  AppliedSoFar(<<s, deletions, from>>, Len(s), ApplyOps(s, deletions, from))
<1>0. Len(s) \in Nat /\ DOMAIN s = 1..Len(s) /\ \A i \in 1..Len(s) : s[i] \in Op /\ i \in Nat /\ i # 0
  OBVIOUS
<1>1. PICK c : c = <<s, deletions, from>>
  BY Zenon
<1>2. c[1] = s /\ c[3] = from
  BY <1>1, Zenon
<1>3. PICK n \in Nat : n = Len(s)
  BY <1>0, Zenon
<1>4. AppliedSoFar(c, 0, from)
  BY <1>2 DEF AppliedSoFar
<1>5. \A i \in 1..n : \A a : AppliedSoFar(c, i - 1, a) => AppliedSoFar(c, i, ApplyStep(c, a, s[i]))
  BY <1>0, <1>2, <1>3, ApplyStepOK, Zenon
<1>6. AppliedSoFar(c, n, ApplyLoop!Folded(c, from, s))
  BY <1>0, <1>3, <1>4, <1>5, LeastA, ApplyLoop!LoopInvariant, Zenon
<1> QED BY <1>1, <1>3, <1>6, ApplyIsFold, Zenon

LEMMA DatabaseView == Database \in Views
  BY Zenon DEF Database, Views

LEMMA MaxIs == ASSUME NEW S, S \subseteq Nat, NEW i \in S, \A j \in S : j <= i PROVE Max(S) = i
<1>1. \A x, y \in S : x <= y /\ y <= x => x = y
  OBVIOUS
<1>2. \A j \in S : i >= j
  BY Zenon
<1>3. Max(S) \in S /\ \A j \in S : Max(S) >= j
  BY <1>2, Zenon DEF Max
<1>4. Max(S) >= i /\ i >= Max(S)
  BY <1>2, <1>3, Zenon
<1>5. Max(S) \in Nat /\ i \in Nat
  BY <1>3, Zenon
<1> QED BY <1>4, <1>5

\* What a commit of the operations leaves of a key.
Outcome(s, kind, k) ==
    LET own == {i \in DOMAIN s : s[i].key = k}
    IN  IF own = {} \/ (kind = "changes" /\ \E i \in own : s[i].value = Unset)
        THEN Unset ELSE s[Max(own)].value

LEMMA BatchRight ==
    ASSUME NEW s \in Seq(Op), NEW k \in SKeys, NEW kind, kind # "changes"
    PROVE  AppliedInOrder(s)[k] = Outcome(s, kind, k)
<1> DEFINE own == {i \in DOMAIN s : s[i].key = k}
           f == AppliedInOrder(s)
<1>0. Len(s) \in Nat /\ DOMAIN s = 1..Len(s)
  OBVIOUS
<1> DEFINE c == <<s, BOOLEAN, Database>>
<1>1. c[1] = s /\ c[2] = BOOLEAN /\ c[3] = Database
  BY Zenon
<1> HIDE DEF c
<1>2. AppliedSoFar(c, Len(s), f)
  BY ApplyRight, DatabaseView, Zenon DEF AppliedInOrder, c
<1>3. \A i \in 1..Len(s) : Acts(c, i, k) <=> i \in own
  BY <1>0, <1>1, Zenon DEF Acts
<1> HIDE DEF f
<1>4. CASE \A i \in 1..Len(s) : ~Acts(c, i, k)
  <2>1. own = {}
    BY <1>0, <1>3, <1>4, Zenon
  <2>2. f[k] = Database[k]
    BY <1>1, <1>2, <1>4, Zenon DEF AppliedSoFar, LastOp
  <2> QED BY <2>1, <2>2, Zenon DEF Outcome, Database, f
<1>5. CASE ~\A i \in 1..Len(s) : ~Acts(c, i, k)
  <2>1. PICK i \in 1..Len(s) : LastOp(c, Len(s), i, k) /\ f[k] = s[i].value
    BY <1>1, <1>2, <1>5, Zenon DEF AppliedSoFar
  <2>2. i \in own /\ own \subseteq Nat /\ \A j \in own : j <= i
    <3>1. i \in own
      BY <1>3, <2>1, Zenon DEF LastOp
    <3>2. ASSUME NEW j \in own PROVE j <= i
      <4>1. j \in 1..Len(s) /\ ~(j > i)
        BY <1>0, <1>3, <2>1, Zenon DEF LastOp
      <4> QED BY <1>0, <4>1
    <3> QED BY <1>0, <3>1, <3>2
  <2> HIDE DEF own
  <2>3. Max(own) = i
    BY <2>2, MaxIs, Zenon
  <2> QED BY <2>1, <2>2, <2>3, Zenon DEF Outcome, f, own
<1> QED BY <1>4, <1>5, Zenon

LEMMA ChangesRight ==
    ASSUME NEW s \in Seq(Op), NEW k \in SKeys
    PROVE  UpdatesThenDeletions(s)[k] = Outcome(s, "changes", k)
<1> DEFINE own == {i \in DOMAIN s : s[i].key = k}
           g == ApplyOps(s, {FALSE}, Database)
           f == ApplyOps(s, {TRUE}, g)
<1>0. Len(s) \in Nat /\ DOMAIN s = 1..Len(s)
  OBVIOUS
<1> DEFINE c == <<s, {FALSE}, Database>>
           d == <<s, {TRUE}, g>>
<1>1. c[1] = s /\ c[2] = {FALSE} /\ c[3] = Database
  BY Zenon
<1>2. d[1] = s /\ d[2] = {TRUE} /\ d[3] = g
  BY Zenon
<1> HIDE DEF c, d
<1>3. AppliedSoFar(c, Len(s), g)
  BY ApplyRight, DatabaseView, Zenon DEF c
<1>4. g \in Views
  BY <1>3, Zenon DEF AppliedSoFar
<1>5. AppliedSoFar(d, Len(s), f)
  <2> HIDE DEF g
  <2> QED BY <1>4, ApplyRight, Zenon DEF d
<1>6. UpdatesThenDeletions(s) = f
  BY Zenon DEF UpdatesThenDeletions
<1> HIDE DEF f, g
<1>7. \A i \in 1..Len(s) : Acts(c, i, k) <=> i \in own /\ s[i].value # Unset
  BY <1>0, <1>1, Zenon DEF Acts
<1>8. \A i \in 1..Len(s) : Acts(d, i, k) <=> i \in own /\ s[i].value = Unset
  BY <1>0, <1>2, Zenon DEF Acts
<1>9. CASE \E i \in own : s[i].value = Unset
  <2>1. ~\A i \in 1..Len(s) : ~Acts(d, i, k)
    BY <1>0, <1>8, <1>9, Zenon
  <2>2. PICK i \in 1..Len(s) : LastOp(d, Len(s), i, k) /\ f[k] = s[i].value
    BY <1>2, <1>5, <2>1, Zenon DEF AppliedSoFar
  <2>3. f[k] = Unset
    BY <1>8, <2>2, Zenon DEF LastOp
  <2> QED BY <1>6, <1>9, <2>3, Zenon DEF Outcome
<1>10. CASE ~\E i \in own : s[i].value = Unset
  <2>1. \A i \in 1..Len(s) : ~Acts(d, i, k)
    BY <1>0, <1>8, <1>10, Zenon
  <2>2. f[k] = g[k]
    BY <1>2, <1>5, <2>1, Zenon DEF AppliedSoFar, LastOp
  <2>3. \A i \in 1..Len(s) : Acts(c, i, k) <=> i \in own
    BY <1>7, <1>10, Zenon
  <2>4. CASE own = {}
    <3>1. \A i \in 1..Len(s) : ~Acts(c, i, k)
      BY <2>3, <2>4, Zenon
    <3>2. g[k] = Database[k]
      BY <1>1, <1>3, <3>1, Zenon DEF AppliedSoFar, LastOp
    <3> QED BY <1>6, <2>2, <2>4, <3>2, Zenon DEF Outcome, Database
  <2>5. CASE own # {}
    <3>1. ~\A i \in 1..Len(s) : ~Acts(c, i, k)
      BY <1>0, <2>3, <2>5, Zenon
    <3>2. PICK i \in 1..Len(s) : LastOp(c, Len(s), i, k) /\ g[k] = s[i].value
      BY <1>1, <1>3, <3>1, Zenon DEF AppliedSoFar
    <3>3. i \in own
      BY <2>3, <3>2, Zenon DEF LastOp
    <3>4. ASSUME NEW j \in own PROVE j <= i
      <4>1. j \in 1..Len(s) /\ ~(j > i)
        BY <1>0, <2>3, <3>2, Zenon DEF LastOp
      <4> QED BY <1>0, <4>1
    <3>5. own \subseteq Nat
      BY <1>0
    <3>6. own # {} /\ ~(\E j \in own : s[j].value = Unset) /\ UpdatesThenDeletions(s)[k] = s[i].value
      BY <1>6, <1>10, <2>2, <2>5, <3>2, Zenon
    <3> HIDE DEF own
    <3>7. Max(own) = i
      BY <3>3, <3>4, <3>5, MaxIs, Zenon
    <3> QED BY <3>6, <3>7, Zenon DEF Outcome, own
  <2> QED BY <2>4, <2>5, Zenon
<1> QED BY <1>9, <1>10, Zenon

-----------------------------------------------------------------------------
ReaderShape(rd) ==
    rd = [pc |-> rd.pc, range |-> rd.range, root |-> rd.root, proof |-> rd.proof, keys |-> rd.keys, value |-> rd.value]
ProofShape(p) == p = [range |-> p.range, view |-> p.view, entries |-> p.entries]

\* A proof under a root: of a range with the cache key k and, unless the root was
\* left, made and listed from the root's view.
Fits(p, k, root, lft) ==
    p.range \in Ranges /\ RangeKey[p.range] = k /\ (root \notin lft => p.view = root)
Listed(p, root, lft) == root \notin lft => p.entries = root

\* A reader, when the view is vw, the roots left are lft and dur is during of it.
ReaderOK(rd, vw, lft, dur) ==
    /\ ReaderShape(rd) /\ ProofShape(rd.proof)
    /\ rd.pc = "idle" => rd.range = "none"
    /\ rd.range # "none" => rd.range \in Ranges /\ rd.root \in dur /\ (rd.root \notin lft => vw = rd.root)
    /\ rd.pc \in {"look", "prove", "list", "put", "done"} => rd.range # "none"
    /\ rd.pc \in {"list", "put", "done"} => Fits(rd.proof, RangeKey[rd.range], rd.root, lft)
    /\ rd.pc \in {"put", "done"} => Listed(rd.proof, rd.root, lft)
    /\ rd.pc = "verified" => rd.value = rd.proof.view[Head(rd.keys)]

EntriesOK(ch, lft) ==
    \A x \in DOMAIN ch :
        ProofShape(ch[x]) /\ Fits(ch[x], x[2], x[1], lft) /\ Listed(ch[x], x[1], lft)

RootsOf(ch) == {x[1] : x \in DOMAIN ch}
Bounded(ch) == IsFiniteSet(RootsOf(ch)) /\ Cardinality(RootsOf(ch)) <= MaxRoots

CommitOK ==
    /\ applied.ops \in Seq(Op)
    /\ \A k \in SKeys : view[k] = Outcome(applied.ops, applied.kind, k)
    /\ accessed = [reads |-> accessed.reads, writes |-> accessed.writes]
    /\ \A k \in SKeys : view[k] # Unset => k \in accessed.writes

ReadersOK ==
    /\ DOMAIN reader = Readers /\ DOMAIN during = Readers
    /\ reader = [c \in Readers |-> reader[c]] /\ during = [c \in Readers |-> during[c]]
    /\ \A c \in Readers : ReaderOK(reader[c], view, left, during[c])

CoordInv == ReadersOK /\ EntriesOK(cached, left) /\ Bounded(cached) /\ CommitOK

LEMMA NewShape ==
    ASSUME NEW a, NEW b, NEW c, NEW d, NEW e, NEW f
    PROVE  ReaderShape([pc |-> a, range |-> b, root |-> c, proof |-> d, keys |-> e, value |-> f])
  BY Zenon DEF ReaderShape

LEMMA NewProof == ASSUME NEW a, NEW b, NEW c PROVE ProofShape([range |-> a, view |-> b, entries |-> c])
  BY Zenon DEF ProofShape

LEMMA NoProofShape == ProofShape(NoProof)
  BY NewProof, Zenon DEF NoProof

Reader(at, range, root, proof, keys, value) ==
    [pc |-> at, range |-> range, root |-> root, proof |-> proof, keys |-> keys, value |-> value]

LEMMA FieldsOf ==
    ASSUME NEW a, NEW b, NEW c, NEW d, NEW e, NEW f, NEW rd, rd = Reader(a, b, c, d, e, f)
    PROVE  /\ ReaderShape(rd) /\ rd.pc = a /\ rd.range = b /\ rd.root = c /\ rd.proof = d /\ rd.keys = e /\ rd.value = f
  BY NewShape, Zenon DEF Reader

LEMMA Set_pc ==
    ASSUME NEW a, NEW b, NEW c, NEW d, NEW e, NEW f, NEW rd, rd = Reader(a, b, c, d, e, f), NEW x
    PROVE  [rd EXCEPT !.pc = x] = Reader(x, b, c, d, e, f)
  BY DEF Reader

LEMMA Both_pc_proof ==
    ASSUME NEW rd, NEW x, NEW y, NEW one, [rd EXCEPT !.pc = x] = one
    PROVE  [rd EXCEPT !.pc = x, !.proof = y] = [one EXCEPT !.proof = y]
  BY Zenon

LEMMA Both_pc_value ==
    ASSUME NEW rd, NEW x, NEW y, NEW one, [rd EXCEPT !.pc = x] = one
    PROVE  [rd EXCEPT !.pc = x, !.value = y] = [one EXCEPT !.value = y]
  BY Zenon

LEMMA Both_pc_keys ==
    ASSUME NEW rd, NEW x, NEW y, NEW one, [rd EXCEPT !.pc = x] = one
    PROVE  [rd EXCEPT !.pc = x, !.keys = y] = [one EXCEPT !.keys = y]
  BY Zenon

LEMMA AllThree ==
    ASSUME NEW rd, NEW x, NEW y, NEW z, NEW one, [rd EXCEPT !.pc = x] = one,
           NEW two, [one EXCEPT !.range = y] = two
    PROVE  [rd EXCEPT !.pc = x, !.range = y, !.root = z] = [two EXCEPT !.root = z]
  BY Zenon

LEMMA ProofSet ==
    ASSUME NEW a, NEW b, NEW c, NEW p, p = [range |-> a, view |-> b, entries |-> c], NEW x
    PROVE  /\ [p EXCEPT !.range = x] = [range |-> x, view |-> b, entries |-> c]
           /\ [p EXCEPT !.view = x] = [range |-> a, view |-> x, entries |-> c]
           /\ [p EXCEPT !.entries = x] = [range |-> a, view |-> b, entries |-> x]
  OBVIOUS

LEMMA IdleReader == NotReading = Reader("idle", "none", Database, NoProof, <<>>, Unset)
  BY Zenon DEF NotReading, Reader

LEMMA Moved ==
    ASSUME NEW rd, ReaderShape(rd), NEW at
    PROVE  [rd EXCEPT !.pc = at] = Reader(at, rd.range, rd.root, rd.proof, rd.keys, rd.value)
<1>1. rd = Reader(rd.pc, rd.range, rd.root, rd.proof, rd.keys, rd.value)
  BY Zenon DEF ReaderShape, Reader
<1> QED BY <1>1, Set_pc

LEMMA Moved_proof ==
    ASSUME NEW rd, ReaderShape(rd), NEW at, NEW p
    PROVE  [rd EXCEPT !.pc = at, !.proof = p] = Reader(at, rd.range, rd.root, p, rd.keys, rd.value)
<1>1. [Reader(at, rd.range, rd.root, rd.proof, rd.keys, rd.value) EXCEPT !.proof = p]
        = Reader(at, rd.range, rd.root, p, rd.keys, rd.value)
  BY DEF Reader
<1> QED BY <1>1, Moved, Both_pc_proof, Zenon

LEMMA Moved_value ==
    ASSUME NEW rd, ReaderShape(rd), NEW at, NEW v
    PROVE  [rd EXCEPT !.pc = at, !.value = v] = Reader(at, rd.range, rd.root, rd.proof, rd.keys, v)
<1>1. [Reader(at, rd.range, rd.root, rd.proof, rd.keys, rd.value) EXCEPT !.value = v]
        = Reader(at, rd.range, rd.root, rd.proof, rd.keys, v)
  BY DEF Reader
<1> QED BY <1>1, Moved, Both_pc_value, Zenon

LEMMA Began ==
    ASSUME NEW at, NEW ks, NEW r, NEW v
    PROVE  /\ [NotReading EXCEPT !.pc = at] = Reader(at, "none", Database, NoProof, <<>>, Unset)
           /\ [NotReading EXCEPT !.pc = at, !.keys = ks] = Reader(at, "none", Database, NoProof, ks, Unset)
           /\ [NotReading EXCEPT !.pc = at, !.range = r, !.root = v] = Reader(at, r, v, NoProof, <<>>, Unset)
<1>1. [NotReading EXCEPT !.pc = at] = Reader(at, "none", Database, NoProof, <<>>, Unset)
  BY IdleReader, Set_pc
<1>2. [NotReading EXCEPT !.pc = at, !.keys = ks] = Reader(at, "none", Database, NoProof, ks, Unset)
  <2>1. [Reader(at, "none", Database, NoProof, <<>>, Unset) EXCEPT !.keys = ks]
          = Reader(at, "none", Database, NoProof, ks, Unset)
    BY DEF Reader
  <2> QED BY <1>1, <2>1, Both_pc_keys, Zenon
<1>3. [NotReading EXCEPT !.pc = at, !.range = r, !.root = v] = Reader(at, r, v, NoProof, <<>>, Unset)
  <2>1. [Reader(at, "none", Database, NoProof, <<>>, Unset) EXCEPT !.range = r]
          = Reader(at, r, Database, NoProof, <<>>, Unset)
    BY DEF Reader
  <2>2. [Reader(at, r, Database, NoProof, <<>>, Unset) EXCEPT !.root = v]
          = Reader(at, r, v, NoProof, <<>>, Unset)
    BY DEF Reader
  <2> QED BY <1>1, <2>1, <2>2, AllThree, Zenon
<1> QED BY <1>1, <1>2, <1>3, Zenon

\* A reader that starts over, is between calls or reads values.
LEMMA FreshOK ==
    ASSUME NEW at, NEW ks, at \in {"idle", "value", "refused"}, NEW vw, NEW lft, NEW dur
    PROVE  ReaderOK(Reader(at, "none", Database, NoProof, ks, Unset), vw, lft, dur)
<1> DEFINE rd == Reader(at, "none", Database, NoProof, ks, Unset)
<1>3. ReaderShape(rd) /\ rd.pc = at /\ rd.range = "none" /\ rd.proof = NoProof
  BY FieldsOf
<1> HIDE DEF rd
<1>4. ReaderOK(rd, vw, lft, dur)
  BY <1>3, NoProofShape, Zenon DEF ReaderOK
<1> QED BY <1>4, Zenon DEF rd

\* A step of one reader that leaves the view and what was left.
LEMMA OneReader ==
    ASSUME ReadersOK, NEW c \in Readers, NEW rd, NEW dur, reader' = [reader EXCEPT ![c] = rd],
           during' = [during EXCEPT ![c] = dur], UNCHANGED <<view, left>>, ReaderOK(rd, view, left, dur)
    PROVE  ReadersOK'
<1>1. DOMAIN reader' = Readers /\ DOMAIN during' = Readers /\ reader'[c] = rd /\ during'[c] = dur
  BY Zenon DEF ReadersOK
<1>2. \A d \in Readers : d # c => reader'[d] = reader[d] /\ during'[d] = during[d]
  BY Zenon DEF ReadersOK
<1>3. reader' = [d \in Readers |-> reader'[d]] /\ during' = [d \in Readers |-> during'[d]]
  BY Zenon DEF ReadersOK
<1>4. \A d \in Readers : ReaderOK(reader'[d], view, left, during'[d])
  BY <1>1, <1>2, Zenon DEF ReadersOK
<1> QED BY <1>1, <1>3, <1>4, Zenon DEF ReadersOK

LEMMA SameDuring ==
    ASSUME ReadersOK, NEW c \in Readers, NEW rd, reader' = [reader EXCEPT ![c] = rd],
           UNCHANGED <<view, left, during>>, ReaderOK(rd, view, left, during[c])
    PROVE  ReadersOK'
<1>1. during' = [during EXCEPT ![c] = during[c]]
  BY Zenon DEF ReadersOK
<1> QED BY <1>1, OneReader, Zenon

\* A reader of a range that goes on to at with the proof p.
LEMMA RangeReader ==
    ASSUME NEW rd, NEW vw, NEW lft, NEW dur, ReaderOK(rd, vw, lft, dur), rd.range # "none",
           NEW at \in {"look", "prove", "list", "put", "done"}, NEW p, ProofShape(p),
           at \in {"list", "put", "done"} => Fits(p, RangeKey[rd.range], rd.root, lft),
           at \in {"put", "done"} => Listed(p, rd.root, lft)
    PROVE  ReaderOK(Reader(at, rd.range, rd.root, p, rd.keys, rd.value), vw, lft, dur)
<1> DEFINE new == Reader(at, rd.range, rd.root, p, rd.keys, rd.value)
<1>1. ReaderShape(new) /\ new.pc = at /\ new.range = rd.range /\ new.root = rd.root /\ new.proof = p
  BY FieldsOf
<1> HIDE DEF new
<1>2. ReaderOK(new, vw, lft, dur)
  BY <1>1, Zenon DEF ReaderOK
<1> QED BY <1>2, Zenon DEF new

\* A reader of values that goes on.
LEMMA ValueReader ==
    ASSUME NEW rd, NEW vw, NEW lft, NEW dur, ReaderOK(rd, vw, lft, dur), NEW p, ProofShape(p), NEW v,
           NEW at \in {"proof", "verify"}
    PROVE  ReaderOK(Reader(at, rd.range, rd.root, p, rd.keys, v), vw, lft, dur)
<1> DEFINE new == Reader(at, rd.range, rd.root, p, rd.keys, v)
<1>1. ReaderShape(new) /\ new.pc = at /\ new.range = rd.range /\ new.root = rd.root /\ new.proof = p
  BY FieldsOf
<1> HIDE DEF new
<1>2. ReaderOK(new, vw, lft, dur)
  BY <1>1, Zenon DEF ReaderOK
<1> QED BY <1>2, Zenon DEF new

LEMMA VerifiedReader ==
    ASSUME NEW rd, NEW vw, NEW lft, NEW dur, ReaderOK(rd, vw, lft, dur), rd.value = rd.proof.view[Head(rd.keys)]
    PROVE  ReaderOK(Reader("verified", rd.range, rd.root, rd.proof, rd.keys, rd.value), vw, lft, dur)
<1> DEFINE new == Reader("verified", rd.range, rd.root, rd.proof, rd.keys, rd.value)
<1>1. /\ ReaderShape(new) /\ new.pc = "verified" /\ new.range = rd.range /\ new.root = rd.root
      /\ new.proof = rd.proof /\ new.keys = rd.keys /\ new.value = rd.value
  BY FieldsOf
<1> HIDE DEF new
<1>2. ReaderOK(new, vw, lft, dur)
  BY <1>1, Zenon DEF ReaderOK
<1> QED BY <1>2, Zenon DEF new

LEMMA AccessKept ==
    ASSUME CommitOK, UNCHANGED <<view, applied>>, NEW ks, NEW w \in BOOLEAN, trackAccess(ks, w)
    PROVE  CommitOK'
<1>1. accessed' = [reads |-> accessed'.reads, writes |-> accessed'.writes] /\ accessed.writes \subseteq accessed'.writes
  BY Zenon DEF CommitOK, trackAccess
<1> QED BY <1>1, Zenon DEF CommitOK

LEMMA StepGetRoot ==
    ASSUME CoordInv, NEW c \in Readers, NEW r \in Ranges, GetRoot(c, r)
    PROVE  CoordInv'
<1> DEFINE rd == Reader("look", r, view, NoProof, <<>>, Unset)
<1>1. reader' = [reader EXCEPT ![c] = rd]
  BY Began, Zenon DEF GetRoot
<1>2. ReaderShape(rd) /\ rd.pc = "look" /\ rd.range = r /\ rd.root = view /\ rd.proof = NoProof
  BY FieldsOf
<1> HIDE DEF rd
<1>3. ReaderOK(rd, view, left, {view})
  BY <1>2, NoProofShape, CoordAssumption, Zenon DEF ReaderOK
<1>4. ReadersOK'
  BY <1>1, <1>3, OneReader, Zenon DEF CoordInv, GetRoot, Unread
<1>5. UNCHANGED <<cached, left, view, applied, accessed>>
  BY Zenon DEF GetRoot, Unread
<1> QED BY <1>4, <1>5, Zenon DEF CoordInv, CommitOK

LEMMA StepLookUp ==
    ASSUME CoordInv, NEW c \in Readers, LookUp(c)
    PROVE  CoordInv'
<1> DEFINE rd == reader[c]
<1>1. ReaderOK(rd, view, left, during[c]) /\ rd.pc = "look"
  BY Zenon DEF CoordInv, ReadersOK, LookUp
<1>2. ReaderShape(rd) /\ ProofShape(rd.proof) /\ rd.range # "none" /\ rd.range \in Ranges
  BY <1>1, Zenon DEF ReaderOK
<1>3. UNCHANGED <<cached, left, view, applied, accessed, during>>
  BY Zenon DEF LookUp, Unread
<1>4. CASE reader' = [reader EXCEPT ![c].pc = "prove"]
  <2>1. reader' = [reader EXCEPT ![c] = [rd EXCEPT !.pc = "prove"]]
    BY <1>4, Zenon
  <2>2. reader' = [reader EXCEPT ![c] = Reader("prove", rd.range, rd.root, rd.proof, rd.keys, rd.value)]
    BY <1>2, <2>1, Moved, Zenon
  <2>3. ReaderOK(Reader("prove", rd.range, rd.root, rd.proof, rd.keys, rd.value), view, left, during[c])
    BY <1>1, <1>2, RangeReader, Zenon
  <2>4. ReadersOK'
    BY <1>3, <2>2, <2>3, SameDuring, Zenon DEF CoordInv
  <2> QED BY <1>3, <2>4, Zenon DEF CoordInv, CommitOK
<1>5. ASSUME NEW p \in CacheGet(rd.range, rd.root),
             reader' = [reader EXCEPT ![c] = [@ EXCEPT !.pc = "done", !.proof = p]]
      PROVE  CoordInv'
  <2>1. PICK x \in DOMAIN cached : x = <<rd.root, RangeKey[rd.range]>> /\ p = cached[x]
    BY <1>5, Zenon DEF CacheGet
  <2>2. x[1] = rd.root /\ x[2] = RangeKey[rd.range]
    BY <2>1, Zenon
  <2>3. ProofShape(p) /\ Fits(p, RangeKey[rd.range], rd.root, left) /\ Listed(p, rd.root, left)
    BY <2>1, <2>2, Zenon DEF CoordInv, EntriesOK
  <2>4. reader' = [reader EXCEPT ![c] = [rd EXCEPT !.pc = "done", !.proof = p]]
    BY <1>5, Zenon
  <2>5. reader' = [reader EXCEPT ![c] = Reader("done", rd.range, rd.root, p, rd.keys, rd.value)]
    BY <1>2, <2>4, Moved_proof, Zenon
  <2>6. ReaderOK(Reader("done", rd.range, rd.root, p, rd.keys, rd.value), view, left, during[c])
    BY <1>1, <1>2, <2>3, RangeReader, Zenon
  <2>7. ReadersOK'
    BY <1>3, <2>5, <2>6, SameDuring, Zenon DEF CoordInv
  <2> QED BY <1>3, <2>7, Zenon DEF CoordInv, CommitOK
<1> QED BY <1>4, <1>5, Zenon DEF LookUp

LEMMA StepProve ==
    ASSUME CoordInv, NEW c \in Readers, ProveRange(c)
    PROVE  CoordInv'
<1> DEFINE rd == reader[c]
           p == [NoProof EXCEPT !.range = reader[c].range, !.view = view]
<1>1. ReaderOK(rd, view, left, during[c]) /\ rd.pc = "prove"
  BY Zenon DEF CoordInv, ReadersOK, ProveRange
<1>2. ReaderShape(rd) /\ rd.range # "none" /\ rd.range \in Ranges /\ (rd.root \notin left => view = rd.root)
  BY <1>1, Zenon DEF ReaderOK
<1>3. UNCHANGED <<cached, left, view, applied, accessed, during>>
  BY Zenon DEF ProveRange, Unread
<1>4. p = [range |-> rd.range, view |-> view, entries |-> Database]
  <2>1. [NoProof EXCEPT !.range = rd.range] = [range |-> rd.range, view |-> Database, entries |-> Database]
    BY DEF NoProof
  <2>2. p = [[NoProof EXCEPT !.range = rd.range] EXCEPT !.view = view]
    BY Zenon
  <2> HIDE DEF rd, p
  <2> QED BY <2>1, <2>2, Zenon
<1>5. ProofShape(p) /\ p.range = rd.range /\ p.view = view
  BY <1>4, NewProof
<1>6. reader' = [reader EXCEPT ![c] = [rd EXCEPT !.pc = "list", !.proof = p]]
  BY Zenon DEF ProveRange
<1> HIDE DEF p
<1>7. reader' = [reader EXCEPT ![c] = Reader("list", rd.range, rd.root, p, rd.keys, rd.value)]
  BY <1>2, <1>6, Moved_proof, Zenon
<1>8. Fits(p, RangeKey[rd.range], rd.root, left)
  BY <1>2, <1>5, Zenon DEF Fits
<1>9. ReaderOK(Reader("list", rd.range, rd.root, p, rd.keys, rd.value), view, left, during[c])
  BY <1>1, <1>2, <1>5, <1>8, RangeReader, Zenon
<1>10. ReadersOK'
  BY <1>3, <1>7, <1>9, SameDuring, Zenon DEF CoordInv
<1> QED BY <1>3, <1>10, Zenon DEF CoordInv, CommitOK

LEMMA StepList ==
    ASSUME CoordInv, NEW c \in Readers, ListEntries(c)
    PROVE  CoordInv'
<1> DEFINE rd == reader[c]
           p == [reader[c].proof EXCEPT !.entries = view]
<1>1. ReaderOK(rd, view, left, during[c]) /\ rd.pc = "list"
  BY Zenon DEF CoordInv, ReadersOK, ListEntries
<1>2. /\ ReaderShape(rd) /\ rd.range # "none" /\ rd.range \in Ranges /\ (rd.root \notin left => view = rd.root)
      /\ ProofShape(rd.proof) /\ Fits(rd.proof, RangeKey[rd.range], rd.root, left)
  BY <1>1, Zenon DEF ReaderOK
<1>3. UNCHANGED <<cached, left, view, applied, accessed, during>>
  BY Zenon DEF ListEntries, Unread
<1>4. p = [range |-> rd.proof.range, view |-> rd.proof.view, entries |-> view]
  BY <1>2, ProofSet DEF ProofShape
<1>5. ProofShape(p) /\ p.range = rd.proof.range /\ p.view = rd.proof.view /\ p.entries = view
  BY <1>4, NewProof
<1>6. reader' = [reader EXCEPT ![c] = [rd EXCEPT !.pc = "put", !.proof = p]]
  BY Zenon DEF ListEntries
<1> HIDE DEF p
<1>7. reader' = [reader EXCEPT ![c] = Reader("put", rd.range, rd.root, p, rd.keys, rd.value)]
  BY <1>2, <1>6, Moved_proof, Zenon
<1>8. Fits(p, RangeKey[rd.range], rd.root, left) /\ Listed(p, rd.root, left)
  BY <1>2, <1>5, Zenon DEF Fits, Listed
<1>9. ReaderOK(Reader("put", rd.range, rd.root, p, rd.keys, rd.value), view, left, during[c])
  BY <1>1, <1>2, <1>5, <1>8, RangeReader, Zenon
<1>10. ReadersOK'
  BY <1>3, <1>7, <1>9, SameDuring, Zenon DEF CoordInv
<1> QED BY <1>3, <1>10, Zenon DEF CoordInv, CommitOK

\* Putting a proof under its root and key, and evicting a root, leave the
\* entries right and the roots within the bound.
LEMMA PutRight ==
    ASSUME EntriesOK(cached, left), Bounded(cached), NEW p, NEW root, ProofShape(p), p.range \in Ranges,
           Fits(p, RangeKey[p.range], root, left), Listed(p, root, left), NEW new \in CachePut(p, root)
    PROVE  EntriesOK(new, left) /\ Bounded(new)
<1> DEFINE key == <<root, RangeKey[p.range]>>
           ch == [x \in DOMAIN cached \cup {key} |-> IF x = key THEN p ELSE cached[x]]
<1>1. key[1] = root /\ key[2] = RangeKey[p.range]
  BY Zenon
<1>2. RootsOf(ch) = RootsOf(cached) \cup {root}
  BY <1>1, Zenon DEF RootsOf
<1>3. EntriesOK(ch, left)
  <2> HIDE DEF key
  <2> QED BY <1>1, Zenon DEF EntriesOK
<1>4. IsFiniteSet(RootsOf(ch)) /\ Cardinality(RootsOf(ch)) \in Nat /\ Cardinality(RootsOf(ch)) <= MaxRoots + 1
  <2>1. /\ IsFiniteSet(RootsOf(cached) \cup {root})
        /\ Cardinality(RootsOf(cached) \cup {root}) = Cardinality(RootsOf(cached))
             \/ Cardinality(RootsOf(cached) \cup {root}) = Cardinality(RootsOf(cached)) + 1
    BY FS_AddElement, Zenon DEF Bounded
  <2>2. Cardinality(RootsOf(cached)) \in Nat /\ Cardinality(RootsOf(cached)) <= MaxRoots /\ MaxRoots \in Nat
    BY FS_CardinalityType, CoordAssumption, Zenon DEF Bounded
  <2> HIDE DEF ch
  <2> QED BY <1>2, <2>1, <2>2
<1>5. CASE Cardinality(RootsOf(ch)) > MaxRoots
  <2>1. new \in evictLeastUsed(ch)
    BY <1>5, Zenon DEF CachePut, RootsOf
  <2> HIDE DEF ch
  <2>2. PICK gone \in RootsOf(ch) : new = [x \in {y \in DOMAIN ch : y[1] # gone} |-> ch[x]]
    BY <2>1, Zenon DEF evictLeastUsed, RootsOf
  <2>3. DOMAIN new = {y \in DOMAIN ch : y[1] # gone} /\ \A x \in DOMAIN new : new[x] = ch[x]
    BY <2>2, Zenon
  <2>4. EntriesOK(new, left)
    BY <1>3, <2>3, Zenon DEF EntriesOK
  <2>5. RootsOf(new) = RootsOf(ch) \ {gone}
    BY <2>3, Zenon DEF RootsOf
  <2>6. IsFiniteSet(RootsOf(ch) \ {gone}) /\ Cardinality(RootsOf(ch) \ {gone}) = Cardinality(RootsOf(ch)) - 1
    BY <1>4, <2>2, FS_RemoveElement, Zenon
  <2>7. Cardinality(RootsOf(ch)) - 1 <= MaxRoots
    BY <1>4, CoordAssumption
  <2> QED BY <2>4, <2>5, <2>6, <2>7, Zenon DEF Bounded
<1>6. CASE ~(Cardinality(RootsOf(ch)) > MaxRoots)
  <2>1. new = ch
    BY <1>6, Zenon DEF CachePut, RootsOf
  <2> HIDE DEF ch
  <2>2. Cardinality(RootsOf(ch)) <= MaxRoots
    BY <1>4, <1>6, CoordAssumption
  <2> QED BY <1>3, <1>4, <2>1, <2>2, Zenon DEF Bounded
<1> QED BY <1>5, <1>6, Zenon

LEMMA StepPut ==
    ASSUME CoordInv, NEW c \in Readers, PutProof(c)
    PROVE  CoordInv'
<1> DEFINE rd == reader[c]
<1>1. ReaderOK(rd, view, left, during[c]) /\ rd.pc = "put"
  BY Zenon DEF CoordInv, ReadersOK, PutProof
<1>2. /\ ReaderShape(rd) /\ rd.range # "none" /\ rd.range \in Ranges
      /\ ProofShape(rd.proof) /\ Fits(rd.proof, RangeKey[rd.range], rd.root, left) /\ Listed(rd.proof, rd.root, left)
  BY <1>1, Zenon DEF ReaderOK
<1>3. UNCHANGED <<left, view, applied, accessed, during>>
  BY Zenon DEF PutProof, Unread
<1>4. reader' = [reader EXCEPT ![c] = [rd EXCEPT !.pc = "done"]]
  BY Zenon DEF PutProof
<1>5. reader' = [reader EXCEPT ![c] = Reader("done", rd.range, rd.root, rd.proof, rd.keys, rd.value)]
  BY <1>2, <1>4, Moved, Zenon
<1>6. ReaderOK(Reader("done", rd.range, rd.root, rd.proof, rd.keys, rd.value), view, left, during[c])
  BY <1>1, <1>2, RangeReader, Zenon
<1>7. ReadersOK'
  BY <1>3, <1>5, <1>6, SameDuring, Zenon DEF CoordInv
<1>8. rd.proof.range \in Ranges /\ Fits(rd.proof, RangeKey[rd.proof.range], rd.root, left)
  BY <1>2, Zenon DEF Fits
<1>9. EntriesOK(cached', left) /\ Bounded(cached')
  BY <1>2, <1>8, PutRight, Zenon DEF PutProof, CoordInv
<1>10. EntriesOK(cached, left)' /\ Bounded(cached)'
  BY <1>3, <1>9, Zenon DEF EntriesOK, Bounded, RootsOf
<1> QED BY <1>3, <1>7, <1>10, Zenon DEF CoordInv, CommitOK

LEMMA StepReturn ==
    ASSUME CoordInv, NEW c \in Readers, ReturnProof(c)
    PROVE  CoordInv'
<1>1. reader' = [reader EXCEPT ![c] = Reader("idle", "none", Database, NoProof, <<>>, Unset)]
  BY IdleReader, Zenon DEF ReturnProof
<1>2. ReaderOK(Reader("idle", "none", Database, NoProof, <<>>, Unset), view, left, {})
  BY FreshOK
<1>3. ReadersOK'
  BY <1>1, <1>2, OneReader, Zenon DEF CoordInv, ReturnProof, Unread
<1> QED BY <1>3, Zenon DEF CoordInv, CommitOK, ReturnProof, Unread

LEMMA StepBeginRead ==
    ASSUME CoordInv, NEW c \in Readers, NEW ks, BeginRead(c, ks), CommitOK'
    PROVE  CoordInv'
<1>1. reader' = [reader EXCEPT ![c] = Reader("value", "none", Database, NoProof, ks, Unset)]
  BY Began, Zenon DEF BeginRead
<1>2. ReaderOK(Reader("value", "none", Database, NoProof, ks, Unset), view, left, {view})
  BY FreshOK
<1>3. ReadersOK'
  BY <1>1, <1>2, OneReader, Zenon DEF CoordInv, BeginRead, Unread
<1> QED BY <1>3, Zenon DEF CoordInv, BeginRead, Unread

LEMMA StepReadValue ==
    ASSUME CoordInv, NEW c \in Readers, ReadValue(c)
    PROVE  CoordInv'
<1> DEFINE rd == reader[c]
           v == view[Head(reader[c].keys)]
<1>1. ReaderOK(rd, view, left, during[c])
  BY Zenon DEF CoordInv, ReadersOK
<1>2. ReaderShape(rd) /\ ProofShape(rd.proof)
  BY <1>1, Zenon DEF ReaderOK
<1>3. UNCHANGED <<cached, left, view, applied, accessed, during>>
  BY Zenon DEF ReadValue, Unread
<1>4. reader' = [reader EXCEPT ![c] = [rd EXCEPT !.pc = "proof", !.value = v]]
  BY Zenon DEF ReadValue
<1> HIDE DEF v
<1>5. reader' = [reader EXCEPT ![c] = Reader("proof", rd.range, rd.root, rd.proof, rd.keys, v)]
  <2>1. [rd EXCEPT !.pc = "proof", !.value = v] = Reader("proof", rd.range, rd.root, rd.proof, rd.keys, v)
    BY <1>2, Moved_value, Zenon
  <2> QED BY <1>4, <2>1, Zenon
<1>6. ReaderOK(Reader("proof", rd.range, rd.root, rd.proof, rd.keys, v), view, left, during[c])
  BY <1>1, <1>2, ValueReader, Zenon
<1>7. ReadersOK'
  BY <1>3, <1>5, <1>6, SameDuring, Zenon DEF CoordInv
<1> QED BY <1>3, <1>7, Zenon DEF CoordInv, CommitOK

LEMMA StepReadProof ==
    ASSUME CoordInv, NEW c \in Readers, ReadProof(c)
    PROVE  CoordInv'
<1> DEFINE rd == reader[c]
           p == [reader[c].proof EXCEPT !.view = view]
<1>1. ReaderOK(rd, view, left, during[c])
  BY Zenon DEF CoordInv, ReadersOK
<1>2. ReaderShape(rd) /\ ProofShape(rd.proof)
  BY <1>1, Zenon DEF ReaderOK
<1>3. UNCHANGED <<cached, left, view, applied, accessed, during>>
  BY Zenon DEF ReadProof, Unread
<1>4. p = [range |-> rd.proof.range, view |-> view, entries |-> rd.proof.entries]
  BY <1>2, ProofSet DEF ProofShape
<1>5. ProofShape(p)
  BY <1>4, NewProof
<1>6. reader' = [reader EXCEPT ![c] = [rd EXCEPT !.pc = "verify", !.proof = p]]
  BY Zenon DEF ReadProof
<1> HIDE DEF p
<1>7. reader' = [reader EXCEPT ![c] = Reader("verify", rd.range, rd.root, p, rd.keys, rd.value)]
  BY <1>2, <1>6, Moved_proof, Zenon
<1>8. ReaderOK(Reader("verify", rd.range, rd.root, p, rd.keys, rd.value), view, left, during[c])
  BY <1>1, <1>5, ValueReader, Zenon
<1>9. ReadersOK'
  BY <1>3, <1>7, <1>8, SameDuring, Zenon DEF CoordInv
<1> QED BY <1>3, <1>9, Zenon DEF CoordInv, CommitOK

LEMMA StepVerify ==
    ASSUME CoordInv, NEW c \in Readers, Verify(c)
    PROVE  CoordInv'
<1> DEFINE rd == reader[c]
<1>1. ReaderOK(rd, view, left, during[c])
  BY Zenon DEF CoordInv, ReadersOK
<1>2. ReaderShape(rd)
  BY <1>1, Zenon DEF ReaderOK
<1>3. UNCHANGED <<cached, left, view, applied, accessed, during>>
  BY Zenon DEF Verify, Unread
<1>4. CASE VerifyProof(c) /\ reader' = [reader EXCEPT ![c].pc = "verified"]
  <2>1. reader' = [reader EXCEPT ![c] = [rd EXCEPT !.pc = "verified"]]
    BY <1>4, Zenon
  <2>2. reader' = [reader EXCEPT ![c] = Reader("verified", rd.range, rd.root, rd.proof, rd.keys, rd.value)]
    BY <1>2, <2>1, Moved, Zenon
  <2>3. rd.value = rd.proof.view[Head(rd.keys)]
    BY <1>4, Zenon DEF VerifyProof
  <2>4. ReaderOK(Reader("verified", rd.range, rd.root, rd.proof, rd.keys, rd.value), view, left, during[c])
    BY <1>1, <2>3, VerifiedReader, Zenon
  <2>5. ReadersOK'
    BY <1>3, <2>2, <2>4, SameDuring, Zenon DEF CoordInv
  <2> QED BY <1>3, <2>5, Zenon DEF CoordInv, CommitOK
<1>5. CASE reader' = [reader EXCEPT ![c] = [NotReading EXCEPT !.pc = "refused"]]
  <2>1. reader' = [reader EXCEPT ![c] = Reader("refused", "none", Database, NoProof, <<>>, Unset)]
    BY <1>5, Began, Zenon
  <2>2. ReaderOK(Reader("refused", "none", Database, NoProof, <<>>, Unset), view, left, during[c])
    BY FreshOK
  <2>3. ReadersOK'
    BY <1>3, <2>1, <2>2, SameDuring, Zenon DEF CoordInv
  <2> QED BY <1>3, <2>3, Zenon DEF CoordInv, CommitOK
<1> QED BY <1>4, <1>5, Zenon DEF Verify

LEMMA StepNextKey ==
    ASSUME CoordInv, NEW c \in Readers, NextKey(c)
    PROVE  CoordInv'
<1> DEFINE ks == Tail(reader[c].keys)
<1>1. UNCHANGED <<cached, left, view, applied, accessed, during>>
  BY Zenon DEF NextKey, Unread
<1>2. reader' = [reader EXCEPT ![c] = Reader("value", "none", Database, NoProof, ks, Unset)]
  BY Began, Zenon DEF NextKey
<1>3. ReaderOK(Reader("value", "none", Database, NoProof, ks, Unset), view, left, during[c])
  BY FreshOK
<1>4. ReadersOK'
  BY <1>1, <1>2, <1>3, SameDuring, Zenon DEF CoordInv
<1> QED BY <1>1, <1>4, Zenon DEF CoordInv, CommitOK

\* A commit: a root in use that the view leaves is one of those left.
LEMMA CommitReaders ==
    ASSUME ReadersOK, NEW new, Commit(new)
    PROVE  ReadersOK'
<1>1. DOMAIN reader' = Readers /\ DOMAIN during' = Readers
      /\ reader' = [c \in Readers |-> reader'[c]] /\ during' = [c \in Readers |-> during'[c]]
  BY Zenon DEF ReadersOK, Commit
<1>2. ASSUME NEW c \in Readers PROVE ReaderOK(reader'[c], view', left', during'[c])
  <2> DEFINE rd == reader[c]
  <2>1. reader'[c] = rd /\ ReaderOK(rd, view, left, during[c]) /\ left \subseteq left'
    BY Zenon DEF ReadersOK, Commit
  <2>2. ASSUME rd.range # "none" PROVE rd.root \in during'[c] /\ (rd.root \notin left' => view' = rd.root)
    <3>1. rd.pc # "idle" /\ rd.root \in during[c] /\ (rd.root \notin left => view = rd.root)
      BY <2>1, <2>2, Zenon DEF ReaderOK
    <3>2. rd.root \in during'[c]
      BY <3>1, Zenon DEF Commit
    <3>3. ASSUME rd.root \notin left' PROVE view' = rd.root
      <4>1. view = rd.root
        BY <2>1, <3>1, <3>3, Zenon
      <4> QED BY <2>2, <3>3, <4>1, Zenon DEF Commit
    <3> QED BY <3>2, <3>3, Zenon
  <2>3. \A p, k : Fits(p, k, rd.root, left) => Fits(p, k, rd.root, left')
    BY <2>1, Zenon DEF Fits
  <2>4. \A p : Listed(p, rd.root, left) => Listed(p, rd.root, left')
    BY <2>1, Zenon DEF Listed
  <2> HIDE DEF rd
  <2> QED BY <2>1, <2>2, <2>3, <2>4, Zenon DEF ReaderOK
<1> QED BY <1>1, <1>2, Zenon DEF ReadersOK

LEMMA CommitCache ==
    ASSUME NEW new, Commit(new)
    PROVE  EntriesOK(cached, left)' /\ Bounded(cached)'
<1>1. DOMAIN cached' = {}
  BY Zenon DEF Commit
<1>2. RootsOf(cached') = {}
  BY <1>1, Zenon DEF RootsOf
<1>3. Cardinality({}) = 0 /\ IsFiniteSet({})
  BY FS_EmptySet, Zenon
<1>4. 0 <= MaxRoots
  BY CoordAssumption
<1> QED BY <1>1, <1>2, <1>3, <1>4, Zenon DEF EntriesOK, Bounded

\* What a commit gives a value it names and so records.
LEMMA OutcomeNamed ==
    ASSUME NEW s, NEW kind, NEW k, Outcome(s, kind, k) # Unset
    PROVE  k \in KeysOfOps(s)
  BY Zenon DEF Outcome, KeysOfOps

LEMMA CommitRecorded ==
    ASSUME CommitOK, NEW s \in OpLists, NEW new, NEW kind, trackAccess(KeysOfOps(s), TRUE), Commit(new),
           applied' = [kind |-> kind, ops |-> s], \A k \in SKeys : new[k] = Outcome(s, kind, k)
    PROVE  CommitOK'
<1>1. s \in Seq(Op) /\ applied'.ops = s /\ applied'.kind = kind /\ view' = new
  BY CoordAssumption, Zenon DEF Commit
<1>2. accessed' = [reads |-> accessed'.reads, writes |-> accessed'.writes] /\ KeysOfOps(s) \subseteq accessed'.writes
  BY Zenon DEF CommitOK, trackAccess
<1>3. \A k \in SKeys : view'[k] # Unset => k \in accessed'.writes
  BY <1>1, <1>2, OutcomeNamed, Zenon
<1> QED BY <1>1, <1>2, <1>3, Zenon DEF CommitOK

LEMMA CoordStep ==
    ASSUME CoordInv, CoordNext
    PROVE  CoordInv'
<1>1. ASSUME NEW c \in Readers, RangeStep(c) PROVE CoordInv'
  BY <1>1, StepGetRoot, StepLookUp, StepProve, StepList, StepPut, StepReturn, Zenon DEF RangeStep
<1>2. ASSUME NEW c \in Readers, ValueStep(c) PROVE CoordInv'
  <2>1. ASSUME NEW k \in SKeys, GetValue(c, k) PROVE CoordInv'
    <3>1. CommitOK'
      BY <2>1, AccessKept, Zenon DEF GetValue, BeginRead, Unread, CoordInv
    <3> QED BY <2>1, <3>1, StepBeginRead, Zenon DEF GetValue
  <2>2. ASSUME SyncState(c, SetToSeq(SKeys)) PROVE CoordInv'
    <3>1. CommitOK'
      BY <2>2, Zenon DEF SyncState, BeginRead, Unread, CoordInv, CommitOK
    <3> QED BY <2>2, <3>1, StepBeginRead, Zenon DEF SyncState
  <2> QED BY <1>2, <2>1, <2>2, StepReadValue, StepReadProof, StepVerify, StepNextKey, StepReturn, Zenon
             DEF ValueStep
<1>3. ASSUME NEW s \in OpLists, CommitChanges(s) PROVE CoordInv'
  <2>1. \A k \in SKeys : UpdatesThenDeletions(s)[k] = Outcome(s, "changes", k)
    BY ChangesRight, CoordAssumption, Zenon
  <2>2. CommitOK'
    BY <1>3, <2>1, CommitRecorded, Zenon DEF CommitChanges, CoordInv
  <2>3. ReadersOK' /\ EntriesOK(cached, left)' /\ Bounded(cached)'
    BY <1>3, CommitReaders, CommitCache, Zenon DEF CommitChanges, CoordInv
  <2> QED BY <2>2, <2>3, Zenon DEF CoordInv
<1>4. ASSUME NEW s \in OpLists, CommitBatch(s) PROVE CoordInv'
  <2>1. \A k \in SKeys : AppliedInOrder(s)[k] = Outcome(s, "batch", k)
    BY BatchRight, CoordAssumption, Zenon
  <2>2. CommitOK'
    BY <1>4, <2>1, CommitRecorded, Zenon DEF CommitBatch, CoordInv
  <2>3. ReadersOK' /\ EntriesOK(cached, left)' /\ Bounded(cached)'
    BY <1>4, CommitReaders, CommitCache, Zenon DEF CommitBatch, CoordInv
  <2> QED BY <2>2, <2>3, Zenon DEF CoordInv
<1>5. ASSUME NEW s \in OpLists, CommitFails(s) PROVE CoordInv'
  <2>1. CommitOK'
    BY <1>5, AccessKept, Zenon DEF CommitFails, CoordInv
  <2> QED BY <1>5, <2>1, Zenon DEF CommitFails, CoordInv, ReadersOK, EntriesOK, Bounded, RootsOf
<1> QED BY <1>1, <1>2, <1>3, <1>4, <1>5, Zenon DEF CoordNext

LEMMA CoordFirst == CoordInit => CoordInv
<1> SUFFICES ASSUME CoordInit PROVE CoordInv
  BY Zenon
<1>1. ReadersOK
  <2>1. \A c \in Readers : reader[c] = Reader("idle", "none", Database, NoProof, <<>>, Unset)
    BY IdleReader, Zenon DEF CoordInit
  <2>2. \A c \in Readers : ReaderOK(reader[c], view, left, during[c])
    BY <2>1, FreshOK
  <2> QED BY <2>2, Zenon DEF CoordInit, ReadersOK
<1>2. EntriesOK(cached, left) /\ Bounded(cached)
  <2>1. DOMAIN cached = {}
    BY Zenon DEF CoordInit
  <2>2. RootsOf(cached) = {}
    BY <2>1, Zenon DEF RootsOf
  <2>3. Cardinality({}) = 0 /\ IsFiniteSet({})
    BY FS_EmptySet, Zenon
  <2>4. 0 <= MaxRoots
    BY CoordAssumption
  <2> QED BY <2>1, <2>2, <2>3, <2>4, Zenon DEF EntriesOK, Bounded
<1>3. CommitOK
  <2>1. applied.ops = <<>> /\ view = Database
    BY Zenon DEF CoordInit
  <2>2. \A k \in SKeys : view[k] = Unset
    BY <2>1, Zenon DEF Database
  <2>3. \A k \in SKeys : Outcome(applied.ops, applied.kind, k) = Unset
    BY <2>1 DEF Outcome
  <2>4. applied.ops \in Seq(Op)
    BY <2>1
  <2>5. accessed = [reads |-> accessed.reads, writes |-> accessed.writes]
    BY Zenon DEF CoordInit
  <2> QED BY <2>2, <2>3, <2>4, <2>5, Zenon DEF CommitOK
<1> QED BY <1>1, <1>2, <1>3, Zenon DEF CoordInv

LEMMA CoordInvGives == CoordInv => ReadsProved
<1> SUFFICES ASSUME CoordInv PROVE ReadsProved
  BY Zenon
<1>1. ProofCurrent
  <2> SUFFICES ASSUME NEW c \in Readers, reader[c].pc = "done"
               PROVE  /\ reader[c].root \notin left => {reader[c].proof.view, reader[c].proof.entries} \subseteq during[c]
                      /\ (\A r \in Ranges : RangeKey[r] = RangeKey[reader[c].range] => r = reader[c].range)
                            => reader[c].proof.range = reader[c].range
    BY Zenon DEF ProofCurrent
  <2>1. ReaderOK(reader[c], view, left, during[c])
    BY Zenon DEF CoordInv, ReadersOK
  <2>2. /\ reader[c].root \in during[c]
        /\ Fits(reader[c].proof, RangeKey[reader[c].range], reader[c].root, left)
        /\ Listed(reader[c].proof, reader[c].root, left)
    BY <2>1, Zenon DEF ReaderOK
  <2> QED BY <2>2, Zenon DEF Fits, Listed
<1>2. CacheBounded
  BY Zenon DEF CacheBounded, Roots, CoordInv, Bounded, RootsOf
<1>3. ValueProved
  BY Zenon DEF ValueProved, CoordInv, ReadersOK, ReaderOK
<1>4. ViewOfLastCommit
  BY Zenon DEF ViewOfLastCommit, LastOutcome, CoordInv, CommitOK, Outcome
<1>5. WritesRecorded
  BY Zenon DEF WritesRecorded, CoordInv, CommitOK
<1> QED BY <1>1, <1>2, <1>3, <1>4, <1>5, Zenon DEF ReadsProved

\* However commits interleave with the steps of GetStateWithProof and of the
\* verifications, for any keys, ranges, readers and number of cached roots: what
\* is read is proved, and the view is what the last commit made of its operations.
THEOREM ReadsAlwaysProved == CoordSpec => []ReadsProved
<1>1. CoordInv /\ [CoordNext]_coordVars => CoordInv'
  <2>1. CoordInv /\ UNCHANGED coordVars => CoordInv'
    BY Zenon DEF coordVars, CoordInv, ReadersOK, EntriesOK, Bounded, RootsOf, CommitOK
  <2> QED BY <2>1, CoordStep, Zenon
<1> QED BY <1>1, CoordFirst, CoordInvGives, PTL DEF CoordSpec
=============================================================================
