----------------------------- MODULE TimeNetwork ----------------------------
(***************************************************************************)
(* timeserver.TimeNetwork: servers are added to regions, the network is    *)
(* started and stopped, and concurrent calls of GetVerifiedTimestamp ask   *)
(* the servers of a region for signed times until a quorum has answered,   *)
(* the timeout fires or the caller gives up.                               *)
(*                                                                         *)
(* A TimeServer is an in-process object: GetTimestamp reads the clock of   *)
(* the process and signs (time, nonce) with the object's private key.  So  *)
(* a response is the pair of the object that signed and the time it read;  *)
(* a signature verifies exactly under the signer's own public key.  The    *)
(* servers of a region are a sequence that only grows, and a call refers   *)
(* to them by position.  A call is made once per member of Calls.          *)
(***************************************************************************)
EXTENDS Integers, Sequences, FiniteSets

CONSTANTS
    Servers,      \* TimeServer objects
    IDOf,         \* TimeServer.ID, not necessarily unique
    RegionOf,     \* TimeServer.RegionID
    Mismatched,   \* objects whose exported PublicKey is not that of privKey
    Regions,
    Calls,        \* calls of GetVerifiedTimestamp
    QuorumSize, MaxLatency,
    MaxServers,   \* bound: servers per region
    MaxTime       \* bound: the clock

ASSUME TimeNetworkAssumption ==
    /\ RegionOf \in [Servers -> Regions]
    /\ Mismatched \subseteq Servers
    /\ QuorumSize \in Nat \ {0}
    /\ MaxLatency \in Nat /\ MaxTime \in Nat /\ MaxServers \in Nat

VARIABLES
    servers,    \* tn.servers: the sequence of each region
    started,    \* tn.started
    onceUsed,   \* tn.startOnce has run
    checker,    \* the health-check goroutine is running
    doneClosed, \* tn.done is closed
    lastCall,   \* the last of Start and Stop that was called
    now,        \* the clock time.Now() reads
    pc,         \* where each call is
    region,     \* its regionID
    begin,      \* the time it was made
    deadline,   \* when its timeout fires
    asked,      \* positions whose goroutine has not read the clock yet
    inbox,      \* responses on their way to the call or in its channel
    collected,  \* responses it has accepted: <<position, time>>
    result      \* the Time, RegionID and return time of the call

netVars == <<servers, started, onceUsed, checker, doneClosed, lastCall>>
callVars == <<pc, region, begin, deadline, asked, inbox, collected, result>>
vars == <<netVars, now, callVars>>

Positions == 1..MaxServers
Responses == Positions \X (0..MaxTime)
NoResult == [time |-> -1, from |-> "none", end |-> -1]

\* The types of the network's state and of its calls; a call never collects more
\* answers than a quorum.
TypeOK ==
    /\ servers \in [Regions -> Seq(Servers)]
    /\ started \in BOOLEAN /\ onceUsed \in BOOLEAN
    /\ checker \in BOOLEAN /\ doneClosed \in BOOLEAN
    /\ lastCall \in {"none", "start", "stop"}
    /\ now \in 0..MaxTime
    /\ pc \in [Calls -> {"idle", "check", "collect", "returned", "failed"}]
    /\ region \in [Calls -> Regions \cup {"none"}]
    /\ begin \in [Calls -> 0..MaxTime]
    /\ deadline \in [Calls -> Nat]
    /\ asked \in [Calls -> SUBSET Positions]
    /\ inbox \in [Calls -> SUBSET Responses]
    /\ collected \in [Calls -> Seq(Responses)]
    /\ \A c \in Calls : Len(collected[c]) <= QuorumSize
    /\ DOMAIN result = Calls

Init ==
    /\ servers = [r \in Regions |-> <<>>]
    /\ started = FALSE /\ onceUsed = FALSE /\ checker = FALSE /\ doneClosed = FALSE
    /\ lastCall = "none"
    /\ now = 0
    /\ pc = [c \in Calls |-> "idle"]
    /\ region = [c \in Calls |-> "none"]
    /\ begin = [c \in Calls |-> 0]
    /\ deadline = [c \in Calls |-> 0]
    /\ asked = [c \in Calls |-> {}]
    /\ inbox = [c \in Calls |-> {}]
    /\ collected = [c \in Calls |-> <<>>]
    /\ result = [c \in Calls |-> NoResult]

-----------------------------------------------------------------------------
(* The network.                                                            *)

\* Appended whether or not the object, or its ID, is there already.
AddServer(s) ==
    /\ Len(servers[RegionOf[s]]) < MaxServers
    /\ servers' = [servers EXCEPT ![RegionOf[s]] = Append(@, s)]
    /\ UNCHANGED <<started, onceUsed, checker, doneClosed, lastCall, now, callVars>>

\* startOnce: only the first call has an effect.
Start ==
    /\ lastCall' = "start"
    /\ IF onceUsed THEN UNCHANGED <<started, onceUsed, checker, doneClosed>>
       ELSE started' = TRUE /\ onceUsed' = TRUE /\ checker' = TRUE /\ doneClosed' = FALSE
    /\ UNCHANGED <<servers, now, callVars>>

\* Mutant: the channel is not closed.
StopSilently ==
    /\ lastCall' = "stop"
    /\ started' = FALSE
    /\ UNCHANGED <<servers, onceUsed, checker, doneClosed, now, callVars>>

Stop ==
    /\ lastCall' = "stop"
    /\ started' = FALSE
    /\ doneClosed' = (doneClosed \/ started)
    /\ UNCHANGED <<servers, onceUsed, checker, now, callVars>>

\* case <-tn.done in the health-check goroutine, which otherwise only logs.
CheckerExits ==
    /\ checker /\ doneClosed
    /\ checker' = FALSE
    /\ UNCHANGED <<servers, started, onceUsed, doneClosed, lastCall, now, callVars>>

Tick ==
    /\ now < MaxTime
    /\ now' = now + 1
    /\ UNCHANGED <<netVars, callVars>>

-----------------------------------------------------------------------------
(* GetVerifiedTimestamp.                                                   *)

\* What findServer can return: the first server with the ID in some region,
\* the regions being visited in the random order of a Go map.
FindServer(id) ==
    {s \in Servers :
        \E r \in Regions : \E i \in DOMAIN servers[r] :
            /\ servers[r][i] = s /\ IDOf[s] = id
            /\ \A j \in 1..(i - 1) : IDOf[servers[r][j]] # id}

Return(c, how) == pc' = [pc EXCEPT ![c] = how]

\* The servers of the region are read, and counted.
GetVerifiedTimestamp(c, r) ==
    /\ pc[c] = "idle"
    /\ region' = [region EXCEPT ![c] = r]
    /\ begin' = [begin EXCEPT ![c] = now]
    /\ IF Len(servers[r]) < QuorumSize
       THEN Return(c, "failed") /\ UNCHANGED asked
       ELSE Return(c, "check") /\ asked' = [asked EXCEPT ![c] = DOMAIN servers[r]]
    /\ UNCHANGED <<netVars, now, deadline, inbox, collected, result>>

\* checkServerHealth drops the servers whose signature does not verify; the
\* rest are asked, each by its own goroutine, and the timer is started.
CheckHealth(c) ==
    /\ pc[c] = "check"
    /\ LET healthy == {i \in asked[c] : servers[region[c]][i] \notin Mismatched}
       IN  IF Cardinality(healthy) < QuorumSize
           THEN Return(c, "failed") /\ UNCHANGED <<asked, deadline>>
           ELSE /\ Return(c, "collect")
                /\ asked' = [asked EXCEPT ![c] = healthy]
                /\ deadline' = [deadline EXCEPT ![c] = now + MaxLatency]
    /\ UNCHANGED <<netVars, now, region, begin, inbox, collected, result>>

\* A goroutine reads the clock and signs.  It sends to a channel with room for
\* every answer, so it ends even if the call has returned.
Respond(c, i) ==
    /\ pc[c] \notin {"idle", "check"}
    /\ i \in asked[c]
    /\ asked' = [asked EXCEPT ![c] = @ \ {i}]
    /\ inbox' = [inbox EXCEPT ![c] = @ \cup {<<i, now>>}]
    /\ UNCHANGED <<netVars, now, pc, region, begin, deadline, collected, result>>

\* Mutant: the signature is checked under the answering server's own key.
CollectUnidentified(c) ==
    /\ pc[c] = "collect"
    /\ Len(collected[c]) < QuorumSize
    /\ \E resp \in inbox[c] :
         /\ inbox' = [inbox EXCEPT ![c] = @ \ {resp}]
         /\ collected' = [collected EXCEPT ![c] = Append(@, resp)]
    /\ UNCHANGED <<netVars, now, pc, region, begin, deadline, asked, result>>

\* Mutant: calls share the nonce and the channel.
CollectShared(c) ==
    /\ pc[c] = "collect"
    /\ Len(collected[c]) < QuorumSize
    /\ \E d \in {d \in Calls : region[d] = region[c]} : \E resp \in inbox[d] :
         /\ inbox' = [inbox EXCEPT ![d] = @ \ {resp}]
         /\ collected' = [collected EXCEPT ![c] = Append(@, resp)]
    /\ UNCHANGED <<netVars, now, pc, region, begin, deadline, asked, result>>

\* case resp := <-responses: kept if the server found under its ID verifies it.
Collect(c) ==
    /\ pc[c] = "collect"
    /\ Len(collected[c]) < QuorumSize
    /\ \E resp \in inbox[c] :
         LET signer == servers[region[c]][resp[1]]
         IN  /\ inbox' = [inbox EXCEPT ![c] = @ \ {resp}]
             /\ \E s \in FindServer(IDOf[signer]) :
                  collected' = IF s = signer /\ s \notin Mismatched
                               THEN [collected EXCEPT ![c] = Append(@, resp)]
                               ELSE collected
    /\ UNCHANGED <<netVars, now, pc, region, begin, deadline, asked, result>>

\* case <-timeout; at the bound of the clock every timer may fire.
Timeout(c) ==
    /\ pc[c] = "collect"
    /\ Len(collected[c]) < QuorumSize
    /\ now >= deadline[c] \/ now = MaxTime
    /\ Return(c, "failed")
    /\ UNCHANGED <<netVars, now, region, begin, deadline, asked, inbox, collected, result>>

\* case <-ctx.Done()
Cancel(c) ==
    /\ pc[c] = "collect"
    /\ Len(collected[c]) < QuorumSize
    /\ Return(c, "failed")
    /\ UNCHANGED <<netVars, now, region, begin, deadline, asked, inbox, collected, result>>

Times(c) == {collected[c][i][2] : i \in DOMAIN collected[c]}

\* maxTime.Sub(minTime) > tn.maxLatency
SpreadTooLarge(c) == \E t, u \in Times(c) : t - u > MaxLatency

\* The element at index len/2 of the sorted times.
IsMedian(t, c) ==
    LET half == Len(collected[c]) \div 2
    IN  /\ Cardinality({i \in DOMAIN collected[c] : collected[c][i][2] < t}) <= half
        /\ Cardinality({i \in DOMAIN collected[c] : collected[c][i][2] <= t}) > half

\* validateResponses and createVerifiedTimestamp.
Finish(c) ==
    /\ pc[c] = "collect"
    /\ Len(collected[c]) = QuorumSize
    /\ IF SpreadTooLarge(c)
       THEN Return(c, "failed") /\ UNCHANGED result
       ELSE \E t \in Times(c) :
              /\ IsMedian(t, c)
              /\ Return(c, "returned")
              /\ result' = [result EXCEPT ![c] =
                    [time |-> t, end |-> now,
                     from |-> IDOf[servers[region[c]][collected[c][1][1]]]]]
    /\ UNCHANGED <<netVars, now, region, begin, deadline, asked, inbox, collected>>

Next ==
    \/ \E s \in Servers : AddServer(s)
    \/ Start
    \/ Stop
    \/ CheckerExits
    \/ Tick
    \/ \E c \in Calls, r \in Regions : GetVerifiedTimestamp(c, r)
    \/ \E c \in Calls : CheckHealth(c)
    \/ \E c \in Calls, i \in Positions : Respond(c, i)
    \/ \E c \in Calls : Collect(c)
    \/ \E c \in Calls : Timeout(c)
    \/ \E c \in Calls : Cancel(c)
    \/ \E c \in Calls : Finish(c)

Spec == Init /\ [][Next]_vars

\* Goroutines that can run do run, and time goes on.  Nobody has to call, to
\* give up, or to add a server.
Fairness ==
    /\ WF_vars(Tick)
    /\ WF_vars(CheckerExits)
    /\ \A c \in Calls :
         /\ WF_vars(CheckHealth(c))
         /\ WF_vars(Collect(c))
         /\ WF_vars(Timeout(c))
         /\ WF_vars(Finish(c))
         /\ \A i \in Positions : WF_vars(Respond(c, i))

FairSpec == Spec /\ Fairness

-----------------------------------------------------------------------------
(* Properties.                                                             *)

\* A verified time was read while the call ran: no answer of an earlier call,
\* and none from before the nonce was drawn, is accepted, whatever arrives late
\* or out of order.  So calls made one after the other get ordered times.
TimeWithinCall ==
    \A c \in Calls : pc[c] = "returned" =>
        begin[c] <= result[c].time /\ result[c].time <= result[c].end

\* If no server was added to the region twice, the proofs of a verified time
\* come from a quorum of healthy servers with different IDs: findServer hides a
\* server behind another one of its ID, whenever and wherever that was added.
QuorumOfServers ==
    \A c \in Calls : pc[c] = "returned" =>
        LET list == servers[region[c]]
            signers == {list[collected[c][i][1]] : i \in DOMAIN collected[c]}
        IN  (\A i, j \in DOMAIN list : list[i] = list[j] => i = j) =>
                /\ Cardinality({IDOf[s] : s \in signers}) = QuorumSize
                /\ signers \cap Mismatched = {}

\* Every call comes back: with a time, or with an error once its timer fires,
\* even when answers are dropped for their ID.
CallReturns ==
    \A c \in Calls : (pc[c] # "idle") ~> (pc[c] \in {"returned", "failed"})

\* After Stop of a running network the health-check goroutine ends.
StopEndsChecker == (lastCall = "stop" /\ checker) ~> ~checker

\* What the network starts comes to an end: a GetVerifiedTimestamp by its timer,
\* the health-check goroutine by Stop.
NetworkEnds == CallReturns /\ StopEndsChecker
=============================================================================
