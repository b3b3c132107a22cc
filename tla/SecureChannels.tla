--------------------------- MODULE SecureChannels ---------------------------
(***************************************************************************)
(* Messages between workers: GetSecureChannel over the storage the         *)
(* coordinator has (coordination/coordinator.go, storage_wrapper.go),      *)
(* sending and receiving on a channel (channel.go), a worker's inbox,      *)
(* message loop and replies (worker.go), and the coordinator's checks of   *)
(* attestations.                                                           *)
(*                                                                         *)
(* The channels are those of one pair of workers.  A key is the number of  *)
(* the call of EstablishSecure that made it; encrypt and decrypt are the   *)
(* identity in the code, so that a message is just its sender.             *)
(***************************************************************************)
EXTENDS Integers, FiniteSets, Sequences

CONSTANTS
    Callers,     \* goroutines that ask for the channel
    MaxKeys,     \* bound: channels established
    Cap,         \* the capacity of a channel's queue and of an inbox: 100
    Msgs,        \* the messages to the worker, 1..n, in the order they are sent
    Peer,        \* Peer[m] is the sender of message m
    Wants,       \* Wants[m]: "reply" (sync and data), "none", or "other" (misdirected)
    MaxLoops,    \* bound: calls of Start
    Claims,      \* inputs of the attestation checks
    Window       \* config.AttestationTimeout

ASSUME SecAssumption ==
    /\ Cap \in Nat /\ MaxKeys \in Nat
    /\ \A x \in Claims : x = [pairs |-> x.pairs, now |-> x.now, atts |-> x.atts]

Peers == {Peer[m] : m \in Msgs}

VARIABLES
    savedKey,    \* the key of the saved channel, 0 if there is none
    keys,        \* how many keys were generated
    caller,      \* by caller: where it is, the channel's key, queue and done
    got,         \* history: the senders of what each caller received
    late,        \* history: no creation was under way when the call began
    status, assigned, tally,     \* Worker.Status, RegionID # "", task counts
    doneCh,      \* Worker.doneCh is closed
    inbox,       \* Worker.msgCh
    loop,        \* by call of Start: the goroutine of processMessages
    lockHolder,      \* who holds Worker.mu: a loop, or 0
    replies,     \* by peer: the length of the queue of Worker.Channels[peer]
    stopAsked,   \* calls of Stop waiting for the lock
    crashed,     \* closing doneCh twice panicked
    answered,    \* history: by peer, the replies that Send accepted
    handled,     \* history: the messages the loops are done with
    reassigned,  \* history: assigned to a region since Stop
    claim        \* an input of the attestation checks

chanVars == <<savedKey, keys, caller, got, late>>
workVars == <<status, assigned, tally, doneCh, inbox, loop, lockHolder, replies, stopAsked, crashed, answered, handled, reassigned>>
secVars == <<chanVars, workVars, claim>>

NoChannel == [pc |-> "idle", key |-> 0, queue |-> <<>>, done |-> FALSE]

SecInit ==
    /\ savedKey = 0 /\ keys = 0
    /\ caller = [c \in Callers |-> NoChannel]
    /\ got = [c \in Callers |-> {}] /\ late = [c \in Callers |-> FALSE]
    /\ status = "idle" /\ assigned = FALSE /\ tally = [tasks |-> 0, successes |-> 0]
    /\ doneCh = FALSE /\ inbox = <<>> /\ loop = <<>> /\ lockHolder = 0
    /\ replies = [p \in Peers |-> 0] /\ answered = [p \in Peers |-> 0]
    /\ stopAsked = 0 /\ crashed = FALSE /\ handled = {} /\ reassigned = FALSE
    /\ claim \in Claims

-----------------------------------------------------------------------------
(* Channels *)

NewSecureChannel(key) == [NoChannel EXCEPT !.pc = "have", !.key = key]

Creating == {c \in Callers : caller[c].pc \in {"create", "save"}}

\* Mutant: no channel is found.
LoadsNothing(c) == NoChannel

\* LoadChannel decodes a new channel, whose queue is its own.
Loads(c) == IF savedKey = 0 THEN NoChannel ELSE NewSecureChannel(savedKey)

\* GetSecureChannel loads a channel,
LoadChannel(c) ==
    /\ caller[c].pc = "idle"
    /\ caller' = [caller EXCEPT ![c] = IF Loads(c) = NoChannel THEN [NoChannel EXCEPT !.pc = "create"] ELSE Loads(c)]
    /\ late' = [late EXCEPT ![c] = savedKey # 0 /\ Creating = {}]
    /\ UNCHANGED <<savedKey, keys, got>>

\* or makes one
EstablishSecure(c) ==
    /\ caller[c].pc = "create" /\ keys < MaxKeys
    /\ keys' = keys + 1
    /\ caller' = [caller EXCEPT ![c].pc = "save", ![c].key = keys + 1]
    /\ UNCHANGED <<savedKey, got, late>>

\* and saves it, whatever has been saved since.
SaveChannel(c) ==
    /\ caller[c].pc = "save"
    /\ savedKey' = caller[c].key
    /\ caller' = [caller EXCEPT ![c].pc = "have"]
    /\ UNCHANGED <<keys, got, late>>

SaveChannelFails(c) ==
    /\ caller[c].pc = "save"
    /\ caller' = [caller EXCEPT ![c] = NoChannel]
    /\ UNCHANGED <<savedKey, keys, got, late>>

Send(c) ==
    /\ caller[c].pc = "have" /\ Len(caller[c].queue) < Cap
    /\ caller' = [caller EXCEPT ![c].queue = Append(@, c)]
    /\ UNCHANGED <<savedKey, keys, got, late>>

Receive(c) ==
    /\ caller[c].pc = "have" /\ caller[c].queue # <<>>
    /\ got' = [got EXCEPT ![c] = @ \cup {Head(caller[c].queue)}]
    /\ caller' = [caller EXCEPT ![c].queue = Tail(@)]
    /\ UNCHANGED <<savedKey, keys, late>>

\* Send to a full queue and Receive from an empty one give up after 5 seconds:
\* nothing changes.  Close closes done, which nobody reads.
Close(c) ==
    /\ caller[c].pc = "have" /\ ~caller[c].done
    /\ caller' = [caller EXCEPT ![c].done = TRUE]
    /\ UNCHANGED <<savedKey, keys, got, late>>

\* The caller drops the channel, as SendMessage does after one Send.
Drop(c) ==
    /\ caller[c].pc = "have"
    /\ caller' = [caller EXCEPT ![c] = NoChannel]
    /\ late' = [late EXCEPT ![c] = FALSE]
    /\ UNCHANGED <<savedKey, keys, got>>

ChannelNext ==
    /\ \E c \in Callers : \/ LoadChannel(c) \/ EstablishSecure(c) \/ SaveChannel(c) \/ SaveChannelFails(c)
                          \/ Send(c) \/ Receive(c) \/ Close(c) \/ Drop(c)
    /\ UNCHANGED <<workVars, claim>>

-----------------------------------------------------------------------------
(* A worker *)

Off == UNCHANGED <<chanVars, claim>>
Unqueued == UNCHANGED <<inbox, loop, lockHolder, replies, answered, handled>>

Start ==
    /\ lockHolder = 0 /\ Len(loop) < MaxLoops
    /\ status' = "active"
    /\ loop' = Append(loop, [pc |-> "select", msg |-> 0])
    /\ UNCHANGED <<assigned, tally, doneCh, inbox, lockHolder, replies, stopAsked, crashed, answered, handled, reassigned>>

AskStop ==
    /\ stopAsked < 2 /\ stopAsked' = stopAsked + 1
    /\ UNCHANGED <<status, assigned, tally, doneCh, crashed, reassigned>> /\ Unqueued

\* Closing doneCh again panics, before the region is cleared.
Stop ==
    /\ lockHolder = 0 /\ stopAsked > 0
    /\ stopAsked' = stopAsked - 1
    /\ status' = "idle"
    /\ doneCh' = TRUE /\ crashed' = doneCh
    /\ assigned' = (assigned /\ doneCh)
    /\ reassigned' = FALSE
    /\ UNCHANGED tally /\ Unqueued

AssignToRegion ==
    /\ lockHolder = 0
    /\ assigned' = TRUE /\ status' = "active" /\ reassigned' = doneCh
    /\ UNCHANGED <<tally, doneCh, stopAsked, crashed>> /\ Unqueued

UnassignFromRegion ==
    /\ lockHolder = 0
    /\ assigned' = FALSE /\ status' = "idle" /\ reassigned' = FALSE
    /\ UNCHANGED <<tally, doneCh, stopAsked, crashed>> /\ Unqueued

WorkerUpdateMetrics(success) ==
    /\ lockHolder = 0 /\ tally.tasks < 2
    /\ tally' = [tasks |-> tally.tasks + 1, successes |-> tally.successes + (IF success THEN 1 ELSE 0)]
    /\ UNCHANGED <<status, assigned, doneCh, stopAsked, crashed, reassigned>> /\ Unqueued

\* LoadFactor, the share of failed tasks, is below 0.8.
CanAcceptTask ==
    status = "active" /\ assigned /\ (tally.tasks = 0 \/ 10 * (tally.tasks - tally.successes) < 8 * tally.tasks)

\* The messages that were sent before; each is sent once, in order.
Sent == handled \cup {inbox[i] : i \in DOMAIN inbox} \cup {loop[l].msg : l \in DOMAIN loop}

\* Of a closed doneCh and an inbox with room the select takes either.
WorkerSendMessage(m) ==
    /\ m \notin Sent /\ \A n \in Msgs : n < m => n \in Sent
    /\ Len(inbox) < Cap
    /\ inbox' = Append(inbox, m)
    /\ UNCHANGED <<status, assigned, tally, doneCh, loop, lockHolder, replies, stopAsked, crashed, answered, handled, reassigned>>

Loops(l, pc) == l \in DOMAIN loop /\ loop[l].pc = pc
Idle == [pc |-> "select", msg |-> 0]
Unheld == UNCHANGED <<status, assigned, tally, doneCh, stopAsked, crashed, reassigned>>

\* processMessages
Take(l) ==
    /\ Loops(l, "select") /\ inbox # <<>>
    /\ loop' = [loop EXCEPT ![l] = [pc |-> "lock", msg |-> Head(inbox)]]
    /\ inbox' = Tail(inbox)
    /\ UNCHANGED <<lockHolder, replies, answered, handled>> /\ Unheld

LeaveLoop(l) ==
    /\ Loops(l, "select") /\ doneCh
    /\ loop' = [loop EXCEPT ![l].pc = "left"]
    /\ UNCHANGED <<inbox, lockHolder, replies, answered, handled>> /\ Unheld

\* HandleMessage holds the worker's lock,
WorkerLock(l) ==
    /\ Loops(l, "lock") /\ lockHolder = 0
    /\ lockHolder' = l /\ loop' = [loop EXCEPT ![l].pc = "handle"]
    /\ UNCHANGED <<inbox, replies, answered, handled>> /\ Unheld

WorkerUnlock(l) ==
    /\ lockHolder' = 0 /\ handled' = handled \cup {loop[l].msg}
    /\ loop' = [loop EXCEPT ![l] = Idle]

\* refuses or acknowledges a message that needs no reply,
HandleQuiet(l) ==
    /\ Loops(l, "handle") /\ Wants[loop[l].msg] # "reply"
    /\ WorkerUnlock(l)
    /\ UNCHANGED <<inbox, replies, answered>> /\ Unheld

\* GetChannel makes a channel to a peer once and keeps it.
GetChannel(p) == replies[p]

\* and queues a reply on its channel to the sender, from which nobody receives.
HandleReply(l) ==
    LET p == Peer[loop[l].msg]
    IN  /\ Loops(l, "handle") /\ Wants[loop[l].msg] = "reply" /\ GetChannel(p) < Cap
        /\ replies' = [replies EXCEPT ![p] = GetChannel(p) + 1]
        /\ answered' = [answered EXCEPT ![p] = @ + 1]
        /\ WorkerUnlock(l)
        /\ UNCHANGED inbox /\ Unheld

\* Mutant: Send waits for room.
ReplyWaits(l) == FALSE /\ UNCHANGED workVars

\* With the queue full Send gives up after 5 seconds, and the lock with it.
ReplyTimesOut(l) ==
    /\ Loops(l, "handle") /\ Wants[loop[l].msg] = "reply" /\ GetChannel(Peer[loop[l].msg]) >= Cap
    /\ WorkerUnlock(l)
    /\ UNCHANGED <<inbox, replies, answered>> /\ Unheld

LoopStep(l) == Take(l) \/ LeaveLoop(l) \/ WorkerLock(l) \/ HandleQuiet(l) \/ HandleReply(l) \/ ReplyTimesOut(l)

WorkerNext ==
    /\ ~crashed
    /\ \/ Start \/ AskStop \/ Stop \/ AssignToRegion \/ UnassignFromRegion
       \/ \E success \in BOOLEAN : WorkerUpdateMetrics(success)
       \/ \E m \in Msgs : WorkerSendMessage(m)
       \/ \E l \in 1..MaxLoops : LoopStep(l)
    /\ Off

\* A goroutine that can go on does, and one that waits for the lock gets it.
WorkerFairness ==
    /\ \A l \in 1..MaxLoops : SF_secVars(~crashed /\ LoopStep(l) /\ Off)
    /\ SF_secVars(~crashed /\ Stop /\ Off)

-----------------------------------------------------------------------------
(* Attestations.  A claim: the pairs of the region, the two attestations and  *)
(* the time.                                                                  *)

Recent(a, now) == now - a.time <= Window /\ a.time - now <= Window

VerifyAttestation(a, now) == Recent(a, now) /\ a.signature

\* Mutant: the pair is found in either order.
ValidatesEitherOrder(x) ==
    /\ \E i \in DOMAIN x.pairs : {x.atts[1].enclave, x.atts[2].enclave} = {x.pairs[i].sgx, x.pairs[i].sev}
    /\ x.atts[1].time = x.atts[2].time
    /\ Recent(x.atts[1], x.now) /\ Recent(x.atts[2], x.now)

ValidateRegionalOperation(x) ==
    /\ \E i \in DOMAIN x.pairs : x.atts[1].enclave = x.pairs[i].sgx /\ x.atts[2].enclave = x.pairs[i].sev
    /\ x.atts[1].time = x.atts[2].time
    /\ Recent(x.atts[1], x.now) /\ Recent(x.atts[2], x.now)

SecSpec == SecInit /\ [][ChannelNext \/ WorkerNext]_secVars /\ WorkerFairness

-----------------------------------------------------------------------------
\* A caller receives only what it has sent itself: each GetSecureChannel of the
\* same pair makes a channel with a queue of its own, so that no message reaches
\* the other worker.
EchoOnly == \A c \in Callers : got[c] \subseteq {c}

\* Callers that race to make the first channel may end up with different keys, the
\* last one saved being kept; one that asks after the race holds the saved key,
\* and nobody replaces it any more.
LateCallersAgree == \A c \in Callers : late[c] /\ caller[c].pc = "have" => caller[c].key = savedKey

\* A worker replies to a peer at most as often as its queue has places, however
\* many loops and restarts there are: nobody receives from the queue.
RepliesRunOut == \A p \in Peers : answered[p] <= Cap

\* What goes over a channel that GetSecureChannel made or a worker replies on:
\* whose messages, under which key, and how many.
ChannelsLimited == EchoOnly /\ LateCallersAgree /\ RepliesRunOut

\* A stopped worker accepts tasks only once it was assigned to a region again,
\* also if it was started again and reports to be active.
StoppedNeedsRegion == doneCh /\ ~crashed /\ CanAcceptTask => reassigned

\* A message in the inbox of a worker that has a loop is handled, unless it is
\* stopped: with the reply's queue full, the loop gets past the reply.
InboxDrains ==
    \A m \in Msgs :
        (loop # <<>> /\ \E i \in DOMAIN inbox : inbox[i] = m) ~> (m \in handled \/ doneCh)

\* Stop gets the lock from the loops although they send replies while they hold it.
StopReturns == (stopAsked > 0) ~> doneCh

\* What ValidateRegionalOperation accepts names a pair of the region in the order
\* SGX, SEV, and a signed pair of attestations it accepts passes VerifyAttestation
\* at the same time, the ends of the window included; the other way round it is
\* refused unless that is a pair as well.
AcceptedInOrder ==
    ValidateRegionalOperation(claim) =>
        /\ \A i \in 1..2 : claim.atts[i].signature => VerifyAttestation(claim.atts[i], claim.now)
        /\ ValidateRegionalOperation([claim EXCEPT !.atts = <<claim.atts[2], claim.atts[1]>>])
              => \E i \in DOMAIN claim.pairs : /\ claim.pairs[i].sgx = claim.atts[2].enclave
                                               /\ claim.pairs[i].sev = claim.atts[1].enclave

\* A worker gets past its messages and its Stop, although the loops send replies
\* under the lock and nobody receives them.
WorkerEnds == InboxDrains /\ StopReturns

\* Work is let in where it belongs: by a worker that has a region, and by
\* ValidateRegionalOperation with attestations of a pair of the region.
AdmissionJustified == StoppedNeedsRegion /\ AcceptedInOrder
=============================================================================
