--------------------------- MODULE MessageProofs ----------------------------
(***************************************************************************)
(* What reaches whom: over the secure channels of workers, and over the    *)
(* websocket on which the faucet's handlers wait for the results of their  *)
(* transfers; what the processes hold and give back from their start to    *)
(* their end; what the checks of results, code and configurations compare; *)
(* and what the readers of the stores find.                                *)
(***************************************************************************)
EXTENDS SecureChannels, Faucet, Lifecycle, Validation, Stores, TLAPS

(* Secure channels *)

ChannelRec ==
    [pc : {"idle", "create", "save", "have"}, key : Nat, queue : Seq(Callers), done : BOOLEAN]

\* A channel whose queue holds only what its own caller has put there.
OwnChannel(c, ch) == ch \in ChannelRec /\ \A i \in 1..Len(ch.queue) : ch.queue[i] = c

\* Every caller has a channel of its own.
EchoInv ==
    /\ caller \in [Callers -> ChannelRec]
    /\ \A c \in Callers : OwnChannel(c, caller[c])
    /\ got \in [Callers -> SUBSET Callers]
    /\ EchoOnly

\* Once a caller has asked after the race, the race is over for good.
LateInv ==
    /\ savedKey \in Nat /\ keys \in Nat
    /\ late \in [Callers -> BOOLEAN]
    /\ \A c \in Callers : late[c] => savedKey # 0 /\ Creating = {}
    /\ LateCallersAgree

\* The queue to a peer holds every reply that was ever accepted.
ReplyInv ==
    /\ replies \in [Peers -> Nat]
    /\ answered = replies
    /\ RepliesRunOut

LEMMA ChannelAt ==
  ASSUME NEW c, NEW r, OwnChannel(c, r), NEW at_ \in {"create", "have"}
  PROVE  OwnChannel(c, [r EXCEPT !.pc = at_])
  BY Zenon DEF OwnChannel, ChannelRec

LEMMA ChannelKeyed ==
  ASSUME NEW c, NEW r, OwnChannel(c, r), NEW at_ \in {"save", "have"}, NEW k \in Nat
  PROVE  OwnChannel(c, [r EXCEPT !.pc = at_, !.key = k])
  BY Zenon DEF OwnChannel, ChannelRec

LEMMA ChannelQueued ==
  ASSUME NEW c, NEW r \in ChannelRec,
         NEW q \in Seq(Callers), \A i \in 1..Len(q) : q[i] = c
  PROVE  OwnChannel(c, [r EXCEPT !.queue = q])
  BY Zenon DEF OwnChannel, ChannelRec

LEMMA NoChannelOwn == ASSUME NEW c PROVE OwnChannel(c, NoChannel)
  BY DEF OwnChannel, ChannelRec, NoChannel

LEMMA EchoInit == SecInit => EchoInv
  <1> HAVE SecInit
  <1>1. caller = [c \in Callers |-> NoChannel] /\ got = [c \in Callers |-> {}]
    BY Zenon DEF SecInit
  <1>2. \A c \in Callers : OwnChannel(c, NoChannel)
    BY NoChannelOwn, Zenon
  <1>3. \A c \in Callers : OwnChannel(c, caller[c])
    BY <1>1, <1>2, Zenon
  <1>4. caller \in [Callers -> ChannelRec]
    BY <1>1, <1>3, Zenon DEF OwnChannel
  <1> QED
    BY <1>1, <1>3, <1>4, Zenon DEF EchoInv, EchoOnly

\* An action that gives one caller another channel of its own keeps EchoInv.
LEMMA ChannelPut ==
  ASSUME EchoInv, NEW c \in Callers, NEW ch, OwnChannel(c, ch),
         caller' = [caller EXCEPT ![c] = ch], UNCHANGED got
  PROVE  EchoInv'
  BY Zenon DEF EchoInv, EchoOnly, OwnChannel

LEMMA EchoStep == EchoInv /\ LateInv /\ [ChannelNext \/ WorkerNext]_secVars => EchoInv'
  <1> SUFFICES ASSUME EchoInv, LateInv, [ChannelNext \/ WorkerNext]_secVars
               PROVE  EchoInv'
    BY Zenon
  <1>1. CASE UNCHANGED <<caller, got>>
    BY <1>1, Zenon DEF EchoInv, EchoOnly
  <1>2. ASSUME NEW c \in Callers, LoadChannel(c)
        PROVE  EchoInv'
    <2> DEFINE ch == IF Loads(c) = NoChannel THEN [NoChannel EXCEPT !.pc = "create"] ELSE Loads(c)
    <2>1. OwnChannel(c, [NoChannel EXCEPT !.pc = "create"])
      BY NoChannelOwn, ChannelAt, Zenon
    <2>2. OwnChannel(c, NewSecureChannel(savedKey))
      BY NoChannelOwn, ChannelKeyed, Zenon DEF NewSecureChannel, LateInv
    <2>3. OwnChannel(c, ch)
      BY <2>1, <2>2, Zenon DEF Loads
    <2>4. caller' = [caller EXCEPT ![c] = ch] /\ UNCHANGED got
      BY <1>2, Zenon DEF LoadChannel
    <2> HIDE DEF ch
    <2> QED
      BY <2>3, <2>4, ChannelPut, Zenon
  <1>3. ASSUME NEW c \in Callers, EstablishSecure(c)
        PROVE  EchoInv'
    <2> DEFINE ch == [caller[c] EXCEPT !.pc = "save", !.key = keys + 1]
    <2>1. OwnChannel(c, caller[c])
      BY Zenon DEF EchoInv
    <2>2. OwnChannel(c, ch)
      <3>1. keys + 1 \in Nat
        BY DEF LateInv
      <3> QED
        BY <2>1, <3>1, ChannelKeyed, Zenon
    <2>3. caller' = [caller EXCEPT ![c] = ch] /\ UNCHANGED got
      BY <1>3, Zenon DEF EstablishSecure, EchoInv
    <2> HIDE DEF ch
    <2> QED
      BY <2>2, <2>3, ChannelPut, Zenon
  <1>4. ASSUME NEW c \in Callers, SaveChannel(c)
        PROVE  EchoInv'
    <2> DEFINE ch == [caller[c] EXCEPT !.pc = "have"]
    <2>1. OwnChannel(c, caller[c])
      BY Zenon DEF EchoInv
    <2>2. OwnChannel(c, ch)
      BY <2>1, Zenon DEF OwnChannel, ChannelRec
    <2>3. caller' = [caller EXCEPT ![c] = ch] /\ UNCHANGED got
      BY <1>4, Zenon DEF SaveChannel, EchoInv
    <2> HIDE DEF ch
    <2> QED
      BY <2>2, <2>3, ChannelPut, Zenon
  <1>5. ASSUME NEW c \in Callers, Close(c)
        PROVE  EchoInv'
    <2> DEFINE ch == [caller[c] EXCEPT !.done = TRUE]
    <2>1. OwnChannel(c, caller[c])
      BY Zenon DEF EchoInv
    <2>2. OwnChannel(c, ch)
      BY <2>1, Zenon DEF OwnChannel, ChannelRec
    <2>3. caller' = [caller EXCEPT ![c] = ch] /\ UNCHANGED got
      BY <1>5, Zenon DEF Close, EchoInv
    <2> HIDE DEF ch
    <2> QED
      BY <2>2, <2>3, ChannelPut, Zenon
  <1>6. ASSUME NEW c \in Callers, SaveChannelFails(c) \/ Drop(c)
        PROVE  EchoInv'
    <2>1. caller' = [caller EXCEPT ![c] = NoChannel] /\ UNCHANGED got
      BY <1>6, Zenon DEF SaveChannelFails, Drop
    <2> QED
      BY <2>1, NoChannelOwn, ChannelPut, Zenon
  <1>7. ASSUME NEW c \in Callers, Send(c)
        PROVE  EchoInv'
    <2> DEFINE q == caller[c].queue
               ch == [caller[c] EXCEPT !.queue = Append(@, c)]
    <2>1. OwnChannel(c, caller[c])
      BY Zenon DEF EchoInv
    <2>2. OwnChannel(c, ch)
      <3>1. caller[c] \in ChannelRec /\ q \in Seq(Callers) /\ \A i \in 1..Len(q) : q[i] = c
        BY <2>1, Zenon DEF OwnChannel, ChannelRec
      <3> HIDE DEF q
      <3>2. Append(q, c) \in Seq(Callers) /\ \A i \in 1..Len(Append(q, c)) : Append(q, c)[i] = c
        BY <3>1
      <3>3. OwnChannel(c, [caller[c] EXCEPT !.queue = Append(q, c)])
        BY <3>1, <3>2, ChannelQueued, Zenon
      <3> QED
        BY <3>3, Zenon DEF q
    <2>3. caller' = [caller EXCEPT ![c] = ch] /\ UNCHANGED got
      BY <1>7, Zenon DEF Send, EchoInv
    <2> HIDE DEF ch
    <2> QED
      BY <2>2, <2>3, ChannelPut, Zenon
  <1>8. ASSUME NEW c \in Callers, Receive(c)
        PROVE  EchoInv'
    <2> DEFINE q == caller[c].queue
               ch == [caller[c] EXCEPT !.queue = Tail(@)]
    <2>1. OwnChannel(c, caller[c]) /\ caller[c].queue # <<>>
      BY <1>8, Zenon DEF EchoInv, Receive
    <2>2. OwnChannel(c, ch) /\ Head(caller[c].queue) = c
      <3>1. /\ caller[c] \in ChannelRec /\ q \in Seq(Callers) /\ q # <<>>
            /\ \A i \in 1..Len(q) : q[i] = c
        BY <2>1, Zenon DEF OwnChannel, ChannelRec
      <3> HIDE DEF q
      <3>2. /\ Tail(q) \in Seq(Callers) /\ Head(q) = c
            /\ \A i \in 1..Len(Tail(q)) : Tail(q)[i] = c
        BY <3>1
      <3>3. OwnChannel(c, [caller[c] EXCEPT !.queue = Tail(q)])
        BY <3>1, <3>2, ChannelQueued, Zenon
      <3> QED
        BY <3>2, <3>3, Zenon DEF q
    <2>3. /\ caller' = [caller EXCEPT ![c] = ch]
          /\ got' = [got EXCEPT ![c] = @ \cup {c}]
      BY <1>8, <2>2, Zenon DEF Receive, EchoInv
    <2> HIDE DEF ch
    <2>4. got' \in [Callers -> SUBSET Callers] /\ EchoOnly'
      BY <2>3, Zenon DEF EchoInv, EchoOnly
    <2> QED
      BY <2>2, <2>3, <2>4, Zenon DEF EchoInv, OwnChannel
  <1>9. CASE ChannelNext
    BY <1>9, <1>2, <1>3, <1>4, <1>5, <1>6, <1>7, <1>8, Zenon DEF ChannelNext
  <1>10. CASE WorkerNext
    BY <1>10, <1>1, Zenon DEF WorkerNext, Off, chanVars
  <1> QED
    BY <1>1, <1>9, <1>10, Zenon DEF secVars, chanVars

LEMMA LateInit == SecInit => LateInv
  BY DEF SecInit, LateInv, LateCallersAgree

LEMMA LateStep == EchoInv /\ LateInv /\ [ChannelNext \/ WorkerNext]_secVars => LateInv'
  <1> SUFFICES ASSUME EchoInv, LateInv, [ChannelNext \/ WorkerNext]_secVars
               PROVE  LateInv'
    BY Zenon
  <1> USE DEF LateInv, LateCallersAgree, Creating
  <1>0. caller \in [Callers -> ChannelRec]
    BY Zenon DEF EchoInv
  <1>1. CASE UNCHANGED <<savedKey, keys, caller, late>>
    BY <1>1, Zenon
  <1>2. ASSUME NEW c \in Callers, LoadChannel(c)
        PROVE  LateInv'
    BY <1>0, <1>2, Zenon DEF LoadChannel, Loads, NewSecureChannel, NoChannel
  <1>3. ASSUME NEW c \in Callers, EstablishSecure(c)
        PROVE  LateInv'
    BY <1>0, <1>3 DEF EstablishSecure
  <1>4. ASSUME NEW c \in Callers, SaveChannel(c) \/ SaveChannelFails(c)
        PROVE  LateInv'
    <2>1. caller[c].pc = "save"
      BY <1>4, Zenon DEF SaveChannel, SaveChannelFails
    <2>2. \A d \in Callers : ~late[d]
      BY <2>1, Zenon
    <2>3. savedKey' \in Nat /\ UNCHANGED <<keys, late>>
      BY <1>0, <1>4, Zenon DEF SaveChannel, SaveChannelFails, ChannelRec
    <2> QED
      BY <2>2, <2>3, Zenon
  <1>5. ASSUME NEW c \in Callers, Send(c) \/ Receive(c) \/ Close(c)
        PROVE  LateInv'
    <2>1. UNCHANGED <<savedKey, keys, late>>
      BY <1>5, Zenon DEF Send, Receive, Close
    <2>2. \A d \in Callers : caller'[d].pc = caller[d].pc /\ caller'[d].key = caller[d].key
      <3>1. CASE Send(c)
        BY <1>0, <3>1, Zenon DEF Send, ChannelRec
      <3>2. CASE Receive(c)
        BY <1>0, <3>2, Zenon DEF Receive, ChannelRec
      <3>3. CASE Close(c)
        BY <1>0, <3>3, Zenon DEF Close, ChannelRec
      <3> QED
        BY <1>5, <3>1, <3>2, <3>3, Zenon
    <2> QED
      BY <2>1, <2>2, Zenon
  <1>6. ASSUME NEW c \in Callers, Drop(c)
        PROVE  LateInv'
    BY <1>0, <1>6, Zenon DEF Drop, NoChannel
  <1>7. CASE ChannelNext
    BY <1>7, <1>2, <1>3, <1>4, <1>5, <1>6, Zenon DEF ChannelNext
  <1>8. CASE WorkerNext
    BY <1>8, <1>1, Zenon DEF WorkerNext, Off, chanVars
  <1> QED
    BY <1>1, <1>7, <1>8, Zenon DEF secVars, chanVars

LEMMA ReplyInit == SecInit => ReplyInv
  BY SecAssumption DEF SecInit, ReplyInv, RepliesRunOut

LEMMA ReplyStep == ReplyInv /\ [ChannelNext \/ WorkerNext]_secVars => ReplyInv'
  <1> SUFFICES ASSUME ReplyInv, [ChannelNext \/ WorkerNext]_secVars
               PROVE  ReplyInv'
    BY Zenon
  <1>1. CASE UNCHANGED <<replies, answered>>
    BY <1>1, Zenon DEF ReplyInv, RepliesRunOut
  <1>2. ASSUME NEW l \in 1..MaxLoops, HandleReply(l)
        PROVE  ReplyInv'
    <2> DEFINE p == Peer[loop[l].msg]
    <2>1. /\ replies[p] < Cap
          /\ replies' = [replies EXCEPT ![p] = replies[p] + 1]
          /\ answered' = [answered EXCEPT ![p] = @ + 1]
      BY <1>2, Zenon DEF HandleReply, GetChannel
    <2> HIDE DEF p
    <2>2. CASE p \notin Peers
      BY <2>1, <2>2, <1>1, Zenon DEF ReplyInv
    <2>3. CASE p \in Peers
      BY <2>1, <2>3, SecAssumption DEF ReplyInv, RepliesRunOut
    <2> QED
      BY <2>2, <2>3, Zenon
  <1>3. CASE ChannelNext
    BY <1>1, <1>3, Zenon DEF ChannelNext, workVars
  <1>4. CASE WorkerNext
    <2>1. ASSUME NEW l \in 1..MaxLoops, LoopStep(l)
          PROVE  ReplyInv'
      BY <1>1, <1>2, <2>1, Zenon
         DEF LoopStep, Take, LeaveLoop, WorkerLock, HandleQuiet, ReplyTimesOut
    <2> QED
      BY <1>1, <1>4, <2>1, Zenon
         DEF WorkerNext, Start, AskStop, Stop, AssignToRegion, UnassignFromRegion,
          WorkerUpdateMetrics, WorkerSendMessage, Unqueued
  <1> QED
    BY <1>1, <1>3, <1>4, Zenon DEF secVars, workVars

\* GetSecureChannel gives every caller a queue of its own, for any number of
\* callers and any capacity: what a caller receives it has sent itself.
THEOREM MessagesEcho == SecSpec => []EchoOnly
  <1>1. EchoInv => EchoOnly
    BY Zenon DEF EchoInv
  <1> QED
    BY EchoInit, EchoStep, LateInit, LateStep, <1>1, PTL DEF SecSpec

\* A caller that asks GetSecureChannel after the creators' race holds the key that
\* stays saved, whoever races and whichever saves fail.
THEOREM LateAgree == SecSpec => []LateCallersAgree
  <1>1. LateInv => LateCallersAgree
    BY Zenon DEF LateInv
  <1> QED
    BY EchoInit, EchoStep, LateInit, LateStep, <1>1, PTL DEF SecSpec

\* For any capacity, messages and loops, a worker's replies to a peer end with the
\* places of the queue that HandleMessage fills and nobody empties.
THEOREM RepliesEnd == SecSpec => []RepliesRunOut
  <1>1. ReplyInv => RepliesRunOut
    BY Zenon DEF ReplyInv
  <1> QED
    BY ReplyInit, ReplyStep, <1>1, PTL DEF SecSpec

\* What HandleMessage and GetSecureChannel allow for any callers and capacity: only
\* a caller's own messages come back, late callers share the saved key, and replies
\* run out.
THEOREM ChannelsKeepLimits == SecSpec => []ChannelsLimited
  BY MessagesEcho, LateAgree, RepliesEnd, PTL DEF ChannelsLimited

-----------------------------------------------------------------------------
(* The faucet *)

CallPcs == {"none", "check", "enough", "submit", "listen", "failed", "success", "over"}
Answers == {"none", "enough", "success", "failed", "limited"}
Txs == Actors \X Nat
Results == [tx : Txs, outcome : {"done", "fails", "error"}]

FaucetTypes ==
    /\ funds \in [Addresses -> SUBSET Txs] /\ paid \subseteq Txs
    /\ pool \subseteq Txs /\ stream \in Seq(Results)
    /\ transferCall \in [Actors -> CallPcs] /\ answer \in [FaucetRequests -> Answers]
    /\ attempt \in Nat

\* A transfer of main was executed.
BootPaid == \E t \in paid : t[1] = Boot

\* A result of success on the websocket, a call that took it and the answer that
\* followed are each of an executed transfer; until the faucet is ready there are
\* no transfers but those of main.
PaidInv ==
    /\ FaucetTypes
    /\ \A i \in 1..Len(stream) : stream[i].outcome = "done" => stream[i].tx \in paid
    /\ \A r \in FaucetRequests : transferCall[r] = "success" => <<r, 0>> \in paid
    /\ transferCall[Boot] \in {"enough", "success"} => BootPaid
    /\ \A a \in Addresses : funds[a] \subseteq paid
    /\ isReady => BootPaid
    /\ ~isReady => /\ faucetState # "yes"
                   /\ \A r \in FaucetRequests : transferCall[r] = "none"
                   /\ \A t \in pool \cup paid : t[1] = Boot
    /\ SuccessIsPaid

\* The transfers to an address that are decided on, with the chain, or held.
Decided(a) == {Tx(x) : x \in {y \in Actors : transferCall[y] = "submit" /\ To(y) = a}}
Held(a) == funds[a] \cup {t \in pool : To(t[1]) = a} \cup Decided(a)

\* All of them but one were decided on while another was under way.
OnceInv ==
    \A a \in Addresses : \A t, u \in Held(a) : t = u \/ t \in overlap \/ u \in overlap

LEMMA ToAddress == \A x \in Actors : To(x) \in Addresses
  BY Zenon DEF Addresses

LEMMA ActorsAre == Boot \in Actors /\ FaucetRequests \subseteq Actors /\ Boot \notin FaucetRequests
  BY FaucetAssumption, Zenon DEF Actors

LEMMA TxIs ==
    ASSUME NEW x \in Actors, attempt \in Nat
    PROVE  Tx(x) \in Txs /\ Tx(x)[1] = x /\ (x \in FaucetRequests => Tx(x) = <<x, 0>>)
  BY ActorsAre DEF Tx, Txs

LEMMA PaidInit == FaucetInit => PaidInv
  <1> HAVE FaucetInit
  <1>1. FaucetTypes
    BY DEF FaucetInit, FaucetTypes, CallPcs, Answers
  <1>2. /\ stream = <<>> /\ ~isReady /\ faucetState = "down" /\ pool = {} /\ paid = {}
        /\ \A x \in Actors : transferCall[x] = "none"
        /\ \A r \in FaucetRequests : answer[r] = "none"
        /\ \A a \in Addresses : funds[a] = {}
    BY Zenon DEF FaucetInit
  <1> QED
    BY <1>1, <1>2, ActorsAre DEF PaidInv, SuccessIsPaid

\* A step that executes nothing, and after which a call has succeeded or found enough
\* only if it is a step of that call.
LEMMA QuietStep ==
    ASSUME PaidInv, UNCHANGED <<funds, paid, stream, isReady>>, FaucetTypes',
           faucetState' = "yes" => isReady,
           pool' \subseteq pool \/ isReady \/ \A t \in pool' : t[1] = Boot,
           \A r \in FaucetRequests : transferCall'[r] = "success" => transferCall[r] = "success",
           \A r \in FaucetRequests : ~isReady => transferCall'[r] = transferCall[r],
           transferCall'[Boot] \in {"enough", "success"} => transferCall[Boot] \in {"enough", "success"},
           \A r \in FaucetRequests : answer'[r] = "success" => answer[r] = "success"
    PROVE  PaidInv'
<1>1. BootPaid' <=> BootPaid
  BY Zenon DEF BootPaid
<1> QED
  BY <1>1, Zenon DEF PaidInv, SuccessIsPaid

LEMMA PaidStep == PaidInv /\ [FaucetNext]_faucetVars => PaidInv'
  <1> SUFFICES ASSUME PaidInv, [FaucetNext]_faucetVars
               PROVE  PaidInv'
    BY Zenon
  <1>0. Boot \in Actors /\ FaucetRequests \subseteq Actors /\ Boot \notin FaucetRequests
    BY ActorsAre, Zenon
  <1> USE DEF CallPcs, Answers
  <1>t. FaucetTypes
    BY Zenon DEF PaidInv
  <1>q. ASSUME NEW x \in Actors, NEW at_ \in CallPcs \ {"enough", "success"}, Step(x, at_),
               x \in FaucetRequests => isReady \/ transferCall[x] # "none",
               UNCHANGED <<funds, paid, stream, answer>>, attempt' \in Nat,
               isReady' = isReady, faucetState' = "yes" => isReady,
               pool' \subseteq Txs, pool' \subseteq pool \/ isReady \/ \A t \in pool' : t[1] = Boot
        PROVE  PaidInv'
    <2>1. /\ transferCall' \in [Actors -> CallPcs]
          /\ \A y \in Actors : transferCall'[y] # transferCall[y] => y = x /\ transferCall'[y] = at_
      BY <1>t, <1>q, Zenon DEF Step, FaucetTypes
    <2>2. FaucetTypes'
      BY <1>t, <1>q, <2>1, Zenon DEF FaucetTypes
    <2>3. \A r \in FaucetRequests : ~isReady => transferCall'[r] = transferCall[r]
      BY <1>0, <1>q, <2>1, Zenon DEF PaidInv
    <2> QED
      BY <1>0, <1>q, <2>1, <2>2, <2>3, QuietStep, Zenon
  <1>2. CASE UNCHANGED faucetVars
    <2>1. FaucetTypes'
      BY <1>t, <1>2, Zenon DEF faucetVars, FaucetTypes
    <2>2. faucetState' = "yes" => isReady
      BY <1>2, Zenon DEF faucetVars, PaidInv
    <2> QED
      BY <1>2, <2>1, <2>2, QuietStep, Zenon DEF faucetVars
  <1>3. ASSUME NEW x \in Actors, CheckBalance(x) \/ Submit(x) \/ TransferFails(x)
        PROVE  PaidInv'
    <2>1. /\ UNCHANGED <<funds, paid, stream, attempt, answer, isReady, faucetState>>
          /\ transferCall[x] \in {"check", "submit", "listen"}
      BY <1>3, Zenon DEF CheckBalance, Submit, TransferFails, Elsewhere
    <2>2. /\ x \in FaucetRequests => isReady
          /\ faucetState' = "yes" => isReady
          /\ attempt' \in Nat
      BY <1>t, <2>1, Zenon DEF PaidInv, FaucetTypes
    <2>3. CASE CheckBalance(x) /\ Enough(x)
      <3>1. Step(x, "enough") /\ UNCHANGED pool /\ funds[To(x)] # {}
        BY <2>3, Zenon DEF CheckBalance, Enough
      <3>2. x = Boot => BootPaid
        <4>1. PICK t \in funds[To(x)] : TRUE
          BY <3>1, Zenon
        <4>2. t \in paid
          BY <4>1, ToAddress, Zenon DEF PaidInv
        <4> QED
          BY <4>2, Zenon DEF PaidInv, BootPaid
      <3>3. /\ transferCall' \in [Actors -> CallPcs]
            /\ \A y \in Actors : y # x => transferCall'[y] = transferCall[y]
            /\ transferCall'[x] = "enough"
        BY <1>t, <3>1, Zenon DEF Step, FaucetTypes
      <3>4. FaucetTypes' /\ (BootPaid' <=> BootPaid)
        BY <1>t, <2>1, <3>1, <3>3, Zenon DEF FaucetTypes, BootPaid
      <3>5. transferCall'[Boot] \in {"enough", "success"} => BootPaid
        BY <1>0, <3>2, <3>3, Zenon DEF PaidInv
      <3>6. /\ \A r \in FaucetRequests : transferCall'[r] = "success" => transferCall[r] = "success"
            /\ ~isReady => \A r \in FaucetRequests : transferCall'[r] = transferCall[r]
        BY <1>0, <2>2, <3>3, Zenon
      <3> QED
        BY <2>1, <3>1, <3>4, <3>5, <3>6, Zenon DEF PaidInv, SuccessIsPaid
    <2>4. CASE CheckBalance(x) /\ ~Enough(x)
      BY <1>t, <1>q, <2>1, <2>2, <2>4, Zenon DEF CheckBalance, FaucetTypes
    <2>5. CASE TransferFails(x)
      BY <1>t, <1>q, <2>1, <2>2, <2>5, Zenon DEF TransferFails, FaucetTypes
    <2>6. CASE Submit(x)
      <3>1. Step(x, "listen") /\ pool' = pool \cup {Tx(x)}
        BY <2>6, Zenon DEF Submit
      <3>2. Tx(x) \in Txs /\ Tx(x)[1] = x
        BY <1>t, TxIs, Zenon DEF FaucetTypes
      <3>3. pool' \subseteq Txs
        BY <1>t, <3>1, <3>2, Zenon DEF FaucetTypes
      <3>4. isReady \/ \A t \in pool' : t[1] = Boot
        BY <2>2, <3>1, <3>2, Zenon DEF PaidInv, Actors
      <3> QED
        BY <1>q, <2>1, <2>2, <3>1, <3>3, <3>4, Zenon
    <2> QED
      BY <1>3, <2>3, <2>4, <2>5, <2>6, Zenon
  <1>5. ASSUME NEW x \in Actors, ListenTx(x)
        PROVE  PaidInv'
    <2> DEFINE res == Head(stream)
    <2>1. /\ stream # <<>> /\ stream' = Tail(stream) /\ transferCall[x] = "listen"
          /\ UNCHANGED <<funds, paid, pool, answer, attempt, isReady, faucetState>>
      BY <1>5, Zenon DEF ListenTx, Elsewhere
    <2>2. stream \in Seq(Results)
      BY <1>t, Zenon DEF FaucetTypes
    <2>3. /\ stream' \in Seq(Results)
          /\ \A i \in 1..Len(stream') : stream'[i] = stream[i + 1] /\ i + 1 \in 1..Len(stream)
          /\ res = stream[1] /\ 1 \in 1..Len(stream) /\ res \in Results
      BY <2>1, <2>2
    <2>4. \A i \in 1..Len(stream') : stream'[i].outcome = "done" => stream'[i].tx \in paid'
      BY <2>1, <2>3, Zenon DEF PaidInv
    <2>5. PICK at_ \in {"failed", "listen", "success"} :
              /\ transferCall' = [transferCall EXCEPT ![x] = at_]
              /\ at_ = "success" => res.outcome = "done" /\ Own(x, res)
      BY <1>5, <2>3, Zenon DEF ListenTx, Step, Results
    <2>6. at_ = "success" => Tx(x) \in paid
      BY <2>3, <2>5, Zenon DEF PaidInv, Own
    <2>7. x \in FaucetRequests => isReady
      BY <2>1, Zenon DEF PaidInv
    <2>8. /\ transferCall' \in [Actors -> CallPcs]
          /\ \A y \in Actors : y # x => transferCall'[y] = transferCall[y]
          /\ transferCall'[x] = at_
      BY <1>t, <2>5, Zenon DEF FaucetTypes
    <2>9. FaucetTypes' /\ (BootPaid' <=> BootPaid)
      BY <1>t, <2>1, <2>3, <2>8, Zenon DEF FaucetTypes, BootPaid
    <2>10. \A r \in FaucetRequests : transferCall'[r] = "success" => <<r, 0>> \in paid
      <3>1. attempt \in Nat
        BY <1>t, Zenon DEF FaucetTypes
      <3>2. x \in FaucetRequests /\ at_ = "success" => <<x, 0>> \in paid
        BY <2>6, <3>1, TxIs, Zenon
      <3> QED
        BY <1>0, <2>8, <3>2, Zenon DEF PaidInv
    <2>11. transferCall'[Boot] \in {"enough", "success"} => BootPaid
      BY <1>0, <1>t, <2>5, <2>6, <2>8, TxIs, Zenon DEF PaidInv, BootPaid, FaucetTypes
    <2>12. ~isReady => \A r \in FaucetRequests : transferCall'[r] = "none"
      BY <1>0, <2>7, <2>8, Zenon DEF PaidInv
    <2> QED
      BY <2>1, <2>4, <2>9, <2>10, <2>11, <2>12, Zenon DEF PaidInv, SuccessIsPaid
  <1>6. ASSUME NEW t \in pool, NEW outcome \in {"done", "fails", "error"}, ChainExecutes(t, outcome)
        PROVE  PaidInv'
    <2> DEFINE a == To(t[1])
               res == [tx |-> t, outcome |-> outcome]
    <2>1. t \in Txs /\ t[1] \in Actors /\ a \in Addresses
      BY <1>t, ToAddress, Zenon DEF FaucetTypes, Txs
    <2>2. /\ IF outcome = "done"
             THEN funds' = [funds EXCEPT ![a] = @ \cup {t}] /\ paid' = paid \cup {t}
             ELSE UNCHANGED <<funds, paid>>
          /\ stream' = Append(stream, res) /\ pool' \subseteq pool
          /\ UNCHANGED <<transferCall, answer, attempt, isReady, faucetState>>
      BY <1>6, Zenon DEF ChainExecutes, Elsewhere
    <2>3. res \in Results /\ res.outcome = outcome /\ res.tx = t
      BY <2>1, Zenon DEF Results
    <2> HIDE DEF res
    <2>4. /\ funds' \in [Addresses -> SUBSET Txs] /\ paid' \subseteq Txs /\ paid \subseteq paid'
          /\ \A b \in Addresses : funds'[b] \subseteq paid'
          /\ outcome = "done" => t \in paid'
          /\ paid' \subseteq paid \cup {t}
      <3>1. CASE outcome = "done"
        <4>1. \A b \in Addresses : funds'[b] \subseteq funds[b] \cup {t}
          BY <1>t, <2>1, <2>2, <3>1, Zenon DEF FaucetTypes
        <4>2. DOMAIN funds' = Addresses /\ funds' = [b \in Addresses |-> funds'[b]]
          BY <1>t, <2>2, <3>1, Zenon DEF FaucetTypes
        <4>3. \A b \in Addresses : funds'[b] \subseteq Txs /\ funds'[b] \subseteq paid \cup {t}
          BY <1>t, <2>1, <4>1, Zenon DEF PaidInv, FaucetTypes
        <4>4. funds' \in [Addresses -> SUBSET Txs]
          BY <4>2, <4>3, Zenon
        <4>5. paid' = paid \cup {t} /\ paid \subseteq Txs
          BY <1>t, <2>2, <3>1, Zenon DEF FaucetTypes
        <4> QED
          BY <2>1, <4>3, <4>4, <4>5, Zenon
      <3>2. CASE outcome # "done"
        BY <1>t, <2>2, <3>2, Zenon DEF PaidInv, FaucetTypes
      <3> QED
        BY <3>1, <3>2, Zenon
    <2>5. stream \in Seq(Results)
      BY <1>t, Zenon DEF FaucetTypes
    <2>6. /\ stream' \in Seq(Results) /\ Len(stream') = Len(stream) + 1
          /\ \A i \in 1..Len(stream) : stream'[i] = stream[i]
          /\ stream'[Len(stream) + 1] = res
          /\ \A i \in 1..Len(stream') : i \in 1..Len(stream) \/ i = Len(stream) + 1
      BY <2>2, <2>3, <2>5
    <2>7. \A i \in 1..Len(stream') : stream'[i].outcome = "done" => stream'[i].tx \in paid'
      BY <2>3, <2>4, <2>6, Zenon DEF PaidInv
    <2>8. FaucetTypes' /\ (BootPaid => BootPaid')
      BY <1>t, <2>2, <2>4, <2>6, Zenon DEF FaucetTypes, BootPaid
    <2>9. ~isReady => \A u \in pool' \cup paid' : u[1] = Boot
      BY <2>2, <2>4, Zenon DEF PaidInv
    <2> QED
      BY <2>2, <2>4, <2>7, <2>8, <2>9, Zenon DEF PaidInv, SuccessIsPaid
  <1>7. ASSUME NEW a \in Addresses, NEW kept \in SUBSET funds[a], Spend(a, kept)
        PROVE  PaidInv'
    <2>1. /\ funds' = [funds EXCEPT ![a] = kept]
          /\ UNCHANGED <<paid, pool, stream, transferCall, answer, attempt, isReady, faucetState>>
      BY <1>7, Zenon DEF Spend, Elsewhere
    <2>2. funds' \in [Addresses -> SUBSET Txs] /\ \A b \in Addresses : funds'[b] \subseteq paid'
      BY <1>t, <2>1, Zenon DEF PaidInv, FaucetTypes
    <2>3. FaucetTypes' /\ (BootPaid' <=> BootPaid)
      BY <1>t, <2>1, <2>2, Zenon DEF FaucetTypes, BootPaid
    <2> QED
      BY <2>1, <2>2, <2>3, Zenon DEF PaidInv, SuccessIsPaid
  <1>8. CASE main
    BY <1>0, <1>q, <1>t, <1>8, Zenon DEF main, ChainIdle, FaucetTypes, PaidInv
  <1>9. CASE performInitialTransfer
    <2>1. UNCHANGED <<funds, paid, pool, stream, answer>> /\ attempt' \in Nat
      BY <1>t, <1>9 DEF performInitialTransfer, ChainIdle, FaucetTypes
    <2>2. CASE transferCall[Boot] = "failed"
      <3>1. /\ Step(Boot, "check") \/ Step(Boot, "over")
            /\ isReady' = isReady /\ (faucetState' = "yes" => faucetState = "yes")
        BY <1>9, <2>2, Zenon DEF performInitialTransfer
      <3> QED
        BY <1>0, <1>q, <1>t, <2>1, <3>1, Zenon DEF PaidInv, FaucetTypes
    <2>3. CASE transferCall[Boot] \in {"enough", "success"}
      <3>1. Step(Boot, "over") /\ isReady' = TRUE
        BY <1>9, <2>3, Zenon DEF performInitialTransfer
      <3>2. BootPaid /\ (BootPaid' <=> BootPaid)
        BY <2>1, <2>3, Zenon DEF PaidInv, BootPaid
      <3>3. /\ transferCall' \in [Actors -> CallPcs] /\ transferCall'[Boot] = "over"
            /\ \A r \in FaucetRequests : transferCall'[r] = transferCall[r]
        BY <1>0, <1>t, <3>1, Zenon DEF Step, FaucetTypes
      <3>4. FaucetTypes'
        BY <1>t, <2>1, <3>3, Zenon DEF FaucetTypes
      <3> QED
        BY <2>1, <3>1, <3>2, <3>3, <3>4, Zenon DEF PaidInv, SuccessIsPaid
    <2> QED
      BY <1>9, <2>2, <2>3, Zenon DEF performInitialTransfer
  <1>10. ASSUME NEW r \in FaucetRequests, handleFaucetRequest(r)
        PROVE  PaidInv'
    <2>1. UNCHANGED <<funds, paid, pool, stream, attempt, isReady, faucetState>> /\ faucetState = "yes"
      BY <1>10, Zenon DEF handleFaucetRequest, ChainIdle
    <2>2. /\ Step(r, "check") \/ UNCHANGED transferCall
          /\ answer' = [answer EXCEPT ![r] = "limited"] \/ UNCHANGED answer
      BY <1>10, Zenon DEF handleFaucetRequest
    <2>3. isReady
      BY <2>1, Zenon DEF PaidInv
    <2>4. /\ transferCall' \in [Actors -> CallPcs] /\ transferCall'[Boot] = transferCall[Boot]
          /\ \A q \in FaucetRequests : transferCall'[q] = "success" => transferCall[q] = "success"
      BY <1>0, <1>t, <2>2, Zenon DEF Step, FaucetTypes
    <2>5. /\ answer' \in [FaucetRequests -> Answers]
          /\ \A q \in FaucetRequests : answer'[q] = "success" => answer[q] = "success"
      BY <1>t, <2>2, Zenon DEF FaucetTypes
    <2>6. FaucetTypes'
      BY <1>t, <2>1, <2>4, <2>5, Zenon DEF FaucetTypes
    <2> QED
      BY <2>1, <2>3, <2>4, <2>5, <2>6, QuietStep, Zenon
  <1>11. ASSUME NEW r \in FaucetRequests, handleFaucetAnswer(r)
        PROVE  PaidInv'
    <2>1. /\ UNCHANGED <<funds, paid, pool, stream, transferCall, attempt, isReady, faucetState>>
          /\ answer' = [answer EXCEPT ![r] = transferCall[r]]
          /\ transferCall[r] \in {"enough", "success", "failed"}
      BY <1>11, Zenon DEF handleFaucetAnswer, ChainIdle
    <2>2. FaucetTypes' /\ SuccessIsPaid' /\ (BootPaid' <=> BootPaid)
      BY <1>t, <2>1, Zenon DEF PaidInv, FaucetTypes, SuccessIsPaid, BootPaid
    <2> QED
      BY <2>1, <2>2, Zenon DEF PaidInv
  <1>12. ASSUME NEW c \in Conns, Refill(c)
        PROVE  PaidInv'
    <2>1. UNCHANGED <<funds, paid, pool, stream, transferCall, attempt, isReady, faucetState, answer>>
      BY <1>12, Zenon DEF Refill, ChainIdle
    <2>2. FaucetTypes' /\ (faucetState' = "yes" => isReady)
      BY <1>t, <2>1, Zenon DEF FaucetTypes, PaidInv
    <2> QED
      BY <2>1, <2>2, QuietStep, Zenon
  <1> QED
    BY <1>2, <1>3, <1>5, <1>6, <1>7, <1>8, <1>9, <1>10, <1>11, <1>12, Zenon DEF FaucetNext, TransferStep

LEMMA OnceInit == FaucetInit => OnceInv
  BY DEF FaucetInit, OnceInv, Held, Decided

\* A step that adds no transfer to those of an address keeps the invariant.
LEMMA OnceKept ==
    ASSUME OnceInv, overlap \subseteq overlap', \A a \in Addresses : Held(a)' \subseteq Held(a)
    PROVE  OnceInv'
  BY Zenon DEF OnceInv

LEMMA OnceStep == PaidInv /\ OnceInv /\ [FaucetNext]_faucetVars => OnceInv'
  <1> SUFFICES ASSUME PaidInv, OnceInv, [FaucetNext]_faucetVars
               PROVE  OnceInv'
    BY Zenon
  <1>t. FaucetTypes /\ Boot \in Actors /\ FaucetRequests \subseteq Actors
    BY ActorsAre, Zenon DEF PaidInv
  <1>s. ASSUME NEW x \in Actors, NEW at_ \in CallPcs \ {"submit"}, Step(x, at_),
               UNCHANGED <<funds, pool, overlap>>,
               attempt' = attempt \/ (x = Boot /\ transferCall[x] # "submit")
        PROVE  OnceInv'
    <2>1. \A y \in Actors : transferCall'[y] = "submit" => transferCall[y] = "submit" /\ y # x
      BY <1>t, <1>s, Zenon DEF Step, FaucetTypes
    <2>2. \A y \in Actors : transferCall'[y] = "submit" => Tx(y)' = Tx(y)
      BY <1>s, <2>1, Zenon DEF Tx
    <2>3. \A a \in Addresses : Decided(a)' \subseteq Decided(a)
      BY <2>1, <2>2, Zenon DEF Decided
    <2> QED
      BY <1>s, <2>3, OnceKept, Zenon DEF Held
  <1>2. CASE UNCHANGED <<funds, pool, overlap, transferCall, attempt>>
    BY <1>2, OnceKept, Zenon DEF Held, Decided, Tx
  <1>3. ASSUME NEW x \in Actors, CheckBalance(x)
        PROVE  OnceInv'
    <2>1. CASE Enough(x)
      BY <1>3, <1>s, <2>1, Zenon DEF CheckBalance, Elsewhere, CallPcs
    <2>2. CASE ~Enough(x)
      <3>1. /\ transferCall' = [transferCall EXCEPT ![x] = "submit"]
            /\ UNCHANGED <<funds, pool, attempt>>
            /\ overlap' = IF Under(To(x)) THEN overlap \cup {Tx(x)} ELSE overlap
            /\ funds[To(x)] = {}
        BY <1>3, <2>2, Zenon DEF CheckBalance, Step, Enough, Elsewhere
      <3>2. \A y \in Actors : /\ Tx(y)' = Tx(y)
                              /\ transferCall'[y] = "submit" => transferCall[y] = "submit" \/ y = x
        BY <1>t, <3>1, Zenon DEF Tx, FaucetTypes
      <3>3. \A a \in Addresses : Held(a)' \subseteq Held(a) \cup (IF a = To(x) THEN {Tx(x)} ELSE {})
        BY <3>1, <3>2, Zenon DEF Held, Decided
      <3>4. CASE Under(To(x))
        BY <3>1, <3>3, <3>4, Zenon DEF OnceInv
      <3>5. CASE ~Under(To(x))
        <4>1. Held(To(x)) = {}
          BY <3>1, <3>5, Zenon DEF Under, Held, Decided
        <4> QED
          BY <3>1, <3>3, <3>5, <4>1, Zenon DEF OnceInv
      <3> QED
        BY <3>4, <3>5, Zenon
    <2> QED
      BY <2>1, <2>2, Zenon
  <1>4. ASSUME NEW x \in Actors, Submit(x)
        PROVE  OnceInv'
    <2>1. /\ pool' = pool \cup {Tx(x)} /\ transferCall[x] = "submit"
          /\ transferCall' = [transferCall EXCEPT ![x] = "listen"]
          /\ UNCHANGED <<funds, overlap, attempt>>
      BY <1>4, Zenon DEF Submit, Step, Elsewhere
    <2>2. Tx(x)[1] = x
      BY <1>t, TxIs, Zenon DEF FaucetTypes
    <2>3. \A y \in Actors : Tx(y)' = Tx(y) /\ (transferCall'[y] = "submit" => transferCall[y] = "submit")
      BY <1>t, <2>1, Zenon DEF Tx, FaucetTypes
    <2>4. \A a \in Addresses : Held(a)' \subseteq Held(a)
      BY <2>1, <2>2, <2>3, Zenon DEF Held, Decided
    <2> QED
      BY <2>1, <2>4, OnceKept, Zenon
  <1>5. ASSUME NEW x \in Actors, ListenTx(x)
        PROVE  OnceInv'
    <2>1. Head(stream) \in Results
      BY <1>t, <1>5 DEF ListenTx, FaucetTypes
    <2>2. PICK at_ \in CallPcs \ {"submit"} : Step(x, at_)
      BY <1>5, <2>1, Zenon DEF ListenTx, CallPcs, Results
    <2> QED
      BY <1>5, <1>s, <2>2, Zenon DEF ListenTx, Elsewhere
  <1>6. ASSUME NEW x \in Actors, TransferFails(x)
        PROVE  OnceInv'
    BY <1>6, <1>s, Zenon DEF TransferFails, Elsewhere, CallPcs
  <1>7. ASSUME NEW t \in pool, NEW outcome \in {"done", "fails", "error"}, ChainExecutes(t, outcome)
        PROVE  OnceInv'
    <2>1. /\ \/ funds' = [funds EXCEPT ![To(t[1])] = @ \cup {t}] \/ funds' = funds
          /\ pool' = pool \ {t} /\ UNCHANGED <<transferCall, overlap, attempt>>
      BY <1>7, Zenon DEF ChainExecutes, Elsewhere
    <2>2. \A a \in Addresses : funds'[a] \subseteq funds[a] \cup (IF a = To(t[1]) THEN {t} ELSE {})
      BY <1>t, <2>1, Zenon DEF FaucetTypes
    <2>3. \A a \in Addresses : Held(a)' \subseteq Held(a)
      BY <2>1, <2>2, Zenon DEF Held, Decided, Tx
    <2> QED
      BY <2>1, <2>3, OnceKept, Zenon
  <1>8. ASSUME NEW a \in Addresses, NEW kept \in SUBSET funds[a], Spend(a, kept)
        PROVE  OnceInv'
    <2>1. funds' = [funds EXCEPT ![a] = kept] /\ UNCHANGED <<pool, transferCall, overlap, attempt>>
      BY <1>8, Zenon DEF Spend, Elsewhere
    <2>2. \A b \in Addresses : funds'[b] \subseteq funds[b]
      BY <1>t, <2>1, Zenon DEF FaucetTypes
    <2>3. \A b \in Addresses : Held(b)' \subseteq Held(b)
      BY <2>1, <2>2, Zenon DEF Held, Decided, Tx
    <2> QED
      BY <2>1, <2>3, OnceKept, Zenon
  <1>9. CASE main \/ performInitialTransfer
    <2>1. UNCHANGED <<funds, pool, overlap>>
      BY <1>9, Zenon DEF main, performInitialTransfer, ChainIdle
    <2>2. /\ Step(Boot, "check") \/ Step(Boot, "over")
          /\ attempt' = attempt \/ transferCall[Boot] # "submit"
      BY <1>9, Zenon DEF main, performInitialTransfer
    <2> QED
      BY <1>t, <1>s, <2>1, <2>2, Zenon DEF CallPcs
  <1>10. ASSUME NEW r \in FaucetRequests, handleFaucetRequest(r)
        PROVE  OnceInv'
    <2>1. UNCHANGED <<funds, pool, overlap, attempt>>
      BY <1>10, Zenon DEF handleFaucetRequest, ChainIdle
    <2>2. Step(r, "check") \/ UNCHANGED transferCall
      BY <1>10, Zenon DEF handleFaucetRequest
    <2> QED
      BY <1>t, <1>2, <1>s, <2>1, <2>2, Zenon DEF CallPcs
  <1>11. ASSUME \/ UNCHANGED faucetVars
                \/ \E r \in FaucetRequests : handleFaucetAnswer(r)
                \/ \E c \in Conns : Refill(c)
        PROVE  OnceInv'
    BY <1>2, <1>11, Zenon DEF faucetVars, handleFaucetAnswer, Refill, ChainIdle
  <1> QED
    BY <1>3, <1>4, <1>5, <1>6, <1>7, <1>8, <1>9, <1>10, <1>11, Zenon DEF FaucetNext, TransferStep

\* What the faucet's handlers do for any requests, addresses and connections: a
\* handler that answers "transferred" has paid, of the transfers an address holds all
\* but one come from overlapping calls, and the faucet is ready only after a transfer
\* of its own, whatever fails, times out, is spent or is tried again.
THEOREM HandlersKeepFair == FaucetSpec => []HandlersFair
  <1>1. PaidInv => SuccessIsPaid /\ ReadyWasPaid
    BY Zenon DEF PaidInv, ReadyWasPaid, handleReadyCheck, BootPaid
  <1>2. OnceInv => OverpaidByOverlaps
    BY Zenon DEF OnceInv, OverpaidByOverlaps, Held
  <1> QED
    BY PaidInit, PaidStep, OnceInit, OnceStep, <1>1, <1>2, PTL DEF FaucetSpec, HandlersFair

-----------------------------------------------------------------------------
(* Admission to the secure channels *)

\* A stopped worker that has a region was assigned to it since.
AdmissionInv ==
    /\ doneCh \in BOOLEAN /\ crashed \in BOOLEAN /\ assigned \in BOOLEAN /\ reassigned \in BOOLEAN
    /\ doneCh /\ ~crashed /\ assigned => reassigned
    /\ claim \in Claims

LEMMA AdmissionStep == AdmissionInv /\ [ChannelNext \/ WorkerNext]_secVars => AdmissionInv'
<1> SUFFICES ASSUME AdmissionInv, [ChannelNext \/ WorkerNext]_secVars PROVE AdmissionInv'
  BY Zenon
<1> DEFINE doneVars == <<doneCh, crashed, assigned, reassigned>>
<1>1. ASSUME UNCHANGED doneVars, UNCHANGED claim PROVE AdmissionInv'
  BY <1>1, Zenon DEF AdmissionInv
<1>2. ASSUME ChannelNext PROVE AdmissionInv'
  <2>1. UNCHANGED doneVars /\ UNCHANGED claim
    BY <1>2, Zenon DEF ChannelNext, workVars
  <2> QED BY <1>1, <2>1, Zenon
<1>3. ASSUME UNCHANGED secVars PROVE AdmissionInv'
  <2>1. UNCHANGED doneVars /\ UNCHANGED claim
    BY <1>3, Zenon DEF secVars, workVars
  <2> QED BY <1>1, <2>1, Zenon
<1>4. ASSUME WorkerNext PROVE AdmissionInv'
  <2>0. UNCHANGED claim
    BY <1>4, Zenon DEF WorkerNext, Off
  <2>1. ASSUME Stop PROVE AdmissionInv'
    BY <1>4, <2>0, <2>1, Zenon DEF WorkerNext, Stop, AdmissionInv
  <2>2. ASSUME AssignToRegion PROVE AdmissionInv'
    BY <2>0, <2>2, Zenon DEF AssignToRegion, AdmissionInv
  <2>3. ASSUME UnassignFromRegion PROVE AdmissionInv'
    BY <2>0, <2>3, Zenon DEF UnassignFromRegion, AdmissionInv
  <2>4. ASSUME Start \/ AskStop \/ (\E success \in BOOLEAN : WorkerUpdateMetrics(success))
                 \/ (\E m \in Msgs : WorkerSendMessage(m)) \/ (\E l \in 1..MaxLoops : LoopStep(l))
        PROVE  UNCHANGED doneVars
    BY <2>4, Zenon
       DEF Start, AskStop, WorkerUpdateMetrics, WorkerSendMessage, LoopStep, Take, LeaveLoop, WorkerLock,
                HandleQuiet, HandleReply, ReplyTimesOut, Unheld
  <2> QED BY <1>1, <1>4, <2>0, <2>1, <2>2, <2>3, <2>4, Zenon DEF WorkerNext
<1> QED BY <1>2, <1>3, <1>4, Zenon

LEMMA InOrder == ASSUME claim \in Claims PROVE AcceptedInOrder
<1> DEFINE swapped == [claim EXCEPT !.atts = <<claim.atts[2], claim.atts[1]>>]
<1> SUFFICES ASSUME ValidateRegionalOperation(claim)
             PROVE  /\ \A i \in 1..2 : claim.atts[i].signature => VerifyAttestation(claim.atts[i], claim.now)
                    /\ ValidateRegionalOperation(swapped)
                          => \E i \in DOMAIN claim.pairs : /\ claim.pairs[i].sgx = claim.atts[2].enclave
                                                           /\ claim.pairs[i].sev = claim.atts[1].enclave
  BY Zenon DEF AcceptedInOrder
<1>1. Recent(claim.atts[1], claim.now) /\ Recent(claim.atts[2], claim.now)
  BY Zenon DEF ValidateRegionalOperation
<1>2. \A i \in 1..2 : i = 1 \/ i = 2
  OBVIOUS
<1>3. \A i \in 1..2 : claim.atts[i].signature => VerifyAttestation(claim.atts[i], claim.now)
  BY <1>1, <1>2, Zenon DEF VerifyAttestation
<1>4. claim = [pairs |-> claim.pairs, now |-> claim.now, atts |-> claim.atts]
  BY SecAssumption, Zenon
<1>5. swapped.pairs = claim.pairs /\ swapped.atts = <<claim.atts[2], claim.atts[1]>>
  BY <1>4, Zenon
<1> HIDE DEF swapped
<1>6. swapped.atts[1] = claim.atts[2] /\ swapped.atts[2] = claim.atts[1]
  BY <1>5
<1>7. ValidateRegionalOperation(swapped)
        => \E i \in DOMAIN claim.pairs : /\ claim.pairs[i].sgx = claim.atts[2].enclave
                                         /\ claim.pairs[i].sev = claim.atts[1].enclave
  BY <1>5, <1>6, Zenon DEF ValidateRegionalOperation
<1> QED BY <1>3, <1>7, Zenon DEF swapped

\* What the coordinator admits is what AdmissionJustified says, whatever a worker's
\* loops, its Stop and its assignments do in between: a stopped worker is in a
\* region only if it was assigned again, and a regional operation passes only with
\* a pair that its attestations are of, in their order.
THEOREM AdmissionAlwaysJustified == SecSpec => []AdmissionJustified
<1>1. SecInit => AdmissionInv
  BY Zenon DEF SecInit, AdmissionInv
<1>2. AdmissionInv => AdmissionJustified
  <2>1. AdmissionInv => StoppedNeedsRegion
    BY Zenon DEF AdmissionInv, StoppedNeedsRegion, CanAcceptTask
  <2>2. AdmissionInv => AcceptedInOrder
    BY InOrder, Zenon DEF AdmissionInv
  <2> QED BY <2>1, <2>2, Zenon DEF AdmissionJustified
<1> QED BY <1>1, <1>2, AdmissionStep, PTL DEF SecSpec

-----------------------------------------------------------------------------
(* Lifecycles *)

(* The VM.  A context that is not done leaves its health monitor running,  *)
(* however often it was replaced.                                          *)

\* The generations that have a health monitor.
WatchOf(ls) == {l.gen : l \in {x \in ls : x.kind = "health"}}

LifeInv ==
    /\ vm = "none" => loops = {} /\ nodes = {} /\ coordinators = {}
    /\ WatchOf(loops) \subseteq monitored
    /\ vm # "crashed" => monitored \ ctxDone \subseteq WatchOf(loops)
    /\ OwnRunsNone /\ NodesReleased

LEMMA WatchMonitoring ==
    ASSUME NEW g, NEW ls
    PROVE  WatchOf(ls \cup Monitoring(g)) = WatchOf(ls) \cup {g}
<1> DEFINE h == [kind |-> "health", gen |-> g]
<1>1. h \in Monitoring(g) /\ h.kind = "health" /\ h.gen = g
  BY Zenon DEF Monitoring
<1>2. \A l \in Monitoring(g) : l.gen = g
  BY Zenon DEF Monitoring
<1> HIDE DEF h
<1>3. \A x \in WatchOf(ls \cup Monitoring(g)) : x \in WatchOf(ls) \cup {g}
  BY <1>2, Zenon DEF WatchOf
<1>4. \A x \in WatchOf(ls) \cup {g} : x \in WatchOf(ls \cup Monitoring(g))
  BY <1>1, Zenon DEF WatchOf
<1> QED BY <1>3, <1>4, Zenon

LEMMA WatchNone == WatchOf({}) = {}
  BY Zenon DEF WatchOf

\* The end of a goroutine takes at most its own generation from those watched.
LEMMA WatchEnds ==
    ASSUME NEW ls, NEW l
    PROVE  /\ WatchOf(ls \ {l}) \subseteq WatchOf(ls)
           /\ \A g \in WatchOf(ls) : (l.kind = "health" => g # l.gen) => g \in WatchOf(ls \ {l})
  BY Zenon DEF WatchOf

\* The coordinators an Initialize adds.
LEMMA RenewedRunsNone ==
    ASSUME OwnRunsNone, Renewed PROVE OwnRunsNone'
<1>1. ASSUME NEW c \in coordinators', c.of = "vm", c.started PROVE c.max = 0
  <2>1. \/ c \in coordinators
        \/ c = StateCoordinator(gen')
        \/ c = [of |-> "vm", gen |-> gen', started |-> TRUE, max |-> 0]
    BY <1>1, Zenon DEF Renewed
  <2>2. CASE c \in coordinators
    BY <1>1, <2>2, Zenon DEF OwnRunsNone
  <2>3. CASE c = StateCoordinator(gen')
    BY <1>1, <2>3 DEF StateCoordinator
  <2>4. CASE c = [of |-> "vm", gen |-> gen', started |-> TRUE, max |-> 0]
    BY <2>4
  <2> QED BY <2>1, <2>2, <2>3, <2>4, Zenon
<1> QED BY <1>1, Zenon DEF OwnRunsNone

LEMMA LifeInvNext ==
    ASSUME LifeInv, LifeNext PROVE LifeInv'
<1> USE DEF LifeInv
<1>0. StateCoordinator(0).of = "state"
  BY Zenon DEF StateCoordinator
<1>1. CASE NewFails
  <2>1. /\ vm' = "failed" /\ UNCHANGED <<loops, ctxDone, monitored>>
        /\ vm # "crashed" /\ nodes = {}
        /\ nodes' = nodes \/ badChain'
        /\ coordinators' = coordinators \/ coordinators' = {StateCoordinator(0)}
    BY <1>1 DEF NewFails
  <2>2. OwnRunsNone'
    BY <1>0, <2>1 DEF OwnRunsNone
  <2>3. NodesReleased'
    BY <2>1, Zenon DEF NodesReleased
  <2> QED BY <2>1, <2>2, <2>3
<1>2. CASE New
  <2>1. /\ \/ loops' = {} /\ monitored' = {}
           \/ loops' = {} \cup Monitoring(0) /\ monitored' = {0}
        /\ coordinators' = {StateCoordinator(0), [of |-> "vm", gen |-> 0, started |-> FALSE, max |-> 100]}
    BY <1>2, Zenon DEF New
  <2>2. WatchOf(loops') = monitored'
    <3>1. WatchOf({} \cup Monitoring(0)) = WatchOf({}) \cup {0}
      BY WatchMonitoring, Zenon
    <3> QED BY <2>1, <3>1, WatchNone, Zenon
  <2>3. OwnRunsNone'
    BY <1>0, <2>1 DEF OwnRunsNone
  <2>4. NodesReleased' /\ vm' # "none"
    BY <1>2 DEF New, NodesReleased
  <2> QED BY <2>2, <2>3, <2>4, Zenon
<1>3. CASE Expire
  <2>1. /\ ctxDone' = ctxDone \cup {0}
        /\ UNCHANGED <<vm, verifyOnly, gen, inits, loops, stopped, coordinators, nodes, badChain, monitored>>
    BY <1>3, Zenon DEF Expire
  <2> QED BY <2>1, Zenon DEF OwnRunsNone, NodesReleased
<1>4. CASE InitializeFails
  BY <1>4, Zenon DEF InitializeFails, OwnRunsNone, NodesReleased
<1>5. CASE ConnectFails
  <2>1. /\ vm # "none" /\ Renewed
        /\ UNCHANGED <<vm, verifyOnly, loops, ctxDone, stopped, nodes, badChain, monitored>>
    BY <1>5 DEF ConnectFails, MayInitialize
  <2>2. OwnRunsNone'
    BY <2>1, RenewedRunsNone, Zenon
  <2> QED BY <2>1, <2>2, Zenon DEF NodesReleased
<1>6. CASE Initialize
  <2>1. /\ vm' = "up" /\ vm # "crashed" /\ Renewed
        /\ loops' = loops \cup Monitoring(gen') /\ monitored' = monitored \cup {gen'}
        /\ ctxDone' = ctxDone
    BY <1>6 DEF Initialize, MayInitialize
  <2>2. WatchOf(loops') = WatchOf(loops) \cup {gen'}
    BY <2>1, WatchMonitoring, Zenon
  <2>3. OwnRunsNone'
    BY <2>1, RenewedRunsNone, Zenon
  <2>4. NodesReleased' /\ vm' # "none"
    BY <2>1 DEF NodesReleased
  <2> QED BY <2>1, <2>2, <2>3, <2>4, Zenon
<1>7. ASSUME NEW l \in loops, LoopEnds(l) PROVE LifeInv'
  <2>1. /\ loops' = loops \ {l} /\ (l.gen \in ctxDone \/ l.kind = "performance")
        /\ UNCHANGED <<vm, verifyOnly, gen, inits, ctxDone, stopped, coordinators, nodes, badChain, monitored>>
    BY <1>7, Zenon DEF LoopEnds
  <2>2. /\ WatchOf(loops') \subseteq WatchOf(loops)
        /\ \A g \in WatchOf(loops) : (l.kind = "health" => g # l.gen) => g \in WatchOf(loops')
    BY <2>1, WatchEnds, Zenon
  <2>3. l.kind = "health" => l.gen \in ctxDone
    BY <2>1
  <2>4. vm # "crashed" => monitored' \ ctxDone' \subseteq WatchOf(loops')
    BY <2>1, <2>2, <2>3, Zenon
  <2>5. vm = "none" => loops' = {}
    BY <2>1, Zenon
  <2> QED BY <2>1, <2>2, <2>4, <2>5, Zenon DEF OwnRunsNone, NodesReleased
<1>8. CASE Shutdown
  <2>1. /\ vm' # "none" /\ vm # "crashed" /\ nodes' = {} /\ ctxDone' = ctxDone \cup {gen} /\ monitored' = monitored
        /\ \/ vm' = "crashed" /\ loops' = {} /\ coordinators' = {}
           \/ UNCHANGED <<loops, coordinators>>
    BY <1>8 DEF Shutdown
  <2>2. WatchOf(loops') \subseteq monitored'
    BY <2>1, WatchNone, Zenon
  <2>3. vm' # "crashed" => monitored' \ ctxDone' \subseteq WatchOf(loops')
    BY <2>1, Zenon
  <2> QED BY <2>1, <2>2, <2>3, Zenon DEF OwnRunsNone, NodesReleased
<1> QED BY <1>1, <1>2, <1>3, <1>4, <1>5, <1>6, <1>7, <1>8, Zenon DEF LifeNext

LEMMA LifeImplies == LifeInv => WatchedByEach /\ OwnRunsNone /\ NodesReleased
  BY Zenon DEF LifeInv, WatchedByEach, WatchOf

-----------------------------------------------------------------------------
(* Connections.  What a table holds was dialled for it alone.              *)

\* What the table holds.
TableConns(t) == UNION {PairConns(t[a]) : a \in DOMAIN t}

\* The entries of a table are pairs of connections dialled by then, and no two
\* regions have one in common.
TableOK(t, d) ==
    /\ DOMAIN t \subseteq Areas
    /\ \A a \in DOMAIN t : PairConns(t[a]) \subseteq 1..d
    /\ \A a, b \in DOMAIN t : a # b => PairConns(t[a]) \cap PairConns(t[b]) = {}

ConnInv ==
    /\ dials \in Nat /\ TableOK(table, dials)
    /\ list \subseteq 1..dials /\ lost \subseteq 1..dials
    /\ keeps = "validator" => lost = {} /\ (~shut => live \subseteq list)
    /\ keeps # "validator" =>
         /\ ~shut => live = list \cup TableConns(table) \cup lost
         /\ TableConns(table) \cap list = {}
         /\ lost \cap (list \cup TableConns(table)) = {}
    /\ ConnectionsReleased

LEMMA ReplacedAre == ASSUME DOMAIN table \subseteq Areas PROVE UNION {Replaced(a) : a \in Areas} = TableConns(table)
  BY Zenon DEF Replaced, TableConns

\* A pair is stored for a region.
Put(t, a, p) == [x \in DOMAIN t \cup {a} |-> IF x = a THEN p ELSE t[x]]

LEMMA TablePut ==
    ASSUME NEW t, NEW d \in Nat, TableOK(t, d), NEW a \in Areas
    PROVE  TableOK(Put(t, a, <<d + 1, d + 2>>), d + 2)
<1> DEFINE p == <<d + 1, d + 2>>
           u == Put(t, a, p)
<1>1. DOMAIN u = DOMAIN t \cup {a} /\ u[a] = p /\ \A x \in DOMAIN t : x # a => u[x] = t[x]
  BY Zenon DEF Put
<1>2. PairConns(p) = {d + 1, d + 2}
  BY Zenon DEF PairConns
<1>3. PairConns(p) \subseteq 1..(d + 2) /\ PairConns(p) \cap 1..d = {} /\ 1..d \subseteq 1..(d + 2)
  BY <1>2
<1> HIDE DEF p, u
<1>4. \A x \in DOMAIN u : PairConns(u[x]) \subseteq 1..(d + 2)
  BY <1>1, <1>3, Zenon DEF TableOK
<1>5. \A x, y \in DOMAIN u : x # y => PairConns(u[x]) \cap PairConns(u[y]) = {}
  BY <1>1, <1>3, Zenon DEF TableOK
<1>6. DOMAIN u \subseteq Areas
  BY <1>1, Zenon DEF TableOK
<1> QED BY <1>4, <1>5, <1>6, Zenon DEF TableOK, u, p

\* What the table holds after a pair is stored, with what the entry held before.
LEMMA TablePutConns ==
    ASSUME NEW t, NEW d \in Nat, TableOK(t, d), NEW a \in Areas, NEW old,
           old = IF a \in DOMAIN t THEN PairConns(t[a]) ELSE {}
    PROVE  /\ TableConns(Put(t, a, <<d + 1, d + 2>>)) = (TableConns(t) \ old) \cup {d + 1, d + 2}
           /\ old \subseteq TableConns(t)
<1> DEFINE p == <<d + 1, d + 2>>
           u == Put(t, a, p)
<1>1. DOMAIN u = DOMAIN t \cup {a} /\ u[a] = p /\ \A x \in DOMAIN t : x # a => u[x] = t[x]
  BY Zenon DEF Put
<1>2. PairConns(p) = {d + 1, d + 2}
  BY Zenon DEF PairConns
<1> HIDE DEF p, u
<1>3. old \subseteq TableConns(t)
  BY Zenon DEF TableConns
<1>4. ASSUME NEW x \in TableConns(u) PROVE x \in (TableConns(t) \ old) \cup {d + 1, d + 2}
  <2>1. PICK b \in DOMAIN u : x \in PairConns(u[b])
    BY <1>4, Zenon DEF TableConns
  <2>2. CASE b = a
    BY <1>1, <1>2, <2>1, <2>2, Zenon
  <2>3. CASE b # a
    <3>1. b \in DOMAIN t /\ x \in PairConns(t[b])
      BY <1>1, <2>1, <2>3, Zenon
    <3>2. x \notin old
      BY <2>3, <3>1, Zenon DEF TableOK
    <3> QED BY <3>1, <3>2, Zenon DEF TableConns
  <2> QED BY <2>2, <2>3, Zenon
<1>5. ASSUME NEW x \in TableConns(t) \ old PROVE x \in TableConns(u)
  <2>1. PICK b \in DOMAIN t : x \in PairConns(t[b])
    BY <1>5, Zenon DEF TableConns
  <2>2. b # a
    BY <1>5, <2>1, Zenon
  <2> QED BY <1>1, <2>1, <2>2, Zenon DEF TableConns
<1>6. {d + 1, d + 2} \subseteq TableConns(u)
  BY <1>1, <1>2, Zenon DEF TableConns
<1>7. TableConns(u) = (TableConns(t) \ old) \cup {d + 1, d + 2}
  BY <1>4, <1>5, <1>6, Zenon
<1> QED BY <1>3, <1>7, Zenon DEF u, p

LEMMA TableWithin ==
    ASSUME NEW t, NEW d, TableOK(t, d) PROVE TableConns(t) \subseteq 1..d
  BY Zenon DEF TableOK, TableConns

LEMMA NoTable == ASSUME NEW t, TableOK(t, 0) PROVE TableConns(t) = {}
  BY TableWithin

LEMMA StoredKeeps ==
    ASSUME ConnInv, NEW a \in Areas, Stored(a)
    PROVE  /\ dials' = dials + 2 /\ dials' \in Nat /\ TableOK(table', dials')
           /\ 1..dials \subseteq 1..dials' /\ {dials + 1, dials + 2} \subseteq 1..dials'
           /\ {dials + 1, dials + 2} \cap 1..dials = {}
           /\ TableConns(table') = (TableConns(table) \ Replaced(a)) \cup {dials + 1, dials + 2}
           /\ Replaced(a) \subseteq TableConns(table) /\ TableConns(table) \subseteq 1..dials
           /\ live' = live \cup {dials + 1, dials + 2} /\ ~shut /\ UNCHANGED <<keeps, shut>>
<1>1. /\ dials' = dials + 2 /\ table' = Put(table, a, <<dials + 1, dials + 2>>)
      /\ ~shut /\ UNCHANGED <<keeps, shut>>
      /\ live' = live \cup {dials + 1, dials + 2}
  BY Zenon DEF Stored, Put, DialPair, PairConns
<1>2. dials \in Nat /\ TableOK(table, dials)
  BY Zenon DEF ConnInv
<1>3. TableOK(table', dials')
  BY <1>1, <1>2, TablePut, Zenon
<1>4. /\ TableConns(table') = (TableConns(table) \ Replaced(a)) \cup {dials + 1, dials + 2}
      /\ Replaced(a) \subseteq TableConns(table)
  BY <1>1, <1>2, TablePutConns, Zenon DEF Replaced
<1>5. TableConns(table) \subseteq 1..dials
  BY <1>2, TableWithin, Zenon
<1>6. /\ dials' \in Nat /\ 1..dials \subseteq 1..dials' /\ {dials + 1, dials + 2} \subseteq 1..dials'
      /\ {dials + 1, dials + 2} \cap 1..dials = {}
  BY <1>1, <1>2
<1> QED BY <1>1, <1>3, <1>4, <1>5, <1>6, Zenon

LEMMA ConnInvNext ==
    ASSUME ConnInv, ConnNext PROVE ConnInv'
<1>1. CASE NewClient
  <2>1. /\ keeps = "client" /\ dials = 0 /\ ~shut /\ dials' = 2 /\ live' = {1, 2} /\ list' = {1, 2}
        /\ UNCHANGED <<keeps, table, lost, shut>>
    BY <1>1, Zenon DEF NewClient
  <2>2. TableConns(table) = {} /\ lost = {}
    BY <2>1, NoTable DEF ConnInv
  <2>3. TableOK(table, 2)
    <3>1. TableOK(table, 0) /\ 1..0 \subseteq 1..2
      BY <2>1 DEF ConnInv
    <3> QED BY <3>1, Zenon DEF TableOK
  <2>4. {1, 2} \subseteq 1..2 /\ 2 \in Nat
    OBVIOUS
  <2> QED BY <2>1, <2>2, <2>3, <2>4, Zenon DEF ConnInv, ConnectionsReleased
<1>2. CASE SEVDialFails
  <2>1. /\ ~shut /\ dials' = dials + 1 /\ UNCHANGED <<keeps, live, table, lost, shut>>
        /\ list' = IF keeps = "validator" THEN list \cup {dials'} ELSE list
    BY <1>2, Zenon DEF SEVDialFails
  <2>2. dials' \in Nat /\ 1..dials \subseteq 1..dials' /\ dials' \in 1..dials'
    BY <2>1 DEF ConnInv
  <2>3. TableOK(table, dials')
    BY <2>2, Zenon DEF ConnInv, TableOK
  <2> QED BY <2>1, <2>2, <2>3, Zenon DEF ConnInv, ConnectionsReleased
<1>3. CASE CloseAll
  <2>1. UNION {Replaced(a) : a \in Areas} = TableConns(table)
    BY ReplacedAre, Zenon DEF ConnInv, TableOK
  <2>2. /\ ~shut /\ shut' = TRUE /\ UNCHANGED <<keeps, dials, table, list, lost>>
        /\ live' = live \ (list \cup IF keeps = "validator" THEN {} ELSE TableConns(table))
    BY <1>3, <2>1, Zenon DEF CloseAll
  <2>3. live' = lost
    BY <2>2, Zenon DEF ConnInv
  <2> QED BY <2>2, <2>3, Zenon DEF ConnInv, ConnectionsReleased
<1>4. ASSUME NEW a \in Areas, ClientAddRegion(a) \/ InitializeTEEPairs(a) PROVE ConnInv'
  <2>1. Stored(a) /\ keeps # "validator" /\ lost' = lost \cup Replaced(a) /\ list' = list
    BY <1>4, Zenon DEF ClientAddRegion, InitializeTEEPairs
  <2> DEFINE new == {dials + 1, dials + 2}
             T == TableConns(table)
  <2>2. /\ dials' \in Nat /\ TableOK(table', dials') /\ 1..dials \subseteq 1..dials'
        /\ new \cap 1..dials = {} /\ TableConns(table') = (T \ Replaced(a)) \cup new
        /\ Replaced(a) \subseteq T /\ T \subseteq 1..dials
        /\ live' = live \cup new /\ ~shut /\ UNCHANGED <<keeps, shut>>
    BY <2>1, StoredKeeps, Zenon
  <2>3. /\ list \subseteq 1..dials /\ lost \subseteq 1..dials /\ live = list \cup T \cup lost
        /\ T \cap list = {} /\ lost \cap (list \cup T) = {}
    BY <2>1, <2>2, Zenon DEF ConnInv
  <2> HIDE DEF new, T
  <2>4. /\ list' \subseteq 1..dials' /\ lost' \subseteq 1..dials'
        /\ live' = list' \cup TableConns(table') \cup lost'
    BY <2>1, <2>2, <2>3, Zenon
  <2>5. /\ TableConns(table') \cap list' = {} /\ lost' \cap (list' \cup TableConns(table')) = {}
    BY <2>1, <2>2, <2>3, Zenon
  <2> QED BY <2>1, <2>2, <2>4, <2>5, Zenon DEF ConnInv, ConnectionsReleased
<1>5. ASSUME NEW a \in Areas, ValidatorAddRegion(a) PROVE ConnInv'
  <2>1. Stored(a) /\ keeps = "validator" /\ lost' = lost /\ list' = list \cup {dials + 1, dials + 2}
    BY <1>5, Zenon DEF ValidatorAddRegion, DialPair, PairConns
  <2>2. /\ dials' \in Nat /\ TableOK(table', dials') /\ 1..dials \subseteq 1..dials'
        /\ {dials + 1, dials + 2} \subseteq 1..dials'
        /\ live' = live \cup {dials + 1, dials + 2} /\ ~shut /\ UNCHANGED <<keeps, shut>>
    BY <2>1, StoredKeeps, Zenon
  <2>3. list \subseteq 1..dials /\ lost = {} /\ live \subseteq list
    BY <2>1, <2>2, Zenon DEF ConnInv
  <2> QED BY <2>1, <2>2, <2>3, Zenon DEF ConnInv, ConnectionsReleased
<1> QED BY <1>1, <1>2, <1>3, <1>4, <1>5, Zenon DEF ConnNext

-----------------------------------------------------------------------------
(* The compute node.                                                       *)

\* Before the listener fails only a signal cancels, and a server that drains
\* takes no call.
NodeInv ==
    /\ rpcs \in Nat
    /\ ctxEnded /\ serving = "serving" => signalled
    /\ draining => ctxEnded
    /\ serving = "returned" /\ listening => draining
    /\ DrainedFirst

LEMMA NodeInvNext == ASSUME NodeInv, NodeNext PROVE NodeInv'
  BY DEF NodeInv, DrainedFirst, NodeNext, Call, CallReturns, Signal, CancelServe, GracefulStop,
     ServeReturns, ListenerFails

\* Whatever fails while they start, however often they are initialised, shut
\* down, dialled, signalled or called, and for any numbers of these: the VM, the
\* clients and the compute node hold and give back what HandlesReleased says.
THEOREM HandlesAlwaysReleased == LifecycleSpec => []HandlesReleased
<1> DEFINE Inv == LifeInv /\ ConnInv /\ NodeInv
           Turn == \/ LifeNext /\ UNCHANGED <<connVars, nodeVars>>
                   \/ ConnNext /\ UNCHANGED <<lifeVars, nodeVars>>
                   \/ NodeNext /\ UNCHANGED <<lifeVars, connVars>>
<1>1. LifeInit /\ ConnInit /\ NodeInit => Inv
  <2>1. LifeInit => LifeInv
    BY WatchNone DEF LifeInit, LifeInv, OwnRunsNone, NodesReleased
  <2>2. ConnInit => ConnInv
    BY DEF ConnInit, ConnInv, TableOK, TableConns, ConnectionsReleased
  <2>3. NodeInit => NodeInv
    BY DEF NodeInit, NodeInv, DrainedFirst
  <2> QED BY <2>1, <2>2, <2>3, Zenon
<1>2. Inv /\ [Turn]_<<lifeVars, connVars, nodeVars>> => Inv'
  <2> SUFFICES ASSUME Inv, [Turn]_<<lifeVars, connVars, nodeVars>> PROVE Inv'
    BY Zenon
  <2>1. UNCHANGED lifeVars => LifeInv'
    BY DEF lifeVars, LifeInv, OwnRunsNone, NodesReleased
  <2>2. UNCHANGED connVars => ConnInv'
    BY DEF connVars, ConnInv, ConnectionsReleased
  <2>3. UNCHANGED nodeVars => NodeInv'
    BY DEF nodeVars, NodeInv, DrainedFirst
  <2> QED BY <2>1, <2>2, <2>3, LifeInvNext, ConnInvNext, NodeInvNext, Zenon
<1>3. Inv => HandlesReleased
  BY LifeImplies, Zenon DEF HandlesReleased, ConnInv, NodeInv
<1> QED BY <1>1, <1>2, <1>3, PTL DEF LifecycleSpec

-----------------------------------------------------------------------------
\* Sequences.
LEMMA ConcatProperties ==
    ASSUME NEW S, NEW s \in Seq(S), NEW t \in Seq(S)
    PROVE  /\ s \o t \in Seq(S) /\ Len(s \o t) = Len(s) + Len(t)
           /\ \A i \in 1..Len(s) + Len(t) : (s \o t)[i] = IF i <= Len(s) THEN s[i] ELSE t[i - Len(s)]
  OBVIOUS

LEMMA SeqEqual ==
    ASSUME NEW S, NEW s \in Seq(S), NEW t \in Seq(S), Len(s) = Len(t), \A i \in 1..Len(s) : s[i] = t[i]
    PROVE  s = t
  OBVIOUS

-----------------------------------------------------------------------------
(* The checks *)

LEMMA SortKnown ==
    ASSUME ValidationInit
    PROVE  /\ About("result") => subject \in Result
           /\ About("code") => subject \in Code
           /\ About("config") => subject \in Config
           /\ About("pair") => subject \in PairConfig
           /\ About("enclave") => subject \in Enclave
           /\ About("key") => subject \in RegionalKey
<1>1. /\ subject \in Result => subject.sort = "result"
      /\ subject \in Code => subject.sort = "code"
      /\ subject \in Config => subject.sort = "config"
  BY Zenon DEF Result, Code, Config
<1>2. /\ subject \in PairConfig => subject.sort = "pair"
      /\ subject \in Enclave => subject.sort = "enclave"
      /\ subject \in RegionalKey => subject.sort = "key"
  BY Zenon DEF PairConfig, Enclave, RegionalKey
<1> QED BY <1>1, <1>2, Zenon DEF ValidationInit, About

LEMMA PairsAndEvents == NoPairPassesBoth /\ ActionPairsMakeEvents
<1>1. NoPairPassesBoth
  BY Zenon DEF NoPairPassesBoth, verifyAttestationPair, verifyTEEExecution, verifyTEEAttestation
<1>2. ActionPairsMakeEvents
  BY Zenon
     DEF ActionPairsMakeEvents, verifyAttestationPair, ValidateEvent, ValidateAttestation, GetTimeUTC
<1> QED BY <1>1, <1>2, Zenon

LEMMA CodeApart == ASSUME ValidationInit PROVE NoCodePassesBoth
<1> SUFFICES ASSUME About("code")
             PROVE  ~(validateCode(subject) /\ ValidateCode(subject)) /\ ~validateCode(CreateCode(subject))
  BY Zenon DEF NoCodePassesBoth
<1>1. subject \in Code
  BY SortKnown, Zenon
<1>2. CreateCode(subject).start = "magic"
  BY <1>1, Zenon DEF CreateCode, Code
<1>3. ~validateCode(CreateCode(subject))
  BY <1>2, Zenon DEF validateCode
<1>4. ~(validateCode(subject) /\ ValidateCode(subject))
  BY Zenon DEF validateCode, ValidateCode
<1> QED BY <1>3, <1>4, Zenon

LEMMA CodeRuns == ASSUME ValidationInit PROVE AcceptedCodeRuns
<1> SUFFICES ASSUME ValidateCode(subject)
             PROVE  subject.format # Raw /\ (subject.tee = SGX => subject.body = "wasm")
  BY Zenon DEF AcceptedCodeRuns
<1>1. subject.format \in teeFormats(subject.tee)
  BY Zenon DEF ValidateCode, isFormatSupportedByTEE
<1>2. subject.format # Raw
  BY <1>1 DEF teeFormats, Raw, Wasm, Custom
<1>3. ASSUME subject.tee = SGX PROVE subject.body = "wasm"
  <2>1. subject.format = Wasm
    BY <1>1, <1>3, Zenon DEF teeFormats
  <2>2. Wasm # Raw /\ Wasm # Custom
    BY DEF Raw, Wasm, Custom
  <2> QED BY <2>1, <2>2, Zenon DEF ValidateCode, ValidateWasm
<1> QED BY <1>2, <1>3, Zenon

Apart(s, sep, t) == s \o <<sep>> \o t

\* A separator that occurs in neither part tells where the first one ends.
LEMMA SeparatorSplits ==
    ASSUME NEW S, NEW sep, sep \notin S, NEW s \in Seq(S), NEW t \in Seq(S), NEW u \in Seq(S), NEW v \in Seq(S),
           Apart(s, sep, t) = Apart(u, sep, v)
    PROVE  s = u /\ t = v
<1> DEFINE T == S \cup {sep}
           x == s \o <<sep>> \o t
           y == u \o <<sep>> \o v
<1>1. /\ s \in Seq(T) /\ t \in Seq(T) /\ u \in Seq(T) /\ v \in Seq(T) /\ <<sep>> \in Seq(T)
      /\ Len(<<sep>>) = 1 /\ <<sep>>[1] = sep
      /\ Len(s) \in Nat /\ Len(t) \in Nat /\ Len(u) \in Nat /\ Len(v) \in Nat
  OBVIOUS
<1>2. /\ Len(x) = Len(s) + 1 + Len(t) /\ x[Len(s) + 1] = sep
      /\ \A i \in 1..Len(s) : x[i] = s[i]
      /\ \A i \in 1..Len(t) : x[Len(s) + 1 + i] = t[i]
  BY <1>1
<1>3. /\ Len(y) = Len(u) + 1 + Len(v) /\ y[Len(u) + 1] = sep
      /\ \A i \in 1..Len(u) : y[i] = u[i]
      /\ \A i \in 1..Len(v) : y[Len(u) + 1 + i] = v[i]
  BY <1>1
<1>4. \A i \in 1..Len(s) : s[i] # sep
  OBVIOUS
<1>5. \A i \in 1..Len(u) : u[i] # sep
  OBVIOUS
<1>6. x = y
  BY Zenon DEF Apart
<1> HIDE DEF x, y
<1>7. ~(Len(s) < Len(u))
  <2> SUFFICES ASSUME Len(s) < Len(u) PROVE FALSE
    BY Zenon
  <2>1. Len(s) + 1 \in 1..Len(u)
    BY <1>1
  <2> QED BY <1>2, <1>3, <1>5, <1>6, <2>1, Zenon
<1>8. ~(Len(u) < Len(s))
  <2> SUFFICES ASSUME Len(u) < Len(s) PROVE FALSE
    BY Zenon
  <2>1. Len(u) + 1 \in 1..Len(s)
    BY <1>1
  <2> QED BY <1>2, <1>3, <1>4, <1>6, <2>1, Zenon
<1>9. Len(s) = Len(u) /\ Len(t) = Len(v)
  <2>1. Len(s) = Len(u)
    BY <1>1, <1>7, <1>8
  <2>2. Len(x) = Len(y)
    BY <1>6, Zenon
  <2>3. Len(s) + 1 + Len(t) = Len(u) + 1 + Len(v)
    BY <1>2, <1>3, <2>2, Zenon
  <2> QED BY <1>1, <2>1, <2>3
<1>10. \A i \in 1..Len(s) : s[i] = u[i]
  BY <1>2, <1>3, <1>6, <1>9, Zenon
<1>11. \A i \in 1..Len(t) : t[i] = v[i]
  BY <1>2, <1>3, <1>6, <1>9, Zenon
<1> QED BY <1>9, <1>10, <1>11, SeqEqual, Zenon

LEMMA BoundedIsSeq == ASSUME NEW S, NEW n \in Nat, NEW s \in SeqOf(S, n)
                      PROVE  s \in Seq(S) /\ Len(s) \in 0..n
  BY DEF SeqOf

LEMMA KeysTellPairs ==
    ASSUME NEW p \in [sgx : EnclaveIDs, sev : EnclaveIDs], NEW q \in [sgx : EnclaveIDs, sev : EnclaveIDs],
           pairKey(p) = pairKey(q)
    PROVE  p = q
<1>1. p.sgx \in EnclaveIDs /\ p.sev \in EnclaveIDs /\ q.sgx \in EnclaveIDs /\ q.sev \in EnclaveIDs
  BY Zenon
<1>2. p.sgx \in Seq(Digits) /\ p.sev \in Seq(Digits) /\ q.sgx \in Seq(Digits) /\ q.sev \in Seq(Digits)
  BY <1>1, BoundedIsSeq, Zenon DEF EnclaveIDs
<1> DEFINE a == p.sgx
           b == p.sev
           x == q.sgx
           y == q.sev
<1>3. Apart(a, ":", b) = Apart(x, ":", y)
  BY Zenon DEF pairKey, Apart
<1>4. ":" \notin Digits
  BY ValidationAssumption, Zenon
<1> HIDE DEF a, b, x, y
<1>5. a \in Seq(Digits) /\ b \in Seq(Digits) /\ x \in Seq(Digits) /\ y \in Seq(Digits)
  BY <1>2, Zenon DEF a, b, x, y
<1>6. a = x /\ b = y
  BY <1>3, <1>4, <1>5, SeparatorSplits
<1> QED BY <1>6 DEF a, b, x, y

LEMMA DuplicatesAlwaysFound == ASSUME ValidationInit PROVE DuplicatesFound
<1> DEFINE c == subject
           ids == [sgx : EnclaveIDs, sev : EnclaveIDs]
<1> SUFFICES ASSUME About("config"), c.id, c.limits, c.balancer, c.location
             PROVE  ValidateConfig(c)
                      <=> /\ c.pairs # <<>> /\ IsInjective(c.pairs)
                          /\ \A i \in DOMAIN c.pairs : <<>> \notin {c.pairs[i].sgx, c.pairs[i].sev}
  BY Zenon DEF DuplicatesFound
<1>1. c.pairs \in SeqOf(ids, 2)
  BY SortKnown, Zenon DEF Config
<1>2. c.pairs \in Seq(ids)
  BY <1>1, BoundedIsSeq, Zenon
<1> DEFINE l == c.pairs
<1>3. DOMAIN l = 1..Len(l) /\ Len(l) \in Nat /\ \A i \in DOMAIN l : l[i] \in ids
  <2> HIDE DEF ids, l
  <2>1. l \in Seq(ids)
    BY <1>2, Zenon DEF l
  <2> QED BY <2>1
<1>4. \A i, j \in DOMAIN l : pairKey(l[i]) = pairKey(l[j]) <=> l[i] = l[j]
  BY <1>3, KeysTellPairs, Zenon
<1>5. ValidateConfig(c)
        <=> /\ l # <<>>
            /\ \A i \in DOMAIN l : /\ l[i].sgx # <<>> /\ l[i].sev # <<>>
                                   /\ \A j \in 1..(i - 1) : pairKey(l[j]) # pairKey(l[i])
  BY Zenon DEF ValidateConfig
<1> HIDE DEF l, ids
<1>6. \A i \in DOMAIN l : \A j \in 1..(i - 1) : j \in DOMAIN l /\ j # i
  BY <1>3
<1>7. (\A i \in DOMAIN l : \A j \in 1..(i - 1) : pairKey(l[j]) # pairKey(l[i])) <=> IsInjective(l)
  <2>1. ASSUME IsInjective(l), NEW i \in DOMAIN l, NEW j \in 1..(i - 1) PROVE pairKey(l[j]) # pairKey(l[i])
    BY <1>4, <1>6, <2>1 DEF IsInjective
  <2>2. ASSUME \A i \in DOMAIN l : \A j \in 1..(i - 1) : pairKey(l[j]) # pairKey(l[i]),
               NEW i \in DOMAIN l, NEW j \in DOMAIN l, l[i] = l[j]
        PROVE  i = j
    <3>1. i \in Int /\ j \in Int /\ i >= 1 /\ j >= 1
      BY <1>3
    <3>2. ~(j < i)
      <4> SUFFICES ASSUME j < i PROVE FALSE
        BY Zenon
      <4>1. j \in 1..(i - 1)
        BY <3>1
      <4> QED BY <2>2, <4>1, Zenon
    <3>3. ~(i < j)
      <4> SUFFICES ASSUME i < j PROVE FALSE
        BY Zenon
      <4>1. i \in 1..(j - 1)
        BY <3>1
      <4> QED BY <2>2, <4>1, Zenon
    <3> QED BY <3>1, <3>2, <3>3
  <2> QED BY <2>1, <2>2, Zenon DEF IsInjective
<1>8. ValidateConfig(c)
        <=> /\ l # <<>> /\ IsInjective(l)
            /\ \A i \in DOMAIN l : <<>> \notin {l[i].sgx, l[i].sev}
  BY <1>5, <1>7, Zenon
<1> QED BY <1>8, Zenon DEF l

LEMMA OneValid == ASSUME ValidationInit PROVE OneDefaultValid
<1> SUFFICES ASSUME About("pair"), subject.named
             PROVE  ValidatePair(subject) <=> subject.from = NewTEEPairConfig
  BY Zenon DEF OneDefaultValid
<1>1. subject.from \in {NewTEEPairConfig, DefaultTEEPairConfig}
  BY SortKnown, Zenon DEF PairConfig
<1>2. CASE subject.from = NewTEEPairConfig
  <2> DEFINE n == NewTEEPairConfig
  <2>1. /\ n.capacity > 0 /\ Share(n.minSuccess) /\ n.maxError >= 0 /\ n.maxError < 100 /\ n.maxLatency > 0
        /\ n.interval > 0 /\ Share(n.maxCPU) /\ Share(n.maxMemory) /\ n.period > 0 /\ n.maxAge > n.period
    BY SMT DEF NewTEEPairConfig, Share
  <2> QED BY <1>2, <2>1, Zenon DEF ValidatePair
<1>3. CASE subject.from = DefaultTEEPairConfig
  <2>1. ~Share(subject.from.maxCPU)
    BY <1>3, SMT DEF DefaultTEEPairConfig, Share
  <2>2. Share(NewTEEPairConfig.maxCPU)
    BY SMT DEF NewTEEPairConfig, Share
  <2> QED BY <2>1, <2>2, Zenon DEF ValidatePair
<1> QED BY <1>1, <1>2, <1>3, Zenon

LEMMA SometimeValid == ASSUME ValidationInit PROVE ValidSometime
<1> SUFFICES ASSUME About("enclave"), ValidateEnclave(subject)
             PROVE  \E at \in Instants : IsValid(subject, at)
  BY Zenon DEF ValidSometime
<1>1. subject.from \in Instants /\ subject.until \in Instants
  BY SortKnown, Zenon DEF Enclave
<1>2. subject.from \in Nat /\ ~(subject.from > subject.until)
  BY <1>1, ValidationAssumption, Zenon DEF ValidateEnclave
<1>3. IsValid(subject, subject.from)
  BY <1>2 DEF IsValid
<1> QED BY <1>1, <1>3, Zenon

LEMMA KeysReadBack == ASSUME ValidationInit PROVE ReadBack
<1> DEFINE r == subject.region
           k == subject.key
           m == MakeRegionalKey(r, k)
<1> SUFFICES ASSUME About("key")
             PROVE  ParseRegionalKey(m) = <<r, k>> <=> Len(r) = 1 /\ Len(k) = 1
  BY Zenon DEF ReadBack
<1>1. r \in Paths /\ k \in Paths
  BY SortKnown, Zenon DEF RegionalKey
<1>2. r \in Seq(Parts) /\ k \in Seq(Parts) /\ r # <<>> /\ k # <<>>
  BY <1>1, BoundedIsSeq, Zenon DEF Paths
<1> HIDE DEF r, k
<1>3. Len(r) \in Nat /\ Len(k) \in Nat /\ Len(r) >= 1 /\ Len(k) >= 1
  BY <1>2
<1>4. Len(m) = 1 + Len(r) + Len(k) /\ m[1] = "r" /\ m[2] = r[1] /\ (Len(r) = 1 => m[3] = k[1])
  <2>1. r \in Seq(Parts \cup {"r"}) /\ k \in Seq(Parts \cup {"r"}) /\ <<"r">> \in Seq(Parts \cup {"r"})
    BY <1>2
  <2> QED BY <1>3, <2>1 DEF MakeRegionalKey
<1> HIDE DEF m
<1>5. ParseRegionalKey(m) = <<<<r[1]>>, <<m[3]>>>>
  BY <1>3, <1>4 DEF ParseRegionalKey
<1>6. ASSUME ParseRegionalKey(m) = <<r, k>> PROVE Len(r) = 1 /\ Len(k) = 1
  <2>1. r = <<r[1]>> /\ k = <<m[3]>>
    BY <1>5, <1>6
  <2> QED BY <2>1, Zenon
<1>7. ASSUME Len(r) = 1, Len(k) = 1 PROVE ParseRegionalKey(m) = <<r, k>>
  <2>1. r = <<r[1]>> /\ k = <<k[1]>>
    BY <1>2, <1>7
  <2> QED BY <1>4, <1>5, <1>7, <2>1, Zenon
<1> QED BY <1>6, <1>7, Zenon

\* The validators of actions, vm, core and regions compare as ChecksCompared says
\* on everything they can be given, for any sizes, instants and window: where two
\* checks of one thing agree, where nothing passes both, and when a joined key
\* can be taken apart again.
THEOREM ChecksAlwaysCompared == ValidationSpec => []ChecksCompared
<1>1. ValidationInit /\ [FALSE]_subject => ValidationInit'
  BY Zenon DEF ValidationInit
<1>2. ValidationInit => ChecksCompared
  BY PairsAndEvents, CodeApart, CodeRuns, DuplicatesAlwaysFound, OneValid, SometimeValid, KeysReadBack,
     Zenon
     DEF ChecksCompared
<1> QED BY <1>1, <1>2, PTL DEF ValidationSpec

-----------------------------------------------------------------------------
(* The stores *)

StoreKinds == {"config", "settings", "state", "metrics", "region"}

KeyOf(k, r) ==
    IF k = "region" THEN <<"region", r>>
    ELSE <<k, r, IF k \in {"state", "metrics"} THEN "p" ELSE NoName>>

ObjectKey(r) == makeRegionalKey(r, makeRegionKey(r, "object", "x"))

RouteInv ==
    /\ \A k \in StoreKinds, r \in StoreRegions : <<k, r>> \in DOMAIN setTo => At(backing, KeyOf(k, r)) = setTo[<<k, r>>]
    /\ \A x \in DOMAIN backing : \E k \in StoreKinds, r \in StoreRegions : x = KeyOf(k, r)
    /\ \A x \in DOMAIN merkle : \E r \in StoreRegions : x = ObjectKey(r)
    /\ \A r \in DOMAIN nested : DOMAIN nested[r] = {}

LEMMA KeyParts ==
    ASSUME NEW k \in StoreKinds, NEW r
    PROVE  KeyOf(k, r)[1] = k /\ KeyOf(k, r)[2] = r /\ k # "r" /\ (k = "region" => Len(KeyOf(k, r)) = 2)
  BY Zenon DEF KeyOf, StoreKinds

LEMMA StoreKeysApart ==
    ASSUME NEW k \in StoreKinds, NEW r, NEW l \in StoreKinds, NEW q, KeyOf(k, r) = KeyOf(l, q)
    PROVE  k = l /\ r = q
  BY KeyParts

LEMMA NotRegional == ASSUME NEW k \in StoreKinds, NEW r PROVE ~IsRegionalKey(KeyOf(k, r))
  BY KeyParts, Zenon DEF IsRegionalKey

LEMMA KeyNames ==
    ASSUME NEW r
    PROVE  /\ KeyOf("config", r) = makeRegionKey("config", r, NoName)
           /\ KeyOf("settings", r) = makeRegionKey("settings", r, NoName)
           /\ KeyOf("state", r) = makeRegionKey("state", r, "p")
           /\ KeyOf("metrics", r) = makeRegionKey("metrics", r, "p")
           /\ KeyOf("region", r) = <<"region", r>>
  BY Zenon DEF KeyOf, makeRegionKey

LEMMA Bound == ASSUME NEW f, NEW k, NEW v, NEW j
               PROVE  At(Bind(f, k, v), j) = IF j = k THEN {v} ELSE At(f, j)
<1>1. CASE j = k
  BY <1>1, Zenon DEF At, Bind
<1>2. CASE j # k
  BY <1>2, Zenon DEF At, Bind
<1> QED BY <1>1, <1>2, Zenon

LEMMA Dropped == ASSUME NEW f, NEW k, NEW j
                 PROVE  At(Erase(f, k), j) = IF j = k THEN {} ELSE At(f, j)
<1>1. CASE j = k
  BY <1>1, Zenon DEF At, Erase, Restrict
<1>2. CASE j # k
  BY <1>2, Zenon DEF At, Erase, Restrict
<1> QED BY <1>1, <1>2, Zenon

LEMMA BoundDomain == ASSUME NEW f, NEW k, NEW v PROVE DOMAIN Bind(f, k, v) = DOMAIN f \cup {k}
  BY Zenon DEF Bind

LEMMA BoundHere == ASSUME NEW f, NEW k, NEW v PROVE Bind(f, k, v)[k] = v
  BY Zenon DEF Bind

LEMMA BoundElse == ASSUME NEW f, NEW k, NEW v, NEW j \in DOMAIN f, j # k PROVE Bind(f, k, v)[j] = f[j]
  BY Zenon DEF Bind

\* A record set, or deleted, under its own key.
SetsRecord(k, r, v) ==
    /\ backing' = Bind(backing, KeyOf(k, r), v) /\ setTo' = Bind(setTo, <<k, r>>, {v})
    /\ UNCHANGED <<merkle, nested>>

DeletesRecord(k, r) ==
    /\ backing' = Erase(backing, KeyOf(k, r)) /\ setTo' = Bind(setTo, <<k, r>>, {})
    /\ UNCHANGED <<merkle, nested>>

LEMMA RecordKeeps ==
    ASSUME RouteInv, NEW k \in StoreKinds, NEW r \in StoreRegions,
           NEW b, NEW vs, \A x : At(b, x) = IF x = KeyOf(k, r) THEN vs ELSE At(backing, x),
           \A x \in DOMAIN b : x \in DOMAIN backing \/ x = KeyOf(k, r),
           backing' = b, setTo' = Bind(setTo, <<k, r>>, vs), UNCHANGED <<merkle, nested>>
    PROVE  RouteInv'
<1>1. ASSUME NEW l \in StoreKinds, NEW q \in StoreRegions, <<l, q>> \in DOMAIN setTo'
      PROVE  At(b, KeyOf(l, q)) = setTo'[<<l, q>>]
  <2>1. CASE <<l, q>> = <<k, r>>
    <3>1. l = k /\ q = r
      BY <2>1, Zenon
    <3>2. At(b, KeyOf(k, r)) = vs
      BY Zenon
    <3>3. setTo'[<<k, r>>] = vs
      BY BoundHere
    <3> QED BY <3>1, <3>2, <3>3, Zenon
  <2>2. CASE <<l, q>> # <<k, r>>
    <3>1. KeyOf(l, q) # KeyOf(k, r)
      BY <2>2, StoreKeysApart, Zenon
    <3>5. DOMAIN setTo' = DOMAIN setTo \cup {<<k, r>>}
      BY BoundDomain, Zenon
    <3>2. <<l, q>> \in DOMAIN setTo
      BY <1>1, <2>2, <3>5, Zenon
    <3>4. setTo'[<<l, q>>] = setTo[<<l, q>>]
      BY <2>2, <3>2, BoundElse, Zenon
    <3>3. At(b, KeyOf(l, q)) = At(backing, KeyOf(l, q))
      BY <3>1, Zenon
    <3> QED BY <3>2, <3>3, <3>4, Zenon DEF RouteInv
  <2> QED BY <2>1, <2>2, Zenon
<1>2. \A x \in DOMAIN b : \E l \in StoreKinds, q \in StoreRegions : x = KeyOf(l, q)
  BY Zenon DEF RouteInv
<1> QED BY <1>1, <1>2, Zenon DEF RouteInv

LEMMA SetKeeps ==
    ASSUME RouteInv, NEW k \in StoreKinds, NEW r \in StoreRegions, NEW v, SetsRecord(k, r, v) PROVE RouteInv'
<1> DEFINE b == Bind(backing, KeyOf(k, r), v)
<1>1. \A x : At(b, x) = IF x = KeyOf(k, r) THEN {v} ELSE At(backing, x)
  BY Bound
<1>2. \A x \in DOMAIN b : x \in DOMAIN backing \/ x = KeyOf(k, r)
  <2>1. DOMAIN b = DOMAIN backing \cup {KeyOf(k, r)}
    BY BoundDomain, Zenon
  <2> QED BY <2>1, Zenon
<1>3. backing' = b /\ setTo' = Bind(setTo, <<k, r>>, {v}) /\ UNCHANGED <<merkle, nested>>
  BY Zenon DEF SetsRecord
<1> HIDE DEF b
<1> QED BY <1>1, <1>2, <1>3, RecordKeeps, Zenon

LEMMA DeleteKeeps ==
    ASSUME RouteInv, NEW k \in StoreKinds, NEW r \in StoreRegions, DeletesRecord(k, r) PROVE RouteInv'
<1> DEFINE b == Erase(backing, KeyOf(k, r))
<1>1. \A x : At(b, x) = IF x = KeyOf(k, r) THEN {} ELSE At(backing, x)
  BY Dropped, Zenon
<1>2. \A x \in DOMAIN b : x \in DOMAIN backing \/ x = KeyOf(k, r)
  BY Zenon DEF Erase, Restrict
<1>3. backing' = b /\ setTo' = Bind(setTo, <<k, r>>, {}) /\ UNCHANGED <<merkle, nested>>
  BY Zenon DEF DeletesRecord
<1> HIDE DEF b
<1> QED BY <1>1, <1>2, <1>3, RecordKeeps, Zenon

\* What a write or a removal through StateManager does to a key that is not regional.
LEMMA InsertPlain ==
    ASSUME NEW k \in StoreKinds, NEW r, NEW v, StoreInsert(KeyOf(k, r), v), Sets(<<k, r>>, {v})
    PROVE  SetsRecord(k, r, v)
  BY NotRegional, Zenon DEF StoreInsert, Sets, SetsRecord

LEMMA RemovePlain ==
    ASSUME NEW k \in StoreKinds, NEW r, StoreRemove(KeyOf(k, r)), Sets(<<k, r>>, {})
    PROVE  DeletesRecord(k, r)
  BY NotRegional, Zenon DEF StoreRemove, Sets, DeletesRecord

LEMMA RegionalParts ==
    ASSUME NEW r, NEW a, NEW b, NEW c
    PROVE  LET x == makeRegionalKey(r, makeRegionKey(a, b, c))
           IN  Len(x) >= 2 /\ x[1] = "r" /\ x[2] = r /\ x[3] = a /\ x[4] = b
<1> DEFINE S == {"r", r, a, b, c}
           s == <<"r", r>>
           t == <<a, b, c>>
<1>1. /\ s \in Seq(S) /\ t \in Seq(S) /\ Len(s) = 2 /\ Len(t) = 3
      /\ s[1] = "r" /\ s[2] = r /\ t[1] = a /\ t[2] = b
  OBVIOUS
<1> HIDE DEF S, s, t
<1>3. /\ Len(s \o t) = Len(s) + Len(t)
      /\ \A i \in 1..(Len(s) + Len(t)) : (s \o t)[i] = IF i <= Len(s) THEN s[i] ELSE t[i - Len(s)]
  BY <1>1, ConcatProperties, Zenon
<1>2. /\ Len(s \o t) = 5 /\ (s \o t)[1] = s[1] /\ (s \o t)[2] = s[2]
      /\ (s \o t)[3] = t[1] /\ (s \o t)[4] = t[2]
  <2> DEFINE x == s \o t
  <2>1. Len(x) = 5 /\ \A i \in 1..5 : x[i] = IF i <= 2 THEN s[i] ELSE t[i - 2]
    BY <1>1, <1>3
  <2> HIDE DEF x
  <2>2. x[1] = s[1] /\ x[2] = s[2] /\ x[3] = t[1] /\ x[4] = t[2]
    BY <2>1
  <2> QED BY <2>1, <2>2, Zenon DEF x
<1> QED BY <1>1, <1>2 DEF makeRegionalKey, makeRegionKey, s, t

LEMMA ObjectKeeps ==
    ASSUME RouteInv, NEW r \in StoreRegions, NEW v, SetRegionObject(r, "x", v) PROVE RouteInv'
<1>1. merkle' = Bind(merkle, ObjectKey(r), v) /\ UNCHANGED <<backing, nested, setTo>>
  BY Zenon DEF SetRegionObject, MerkleInsert, ObjectKey
<1>3. DOMAIN Bind(merkle, ObjectKey(r), v) = DOMAIN merkle \cup {ObjectKey(r)}
  BY BoundDomain, Zenon
<1>2. \A x \in DOMAIN merkle' : x \in DOMAIN merkle \/ x = ObjectKey(r)
  BY <1>1, <1>3, Zenon
<1> QED BY <1>1, <1>2, Zenon DEF RouteInv

LEMMA StoreEmpty == ASSUME RouteInv, NEW r
                    PROVE  /\ r \in DOMAIN GetRegionalStore(r) /\ DOMAIN GetRegionalStore(r)[r] = {}
                           /\ \A q \in DOMAIN GetRegionalStore(r) : DOMAIN GetRegionalStore(r)[q] = {}
<1>1. DOMAIN Nothing = {}
  BY Zenon DEF Nothing
<1>2. CASE r \in DOMAIN nested
  BY <1>2, Zenon DEF GetRegionalStore, RouteInv
<1>3. CASE r \notin DOMAIN nested
  <2>1. GetRegionalStore(r) = Bind(nested, r, Nothing)
    BY <1>3, Zenon DEF GetRegionalStore
  <2>2. DOMAIN Bind(nested, r, Nothing) = DOMAIN nested \cup {r}
    BY BoundDomain, Zenon
  <2>3. Bind(nested, r, Nothing)[r] = Nothing
    BY BoundHere
  <2>4. \A q \in DOMAIN nested : Bind(nested, r, Nothing)[q] = nested[q]
    BY <1>3, BoundElse, Zenon
  <2> QED BY <1>1, <2>1, <2>2, <2>3, <2>4, Zenon DEF RouteInv
<1> QED BY <1>2, <1>3, Zenon

LEMMA RegionalKeeps ==
    ASSUME RouteInv, NEW r \in StoreRegions, NEW v,
           \/ StoreInsert(<<"r", r, "object">>, v)
           \/ StoreRemove(<<"r", r, "object">>),
           UNCHANGED setTo
    PROVE  RouteInv'
<1> DEFINE key == <<"r", r, "object">>
           found == GetRegionalStore(r)
<1>1. IsRegionalKey(key) /\ key[2] = r
  BY DEF IsRegionalKey
<1>2. r \in DOMAIN found /\ \A q \in DOMAIN found : DOMAIN found[q] = {}
  BY StoreEmpty, Zenon
<1>3. UNCHANGED <<backing, merkle>>
  BY <1>1, Zenon DEF StoreInsert, StoreRemove
<1>4. nested' = found \/ nested' = [found EXCEPT ![r] = Erase(found[r], makeRegionalKey(r, key))]
  BY <1>1, Zenon DEF StoreInsert, StoreRemove
<1>5. DOMAIN Erase(found[r], makeRegionalKey(r, key)) = {}
  BY <1>2, Zenon DEF Erase, Restrict
<1> HIDE DEF found, key
<1>6. \A q \in DOMAIN nested' : DOMAIN nested'[q] = {}
  BY <1>2, <1>4, <1>5, Zenon
<1> QED BY <1>3, <1>6, Zenon DEF RouteInv

LEMMA RouteStep == ASSUME RouteInv, RouteNext PROVE RouteInv'
<1>0. \A k \in StoreKinds, r \in StoreRegions : \A v : SetsRecord(k, r, v) => RouteInv'
  BY SetKeeps, Zenon
<1>1. ASSUME NEW r \in StoreRegions, NEW v \in StoreValues,
             SetRegionConfig(r, v) \/ SaveRegionSettings(r, v) \/ SavePairState(r, "p", v)
               \/ SavePairMetrics(r, "p", v) \/ SaveRegionRecord(r, v)
      PROVE  RouteInv'
  <2>0. "config" \in StoreKinds /\ "settings" \in StoreKinds /\ "state" \in StoreKinds /\ "metrics" \in StoreKinds
        /\ "region" \in StoreKinds
    BY Zenon DEF StoreKinds
  <2>1. CASE SetRegionConfig(r, v)
    BY <2>0, <2>1, KeyNames, InsertPlain, SetKeeps DEF SetRegionConfig
  <2>2. CASE SaveRegionSettings(r, v)
    BY <2>0, <2>2, KeyNames, InsertPlain, SetKeeps DEF SaveRegionSettings
  <2>3. CASE SavePairState(r, "p", v)
    BY <2>0, <2>3, KeyNames, InsertPlain, SetKeeps DEF SavePairState
  <2>4. CASE SavePairMetrics(r, "p", v)
    BY <2>0, <2>4, KeyNames, InsertPlain, SetKeeps DEF SavePairMetrics
  <2>5. CASE SaveRegionRecord(r, v)
    BY <2>0, <2>5, KeyNames, InsertPlain, SetKeeps DEF SaveRegionRecord
  <2> QED BY <1>1, <2>1, <2>2, <2>3, <2>4, <2>5, Zenon
<1>2. ASSUME NEW r \in StoreRegions, DeleteRegionConfig(r) \/ DeleteRegionRecord(r) PROVE RouteInv'
  <2>0. "config" \in StoreKinds /\ "region" \in StoreKinds
    BY Zenon DEF StoreKinds
  <2>1. CASE DeleteRegionConfig(r)
    BY <2>0, <2>1, KeyNames, RemovePlain, DeleteKeeps, Zenon DEF DeleteRegionConfig
  <2>2. CASE DeleteRegionRecord(r)
    <3>1. DeletesRecord("region", r)
      BY <2>2, KeyNames, Zenon DEF DeleteRegionRecord, DeletesRecord, Sets
    <3> QED BY <2>0, <3>1, DeleteKeeps, Zenon
  <2> QED BY <1>2, <2>1, <2>2, Zenon
<1> QED BY <1>1, <1>2, ObjectKeeps, RegionalKeeps, Zenon DEF RouteNext

LEMMA RouteShows ==
    ASSUME RouteInv PROVE RecordsIndependent /\ RegionalKeysUnread /\ ProofOfAbsence
<1>1. RecordsIndependent
  <2>1. ASSUME NEW k \in StoreKinds, NEW r \in StoreRegions, <<k, r>> \in DOMAIN setTo
        PROVE  StoreGetValue(KeyOf(k, r)) = setTo[<<k, r>>]
    BY <2>1, NotRegional, Zenon DEF StoreGetValue, RouteInv
  <2>2. "config" \in StoreKinds /\ "settings" \in StoreKinds /\ "state" \in StoreKinds /\ "metrics" \in StoreKinds
        /\ "region" \in StoreKinds
    BY Zenon DEF StoreKinds
  <2> QED BY <2>1, <2>2, KeyNames, Zenon
             DEF RecordsIndependent, GetRegionConfig, LoadRegionMap, GetRegionSettings,
             GetPairState, GetPairMetrics, LoadRegionRecord
<1>2. RegionalKeysUnread
  <2>1. ASSUME NEW x, IsRegionalKey(x) PROVE StoreGetValue(x) = {}
    BY <2>1, StoreEmpty, Zenon DEF StoreGetValue, At
  <2>2. \A r \in StoreRegions : IsRegionalKey(<<"r", r, "object">>) /\ IsRegionalKey(ObjectKey(r))
    BY RegionalParts DEF IsRegionalKey, ObjectKey
  <2> QED BY <2>1, <2>2, Zenon DEF RegionalKeysUnread, RouteInv
<1>3. ProofOfAbsence
  <2> SUFFICES ASSUME NEW r \in StoreRegions PROVE GetRegionProof(r) = {}
    BY Zenon DEF ProofOfAbsence
  <2> DEFINE x == makeRegionalKey(r, makeRegionKey("config", r, NoName))
  <2>1. x[2] = r /\ x[3] = "config" /\ x[4] = r
    BY RegionalParts
  <2>2. \A q : x # ObjectKey(q)
    <3> SUFFICES ASSUME NEW q, x = ObjectKey(q) PROVE FALSE
      BY Zenon
    <3>2. ObjectKey(q)[2] = q /\ ObjectKey(q)[3] = q /\ ObjectKey(q)[4] = "object"
      BY RegionalParts DEF ObjectKey
    <3> HIDE DEF x
    <3> QED BY <2>1, <3>2, Zenon
  <2> HIDE DEF x
  <2>3. x \notin DOMAIN merkle
    BY <2>2, Zenon DEF RouteInv
  <2> QED BY <2>3, Zenon DEF GetRegionProof, At, x
<1> QED BY <1>1, <1>2, <1>3, Zenon

-----------------------------------------------------------------------------
States == [workers : {0, 2}, nil : BOOLEAN, tasks : SUBSET QueueIDs]

StateInv ==
    /\ panicked \in BOOLEAN /\ nilSet \in BOOLEAN /\ workersSet \in BOOLEAN
    /\ \A s \in coordState : /\ s \in States
                             /\ s.nil => nilSet
                             /\ s.workers = 2 => workersSet
    /\ panicked => nilSet
    /\ \A e \in QueueIDs : <<"event", e>> \in eventKeys <=> <<NoName, e>> \in queued

LEMMA StateRead ==
    ASSUME StateInv
    PROVE  LET s == GetCoordinationState
           IN  s \in States /\ (s.nil => nilSet) /\ (s.workers = 2 => workersSet)
<1>1. CASE coordState = {}
  BY <1>1 DEF GetCoordinationState, States
<1>2. CASE coordState # {}
  <2>1. GetCoordinationState \in coordState
    BY <1>2, Zenon DEF GetCoordinationState
  <2> QED BY <2>1, Zenon DEF StateInv
<1> QED BY <1>1, <1>2, Zenon

LEMMA SetStateKeeps ==
    ASSUME StateInv, NEW s \in States, SetObjectState(s) PROVE StateInv'
<1>1. /\ coordState' = {s} /\ nilSet' = (nilSet \/ s.nil) /\ workersSet' = (workersSet \/ s.workers = 2)
      /\ UNCHANGED <<eventKeys, queued, panicked>>
  BY Zenon DEF SetObjectState, SetCoordinationState
<1>2. s.nil \in BOOLEAN
  BY Zenon DEF States
<1> QED BY <1>1, <1>2, Zenon DEF StateInv

LEMMA EventKeyKnown ==
    ASSUME NEW r, NEW e, NEW d
    PROVE  makeEventKey(r, e) = <<"event", d>> <=> <<r, e>> = <<NoName, d>>
<1>1. CASE r = NoName
  BY <1>1, Zenon DEF makeEventKey
<1>2. CASE r # NoName
  <2> DEFINE x == <<"r", r, "event", e>>
             y == <<"event", d>>
  <2>1. x[1] = "r" /\ y[1] = "event"
    BY Zenon
  <2> HIDE DEF x, y
  <2>2. x # y
    BY <2>1, Zenon
  <2> QED BY <1>2, <2>2, Zenon DEF makeEventKey, x, y
<1> QED BY <1>1, <1>2, Zenon

LEMMA QueueKeeps ==
    ASSUME StateInv, ~panicked, NEW r, NEW e \in QueueIDs, NEW tracked \in BOOLEAN, QueueEvent(r, e, tracked)
    PROVE  StateInv'
<1>1. /\ eventKeys' = eventKeys \cup {makeEventKey(r, e)} /\ queued' = queued \cup {<<r, e>>}
      /\ UNCHANGED <<nilSet, workersSet>>
  BY Zenon DEF QueueEvent
<1>2. \A d \in QueueIDs : <<"event", d>> \in eventKeys' <=> <<NoName, d>> \in queued'
  <2> SUFFICES ASSUME NEW d \in QueueIDs PROVE <<"event", d>> \in eventKeys' <=> <<NoName, d>> \in queued'
    BY Zenon
  <2>1. makeEventKey(r, e) = <<"event", d>> <=> <<r, e>> = <<NoName, d>>
    BY EventKeyKnown
  <2>2. <<"event", d>> \in eventKeys <=> <<NoName, d>> \in queued
    BY Zenon DEF StateInv
  <2> QED BY <1>1, <2>1, <2>2, Zenon
<1>3. CASE ~tracked
  <2>1. UNCHANGED <<coordState, panicked>>
    BY <1>3, Zenon DEF QueueEvent
  <2> QED BY <1>1, <1>2, <2>1, Zenon DEF StateInv
<1>4. CASE tracked
  <2> DEFINE s == GetCoordinationState
             t == [s EXCEPT !.tasks = @ \cup {e}]
  <2>1. s \in States /\ (s.nil => nilSet) /\ (s.workers = 2 => workersSet)
    BY StateRead, Zenon
  <2>2. panicked' = s.nil /\ (coordState' = coordState \/ coordState' = {t})
    BY <1>4, Zenon DEF QueueEvent, UpdateTaskState, SetCoordinationState
  <2> HIDE DEF s
  <2>3. t \in States /\ t.nil = s.nil /\ t.workers = s.workers /\ s.nil \in BOOLEAN
    BY <2>1, Zenon DEF States
  <2> HIDE DEF t
  <2> QED BY <1>1, <1>2, <2>1, <2>2, <2>3, Zenon DEF StateInv
<1> QED BY <1>3, <1>4, Zenon

LEMMA StateStep == ASSUME StateInv, StateNext PROVE StateInv'
<1>1. ASSUME NEW w \in {0, 2}, NEW b \in BOOLEAN, NEW ts \in SUBSET QueueIDs,
             SetObjectState([workers |-> w, nil |-> b, tasks |-> ts])
      PROVE  StateInv'
  <2>1. [workers |-> w, nil |-> b, tasks |-> ts] \in States
    BY Zenon DEF States
  <2> QED BY <1>1, <2>1, SetStateKeeps, Zenon
<1>2. {} \in SUBSET QueueIDs /\ TRUE \in BOOLEAN /\ FALSE \in BOOLEAN
  BY Zenon
<1>3. ~panicked
  BY Zenon DEF StateNext
<1>4. CASE \E w \in {0, 2} :
             \/ SetObjectState([workers |-> w, nil |-> TRUE, tasks |-> {}])
             \/ \E ts \in SUBSET QueueIDs : SetObjectState([workers |-> w, nil |-> FALSE, tasks |-> ts])
  BY <1>1, <1>2, <1>4, Zenon
<1>5. CASE \E r \in StoreRegions \cup {NoName}, e \in QueueIDs, tracked \in BOOLEAN : QueueEvent(r, e, tracked)
  BY <1>3, <1>5, QueueKeeps, Zenon
<1> QED BY <1>4, <1>5, Zenon DEF StateNext

LEMMA StateShows == ASSUME StateInv PROVE EventsQueued
<1>1. ValidNeedsWorkers
  <2> SUFFICES ASSUME NEW s \in coordState, s.workers >= 2 PROVE workersSet
    BY Zenon DEF ValidNeedsWorkers, ValidateCoordinationState
  <2>1. s.workers \in {0, 2}
    BY Zenon DEF StateInv, States
  <2>2. s.workers = 2
    BY <2>1
  <2> QED BY <2>2, Zenon DEF StateInv
<1>2. PanicNeedsNilMap /\ GlobalEventsOnly
  BY Zenon DEF StateInv, PanicNeedsNilMap, GlobalEventsOnly, GetEvent
<1> QED BY <1>1, <1>2, Zenon DEF EventsQueued

-----------------------------------------------------------------------------
ConfigShape(rd) == rd = [pc |-> rd.pc, region |-> rd.region, value |-> rd.value]

LEMMA NewReader == ASSUME NEW a, NEW b, NEW c PROVE ConfigShape([pc |-> a, region |-> b, value |-> c])
  BY Zenon DEF ConfigShape

\* The only write under way of a region that is not overlapped will cache what was
\* stored last.
ConfigInv ==
    /\ DOMAIN configCache \subseteq ConfigRegions /\ DOMAIN configSet = ConfigRegions
    /\ \A r \in DOMAIN configCache : r \notin overlapped /\ Pending(r) = {} => configCache[r] = configSet[r]
    /\ DOMAIN configWriter = ConfigWriters
    /\ \A w \in ConfigWriters : \A r : w \in Pending(r) =>
         r \in ConfigRegions /\ (r \notin overlapped => Pending(r) = {w} /\ configWriter[w].value = configSet[r])
    /\ DOMAIN configView \subseteq ConfigRegions
    /\ \A r \in DOMAIN configView : configView[r] = configSet[r] /\ \A q \in DOMAIN configView : q = r
    /\ ConfigShape(configRead)
    /\ configRead.pc # "idle" => configRead.region \in ConfigRegions
    /\ configRead.pc = "fill" /\ configRead.region \notin overlapped => configRead.value = configSet[configRead.region]

\* A region written: vs is what it holds now, and what its writer will cache.
ConfigWritten(w, r, vs) ==
    /\ ConfigStored(w, r, vs)
    /\ configWriter' = [configWriter EXCEPT ![w] = [pc |-> "cache", region |-> r, value |-> vs]]

LEMMA WriteKeeps ==
    ASSUME ConfigInv, NEW w \in ConfigWriters, NEW r \in ConfigRegions, NEW vs, ConfigWritten(w, r, vs)
    PROVE  ConfigInv'
<1>1. /\ configSet' = [configSet EXCEPT ![r] = vs] /\ UNCHANGED <<configCache, configRead>>
      /\ DOMAIN configSet' = ConfigRegions /\ configSet'[r] = vs
      /\ \A q \in ConfigRegions : q # r => configSet'[q] = configSet[q]
  BY Zenon DEF ConfigWritten, ConfigStored, ConfigInv
<1>2. /\ \A q \in DOMAIN configView' : q = r /\ configView'[q] = vs
  BY Zenon DEF ConfigWritten, ConfigStored, updateState
<1>3. \A q : q # r => (q \in overlapped' <=> q \in overlapped)
  BY Zenon DEF ConfigWritten, ConfigStored, Overlap
<1>4. /\ configRead.pc # "idle" /\ configRead.region = r => r \in overlapped'
      /\ Pending(r) # {} => r \in overlapped'
  BY Zenon DEF ConfigWritten, ConfigStored, Overlap
<1>5. /\ DOMAIN configWriter' = ConfigWriters
      /\ configWriter'[w].value = vs /\ \A x \in ConfigWriters : x # w => configWriter'[x] = configWriter[x]
      /\ \A q : Pending(q)' = IF q = r THEN Pending(q) \cup {w} ELSE Pending(q)
  <2> DEFINE c == [pc |-> "cache", region |-> r, value |-> vs]
  <2>1. c.pc # "idle" /\ c.region = r /\ c.value = vs
    BY DEF ConfigWritten
  <2>2. configWriter' = [configWriter EXCEPT ![w] = c] /\ DOMAIN configWriter = ConfigWriters
    BY Zenon DEF ConfigWritten, ConfigInv
  <2>3. \A q : w \notin Pending(q)
    BY Zenon DEF ConfigWritten, ConfigStored, Pending
  <2> HIDE DEF c
  <2>4. /\ DOMAIN configWriter' = ConfigWriters /\ configWriter'[w] = c
        /\ \A x \in ConfigWriters : x # w => configWriter'[x] = configWriter[x]
    BY <2>2, Zenon
  <2>5. ASSUME NEW q PROVE Pending(q)' = IF q = r THEN Pending(q) \cup {w} ELSE Pending(q)
    <3>1. ASSUME NEW x PROVE x \in Pending(q)' <=> x \in Pending(q) \/ (x = w /\ q = r)
      <4>1. CASE x = w
        BY <2>1, <2>3, <2>4, <4>1, Zenon DEF Pending
      <4>2. CASE x # w
        BY <2>4, <4>2, Zenon DEF Pending
      <4> QED BY <4>1, <4>2, Zenon
    <3> QED BY <3>1
  <2> QED BY <2>1, <2>4, <2>5, Zenon
<1>6. /\ DOMAIN configCache' \subseteq ConfigRegions
      /\ \A q \in DOMAIN configCache' : q \notin overlapped' /\ Pending(q)' = {} => configCache'[q] = configSet'[q]
  <2>1. ASSUME NEW q \in DOMAIN configCache, q \notin overlapped', Pending(q)' = {} PROVE configCache[q] = configSet'[q]
    <3>1. q # r
      BY <1>5, <2>1, Zenon
    <3> QED BY <1>1, <1>3, <1>5, <2>1, <3>1, Zenon DEF ConfigInv
  <2> QED BY <1>1, <2>1, Zenon DEF ConfigInv
<1>7. configRead'.pc = "fill" /\ configRead'.region \notin overlapped' => configRead'.value = configSet'[configRead'.region]
  BY <1>1, <1>3, <1>4, Zenon DEF ConfigInv
<1>8. ASSUME NEW x \in ConfigWriters, NEW q, x \in Pending(q)'
      PROVE  q \in ConfigRegions /\ (q \notin overlapped' => Pending(q)' = {x} /\ configWriter'[x].value = configSet'[q])
  <2>1. CASE q = r
    <3>1. q \notin overlapped' => Pending(q)' = {w} /\ x = w
      BY <1>4, <1>5, <1>8, <2>1, Zenon
    <3> QED BY <1>1, <1>5, <2>1, <3>1, Zenon
  <2>2. CASE q # r
    <3>1. Pending(q)' = Pending(q) /\ x \in Pending(q) /\ w \notin Pending(q)
      BY <1>5, <1>8, <2>2, Zenon DEF ConfigWritten, ConfigStored, Pending
    <3>2. configWriter'[x] = configWriter[x]
      BY <1>5, <3>1, Zenon
    <3>3. q \in ConfigRegions /\ (q \notin overlapped => Pending(q) = {x} /\ configWriter[x].value = configSet[q])
      BY <3>1, Zenon DEF ConfigInv
    <3>4. configSet'[q] = configSet[q] /\ (q \in overlapped' <=> q \in overlapped)
      BY <1>1, <1>3, <2>2, <3>3, Zenon
    <3> QED BY <3>1, <3>2, <3>3, <3>4, Zenon
  <2> QED BY <2>1, <2>2, Zenon
<1>9. DOMAIN configView' \subseteq ConfigRegions
      /\ \A q \in DOMAIN configView' : configView'[q] = configSet'[q] /\ \A u \in DOMAIN configView' : u = q
  BY <1>1, <1>2, Zenon
<1>10. ConfigShape(configRead') /\ (configRead'.pc # "idle" => configRead'.region \in ConfigRegions)
  BY <1>1, Zenon DEF ConfigInv
<1> QED BY <1>1, <1>5, <1>6, <1>7, <1>8, <1>9, <1>10, Zenon DEF ConfigInv

LEMMA CacheKeeps ==
    ASSUME ConfigInv, NEW w \in ConfigWriters, CacheWrite(w) PROVE ConfigInv'
<1> DEFINE R == configWriter[w].region
           V == configWriter[w].value
<1>1. /\ w \in Pending(R) /\ UNCHANGED <<configView, configRead, configSet, overlapped>>
      /\ configCache' = Bind(configCache, R, V) \/ configCache' = Erase(configCache, R)
      /\ configWriter' = [configWriter EXCEPT ![w] = NotReadingConfig]
      /\ DOMAIN configWriter = ConfigWriters
  BY DEF CacheWrite, Pending, ConfigInv
<1>2. NotReadingConfig.pc = "idle" /\ \A q : w \in Pending(q) => q = R
  BY Zenon DEF NotReadingConfig, Pending
<1>3. R \in ConfigRegions /\ (R \notin overlapped => V = configSet[R])
  BY <1>1, Zenon DEF ConfigInv
<1>4. /\ DOMAIN configWriter' = ConfigWriters
      /\ \A x \in ConfigWriters : x # w => configWriter'[x] = configWriter[x]
      /\ \A q : Pending(q)' = Pending(q) \ {w}
  <2>1. /\ DOMAIN configWriter' = ConfigWriters
        /\ \A x \in ConfigWriters : x # w => configWriter'[x] = configWriter[x]
        /\ configWriter'[w].pc = "idle"
    BY <1>1, <1>2, Zenon
  <2>2. ASSUME NEW q PROVE Pending(q)' = Pending(q) \ {w}
    <3>1. ASSUME NEW x PROVE x \in Pending(q)' <=> x \in Pending(q) /\ x # w
      <4>1. CASE x = w
        BY <2>1, <4>1, Zenon DEF Pending
      <4>2. CASE x # w
        BY <2>1, <4>2, Zenon DEF Pending
      <4> QED BY <4>1, <4>2, Zenon
    <3> QED BY <3>1
  <2> QED BY <2>1, <2>2, Zenon
<1> HIDE DEF R, V
<1>5. /\ DOMAIN configCache' \subseteq DOMAIN configCache \cup {R}
      /\ \A q \in DOMAIN configCache' : configCache'[q] = IF q = R THEN V ELSE configCache[q]
  <2>1. CASE configCache' = Bind(configCache, R, V)
    BY <2>1, Zenon DEF Bind
  <2>2. CASE configCache' = Erase(configCache, R)
    BY <2>2, Zenon DEF Erase, Restrict
  <2> QED BY <1>1, <2>1, <2>2, Zenon
<1>6. ASSUME NEW q \in DOMAIN configCache', q \notin overlapped, Pending(q)' = {}
      PROVE  configCache'[q] = configSet[q]
  <2>1. CASE q = R
    BY <1>3, <1>5, <1>6, <2>1, Zenon
  <2>2. CASE q # R
    <3>1. Pending(q) = {} /\ q \in DOMAIN configCache /\ configCache'[q] = configCache[q]
      BY <1>2, <1>4, <1>5, <1>6, <2>2, Zenon
    <3> QED BY <1>6, <3>1, Zenon DEF ConfigInv
  <2> QED BY <2>1, <2>2, Zenon
<1>7. DOMAIN configCache' \subseteq ConfigRegions
  BY <1>3, <1>5, Zenon DEF ConfigInv
<1>8. ASSUME NEW x \in ConfigWriters, NEW q, x \in Pending(q)'
      PROVE  q \in ConfigRegions /\ (q \notin overlapped => Pending(q)' = {x} /\ configWriter'[x].value = configSet[q])
  <2>1. x \in Pending(q) /\ x # w /\ configWriter'[x] = configWriter[x]
    BY <1>4, <1>8, Zenon
  <2>2. q \in ConfigRegions /\ (q \notin overlapped => Pending(q) = {x} /\ configWriter[x].value = configSet[q])
    BY <2>1, Zenon DEF ConfigInv
  <2> QED BY <1>4, <2>1, <2>2, Zenon
<1> QED BY <1>1, <1>4, <1>6, <1>7, <1>8, Zenon DEF ConfigInv

\* A step of the reader leaves those under way.
LEMMA PendingSame == ASSUME UNCHANGED configWriter PROVE \A q : Pending(q)' = Pending(q)
  BY Zenon DEF Pending

LEMMA MissKeeps == ASSUME ConfigInv, NEW r \in ConfigRegions, CacheMiss(r) PROVE ConfigInv'
<1>1. /\ r \notin DOMAIN configCache /\ configRead' = [pc |-> "view", region |-> r, value |-> {}]
      /\ overlapped' = IF Pending(r) = {} THEN overlapped \ {r} ELSE overlapped
      /\ UNCHANGED <<configView, configCache, configWriter, configSet>>
  BY Zenon DEF CacheMiss
<1>2. configRead'.pc = "view" /\ configRead'.region = r /\ ConfigShape(configRead')
  BY <1>1, NewReader, Zenon
<1>3. \A q : Pending(q)' = Pending(q)
  BY <1>1, PendingSame, Zenon
<1>4. \A q : (q # r \/ Pending(q) # {}) /\ q \notin overlapped' => q \notin overlapped
  BY <1>1, Zenon
<1>5. \A q \in DOMAIN configCache' : q \notin overlapped' /\ Pending(q)' = {} => configCache'[q] = configSet'[q]
  BY <1>1, <1>3, <1>4, Zenon DEF ConfigInv
<1>6. ASSUME NEW x \in ConfigWriters, NEW q, x \in Pending(q)'
      PROVE  q \in ConfigRegions /\ (q \notin overlapped' => Pending(q)' = {x} /\ configWriter'[x].value = configSet'[q])
  <2>1. x \in Pending(q) /\ Pending(q) # {}
    BY <1>3, <1>6, Zenon
  <2> QED BY <1>1, <1>3, <1>4, <2>1, Zenon DEF ConfigInv
<1> QED BY <1>1, <1>2, <1>5, <1>6 DEF ConfigInv

LEMMA ReadKeeps == ASSUME ConfigInv, ViewRead PROVE ConfigInv'
<1>1. /\ configRead.region \in ConfigRegions
      /\ UNCHANGED <<configView, configCache, configWriter, configSet, overlapped>>
      /\ \A q : Pending(q)' = Pending(q)
  BY PendingSame, Zenon DEF ViewRead, ConfigInv
<1>2. CASE configRead.region \in DOMAIN configView
  <2> DEFINE R == configRead.region
  <2>1. configRead' = [configRead EXCEPT !.pc = "fill", !.value = configView[R]]
    BY <1>2, Zenon DEF ViewRead
  <2>3. ConfigShape(configRead)
    BY Zenon DEF ConfigInv
  <2>4. configRead' = [pc |-> "fill", region |-> R, value |-> configView[R]]
    BY <2>1, <2>3, Zenon DEF ConfigShape
  <2>2. /\ configRead'.pc = "fill" /\ configRead'.region = R /\ configRead'.value = configView[R]
        /\ ConfigShape(configRead')
    BY <2>4, NewReader, Zenon
  <2> QED BY <1>1, <1>2, <2>2, Zenon DEF ConfigInv
<1>3. CASE configRead.region \notin DOMAIN configView
  <2>1. configRead'.pc = "idle" /\ ConfigShape(configRead')
    BY <1>3, NewReader, Zenon DEF ViewRead, NotReadingConfig
  <2> QED BY <1>1, <2>1, Zenon DEF ConfigInv
<1> QED BY <1>2, <1>3, Zenon

LEMMA FillKeeps == ASSUME ConfigInv, CacheFill PROVE ConfigInv'
<1> DEFINE R == configRead.region
<1>1. /\ configRead.pc = "fill" /\ configCache' = Bind(configCache, R, configRead.value)
      /\ UNCHANGED <<configView, configWriter, configSet, overlapped>>
      /\ \A q : Pending(q)' = Pending(q)
  BY PendingSame, Zenon DEF CacheFill
<1>2. configRead'.pc = "idle" /\ ConfigShape(configRead')
  BY NewReader, Zenon DEF CacheFill, NotReadingConfig
<1>3. R \in ConfigRegions /\ (R \notin overlapped => configRead.value = configSet[R])
  BY <1>1, Zenon DEF ConfigInv
<1>4. /\ DOMAIN configCache' = DOMAIN configCache \cup {R}
      /\ \A q \in DOMAIN configCache' : configCache'[q] = IF q = R THEN configRead.value ELSE configCache[q]
  BY <1>1, Zenon DEF Bind
<1>5. /\ DOMAIN configCache' \subseteq ConfigRegions
      /\ \A q \in DOMAIN configCache' : q \notin overlapped /\ Pending(q) = {} => configCache'[q] = configSet[q]
  BY <1>3, <1>4, Zenon DEF ConfigInv
<1> QED BY <1>1, <1>2, <1>5, Zenon DEF ConfigInv

LEMMA ConfigReaderStep == ASSUME ConfigInv, ConfigNext PROVE ConfigInv'
<1>1. ASSUME NEW w \in ConfigWriters, NEW r \in ConfigRegions, NEW v, CachedSetRegionConfig(w, r, v)
      PROVE  ConfigInv'
  <2>1. ConfigWritten(w, r, {v})
    BY <1>1, Zenon DEF CachedSetRegionConfig, ConfigWritten
  <2> QED BY <2>1, WriteKeeps, Zenon
<1>2. ASSUME NEW w \in ConfigWriters, NEW r \in ConfigRegions, CachedDeleteRegionConfig(w, r)
      PROVE  ConfigInv'
  <2>1. ConfigWritten(w, r, {})
    BY <1>2, Zenon DEF CachedDeleteRegionConfig, ConfigWritten
  <2> QED BY <2>1, WriteKeeps, Zenon
<1> QED BY <1>1, <1>2, CacheKeeps, MissKeeps, ReadKeeps, FillKeeps, Zenon DEF ConfigNext

-----------------------------------------------------------------------------
Listings == [left : SUBSET Listable, all : SUBSET Listable, listed : SUBSET Listable,
             done : BOOLEAN, err : BOOLEAN, more : BOOLEAN]

IterInv ==
    /\ iter \in Listings
    /\ iter.all = iter.left \cup iter.listed
    /\ ~iter.more /\ ~iter.err => iter.left = {}

LEMMA IterKeeps == ASSUME IterInv, IterStep PROVE IterInv'
<1>1. CASE CancelListing
  BY <1>1, Zenon DEF CancelListing, IterInv, Listings
<1>2. CASE IterNext
  <2>1. CASE iter.done
    <3>1. iter' = [iter EXCEPT !.more = FALSE, !.err = TRUE]
      BY <1>2, <2>1, Zenon DEF IterNext
    <3> QED BY <3>1, Zenon DEF IterInv, Listings
  <2>2. CASE ~iter.done /\ iter.left # {}
    <3> DEFINE k == CHOOSE x \in iter.left : TRUE
    <3>1. iter' = [iter EXCEPT !.left = @ \ {k}, !.listed = @ \cup {k}]
      BY <1>2, <2>2, Zenon DEF IterNext
    <3>2. k \in iter.left
      BY <2>2, Zenon
    <3>3. iter.more
      BY <1>2, Zenon DEF IterNext
    <3> HIDE DEF k
    <3> QED BY <3>1, <3>2, <3>3, Zenon DEF IterInv, Listings
  <2>3. CASE ~iter.done /\ iter.left = {}
    <3>1. iter' = [iter EXCEPT !.more = FALSE]
      BY <1>2, <2>3, Zenon DEF IterNext
    <3> QED BY <2>3, <3>1, Zenon DEF IterInv, Listings
  <2> QED BY <2>1, <2>2, <2>3, Zenon
<1> QED BY <1>1, <1>2, Zenon DEF IterStep

StoresInv == RouteInv /\ StateInv /\ ConfigInv /\ IterInv

LEMMA StoresStep == StoresInv /\ [StoresNext]_storesVars => StoresInv'
<1> SUFFICES ASSUME StoresInv, [StoresNext]_storesVars PROVE StoresInv'
  BY Zenon
<1>1. ASSUME UNCHANGED routeVars PROVE RouteInv'
  BY <1>1, Zenon DEF StoresInv, RouteInv, routeVars
<1>2. ASSUME UNCHANGED stateVars PROVE StateInv'
  BY <1>2, Zenon DEF StoresInv, StateInv, stateVars
<1>3. ASSUME UNCHANGED configVars PROVE ConfigInv'
  <2>1. UNCHANGED <<configView, configCache, configWriter, configRead, configSet, overlapped>>
    BY <1>3, Zenon DEF configVars
  <2>2. \A q : Pending(q)' = Pending(q)
    BY <2>1, PendingSame, Zenon
  <2> QED BY <2>1, <2>2 DEF StoresInv, ConfigInv
<1>4. ASSUME UNCHANGED iter PROVE IterInv'
  BY <1>4, Zenon DEF StoresInv, IterInv
<1>5. ASSUME RouteNext, UNCHANGED <<stateVars, configVars, iter>> PROVE StoresInv'
  BY <1>2, <1>3, <1>4, <1>5, RouteStep, Zenon DEF StoresInv
<1>6. ASSUME StateNext, UNCHANGED <<routeVars, configVars, iter>> PROVE StoresInv'
  BY <1>1, <1>3, <1>4, <1>6, StateStep, Zenon DEF StoresInv
<1>7. ASSUME ConfigNext, UNCHANGED <<routeVars, stateVars, iter>> PROVE StoresInv'
  BY <1>1, <1>2, <1>4, <1>7, ConfigReaderStep, Zenon DEF StoresInv
<1>8. ASSUME IterStep, UNCHANGED <<routeVars, stateVars, configVars>> PROVE StoresInv'
  BY <1>1, <1>2, <1>3, <1>8, IterKeeps, Zenon DEF StoresInv
<1>9. ASSUME UNCHANGED storesVars PROVE StoresInv'
  BY <1>1, <1>2, <1>3, <1>4, <1>9, Zenon DEF StoresInv, storesVars
<1> QED BY <1>5, <1>6, <1>7, <1>8, <1>9, Zenon DEF StoresNext

LEMMA StoresStart == StoresInit => StoresInv
<1> SUFFICES ASSUME StoresInit PROVE StoresInv
  BY Zenon
<1>0. DOMAIN Nothing = {}
  BY Zenon DEF Nothing
<1>1. RouteInv
  BY <1>0, Zenon DEF StoresInit, RouteInv
<1>2. StateInv
  BY Zenon DEF StoresInit, StateInv
<1>3. ConfigInv
  <2>1. NotReadingConfig.pc = "idle" /\ ConfigShape(NotReadingConfig)
    BY NewReader, Zenon DEF NotReadingConfig
  <2>2. \A q : Pending(q) = {}
    BY <2>1, Zenon DEF StoresInit, Pending
  <2> QED BY <1>0, <2>1, <2>2 DEF StoresInit, ConfigInv
<1>4. IterInv
  <2>1. iter \in [left : SUBSET Listable, all : SUBSET Listable, listed : {{}},
                  done : {FALSE}, err : {FALSE}, more : {TRUE}]
        /\ iter.all = iter.left
    BY Zenon DEF StoresInit
  <2> QED BY <2>1, Zenon DEF IterInv, Listings
<1> QED BY <1>1, <1>2, <1>3, <1>4, Zenon DEF StoresInv

LEMMA StoresShow == StoresInv => ReadersFind /\ EventsQueued
<1> SUFFICES ASSUME StoresInv PROVE ReadersFind /\ EventsQueued
  BY Zenon
<1>1. ListingComplete
  BY Zenon DEF StoresInv, IterInv, ListingComplete, GetByPrefix, IterError
<1>2. ConfigCacheCurrent /\ ProvedIsLastWritten
  BY Zenon DEF StoresInv, ConfigInv, ConfigCacheCurrent, ProvedIsLastWritten
<1>3. RecordsIndependent /\ RegionalKeysUnread /\ ProofOfAbsence
  BY RouteShows, Zenon DEF StoresInv
<1>4. EventsQueued
  BY StateShows, Zenon DEF StoresInv
<1> QED BY <1>1, <1>2, <1>3, <1>4, Zenon DEF ReadersFind

\* However records are set, deleted, cached, listed and read while they are
\* written, for any regions and values: the readers of the stores find what
\* ReadersFind says.
THEOREM ReadersAlwaysFind == StoresSpec => []ReadersFind
<1>1. StoresInv => ReadersFind
  BY StoresShow, Zenon
<1> QED BY <1>1, StoresStart, StoresStep, PTL DEF StoresSpec

\* Whatever states are stored and whichever events are queued: QueueEvent panics
\* only on a state without its map, and leaves what EventsQueued says.
THEOREM EventsAlwaysQueued == StoresSpec => []EventsQueued
<1>1. StoresInv => EventsQueued
  BY StoresShow, Zenon
<1> QED BY <1>1, StoresStart, StoresStep, PTL DEF StoresSpec
=============================================================================
