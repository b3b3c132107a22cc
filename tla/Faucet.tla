------------------------------- MODULE Faucet -------------------------------
(***************************************************************************)
(* The faucet (cmd/faucet/faucet.go): an initial transfer that is retried, *)
(* then a server whose handlers check a balance, submit a transfer and     *)
(* wait for its result on the one websocket they share.                    *)
(*                                                                         *)
(* A balance is the transfers whose coins are not spent: one is above the  *)
(* threshold, and a holder may spend what it has at any time.  The chain   *)
(* and the rate limiter are external; the chain takes a transaction,       *)
(* executes it or not, and puts its result on the stream.                  *)
(***************************************************************************)
EXTENDS Naturals, Sequences, FiniteSets

CONSTANTS
    FaucetRequests, \* requests that arrive
    AddressOf,     \* by request, the address it names
    RemoteAddr,    \* by request, the connection it comes from
    Burst,         \* requests a limiter admits at once
    MaxRefills,    \* bound: tokens a limiter gets back
    MaxAttempts    \* attempts of performInitialTransfer

Boot == "boot"     \* the goroutine of main

ASSUME FaucetAssumption ==
    /\ Boot \notin FaucetRequests
    /\ Burst \in Nat \ {0} /\ MaxAttempts \in Nat \ {0} /\ MaxRefills \in Nat

BootAddress == "random"
Actors == FaucetRequests \cup {Boot}
To(x) == IF x = Boot THEN BootAddress ELSE AddressOf[x]

VARIABLES
    funds,       \* by address, the transfers whose coins it holds
    paid,        \* history: the transfers executed
    pool,        \* transactions the chain has and has not executed: <<sender, attempt>>
    stream,      \* results on the websocket, in order
    transferCall, \* by actor, where its transferCoins stands
    attempt,     \* i of performInitialTransfer
    isReady,     \* isReady
    faucetState, \* "down", "no" until main serves, "yes", or "exited" after log.Fatal
    answer,      \* by request, what its handler answered
    tokens,      \* by connection, the tokens of its limiter; no entry: no limiter
    refills,
    overlap      \* history: transfers decided on while another to the address was under way

faucetVars == <<funds, paid, pool, stream, transferCall, attempt, isReady, faucetState, answer,
                tokens, refills, overlap>>

Conns == {RemoteAddr[r] : r \in FaucetRequests}
Addresses == {To(x) : x \in Actors}

FaucetInit ==
    /\ funds = [a \in Addresses |-> {}] /\ paid = {}
    /\ pool = {} /\ stream = <<>>
    /\ transferCall = [x \in Actors |-> "none"]
    /\ attempt = 0
    /\ isReady = FALSE /\ faucetState = "down"
    /\ answer = [r \in FaucetRequests |-> "none"]
    /\ tokens = [c \in {} |-> 0] /\ refills = 0
    /\ overlap = {}

-----------------------------------------------------------------------------
(* transferCoins *)

Under(a) ==
    \/ \E t \in pool : To(t[1]) = a
    \/ \E x \in Actors : transferCall[x] = "submit" /\ To(x) = a

Step(x, pc) == transferCall' = [transferCall EXCEPT ![x] = pc]
Elsewhere == UNCHANGED <<attempt, isReady, faucetState, answer, tokens, refills>>

\* The transaction that a call generates.
Tx(x) == <<x, IF x = Boot THEN attempt ELSE 0>>

\* balanceBefore > threshold.
Enough(x) == funds[To(x)] # {}

\* The balance is read from the chain.
CheckBalance(x) ==
    /\ transferCall[x] = "check"
    /\ Step(x, IF Enough(x) THEN "enough" ELSE "submit")
    /\ overlap' = IF ~Enough(x) /\ Under(To(x)) THEN overlap \cup {Tx(x)} ELSE overlap
    /\ UNCHANGED <<funds, paid, pool, stream>> /\ Elsewhere

\* GenerateTransaction and RegisterTx.
Submit(x) ==
    /\ transferCall[x] = "submit"
    /\ pool' = pool \cup {Tx(x)}
    /\ Step(x, "listen")
    /\ UNCHANGED <<funds, paid, stream, overlap>> /\ Elsewhere

\* Mutant: the first result that comes is taken for the transaction's own.
OwnAny(x, res) == TRUE

Own(x, res) == res.tx = Tx(x)

\* ListenTx: an error ends the call whichever transaction it is of; another
\* transaction's result is skipped, and lost to the handler that waits for it.
ListenTx(x) ==
    /\ transferCall[x] = "listen" /\ stream # <<>>
    /\ LET res == Head(stream) IN
       Step(x, CASE res.outcome = "error"                 -> "failed"
                 [] res.outcome # "error" /\ ~Own(x, res) -> "listen"
                 [] res.outcome = "fails" /\ Own(x, res)  -> "failed"
                 [] res.outcome = "done" /\ Own(x, res)   -> "success")
    /\ stream' = Tail(stream)
    /\ UNCHANGED <<funds, paid, pool, overlap>> /\ Elsewhere

\* Mutant: ListenTx has no deadline.
TransferFailsEarly(x) ==
    /\ transferCall[x] \in {"check", "submit"}
    /\ Step(x, "failed")
    /\ UNCHANGED <<funds, paid, pool, stream, overlap>> /\ Elsewhere

\* An RPC fails, or the five seconds are over.
TransferFails(x) ==
    /\ transferCall[x] \in {"check", "submit", "listen"}
    /\ Step(x, "failed")
    /\ UNCHANGED <<funds, paid, pool, stream, overlap>> /\ Elsewhere

TransferStep(x) == CheckBalance(x) \/ Submit(x) \/ ListenTx(x) \/ TransferFails(x)

\* The chain executes a transaction, executes it in vain, or drops it.
ChainExecutes(t, outcome) ==
    /\ t \in pool
    /\ pool' = pool \ {t}
    /\ IF outcome = "done"
       THEN funds' = [funds EXCEPT ![To(t[1])] = @ \cup {t}] /\ paid' = paid \cup {t}
       ELSE UNCHANGED <<funds, paid>>
    /\ stream' = Append(stream, [tx |-> t, outcome |-> outcome])
    /\ UNCHANGED <<transferCall, overlap>> /\ Elsewhere

\* A holder spends; nobody holds the key of the random address.
Spend(a, kept) ==
    /\ a # BootAddress /\ kept # funds[a]
    /\ funds' = [funds EXCEPT ![a] = kept]
    /\ UNCHANGED <<paid, pool, stream, transferCall, overlap>> /\ Elsewhere

-----------------------------------------------------------------------------
(* main and the handlers *)

ChainIdle == UNCHANGED <<funds, paid, pool, stream, overlap>>

\* main begins with the initial transfer.
main ==
    /\ faucetState = "down" /\ faucetState' = "no"
    /\ Step(Boot, "check")
    /\ ChainIdle /\ UNCHANGED <<attempt, isReady, answer, tokens, refills>>

\* performInitialTransfer: on success the faucet is ready and main starts the
\* server; the last failure ends the process.
performInitialTransfer ==
    /\ transferCall[Boot] \in {"enough", "success", "failed"}
    /\ IF transferCall[Boot] # "failed"
       THEN Step(Boot, "over") /\ isReady' = TRUE /\ faucetState' = "yes" /\ UNCHANGED attempt
       ELSE /\ attempt' = attempt + 1
            /\ IF attempt' < MaxAttempts
               THEN Step(Boot, "check") /\ UNCHANGED faucetState
               ELSE Step(Boot, "over") /\ faucetState' = "exited"
            /\ UNCHANGED isReady
    /\ ChainIdle /\ UNCHANGED <<answer, tokens, refills>>

\* A limiter per connection, made at its first request.
getRateLimiter(c) == IF c \in DOMAIN tokens THEN tokens[c] ELSE Burst

\* handleFaucetRequest up to its call of transferCoins.
handleFaucetRequest(r) ==
    /\ faucetState = "yes" /\ transferCall[r] = "none" /\ answer[r] = "none"
    /\ LET c == RemoteAddr[r]
           left == getRateLimiter(c)
       IN  /\ tokens' = [x \in DOMAIN tokens \cup {c} |->
                            IF x # c THEN tokens[x] ELSE IF left > 0 THEN left - 1 ELSE 0]
           /\ IF left > 0
              THEN Step(r, "check") /\ UNCHANGED answer
              ELSE answer' = [answer EXCEPT ![r] = "limited"] /\ UNCHANGED transferCall
    /\ ChainIdle /\ UNCHANGED <<attempt, isReady, faucetState, refills>>

\* And after it.
handleFaucetAnswer(r) ==
    /\ transferCall[r] \in {"enough", "success", "failed"} /\ answer[r] = "none"
    /\ answer' = [answer EXCEPT ![r] = transferCall[r]]
    /\ ChainIdle /\ UNCHANGED <<transferCall, attempt, isReady, faucetState, tokens, refills>>

\* The answer of handleReadyCheck while the server runs.
handleReadyCheck == IF isReady THEN "healthy" ELSE "not yet healthy"

\* A limiter gets a token every fifteen seconds.
Refill(c) ==
    /\ c \in DOMAIN tokens /\ tokens[c] < Burst /\ refills < MaxRefills
    /\ tokens' = [tokens EXCEPT ![c] = @ + 1]
    /\ refills' = refills + 1
    /\ ChainIdle /\ UNCHANGED <<transferCall, attempt, isReady, faucetState, answer>>

FaucetNext ==
    \/ main \/ performInitialTransfer
    \/ \E x \in Actors : faucetState # "exited" /\ TransferStep(x)
    \/ \E t \in pool, outcome \in {"done", "fails", "error"} : ChainExecutes(t, outcome)
    \/ \E a \in Addresses : \E kept \in SUBSET funds[a] : Spend(a, kept)
    \/ \E r \in FaucetRequests : handleFaucetRequest(r) \/ handleFaucetAnswer(r)
    \/ \E c \in Conns : Refill(c)

\* A deadline passes, and a handler that can go on does.
FaucetFairness ==
    /\ \A r \in FaucetRequests : WF_faucetVars(TransferFails(r)) /\ WF_faucetVars(handleFaucetAnswer(r))
    /\ WF_faucetVars(TransferFails(Boot)) /\ WF_faucetVars(performInitialTransfer)

FaucetSpec == FaucetInit /\ [][FaucetNext]_faucetVars /\ FaucetFairness

-----------------------------------------------------------------------------
\* A handler that answers that the coins were transferred is right: its own
\* transfer was executed, though the result passed among those of the other
\* handlers on the websocket.
SuccessIsPaid == \A r \in FaucetRequests : answer[r] = "success" => <<r, 0>> \in paid

\* The check of the balance keeps transfers apart but for overlaps: of those whose
\* coins an address holds, spent and funded again as it may be, all but one were
\* decided on while another transfer to it was under way, one whose handler had
\* given up included.
OverpaidByOverlaps ==
    \A a \in Addresses : \A t, u \in funds[a] : t = u \/ t \in overlap \/ u \in overlap

\* The ready check answers "healthy" only after a transfer of the faucet was
\* executed, be it one whose attempt was given up and whose coins the next found.
ReadyWasPaid ==
    handleReadyCheck = "healthy" => \E t \in paid : t[1] = Boot

\* A request that passed the limiter is answered, though another handler may have
\* taken its result from the websocket.
RequestAnswered == \A r \in FaucetRequests : (transferCall[r] = "check") ~> (answer[r] # "none")

\* performInitialTransfer gives up in the end: the faucet serves or exits.
BootEnds == (faucetState = "no") ~> (faucetState # "no")

\* What the faucet's handlers claim and what they pay, whatever the others take from
\* the websocket and whenever they give up.
HandlersFair == SuccessIsPaid /\ OverpaidByOverlaps /\ ReadyWasPaid

\* The faucet gets past its initial transfer, and every admitted request is
\* answered.
FaucetEnds == RequestAnswered /\ BootEnds
=============================================================================
