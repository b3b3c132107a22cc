------------------------------ MODULE Balances ------------------------------
(***************************************************************************)
(* Token balances: the balance functions of storage/storage.go, the        *)
(* BalanceHandler methods of StateManager, and the Transfer action.  The   *)
(* chain gives an action its own view of the state and drops the view when *)
(* the action fails, so a Transfer that fails half-way is no step.         *)
(*                                                                         *)
(* A balance is the uint64 stored under BalanceKey(addr), 0 if there is    *)
(* none.  minted and charged are history: what the chain has put into      *)
(* accounts, and the fees that Deduct has reported as taken.               *)
(***************************************************************************)
EXTENDS Integers, FiniteSets, Functions

CONSTANTS
    Addrs,
    MaxUint,     \* the largest uint64
    MaxMinted,   \* bound: tokens ever minted
    MaxCharged   \* bound: fees ever charged

\* An address has 33 bytes, so there are finitely many.
ASSUME BalancesAssumption ==
    IsFiniteSet(Addrs) /\ {MaxUint, MaxMinted, MaxCharged} \subseteq Nat

VARIABLES bal, minted, charged

balVars == <<bal, minted, charged>>

Uint == 0..MaxUint

\* Addition of two uint64 values, which wraps around.
Plus(a, b) == (a + b) % (MaxUint + 1)

Supply == SumFunction(bal)

BalTypeOK ==
    /\ bal \in [Addrs -> Uint]
    /\ minted \in 0..MaxMinted
    /\ charged \in 0..MaxCharged

BalInit ==
    /\ bal = [a \in Addrs |-> 0]
    /\ minted = 0 /\ charged = 0

\* storage.SubBalance: the key is removed when nothing is left.
SubBalance(b, a, v) == [b EXCEPT ![a] = @ - v]

\* storage.AddBalance.
AddBalance(b, a, v) == [b EXCEPT ![a] = Plus(@, v)]

\* Mutant: the sum is not compared with the old balance.
AddsUpUnchecked(b, a, v) == TRUE

\* The overflow check of AddBalance, and of math.Add64.
AddsUp(b, a, v) == Plus(b[a], v) >= b[a]

\* StateManager.AddBalance, with which the chain fills an account: the genesis
\* allocations create accounts.
Mint(a, v, createAccount) ==
    /\ createAccount \/ bal[a] # 0
    /\ AddsUp(bal, a, v)
    /\ minted + v <= MaxMinted
    /\ bal' = AddBalance(bal, a, v)
    /\ minted' = minted + v
    /\ UNCHANGED charged

\* Transfer.Execute: the receiver's balance is read after the sender's has been
\* written, which matters when they are the same account.
Transfer(from, to, v) ==
    /\ v # 0
    /\ bal[from] >= v
    /\ LET sent == SubBalance(bal, from, v)
       IN  /\ AddsUp(sent, to, v)
           /\ bal' = AddBalance(sent, to, v)
    /\ UNCHANGED <<minted, charged>>

\* StateManager.Deduct, after CanDeduct, for the fee of a transaction.  When
\* nothing would be left it removes createBalanceKey(addr), the address as bytes;
\* the balance is under BalanceKey(addr), the address as text, and stays.
Deduct(a, fee) ==
    /\ bal[a] >= fee
    /\ charged + fee <= MaxCharged
    /\ bal' = IF bal[a] = fee THEN bal ELSE [bal EXCEPT ![a] = @ - fee]
    /\ charged' = charged + fee
    /\ UNCHANGED minted

BalNext ==
    \/ \E a \in Addrs, v \in Uint, create \in BOOLEAN : Mint(a, v, create)
    \/ \E from, to \in Addrs, v \in Uint : Transfer(from, to, v)
    \/ \E a \in Addrs, fee \in Uint : Deduct(a, fee)

BalSpec == BalInit /\ [][BalNext]_balVars

-----------------------------------------------------------------------------
(* Properties.                                                             *)

\* Tokens are neither made nor lost by transfers, whatever overflows and whoever
\* pays whom: what was minted is in the accounts, up to the fees that were
\* charged.  (Deduct may leave a fee in the account, so this is a range.)
\* No balance leaves its integer type on the way.
SupplyAccounted == BalTypeOK /\ minted - charged <= Supply /\ Supply <= minted
=============================================================================
