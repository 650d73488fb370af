------------------------------- MODULE Vault --------------------------------
(***************************************************************************)
(* The Vault contract with its token, the ether of its users and the call  *)
(* redeem makes back to its caller.  A step is a transaction, except that  *)
(* a redemption by a contract account is open from the moment it sends     *)
(* ether until the callee's receive function returns: in between, contract *)
(* accounts may call the vault and the token, and nobody else can act.  If *)
(* the callee reverts, the whole transaction is undone.                    *)
(***************************************************************************)
EXTENDS VaultOps

CONSTANTS
    Deployer,   \* deploys the token and the vault, and owns the token
    Contracts,  \* the accounts with code; the others accept ether silently
    Funds,      \* Funds[u] is the ether account u starts with
    Amounts,    \* the amounts holders transfer and redeem
    Rates,      \* the interest rates the owner sets
    MaxTime     \* bound on block.timestamp

Users == Accounts \ {VaultAddress}

ASSUME VaultModelAssumption ==
    /\ Deployer \in Users
    /\ Contracts \subseteq Users
    /\ Funds \in [Users -> UInt]
    /\ Amounts \subseteq UInt
    /\ Rates \subseteq UInt
    /\ MaxTime \in Nat

InitialEther == [u \in Accounts |-> IF u \in Users THEN Funds[u] ELSE 0]

\* A word holds more than all the ether there is, and balanceOf does not
\* overflow: with two centuries of interest on all ether it takes 156 bits.
ASSUME EtherAssumption ==
    /\ Total(InitialEther) < MaxUint
    /\ Total(InitialEther) * (PRECISION_FACTOR + INITIAL_RATE * MaxTime) <= MaxUint

VARIABLES
    token,                   \* the token's storage
    sUserToAmountDeposited,  \* the vault's ledger
    eth,                     \* the ether of every account
    now,                     \* block.timestamp
    call                     \* the open redemption, if there is one

vars == <<token, sUserToAmountDeposited, eth, now, call>>

\* No redemption is open.
Idle == [open |-> FALSE]

\* What is left of the chain if the open redemption reverts.
Snapshot ==
    [token |-> token, deposited |-> sUserToAmountDeposited, eth |-> eth]

\* VaultScript: the vault is deployed over the token and made a minter.
Init ==
    /\ token = AfterGrantRole(Deployed(Deployer), "BURN_MINTER_ROLE",
                              VaultAddress)
    /\ sUserToAmountDeposited = [u \in Accounts |-> 0]
    /\ eth = InitialEther
    /\ now = 0
    /\ call = Idle

\* Inside an open redemption only contracts can act.
MayAct(u) == ~call.open \/ u \in Contracts

PayVault(u, value) ==
    [eth EXCEPT ![u] = @ - value, ![VaultAddress] = @ + value]

PaidByVault(e, u, value) ==
    [e EXCEPT ![VaultAddress] = @ - value, ![u] = @ + value]

-----------------------------------------------------------------------------
Deposit(u, value) ==
    /\ MayAct(u)
    /\ value <= eth[u]
    /\ CanDeposit(token, sUserToAmountDeposited, now, u, value)
    /\ sUserToAmountDeposited' = [sUserToAmountDeposited EXCEPT ![u] = @ + value]
    /\ token' = AfterDeposit(token, u, value)
    /\ eth' = PayVault(u, value)
    /\ UNCHANGED <<now, call>>

\* Mutant: redeem forgets the vault's own ledger.
SendRedeemedKeepsDeposit(u, amount, value) ==
    /\ ~call.open
    /\ value <= eth[u]
    /\ CanRedeem(token, sUserToAmountDeposited, now, u, amount)
    /\ eth[VaultAddress] + value >= amount
    /\ token' = AfterRedeem(token, now, u, amount)
    /\ eth' = PaidByVault(PayVault(u, value), u, amount)
    /\ UNCHANGED <<now, sUserToAmountDeposited>>

\* redeem up to and including the transfer of ether to its caller.  It is
\* payable: value is what the caller sends along.  nonReentrant lets no
\* redemption start inside another one.
SendRedeemed(u, amount, value) ==
    /\ ~call.open
    /\ value <= eth[u]
    /\ CanRedeem(token, sUserToAmountDeposited, now, u, amount)
    /\ eth[VaultAddress] + value >= amount
    /\ sUserToAmountDeposited' =
           [sUserToAmountDeposited EXCEPT ![u] = @ - amount]
    /\ token' = AfterRedeem(token, now, u, amount)
    /\ eth' = PaidByVault(PayVault(u, value), u, amount)
    /\ UNCHANGED now

\* An account without code takes the ether and the transaction is over.
Redeem(u, amount, value) ==
    /\ u \notin Contracts
    /\ SendRedeemed(u, amount, value)
    /\ UNCHANGED call

\* An account with code is called with it.
EnterRedeem(u, amount, value) ==
    /\ u \in Contracts
    /\ SendRedeemed(u, amount, value)
    /\ call' = [open |-> TRUE, before |-> Snapshot]

RedeemReturns ==
    /\ call.open
    /\ call' = Idle
    /\ UNCHANGED <<token, sUserToAmountDeposited, eth, now>>

\* The callee reverts: Vault__WithDrawFailed.
RedeemReverts ==
    /\ call.open
    /\ token' = call.before.token
    /\ sUserToAmountDeposited' = call.before.deposited
    /\ eth' = call.before.eth
    /\ call' = Idle
    /\ UNCHANGED now

\* receive: ether sent to the vault that is credited to nobody.
Receive(u, value) ==
    /\ MayAct(u)
    /\ value <= eth[u]
    /\ eth' = PayVault(u, value)
    /\ UNCHANGED <<token, sUserToAmountDeposited, now, call>>

Transfer(u, to, amount) ==
    /\ MayAct(u)
    /\ CanTransfer(token, now, u, to, amount)
    /\ token' = AfterTransfer(token, now, u, to, amount)
    /\ UNCHANGED <<sUserToAmountDeposited, eth, now, call>>

SetInterestRete(u, newRate) ==
    /\ MayAct(u)
    /\ CanSetInterestRete(token, u, newRate)
    /\ token' = AfterSetInterestRete(token, newRate)
    /\ UNCHANGED <<sUserToAmountDeposited, eth, now, call>>

\* A later block.
Tick ==
    /\ ~call.open
    /\ now < MaxTime
    /\ now' = now + 1
    /\ UNCHANGED <<token, sUserToAmountDeposited, eth, call>>

Next ==
    \/ \E u \in Users :
          \/ \E v \in 0..eth[u] : Deposit(u, v) \/ Receive(u, v)
          \/ \E n \in Amounts, v \in 0..eth[u] :
                Redeem(u, n, v) \/ EnterRedeem(u, n, v)
          \/ \E to \in Accounts, n \in Amounts : Transfer(u, to, n)
          \/ \E r \in Rates : SetInterestRete(u, r)
    \/ RedeemReturns
    \/ RedeemReverts
    \/ Tick

Spec == Init /\ [][Next]_vars

-----------------------------------------------------------------------------
(* Properties. *)

\* Every variable holds a value of its type.
TypeOK ==
    /\ token \in TokenStorage
    /\ sUserToAmountDeposited \in [Accounts -> UInt]
    /\ eth \in [Accounts -> Nat]
    /\ now \in 0..MaxTime
    /\ call.open => call.before \in [token : TokenStorage,
                                     deposited : [Accounts -> UInt],
                                     eth : [Accounts -> Nat]]

\* The vault and the token each keep a ledger of what a user put in, and
\* redeem subtracts from both.  They agree at every instant, also while a
\* redemption is calling out.
LedgersAgree ==
    /\ token.sUserToAmountMinted = sUserToAmountDeposited
    /\ token.totalSupply = Total(sUserToAmountDeposited)

\* A user who still has principal and a deposit to redeem it against can
\* always redeem: no subtraction of the three ledgers, and no lack of ether,
\* ever stops the redemption - whoever deposited, transferred or sent ether
\* to the vault before.
RedeemNeverStuck ==
    \A u \in Users, n \in 1..MaxUint :
        /\ n <= sUserToAmountDeposited[u]
        /\ n <= token.balances[u]
        => /\ CanRedeem(token, sUserToAmountDeposited, now, u, n)
           /\ eth[VaultAddress] >= n

\* The token's storage after the last settled transaction.
SettledToken == IF call.open THEN call.before.token ELSE token

\* The rate a user gets with the first deposit is the user's for good: no later
\* deposit, redemption, transfer or rate cut changes it.
RateLocked ==
    [][\A u \in Users :
          SettledToken.sUserToInterestRate[u] # 0 =>
             SettledToken'.sUserToInterestRate[u]
                = SettledToken.sUserToInterestRate[u]]_vars

\* A user's first deposit shows as a balance of the amount deposited
\* (test/RebaseToken.t.sol:39 asserts it).
FirstDepositShowsAmount ==
    [][\A u \in Users :
          /\ UNCHANGED call
          /\ token.balances[u] = 0
          /\ sUserToAmountDeposited'[u] > sUserToAmountDeposited[u]
          => BalanceOf(token', now', u)
                = sUserToAmountDeposited'[u] - sUserToAmountDeposited[u]]_vars

\* The vault keeps the promise of Custody, transaction by transaction: an
\* open redemption does not count until it settles.
SettledEth == IF call.open THEN call.before.eth ELSE eth
SettledDeposits ==
    IF call.open THEN call.before.deposited ELSE sUserToAmountDeposited

C == INSTANCE Custody WITH
        wallet <- [u \in Users |-> SettledEth[u]],
        credit <- [u \in Users |-> SettledDeposits[u]],
        pot <- SettledEth[VaultAddress]

ImplementsCustody == C!Spec
=============================================================================
