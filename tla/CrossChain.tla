----------------------------- MODULE CrossChain -----------------------------
(***************************************************************************)
(* Two chains, each with its token and its RebaseTokenPool, the vault on   *)
(* the home chain, and the CCIP lanes between them.  A bridge transfer is  *)
(* the script's approve and ccipSend on the source chain and at least one  *)
(* transaction on the destination, where the message is executed in its    *)
(* sender's order and, if that fails, may be executed again by hand.       *)
(* The pools are configured for each other and their rate limits are off,  *)
(* as test/CrossChain.t.sol sets them up.                                  *)
(***************************************************************************)
EXTENDS VaultOps, Sequences

CONSTANTS
    Home, Remote,  \* the chains; the vault is on Home
    Pool,          \* the RebaseTokenPool, at one address on both chains
    Router,        \* the CCIP router, at one address on both chains
    Deployer,      \* owns both tokens
    Users,         \* the accounts that hold tokens
    Senders,       \* the users that bridge
    Funds,         \* the ether the users own together
    Amounts,       \* the amounts users deposit, transfer, redeem and bridge
    Fees,          \* what the pool may keep of a transfer, in tokens
    Issues,        \* the amounts the owner mints to a pool
    Rates,         \* the rates the owner sets
    MaxTime,       \* bound on block.timestamp
    MaxIssued,     \* bound on what the owner mints to the pools
    MaxMessages    \* MaxMessages[c] bounds the messages sent from c

Chains == {Home, Remote}
Other(c) == IF c = Home THEN Remote ELSE Home

\* Those a user transfers to; the vault cannot give anything back.
Holders == Users \cup {Pool, VaultAddress}

ASSUME CrossChainAssumption ==
    /\ Home # Remote
    /\ {Pool, Router, VaultAddress} \subseteq Accounts \ Users
    /\ Cardinality({Pool, Router, VaultAddress}) = 3
    /\ Users \subseteq Accounts
    /\ Senders \subseteq Users
    /\ Deployer \in Users
    /\ Funds \in UInt
    /\ Amounts \cup Fees \cup Issues \cup Rates \subseteq UInt
    /\ MaxTime \in Nat
    /\ MaxIssued \in Nat
    /\ MaxMessages \in [Chains -> Nat]

\* type(uint256).max without a fee is still too large for the balance of an
\* account: times 1e18 it overflows.
ASSUME FeeAssumption == \A fee \in Fees : (MaxUint - fee) * PRECISION_FACTOR > MaxUint

\* A word holds more than all the ether there is, and the balance of what was
\* ever deposited or issued does not overflow with interest.
ASSUME SupplyAssumption ==
    /\ Funds < MaxUint
    /\ (Funds + MaxIssued) * (PRECISION_FACTOR + INITIAL_RATE * MaxTime) <= MaxUint

VARIABLES
    token,                   \* token[c]: the token's storage on chain c
    sUserToAmountDeposited,  \* the vault's ledger, on Home
    now,                     \* block.timestamp, the same on both chains
    sent,                    \* sent[c]: the messages sent from c, in order
    outboundNonce,           \* outboundNonce[c][u]: u's last nonce from c
    inboundNonce,            \* inboundNonce[c][u]: u's last nonce from c that
                             \* was attempted on the other chain
    issued                   \* issued[c]: what the owner minted to the pool

vars == <<token, sUserToAmountDeposited, now, sent, outboundNonce,
          inboundNonce, issued>>

\* A message: amount is what the destination is asked to mint, rate the
\* sender's interest rate at the time of sending, and burnt what the source
\* pool really burned for it.
Message ==
    [sender : Senders, receiver : Users \cup {Pool}, amount : UInt, rate : UInt,
     burnt : UInt, nonce : Nat, state : {"UNTOUCHED", "FAILURE", "SUCCESS"}]

Zero == [u \in Accounts |-> 0]

\* Each token is deployed with its pool as a minter; on Home the vault is one
\* as well.
Init ==
    /\ token = [c \in Chains |->
                   [Deployed(Deployer) EXCEPT
                       !.minters = IF c = Home THEN {Pool, VaultAddress}
                                               ELSE {Pool}]]
    /\ sUserToAmountDeposited = Zero
    /\ now = 0
    /\ sent = [c \in Chains |-> <<>>]
    /\ outboundNonce = [c \in Chains |-> Zero]
    /\ inboundNonce = [c \in Chains |-> Zero]
    /\ issued = [c \in Chains |-> 0]

-----------------------------------------------------------------------------
(* The vault and the token, by their users and their owner. *)

Bridge == <<sent, outboundNonce, inboundNonce>>

Deposit(u, value) ==
    /\ Total(sUserToAmountDeposited) + value <= Funds
    /\ CanDeposit(token[Home], sUserToAmountDeposited, now, u, value)
    /\ sUserToAmountDeposited' = [sUserToAmountDeposited EXCEPT ![u] = @ + value]
    /\ token' = [token EXCEPT ![Home] = AfterDeposit(@, u, value)]
    /\ UNCHANGED <<now, Bridge, issued>>

Redeem(u, amount) ==
    /\ CanRedeem(token[Home], sUserToAmountDeposited, now, u, amount)
    /\ sUserToAmountDeposited' =
           [sUserToAmountDeposited EXCEPT ![u] = @ - amount]
    /\ token' = [token EXCEPT ![Home] = AfterRedeem(@, now, u, amount)]
    /\ UNCHANGED <<now, Bridge, issued>>

Transfer(c, u, to, amount) ==
    /\ CanTransfer(token[c], now, u, to, amount)
    /\ token' = [token EXCEPT ![c] = AfterTransfer(@, now, u, to, amount)]
    /\ UNCHANGED <<sUserToAmountDeposited, now, Bridge, issued>>

\* The rate of the remote token is read by nobody: it has no vault.
SetInterestRete(newRate) ==
    /\ CanSetInterestRete(token[Home], Deployer, newRate)
    /\ token' = [token EXCEPT ![Home] = AfterSetInterestRete(@, newRate)]
    /\ UNCHANGED <<sUserToAmountDeposited, now, Bridge, issued>>

\* The owner makes itself a minter and mints to the pool: the pool's entry in
\* sUserToAmountMinted has no other source on a chain that no message to the
\* pool has reached.
OwnerMintsToPool(c, amount) ==
    LET granted == AfterGrantRole(token[c], "BURN_MINTER_ROLE", Deployer)
    IN  /\ issued[Home] + issued[Remote] + amount <= MaxIssued
        /\ CanMint(granted, now, Deployer, Pool, amount)
        /\ token' = [token EXCEPT ![c] = AfterMint(granted, Pool, amount, 0)]
        /\ issued' = [issued EXCEPT ![c] = @ + amount]
        /\ UNCHANGED <<sUserToAmountDeposited, now, Bridge>>

Tick ==
    /\ now < MaxTime
    /\ now' = now + 1
    /\ UNCHANGED <<token, sUserToAmountDeposited, Bridge, issued>>

-----------------------------------------------------------------------------
(* Sending: Router.ccipSend, OnRamp.forwardFromRouter and the pool's          *)
(* lockOrBurn, in one transaction on chain c.                                 *)

\* BridgeTokenScript approves the router for the amount and sends.  What
\* others do between the two transactions they might as well have done
\* before the first, which only overwrites the allowance.
Approved(c, u, amount) == AfterApprove(token[c], u, Router, amount)

\* The token after the router has moved the sender's tokens to the pool.
AtPool(c, u, amount) ==
    AfterTransferFrom(Approved(c, u, amount), now, Router, u, Pool, amount)

CanLockOrBurn(tok, t, amount, fee) ==
    /\ amount # 0
    /\ CanBurn(tok, t, Pool, Pool, amount)
    /\ fee <= amount

CanCcipSend(c, u, amount, fee) ==
    /\ CanTransferFrom(Approved(c, u, amount), now, Router, u, Pool, amount)
    /\ CanLockOrBurn(AtPool(c, u, amount), now, amount, fee)

\* OnRamp.forwardFromRouter: the message and its nonce, of which there always is
\* one: the extra arguments of the scripts and the tests ask for order.
SendMessage(c, u, receiver, amount, fee) ==
    /\ Len(sent[c]) < MaxMessages[c]
    /\ CanCcipSend(c, u, amount, fee)
    /\ outboundNonce' = [outboundNonce EXCEPT ![c][u] = @ + 1]
    /\ sent' = [sent EXCEPT ![c] = Append(@,
                 [sender |-> u, receiver |-> receiver, amount |-> amount - fee,
                  rate |-> token[c].sUserToInterestRate[u],
                  burnt |-> Resolve(AtPool(c, u, amount), now, Pool, amount),
                  nonce |-> outboundNonce[c][u] + 1,
                  state |-> "UNTOUCHED"])]
    /\ UNCHANGED <<sUserToAmountDeposited, now, inboundNonce, issued>>

\* Mutant: the minted ledger of the sender pays for the burn.
CcipSendChargesSender(c, u, receiver, amount, fee) ==
    LET burnt == Resolve(AtPool(c, u, amount), now, Pool, amount)
    IN  /\ SendMessage(c, u, receiver, amount, fee)
        /\ token' = [token EXCEPT
              ![c] = [AfterBurn(AtPool(c, u, amount), now, Pool, amount) EXCEPT
                        !.sUserToAmountMinted[u] = @ - burnt,
                        !.sUserToAmountMinted[Pool] = @ + burnt]]

\* Mutant: the fee is not burnt.
CcipSendKeepsFee(c, u, receiver, amount, fee) ==
    /\ SendMessage(c, u, receiver, amount, fee)
    /\ token' = [token EXCEPT
            ![c] = AfterBurn(AtPool(c, u, amount), now, Pool, amount - fee)]

CcipSend(c, u, receiver, amount, fee) ==
    /\ SendMessage(c, u, receiver, amount, fee)
    /\ token' = [token EXCEPT
                   ![c] = AfterBurn(AtPool(c, u, amount), now, Pool, amount)]

-----------------------------------------------------------------------------
(* Executing, on the other chain: OffRamp and the pool's releaseOrMint.       *)

\* Mutant: mint is called with the amount and the rate swapped.
ReleasedSwapped(d, m) == AfterMint(token[d], m.receiver, m.rate, m.amount)

\* The token of chain d after the pool has minted for message m.
Released(d, m) == AfterMint(token[d], m.receiver, m.amount, m.rate)

\* Mutant: nobody compares the balances.
BalancesIgnored(d, m) == TRUE

\* Unless the pool is the receiver, the off-ramp reads the receiver's balance
\* before and after, and reverts unless it grew by the amount minted.
BalancesMatch(d, m) ==
    /\ CanReadBalance(token[d], now, m.receiver)
    /\ CanReadBalance(Released(d, m), now, m.receiver)
    /\ BalanceOf(Released(d, m), now, m.receiver)
          = BalanceOf(token[d], now, m.receiver) + m.amount

CanReleaseOrMint(d, m) ==
    /\ CanMint(token[d], now, Pool, m.receiver, m.amount)
    /\ m.receiver # Pool => BalancesMatch(d, m)

\* Mutant: the tokens stay minted when the execution fails.
TrialExecuteKeepsMint(c, i, outcome) ==
    LET d == Other(c)
    IN  /\ outcome = "SUCCESS" => CanReleaseOrMint(d, sent[c][i])
        /\ token' = IF CanReleaseOrMint(d, sent[c][i])
                    THEN [token EXCEPT ![d] = Released(d, sent[c][i])]
                    ELSE token
        /\ sent' = [sent EXCEPT ![c][i].state = outcome]

\* executeSingleMessage, in a try block: the token changes only if it
\* succeeds, and it may always fail for want of gas.
TrialExecute(c, i, outcome) ==
    LET d == Other(c)
    IN  /\ outcome = "SUCCESS" => CanReleaseOrMint(d, sent[c][i])
        /\ token' = IF outcome = "SUCCESS"
                    THEN [token EXCEPT ![d] = Released(d, sent[c][i])]
                    ELSE token
        /\ sent' = [sent EXCEPT ![c][i].state = outcome]

\* Mutant: the nonce is bumped but not compared.
ExecuteAnyNonce(c, i) ==
    /\ i \in DOMAIN sent[c]
    /\ sent[c][i].state = "UNTOUCHED"
    /\ inboundNonce' = [inboundNonce EXCEPT ![c][sent[c][i].sender] = @ + 1]
    /\ \E outcome \in {"SUCCESS", "FAILURE"} : TrialExecute(c, i, outcome)
    /\ UNCHANGED <<sUserToAmountDeposited, now, outboundNonce, issued>>

\* Mutant: a failed attempt does not bump the nonce.
ExecuteBumpsOnSuccess(c, i) ==
    /\ i \in DOMAIN sent[c]
    /\ sent[c][i].state = "UNTOUCHED"
    /\ sent[c][i].nonce = inboundNonce[c][sent[c][i].sender] + 1
    /\ \E outcome \in {"SUCCESS", "FAILURE"} :
          /\ TrialExecute(c, i, outcome)
          /\ inboundNonce' =
                IF outcome = "FAILURE" THEN inboundNonce
                ELSE [inboundNonce EXCEPT ![c][sent[c][i].sender] = @ + 1]
    /\ UNCHANGED <<sUserToAmountDeposited, now, outboundNonce, issued>>

\* The first attempt, by the DON or, when the commit report is old, by hand.
\* It must be the next nonce of its sender; otherwise it is skipped.
Execute(c, i) ==
    /\ i \in DOMAIN sent[c]
    /\ sent[c][i].state = "UNTOUCHED"
    /\ sent[c][i].nonce = inboundNonce[c][sent[c][i].sender] + 1
    /\ inboundNonce' = [inboundNonce EXCEPT ![c][sent[c][i].sender] = @ + 1]
    /\ \E outcome \in {"SUCCESS", "FAILURE"} : TrialExecute(c, i, outcome)
    /\ UNCHANGED <<sUserToAmountDeposited, now, outboundNonce, issued>>

\* A failed message is tried again by hand, in any order; if it fails again
\* the transaction reverts.
ManuallyExecute(c, i) ==
    /\ i \in DOMAIN sent[c]
    /\ sent[c][i].state = "FAILURE"
    /\ TrialExecute(c, i, "SUCCESS")
    /\ UNCHANGED <<sUserToAmountDeposited, now, outboundNonce, inboundNonce,
                   issued>>

Next ==
    \/ \E u \in Users, n \in Amounts :
          \/ Deposit(u, n)
          \/ Redeem(u, n)
          \/ \E c \in Chains, to \in Holders : Transfer(c, u, to, n)
    \/ \E c \in Chains, u \in Senders, to \in Users \cup {Pool},
          n \in Amounts, fee \in Fees : CcipSend(c, u, to, n, fee)
    \/ \E c \in Chains :
          \/ \E n \in Issues : OwnerMintsToPool(c, n)
          \/ \E i \in 1..MaxMessages[c] : Execute(c, i) \/ ManuallyExecute(c, i)
    \/ \E r \in Rates : SetInterestRete(r)
    \/ Tick

Spec == Init /\ [][Next]_vars

\* The DON executes every committed message that is next in its sender's
\* order; when it does not, anybody may.
Fairness == \A c \in Chains : \A i \in 1..MaxMessages[c] :
                WF_vars(Execute(c, i))

FairSpec == Spec /\ Fairness

-----------------------------------------------------------------------------
(* Properties. *)

\* Every variable holds a value of its type.
TypeOK ==
    /\ token \in [Chains -> TokenStorage]
    /\ sUserToAmountDeposited \in [Accounts -> UInt]
    /\ now \in 0..MaxTime
    /\ \A c \in Chains : /\ Len(sent[c]) <= MaxMessages[c]
                         /\ \A i \in DOMAIN sent[c] : sent[c][i] \in Message
    /\ outboundNonce \in [Chains -> [Accounts -> Nat]]
    /\ inboundNonce \in [Chains -> [Accounts -> Nat]]
    /\ issued \in [Chains -> 0..MaxIssued]

\* What was burnt for the messages sent from c, and what those that succeeded
\* minted on the other chain, in all and to its pool.
Burnt(c) == Total([i \in DOMAIN sent[c] |-> sent[c][i].burnt])

MintedFor(m) == IF m.state = "SUCCESS" THEN m.amount ELSE 0
MintedToPool(m) == IF m.receiver = Pool THEN MintedFor(m) ELSE 0
Arrived(c) == Total([i \in DOMAIN sent[c] |-> MintedFor(sent[c][i])])
ArrivedAtPool(c) == Total([i \in DOMAIN sent[c] |-> MintedToPool(sent[c][i])])

\* Over both chains and everything under way, no token appears or vanishes:
\* the supplies, with what was burnt for messages and without what messages
\* have minted, are the deposits the vault holds and what the owner issued.
\* A message executed twice, or minted for although its execution failed, or
\* a burn that takes another amount than the message records, would show.
SupplyConserved ==
    token[Home].totalSupply + token[Remote].totalSupply
        + Burnt(Home) + Burnt(Remote) - Arrived(Home) - Arrived(Remote)
      = Total(sUserToAmountDeposited) + issued[Home] + issued[Remote]

\* A user never receives more than was burnt for the message, although burn
\* and the transfer to the pool read type(uint256).max as a whole balance and
\* the message carries it as a number.
ArrivesAtMostBurnt ==
    \A c \in Chains : \A i \in DOMAIN sent[c] :
        /\ sent[c][i].state = "SUCCESS"
        /\ sent[c][i].receiver # Pool
        => sent[c][i].amount <= sent[c][i].burnt

\* lockOrBurn burns from the pool's own account: what a chain has sent was
\* minted straight to its pool before, by the owner or for a message to the
\* pool, and no user's entry in the minted ledger ever pays for it.
PoolLedger ==
    \A c \in Chains :
        token[c].sUserToAmountMinted[Pool] + Burnt(c)
          = issued[c] + ArrivedAtPool(Other(c))

\* Wherever a rate has travelled - into a message, onto another chain and
\* back, over the rate of another holder - it is no higher than what the home
\* token first offered and no lower than what it offers now, or it is 0.
RateProvenance ==
    LET Offered == {0} \cup token[Home].sInterestRate..INITIAL_RATE
    IN  \A c \in Chains :
            /\ \A u \in Accounts : token[c].sUserToInterestRate[u] \in Offered
            /\ \A i \in DOMAIN sent[c] : sent[c][i].rate \in Offered

\* First attempts follow the order of sending: when a message has been
\* attempted, so have all its sender's earlier ones.
FirstAttemptsInOrder ==
    \A c \in Chains : \A j \in DOMAIN sent[c] : \A i \in 1..(j - 1) :
        /\ sent[c][i].sender = sent[c][j].sender
        /\ sent[c][j].state # "UNTOUCHED"
        => sent[c][i].state # "UNTOUCHED"

\* Bridging never takes away what redeem needs: on the home chain a user with
\* a deposit and the principal for it can redeem, whatever left for the other
\* chain and came back.
RedeemNeverStuck ==
    \A u \in Users, n \in 1..Funds :
        /\ n <= sUserToAmountDeposited[u]
        /\ n <= token[Home].balances[u]
        => CanRedeem(token[Home], sUserToAmountDeposited, now, u, n)

\* The pool overwrites the receiver's rate with the sender's, which can be
\* lower or zero, yet no arriving message lowers what balanceOf shows of a
\* user: it falls only when principal leaves.
BalanceFallsOnlyWithPrincipal ==
    [][\A c \in Chains, u \in Users :
          BalanceOf(token'[c], now', u) < BalanceOf(token[c], now, u) =>
             token'[c].balances[u] < token[c].balances[u]]_vars

\* A user with the principal for it can bridge a deposit (test/CrossChain.t.sol:188 bridges one).
DepositorCanBridge ==
    \A u \in Users, n \in Amounts \ {0, MaxUint} :
        /\ n <= sUserToAmountDeposited[u]
        /\ n <= token[Home].balances[u]
        => CanCcipSend(Home, u, n, 0)

\* Every message is attempted in the end: the order of nonces never leaves
\* one behind, whether the earlier ones succeed or fail.
EveryMessageAttempted ==
    \A c \in Chains : \A i \in 1..MaxMessages[c] :
        i \in DOMAIN sent[c] ~> (i \in DOMAIN sent[c]
                                   /\ sent[c][i].state # "UNTOUCHED")
=============================================================================
