----------------------------- MODULE RebaseToken -----------------------------
(***************************************************************************)
(* One RebaseToken contract and everybody who may call it: the owner, the  *)
(* accounts the owner has granted the minter role, and holders.  Nothing   *)
(* is assumed of a minter: it mints and burns for whom it likes, at the    *)
(* rate it likes.  One step is one transaction.                            *)
(***************************************************************************)
EXTENDS RebaseTokenOps

CONSTANTS
    Deployer,  \* the account that deploys the contract
    Amounts,   \* the amounts callers pass to mint, burn and the transfers
    Allowances,\* the amounts holders approve
    Spenders,  \* the accounts holders approve
    Rates,     \* the interest rates callers pass
    MaxTime    \* bound on block.timestamp

ASSUME RebaseTokenAssumption ==
    /\ Deployer \in Accounts
    /\ Amounts \subseteq UInt
    /\ Allowances \subseteq UInt
    /\ Spenders \subseteq Accounts
    /\ Rates \subseteq UInt
    /\ MaxTime \in Nat

DEFAULT_ADMIN_ROLE == "DEFAULT_ADMIN_ROLE"
BURN_MINTER_ROLE == "BURN_MINTER_ROLE"
Roles == {DEFAULT_ADMIN_ROLE, BURN_MINTER_ROLE}

VARIABLES
    token,  \* the contract's storage
    now     \* block.timestamp

vars == <<token, now>>

Init ==
    /\ token = Deployed(Deployer)
    /\ now = 0

-----------------------------------------------------------------------------
Mint(caller, u, amount, rate) ==
    /\ CanMint(token, now, caller, u, amount)
    /\ token' = AfterMint(token, u, amount, rate)
    /\ UNCHANGED now

Burn(caller, u, amount) ==
    /\ CanBurn(token, now, caller, u, amount)
    /\ token' = AfterBurn(token, now, u, amount)
    /\ UNCHANGED now

Transfer(caller, to, amount) ==
    /\ CanTransfer(token, now, caller, to, amount)
    /\ token' = AfterTransfer(token, now, caller, to, amount)
    /\ UNCHANGED now

TransferFrom(caller, from, to, amount) ==
    /\ CanTransferFrom(token, now, caller, from, to, amount)
    /\ token' = AfterTransferFrom(token, now, caller, from, to, amount)
    /\ UNCHANGED now

Approve(caller, spender, amount) ==
    /\ token' = AfterApprove(token, caller, spender, amount)
    /\ UNCHANGED now

SetInterestRete(caller, newRate) ==
    /\ CanSetInterestRete(token, caller, newRate)
    /\ token' = AfterSetInterestRete(token, newRate)
    /\ UNCHANGED now

GrantRole(caller, role, account) ==
    /\ caller = token.owner
    /\ token' = AfterGrantRole(token, role, account)
    /\ UNCHANGED now

RenounceRole(caller) ==
    /\ token' = AfterRenounceMinter(token, caller)
    /\ UNCHANGED now

\* newOwner = ZeroAddress is renounceOwnership.
TransferOwnership(caller, newOwner) ==
    /\ caller = token.owner
    /\ token' = AfterTransferOwnership(token, newOwner)
    /\ UNCHANGED now

\* A later block.
Tick ==
    /\ now < MaxTime
    /\ now' = now + 1
    /\ UNCHANGED token

Next ==
    \/ \E c, u \in Accounts, a \in Amounts :
          \/ \E r \in Rates : Mint(c, u, a, r)
          \/ Burn(c, u, a)
          \/ Transfer(c, u, a)
          \/ \E v \in Accounts : TransferFrom(c, u, v, a)
    \/ \E c \in Accounts :
          \/ \E u \in Spenders, a \in Allowances : Approve(c, u, a)
          \/ \E r \in Rates : SetInterestRete(c, r)
          \/ \E role \in Roles, u \in Accounts : GrantRole(c, role, u)
          \/ RenounceRole(c)
          \/ \E u \in Accounts \cup {ZeroAddress} : TransferOwnership(c, u)
    \/ Tick

Spec == Init /\ [][Next]_vars

-----------------------------------------------------------------------------
(* Properties. *)

\* Every storage slot holds a word: no call of the contract, checked or
\* unchecked, leaves a negative number or one too large.
TypeOK ==
    /\ token \in TokenStorage
    /\ now \in 0..MaxTime

\* The minted ledger and the balances are moved by different calls - mint and
\* burn write both, the transfers only the balances - yet both always add up
\* to totalSupply.
LedgersAddUp ==
    /\ Total(token.balances) = token.totalSupply
    /\ Total(token.sUserToAmountMinted) = token.totalSupply

\* A balance whose interest overflows a word can no longer be read.
Frozen(u) == ~CanMintAccuredInterest(token, now, u)

\* An account whose balance can no longer be read is out of everyone's reach
\* for good: no mint, burn or transfer changes its balance, its minted amount
\* or its rate, and no later block thaws it.
FrozenForever ==
    [][\A u \in Accounts : Frozen(u) =>
          /\ token'.balances[u] = token.balances[u]
          /\ token'.sUserToAmountMinted[u] = token.sUserToAmountMinted[u]
          /\ token'.sUserToInterestRate[u] = token.sUserToInterestRate[u]
          /\ Frozen(u)']_vars

\* Whatever role the owner names in grantRole, nobody ever administers a
\* role, so revokeRole reverts for every caller and a minter, once granted,
\* cannot be removed by anyone else.
MintersIrrevocable == ~ \E c \in Accounts : CanRevokeRole(token, c)

\* The sentinel amount never moves part of a balance: when transfer accepts
\* type(uint256).max, the sender keeps no principal.
SentinelMovesAll ==
    \A u, v \in Accounts :
        u # v /\ CanTransfer(token, now, u, v, MaxUint) =>
            AfterTransfer(token, now, u, v, MaxUint).balances[u] = 0
=============================================================================
