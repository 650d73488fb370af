--------------------------- MODULE RebaseTokenOps ---------------------------
(***************************************************************************)
(* The RebaseToken contract (src/RebaseToken.sol) as functions over its    *)
(* storage.  A contract's storage is one record; a call is a pair of       *)
(* operators: CanF says that the call does not revert, AfterF is the       *)
(* storage it leaves.  A call that reverts changes nothing, so the modules *)
(* that run these calls as steps take the step only when CanF holds.       *)
(* Written this way a transaction that makes several calls is one          *)
(* composition of them, as it is one atomic step of the chain.             *)
(*                                                                         *)
(* Words are scaled down: MaxUint stands for type(uint256).max and         *)
(* PRECISION_FACTOR and INITIAL_RATE for 1e18 and 5e10.  Checked           *)
(* arithmetic reverts above MaxUint; what OpenZeppelin's ERC20 puts in an  *)
(* unchecked block wraps.  The zero address is not an account: every call  *)
(* that moves tokens from it or to it reverts.                             *)
(***************************************************************************)
EXTENDS Integers, FiniteSets

CONSTANTS
    Accounts,          \* addresses, of users and of contracts
    ZeroAddress,       \* address(0), the owner once ownership is renounced
    MaxUint,           \* type(uint256).max
    PRECISION_FACTOR,  \* RebaseToken.sol:36
    INITIAL_RATE       \* the initial sInterestRate, RebaseToken.sol:35

ASSUME TokenAssumption ==
    /\ IsFiniteSet(Accounts)
    /\ ZeroAddress \notin Accounts
    /\ MaxUint \in Nat \ {0}
    /\ PRECISION_FACTOR \in 1..MaxUint
    /\ INITIAL_RATE \in 0..MaxUint

UInt == 0..MaxUint

\* What an unchecked uint256 operation leaves of the exact result n.
Wrap(n) == n % (MaxUint + 1)

\* The units of a ledger f, or of a sequence of words: one pair per token, so
\* that the sum is the number of the units.
Units(f) == {x \in (DOMAIN f) \X (1..MaxUint) : x[2] <= f[x[1]]}
Total(f) == Cardinality(Units(f))

TokenStorage ==
    [sInterestRate : UInt,
     sUserToAmountMinted : [Accounts -> UInt],
     sUserToInterestRate : [Accounts -> UInt],
     sUserToLastUpdatedTimeStamp : [Accounts -> UInt],
     balances : [Accounts -> UInt],
     totalSupply : UInt,
     allowances : [Accounts -> [Accounts -> UInt]],
     minters : SUBSET Accounts,      \* holders of BURN_MINTER_ROLE
     admins : SUBSET Accounts,       \* holders of DEFAULT_ADMIN_ROLE
     owner : Accounts \cup {ZeroAddress}]

\* The storage its constructor leaves.
Deployed(deployer) ==
    [sInterestRate |-> INITIAL_RATE,
     sUserToAmountMinted |-> [u \in Accounts |-> 0],
     sUserToInterestRate |-> [u \in Accounts |-> 0],
     sUserToLastUpdatedTimeStamp |-> [u \in Accounts |-> 0],
     balances |-> [u \in Accounts |-> 0],
     totalSupply |-> 0,
     allowances |-> [u \in Accounts |-> [v \in Accounts |-> 0]],
     minters |-> {},
     admins |-> {},
     owner |-> deployer]

-----------------------------------------------------------------------------
(* Interest.  t is block.timestamp. *)

CalculateAccumulateInterest(tok, t, u) ==
    PRECISION_FACTOR
      + tok.sUserToInterestRate[u] * (t - tok.sUserToLastUpdatedTimeStamp[u])

BalanceOf(tok, t, u) ==
    (tok.balances[u] * CalculateAccumulateInterest(tok, t, u))
        \div PRECISION_FACTOR

\* No checked operation of balanceOf overflows.
CanReadBalance(tok, t, u) ==
    /\ tok.sUserToLastUpdatedTimeStamp[u] <= t
    /\ CalculateAccumulateInterest(tok, t, u) <= MaxUint
    /\ tok.balances[u] * CalculateAccumulateInterest(tok, t, u) <= MaxUint

\* _mintAccuredInterest is a view: it mints nothing, and all that its caller
\* sees of it is whether it reverts.
CanMintAccuredInterest(tok, t, u) ==
    /\ CanReadBalance(tok, t, u)
    /\ BalanceOf(tok, t, u) >= tok.balances[u]

\* type(uint256).max stands for the whole balance in burn and the transfers.
Resolve(tok, t, u, amount) ==
    IF amount = MaxUint THEN BalanceOf(tok, t, u) ELSE amount

-----------------------------------------------------------------------------
(* mint and burn, for holders of BURN_MINTER_ROLE. *)

CanMint(tok, t, caller, u, amount) ==
    /\ caller \in tok.minters
    /\ CanMintAccuredInterest(tok, t, u)
    /\ tok.sUserToAmountMinted[u] + amount <= MaxUint
    /\ tok.totalSupply + amount <= MaxUint

\* Mutant: the ledger entry is overwritten instead of increased.
AfterMintOverwrites(tok, u, amount, rate) ==
    [tok EXCEPT !.sUserToInterestRate[u] = rate,
                !.sUserToAmountMinted[u] = amount,
                !.totalSupply = @ + amount,
                !.balances[u] = Wrap(@ + amount)]

AfterMint(tok, u, amount, rate) ==
    [tok EXCEPT !.sUserToInterestRate[u] = rate,
                !.sUserToAmountMinted[u] = @ + amount,
                !.totalSupply = @ + amount,
                !.balances[u] = Wrap(@ + amount)]

\* Mutant: burn subtracts without checking.
CanBurnUnchecked(tok, t, caller, u, amount) ==
    /\ caller \in tok.minters
    /\ CanMintAccuredInterest(tok, t, u)

CanBurn(tok, t, caller, u, amount) ==
    LET burnt == Resolve(tok, t, u, amount)
    IN  /\ caller \in tok.minters
        /\ CanMintAccuredInterest(tok, t, u)
        /\ tok.sUserToAmountMinted[u] >= burnt
        /\ tok.balances[u] >= burnt

\* Mutant: burn forgets the minted ledger.
AfterBurnKeepsMinted(tok, t, u, amount) ==
    LET burnt == Resolve(tok, t, u, amount)
    IN  [tok EXCEPT !.balances[u] = @ - burnt,
                    !.totalSupply = Wrap(@ - burnt)]

AfterBurn(tok, t, u, amount) ==
    LET burnt == Resolve(tok, t, u, amount)
    IN  [tok EXCEPT !.sUserToAmountMinted[u] = @ - burnt,
                    !.balances[u] = @ - burnt,
                    !.totalSupply = Wrap(@ - burnt)]

-----------------------------------------------------------------------------
(* The ERC20 calls.  A transfer moves principal and leaves the minted       *)
(* ledger and both interest rates where they are.                           *)

\* Mutant: both new balances are computed from the old ones.
MoveBalanceFromCopies(tok, from, to, value) ==
    LET received == Wrap(tok.balances[to] + value)
    IN  [tok EXCEPT !.balances = [[@ EXCEPT ![from] = @ - value]
                                     EXCEPT ![to] = received]]

\* ERC20._update between two accounts; from = to is allowed.
MoveBalance(tok, from, to, value) ==
    LET debited == [tok.balances EXCEPT ![from] = @ - value]
    IN  [tok EXCEPT !.balances = [debited EXCEPT ![to] = Wrap(@ + value)]]

\* Mutant: the recipient's interest is not accrued.
CanTransferSenderOnly(tok, t, from, to, amount) ==
    /\ CanMintAccuredInterest(tok, t, from)
    /\ tok.balances[from] >= Resolve(tok, t, from, amount)

CanTransfer(tok, t, from, to, amount) ==
    /\ CanMintAccuredInterest(tok, t, to)
    /\ CanMintAccuredInterest(tok, t, from)
    /\ tok.balances[from] >= Resolve(tok, t, from, amount)

\* Mutant: the sentinel is the recipient's balance.
AfterTransferOfRecipient(tok, t, from, to, amount) ==
    MoveBalance(tok, from, to, Resolve(tok, t, to, amount))

AfterTransfer(tok, t, from, to, amount) ==
    MoveBalance(tok, from, to, Resolve(tok, t, from, amount))

\* Mutant: nobody checks the allowance.
CanTransferFromUnchecked(tok, t, spender, from, to, amount) ==
    CanTransfer(tok, t, from, to, amount)

\* The allowance is checked against the resolved amount; an allowance of
\* type(uint256).max is never spent.
CanTransferFrom(tok, t, spender, from, to, amount) ==
    /\ CanTransfer(tok, t, from, to, amount)
    /\ \/ tok.allowances[from][spender] = MaxUint
       \/ tok.allowances[from][spender] >= Resolve(tok, t, from, amount)

AfterTransferFrom(tok, t, spender, from, to, amount) ==
    LET value == Resolve(tok, t, from, amount)
        spent == IF tok.allowances[from][spender] = MaxUint THEN 0 ELSE value
    IN  [MoveBalance(tok, from, to, value) EXCEPT
            !.allowances[from][spender] = @ - spent]

AfterApprove(tok, from, spender, amount) ==
    [tok EXCEPT !.allowances[from][spender] = amount]

-----------------------------------------------------------------------------
(* Administration. *)

CanSetInterestRete(tok, caller, newRate) ==
    /\ caller = tok.owner
    /\ newRate <= tok.sInterestRate

AfterSetInterestRete(tok, newRate) == [tok EXCEPT !.sInterestRate = newRate]

\* Mutant: grantRole grants the role it is asked for.
AfterGrantRoleHonoured(tok, role, account) ==
    IF role = "DEFAULT_ADMIN_ROLE"
    THEN [tok EXCEPT !.admins = @ \cup {account}]
    ELSE [tok EXCEPT !.minters = @ \cup {account}]

\* grantRole ignores its role argument: whatever role the owner names, the
\* account becomes a minter.
AfterGrantRole(tok, role, account) ==
    [tok EXCEPT !.minters = @ \cup {account}]

\* AccessControl.revokeRole is for holders of the role's admin role, which is
\* DEFAULT_ADMIN_ROLE for every role.
CanRevokeRole(tok, caller) == caller \in tok.admins

\* AccessControl.renounceRole, of a role the caller holds.
AfterRenounceMinter(tok, caller) == [tok EXCEPT !.minters = @ \ {caller}]

\* Ownable: transferOwnership to an account, or renounceOwnership.
AfterTransferOwnership(tok, newOwner) == [tok EXCEPT !.owner = newOwner]
=============================================================================
