------------------------------ MODULE VaultOps ------------------------------
(***************************************************************************)
(* The calls of the Vault contract (src/Vault.sol) as functions of its     *)
(* ledger dep and of the token's storage tok, in the form RebaseTokenOps   *)
(* gives to the token's own calls.  Ether moves are left to the modules    *)
(* that run these calls.                                                   *)
(***************************************************************************)
EXTENDS RebaseTokenOps

CONSTANT VaultAddress  \* the address of the vault, a minter of the token

ASSUME VaultAssumption == VaultAddress \in Accounts

\* Mutant: every deposit takes the current rate.
DepositRateCurrent(tok, u) == tok.sInterestRate

\* deposit keeps the rate of a holder who has one, and gives everybody else
\* the token's current rate.
DepositRate(tok, u) ==
    IF tok.sUserToInterestRate[u] = 0 THEN tok.sInterestRate
                                      ELSE tok.sUserToInterestRate[u]

CanDeposit(tok, dep, t, u, value) ==
    /\ value # 0
    /\ dep[u] + value <= MaxUint
    /\ CanMint(tok, t, VaultAddress, u, value)

AfterDeposit(tok, u, value) == AfterMint(tok, u, value, DepositRate(tok, u))

CanRedeem(tok, dep, t, u, amount) ==
    /\ amount # 0
    /\ dep[u] >= amount
    /\ CanBurn(tok, t, VaultAddress, u, amount)

AfterRedeem(tok, t, u, amount) == AfterBurn(tok, t, u, amount)
=============================================================================
