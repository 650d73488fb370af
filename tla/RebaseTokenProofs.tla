-------------------------- MODULE RebaseTokenProofs --------------------------
(***************************************************************************)
(* The properties of RebaseToken, for every set of accounts, every word    *)
(* size, every rate and every bound on time.                               *)
(***************************************************************************)
EXTENDS RebaseToken, RebaseTokenOpsProofs

\* The inductive invariant.  TypeOK alone is not inductive: see WellFormed.
\* That nobody administers a role, and that no call writes
\* sUserToLastUpdatedTimeStamp, are the further facts the properties need.
IInv ==
    /\ WellFormed(token)
    /\ now \in 0..MaxTime
    /\ token.admins = {}
    /\ \A u \in Accounts : token.sUserToLastUpdatedTimeStamp[u] = 0

LEMMA InitIInv == Init => IInv
<1> SUFFICES ASSUME Init PROVE IInv
  OBVIOUS
<1>1. WellFormed(token)
  BY DeployedWellFormed, RebaseTokenAssumption DEF Init
<1>2. now \in 0..MaxTime
  BY RebaseTokenAssumption DEF Init
<1>3. token.admins = {} /\ \A u \in Accounts : token.sUserToLastUpdatedTimeStamp[u] = 0
  BY DEF Init, Deployed
<1> QED
  BY <1>1, <1>2, <1>3 DEF IInv

\* What a call may leave of the storage for IInv to survive.
LEMMA KeepsIInv ==
  ASSUME IInv, WellFormed(token'), UNCHANGED now,
         token'.admins = token.admins,
         token'.sUserToLastUpdatedTimeStamp = token.sUserToLastUpdatedTimeStamp
  PROVE  IInv'
BY DEF IInv

LEMMA NextIInv == IInv /\ [Next]_vars => IInv'
<1> SUFFICES ASSUME IInv, [Next]_vars PROVE IInv'
  OBVIOUS
<1> USE RebaseTokenAssumption
<1>0. WellFormed(token) /\ token \in TokenStorage /\ now \in Nat
  BY DEF IInv, WellFormed
<1>1. ASSUME NEW c \in Accounts, NEW u \in Accounts, NEW a \in Amounts,
             NEW r \in Rates, Mint(c, u, a, r)
      PROVE  IInv'
  <2>1. WellFormed(token')
    BY <1>0, <1>1, MintWellFormed DEF Mint
  <2>2. /\ token'.admins = token.admins
        /\ token'.sUserToLastUpdatedTimeStamp = token.sUserToLastUpdatedTimeStamp
    BY <1>0, <1>1 DEF Mint, AfterMint, TokenStorage
  <2> QED
    BY <1>1, <2>1, <2>2, KeepsIInv DEF Mint
<1>2. ASSUME NEW c \in Accounts, NEW u \in Accounts, NEW a \in Amounts,
             Burn(c, u, a)
      PROVE  IInv'
  <2>1. WellFormed(token')
    BY <1>0, <1>2, BurnWellFormed DEF Burn
  <2>2. /\ token'.admins = token.admins
        /\ token'.sUserToLastUpdatedTimeStamp = token.sUserToLastUpdatedTimeStamp
    BY <1>0, <1>2 DEF Burn, AfterBurn, TokenStorage
  <2> QED
    BY <1>2, <2>1, <2>2, KeepsIInv DEF Burn
<1>3. ASSUME NEW c \in Accounts, NEW u \in Accounts, NEW a \in Amounts,
             Transfer(c, u, a)
      PROVE  IInv'
  <2>1. WellFormed(token')
    BY <1>0, <1>3, TransferWellFormed DEF Transfer
  <2>2. /\ token'.admins = token.admins
        /\ token'.sUserToLastUpdatedTimeStamp = token.sUserToLastUpdatedTimeStamp
    BY <1>0, <1>3 DEF Transfer, AfterTransfer, MoveBalance, TokenStorage
  <2> QED
    BY <1>3, <2>1, <2>2, KeepsIInv DEF Transfer
<1>4. ASSUME NEW c \in Accounts, NEW u \in Accounts, NEW v \in Accounts,
             NEW a \in Amounts, TransferFrom(c, u, v, a)
      PROVE  IInv'
  <2>1. WellFormed(token')
    BY <1>0, <1>4, TransferFromWellFormed DEF TransferFrom
  <2>2. /\ token'.admins = token.admins
        /\ token'.sUserToLastUpdatedTimeStamp = token.sUserToLastUpdatedTimeStamp
    BY <1>0, <1>4 DEF TransferFrom, AfterTransferFrom, MoveBalance, TokenStorage
  <2> QED
    BY <1>4, <2>1, <2>2, KeepsIInv DEF TransferFrom
<1>5. ASSUME NEW c \in Accounts, NEW u \in Spenders, NEW a \in Allowances,
             Approve(c, u, a)
      PROVE  IInv'
  <2>1. WellFormed(token')
    BY <1>0, <1>5, AllowanceWellFormed DEF Approve, AfterApprove
  <2>2. /\ token'.admins = token.admins
        /\ token'.sUserToLastUpdatedTimeStamp = token.sUserToLastUpdatedTimeStamp
    BY <1>0, <1>5 DEF Approve, AfterApprove, TokenStorage
  <2> QED
    BY <1>5, <2>1, <2>2, KeepsIInv DEF Approve
<1>6. ASSUME NEW c \in Accounts, NEW r \in Rates, SetInterestRete(c, r)
      PROVE  IInv'
  <2>1. WellFormed(token')
    BY <1>0, <1>6, AdministrationWellFormed DEF SetInterestRete
  <2>2. /\ token'.admins = token.admins
        /\ token'.sUserToLastUpdatedTimeStamp = token.sUserToLastUpdatedTimeStamp
    BY <1>0, <1>6 DEF SetInterestRete, AfterSetInterestRete, TokenStorage
  <2> QED
    BY <1>6, <2>1, <2>2, KeepsIInv DEF SetInterestRete
<1>7. ASSUME NEW c \in Accounts, NEW role \in Roles, NEW u \in Accounts,
             GrantRole(c, role, u)
      PROVE  IInv'
  <2>1. WellFormed(token')
    BY <1>0, <1>7, AdministrationWellFormed DEF GrantRole
  <2>2. /\ token'.admins = token.admins
        /\ token'.sUserToLastUpdatedTimeStamp = token.sUserToLastUpdatedTimeStamp
    BY <1>0, <1>7 DEF GrantRole, AfterGrantRole, TokenStorage
  <2> QED
    BY <1>7, <2>1, <2>2, KeepsIInv DEF GrantRole
<1>8. ASSUME NEW c \in Accounts, RenounceRole(c)
      PROVE  IInv'
  <2>1. WellFormed(token')
    BY <1>0, <1>8, AdministrationWellFormed DEF RenounceRole
  <2>2. /\ token'.admins = token.admins
        /\ token'.sUserToLastUpdatedTimeStamp = token.sUserToLastUpdatedTimeStamp
    BY <1>0, <1>8 DEF RenounceRole, AfterRenounceMinter, TokenStorage
  <2> QED
    BY <1>8, <2>1, <2>2, KeepsIInv DEF RenounceRole
<1>9. ASSUME NEW c \in Accounts, NEW o \in Accounts \cup {ZeroAddress},
             TransferOwnership(c, o)
      PROVE  IInv'
  <2>1. WellFormed(token')
    BY <1>0, <1>9, AdministrationWellFormed DEF TransferOwnership
  <2>2. /\ token'.admins = token.admins
        /\ token'.sUserToLastUpdatedTimeStamp = token.sUserToLastUpdatedTimeStamp
    BY <1>0, <1>9 DEF TransferOwnership, AfterTransferOwnership, TokenStorage
  <2> QED
    BY <1>9, <2>1, <2>2, KeepsIInv DEF TransferOwnership
<1>10. CASE Tick
  BY <1>10 DEF Tick, IInv
<1>11. CASE UNCHANGED vars
  BY <1>11 DEF vars, IInv
<1> QED
  BY <1>1, <1>2, <1>3, <1>4, <1>5, <1>6, <1>7, <1>8, <1>9, <1>10, <1>11
     DEF Next

\* IInv holds in every reachable state.
THEOREM Invariance == Spec => []IInv
BY InitIInv, NextIInv, PTL DEF Spec

\* Every storage slot always holds a word, whatever minters mint and burn: no
\* unchecked addition wraps and no balance goes below zero.
THEOREM TypeCorrect == Spec => []TypeOK
<1>1. IInv => TypeOK
  BY DEF IInv, TypeOK, WellFormed
<1> QED
  BY <1>1, Invariance, PTL

\* The balances and the minted ledger both add up to totalSupply, although
\* the transfers move one of them and not the other.
THEOREM LedgersAlwaysAddUp == Spec => []LedgersAddUp
<1>1. IInv => LedgersAddUp
  BY DEF IInv, LedgersAddUp, WellFormed
<1> QED
  BY <1>1, Invariance, PTL

\* Nobody can ever revoke a minter.
THEOREM MintersStay == Spec => []MintersIrrevocable
<1>1. IInv => MintersIrrevocable
  BY DEF IInv, MintersIrrevocable, CanRevokeRole
<1> QED
  BY <1>1, Invariance, PTL

\* An account whose entries and whose clock stay, at the same time, stays
\* frozen.
LEMMA UntouchedStaysFrozen ==
  ASSUME NEW u \in Accounts, Frozen(u), UNCHANGED now,
         token'.balances[u] = token.balances[u],
         token'.sUserToInterestRate[u] = token.sUserToInterestRate[u],
         token'.sUserToLastUpdatedTimeStamp[u]
            = token.sUserToLastUpdatedTimeStamp[u]
  PROVE  Frozen(u)'
BY DEF Frozen, CanMintAccuredInterest, CanReadBalance, BalanceOf,
       CalculateAccumulateInterest

\* Once interest has overflowed, no call by anybody reaches the account again
\* and no block thaws it.
THEOREM FrozenStaysFrozen == Spec => FrozenForever
<1> DEFINE Kept(u) ==
             /\ token'.balances[u] = token.balances[u]
             /\ token'.sUserToAmountMinted[u] = token.sUserToAmountMinted[u]
             /\ token'.sUserToInterestRate[u] = token.sUserToInterestRate[u]
             /\ token'.sUserToLastUpdatedTimeStamp[u]
                  = token.sUserToLastUpdatedTimeStamp[u]
           Goal(u) ==
             /\ token'.balances[u] = token.balances[u]
             /\ token'.sUserToAmountMinted[u] = token.sUserToAmountMinted[u]
             /\ token'.sUserToInterestRate[u] = token.sUserToInterestRate[u]
             /\ Frozen(u)'
<1>1. ASSUME IInv, Next, NEW u \in Accounts, Frozen(u)
      PROVE  Goal(u)
  <2>1. token \in TokenStorage /\ now \in Nat
    BY <1>1, RebaseTokenAssumption DEF IInv, WellFormed
  <2>2. SUFFICES ASSUME ~Tick
                 PROVE  Kept(u) /\ UNCHANGED now
    <3>1. CASE ~Tick
      BY <1>1, <2>2, <3>1, UntouchedStaysFrozen
    <3>2. CASE Tick
      <4>1. UNCHANGED token /\ now' = now + 1
        BY <3>2 DEF Tick
      <4>2. ~CanReadBalance(token, now, u)
        BY <1>1, <2>1, BalanceAtLeastPrincipal
           DEF Frozen, CanMintAccuredInterest
      <4>3. token.sUserToLastUpdatedTimeStamp[u] <= now
        BY <1>1, <2>1 DEF IInv
      <4>4. ~CanReadBalance(token, now + 1, u)
        BY <2>1, <4>2, <4>3, ReadableEarlier
      <4> QED
        BY <4>1, <4>4 DEF Frozen, CanMintAccuredInterest
    <3> QED
      BY <3>1, <3>2
  <2>3. ASSUME NEW c \in Accounts, NEW v \in Accounts, NEW a \in Amounts,
               NEW r \in Rates, Mint(c, v, a, r)
        PROVE  Kept(u) /\ UNCHANGED now
    <3>1. u # v
      BY <1>1, <2>3 DEF Mint, CanMint, Frozen
    <3> QED
      BY <2>1, <2>3, <3>1 DEF Mint, AfterMint, TokenStorage
  <2>4. ASSUME NEW c \in Accounts, NEW v \in Accounts, NEW a \in Amounts,
               Burn(c, v, a)
        PROVE  Kept(u) /\ UNCHANGED now
    <3>1. u # v
      BY <1>1, <2>4 DEF Burn, CanBurn, Frozen
    <3> QED
      BY <2>1, <2>4, <3>1 DEF Burn, AfterBurn, TokenStorage
  <2>5. ASSUME NEW c \in Accounts, NEW v \in Accounts, NEW a \in Amounts,
               Transfer(c, v, a)
        PROVE  Kept(u) /\ UNCHANGED now
    <3>1. u # c /\ u # v
      BY <1>1, <2>5 DEF Transfer, CanTransfer, Frozen
    <3> QED
      BY <2>1, <2>5, <3>1
         DEF Transfer, AfterTransfer, MoveBalance, TokenStorage
  <2>6. ASSUME NEW c \in Accounts, NEW v \in Accounts, NEW w \in Accounts,
               NEW a \in Amounts, TransferFrom(c, v, w, a)
        PROVE  Kept(u) /\ UNCHANGED now
    <3>1. u # v /\ u # w
      BY <1>1, <2>6 DEF TransferFrom, CanTransferFrom, CanTransfer, Frozen
    <3> QED
      BY <2>1, <2>6, <3>1
         DEF TransferFrom, AfterTransferFrom, MoveBalance, TokenStorage
  <2>7. ASSUME NEW c \in Accounts, NEW v \in Spenders, NEW a \in Allowances,
               Approve(c, v, a)
        PROVE  Kept(u) /\ UNCHANGED now
    BY <2>1, <2>7 DEF Approve, AfterApprove, TokenStorage
  <2>8. ASSUME NEW c \in Accounts, NEW r \in Rates, SetInterestRete(c, r)
        PROVE  Kept(u) /\ UNCHANGED now
    BY <2>1, <2>8 DEF SetInterestRete, AfterSetInterestRete, TokenStorage
  <2>9. ASSUME NEW c \in Accounts, NEW role \in Roles, NEW v \in Accounts,
               GrantRole(c, role, v)
        PROVE  Kept(u) /\ UNCHANGED now
    BY <2>1, <2>9 DEF GrantRole, AfterGrantRole, TokenStorage
  <2>10. ASSUME NEW c \in Accounts, RenounceRole(c)
         PROVE  Kept(u) /\ UNCHANGED now
    BY <2>1, <2>10 DEF RenounceRole, AfterRenounceMinter, TokenStorage
  <2>11. ASSUME NEW c \in Accounts, NEW o \in Accounts \cup {ZeroAddress},
                TransferOwnership(c, o)
         PROVE  Kept(u) /\ UNCHANGED now
    BY <2>1, <2>11 DEF TransferOwnership, AfterTransferOwnership, TokenStorage
  <2> HIDE DEF Kept
  <2> QED
    BY <1>1, <2>2, <2>3, <2>4, <2>5, <2>6, <2>7, <2>8, <2>9, <2>10, <2>11
       DEF Next
<1>2. ASSUME IInv, [Next]_vars
      PROVE  [\A u \in Accounts : Frozen(u) => Goal(u)]_vars
  BY <1>1, <1>2
<1> QED
  BY <1>2, Invariance, PTL DEF Spec, FrozenForever

\* The sentinel amount moves all of a sender's principal or reverts.
THEOREM SentinelMovesAllOrNothing == Spec => []SentinelMovesAll
<1>1. ASSUME IInv PROVE SentinelMovesAll
  <2> SUFFICES ASSUME NEW u \in Accounts, NEW v \in Accounts, u # v,
                      CanTransfer(token, now, u, v, MaxUint)
               PROVE  AfterTransfer(token, now, u, v, MaxUint).balances[u] = 0
    BY DEF SentinelMovesAll
  <2>1. token \in TokenStorage /\ now \in Nat
    BY <1>1, RebaseTokenAssumption DEF IInv, WellFormed
  <2>2. Resolve(token, now, u, MaxUint) = BalanceOf(token, now, u)
    BY DEF Resolve
  <2>3. /\ BalanceOf(token, now, u) >= token.balances[u]
        /\ BalanceOf(token, now, u) <= token.balances[u]
    BY <2>2 DEF CanTransfer, CanMintAccuredInterest
  <2>4. BalanceOf(token, now, u) \in Nat /\ token.balances[u] \in Nat
    BY <2>1, BalanceOfIsNat, StorageTypes, TokenAssumption
       DEF CanTransfer, CanMintAccuredInterest, UInt
  <2>5. Resolve(token, now, u, MaxUint) = token.balances[u]
    BY <2>2, <2>3, <2>4
  <2>6. token.balances[u] - token.balances[u] = 0
    BY <2>4
  <2> QED
    BY <2>1, <2>5, <2>6 DEF AfterTransfer, MoveBalance, TokenStorage
<1> QED
  BY <1>1, Invariance, PTL
=============================================================================
