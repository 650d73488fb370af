------------------------------ MODULE VaultProofs ------------------------------
(***************************************************************************)
(* The vault's ledger, the token's and the ether, for every set of         *)
(* accounts, whatever contract accounts do inside a redemption: they       *)
(* implement the custody of the abstract specification.                    *)
(***************************************************************************)
EXTENDS Vault, RebaseTokenOpsProofs

\* What holds of the storage of both contracts and of the ether, at every
\* instant and if an open redemption reverts: the vault owes no more than it
\* has, and nobody's rate is above the first one.
Good(tok, dep, e) ==
    /\ WellFormed(tok)
    /\ tok.sUserToAmountMinted = dep
    /\ e \in Ledger
    /\ Total(e) = Total(InitialEther)
    /\ Total(dep) <= e[VaultAddress]
    /\ VaultAddress \in tok.minters
    /\ tok.sInterestRate <= INITIAL_RATE
    /\ \A u \in Accounts :
          /\ tok.sUserToInterestRate[u] <= INITIAL_RATE
          /\ tok.sUserToLastUpdatedTimeStamp[u] = 0

\* Whoever has a rate keeps it.
RatesKept(old, new) ==
    \A u \in Users : old.sUserToInterestRate[u] # 0 =>
        new.sUserToInterestRate[u] = old.sUserToInterestRate[u]

Undone == [token : TokenStorage, deposited : [Accounts -> UInt], eth : [Accounts -> Nat]]

CallInv ==
    \/ call = Idle
    \/ /\ call.open = TRUE
       /\ call.before \in Undone
       /\ Good(call.before.token, call.before.deposited, call.before.eth)
       /\ RatesKept(call.before.token, token)

VaultInv ==
    /\ Good(token, sUserToAmountDeposited, eth)
    /\ now \in 0..MaxTime
    /\ CallInv

LEMMA GoodTypes ==
  ASSUME NEW tok, NEW dep, NEW e, Good(tok, dep, e)
  PROVE  /\ tok \in TokenStorage
         /\ dep \in Ledger
         /\ e \in Ledger
         /\ Total(dep) \in Nat
         /\ \A u \in Accounts : /\ dep[u] \in Nat /\ e[u] \in Nat
                                /\ dep[u] <= Total(dep)
                                /\ e[u] <= Total(e) /\ e[u] < MaxUint
<1>1. tok \in TokenStorage /\ dep \in Ledger /\ e \in Ledger
  BY StorageTypes DEF Good, WellFormed
<1>2. Total(dep) \in Nat /\ Total(e) \in Nat
  BY <1>1, TotalIsNat
<1>3. ASSUME NEW u \in Accounts
      PROVE  /\ dep[u] \in Nat /\ e[u] \in Nat
             /\ dep[u] <= Total(dep) /\ e[u] <= Total(e)
  BY <1>1, <1>3, EntryAtMostTotal, TokenAssumption DEF Ledger, UInt
<1>4. Total(e) < MaxUint
  BY EtherAssumption DEF Good
<1> QED BY <1>1, <1>2, <1>3, <1>4, TokenAssumption

\* A payment from u to v.
Paid(e, u, v, value) == [e EXCEPT ![u] = @ - value, ![v] = @ + value]

LEMMA PaymentKeepsTotal ==
  ASSUME NEW e \in Ledger, Total(e) < MaxUint,
         NEW u \in Accounts, NEW v \in Accounts, u # v,
         NEW value \in Nat, value <= e[u]
  PROVE  /\ Paid(e, u, v, value) \in Ledger
         /\ Total(Paid(e, u, v, value)) = Total(e)
         /\ Paid(e, u, v, value)[v] = e[v] + value
         /\ Paid(e, u, v, value)[u] = e[u] - value
<1> DEFINE debited == [e EXCEPT ![u] = e[u] - value]
           paid == [debited EXCEPT ![v] = e[v] + value]
<1>1. e[u] \in Nat /\ e[v] \in Nat /\ MaxUint \in Nat /\ e[u] <= MaxUint
  BY TokenAssumption DEF Ledger, UInt
<1>2. e[u] - value \in UInt
  BY <1>1 DEF UInt
<1>3. e[v] + value \in UInt
  <2>1. e[u] + e[v] <= Total(e) /\ Total(e) \in Nat
    BY EntriesAtMostTotal, TotalIsNat
  <2> QED BY <1>1, <2>1 DEF UInt
<1>4. debited \in Ledger /\ debited[v] = e[v] /\ debited[u] = e[u] - value
  BY <1>2 DEF Ledger
<1>5. Total(debited) = Total(e) - e[u] + (e[u] - value)
  BY <1>2, TotalExcept
<1>6. Total(paid) = Total(debited) - debited[v] + (e[v] + value)
  <2> HIDE DEF debited
  <2> QED BY <1>3, <1>4, TotalExcept
<1>7. Total(paid) = Total(e)
  <2> HIDE DEF debited, paid
  <2> QED BY <1>1, <1>4, <1>5, <1>6, TotalIsNat
<1>8. paid \in Ledger /\ paid[v] = e[v] + value /\ paid[u] = e[u] - value
  BY <1>3, <1>4 DEF Ledger
<1>9. Paid(e, u, v, value) = paid
  BY DEF Paid, Ledger
<1> QED BY <1>7, <1>8, <1>9

\* Ether for the vault that is credited to nobody.
LEMMA ReceiveGood ==
  ASSUME Good(token, sUserToAmountDeposited, eth), NEW u \in Users,
         NEW value \in 0..eth[u]
  PROVE  /\ Good(token, sUserToAmountDeposited, PayVault(u, value))
         /\ PayVault(u, value)[VaultAddress] = eth[VaultAddress] + value
         /\ PayVault(u, value)[u] = eth[u] - value
<1>1. u \in Accounts /\ VaultAddress \in Accounts /\ u # VaultAddress
  BY VaultAssumption DEF Users
<1>2. eth \in Ledger /\ Total(eth) < MaxUint
  BY GoodTypes, EtherAssumption DEF Good
<1>3. value \in Nat /\ value <= eth[u] /\ eth[VaultAddress] \in Nat
  BY <1>1, GoodTypes
<1>4. /\ PayVault(u, value) \in Ledger
      /\ Total(PayVault(u, value)) = Total(eth)
      /\ PayVault(u, value)[VaultAddress] = eth[VaultAddress] + value
      /\ PayVault(u, value)[u] = eth[u] - value
  <2>1. PayVault(u, value) = Paid(eth, u, VaultAddress, value)
    BY DEF PayVault, Paid
  <2> QED BY <1>1, <1>2, <1>3, <2>1, PaymentKeepsTotal
<1>5. Total(sUserToAmountDeposited) \in Nat
  BY GoodTypes
<1> QED BY <1>3, <1>4, <1>5 DEF Good

LEMMA DepositGood ==
  ASSUME Good(token, sUserToAmountDeposited, eth), now \in Nat, NEW u \in Users,
         NEW value \in 0..eth[u],
         CanDeposit(token, sUserToAmountDeposited, now, u, value)
  PROVE  /\ Good(AfterDeposit(token, u, value),
                 [sUserToAmountDeposited EXCEPT ![u] = @ + value], PayVault(u, value))
         /\ RatesKept(token, AfterDeposit(token, u, value))
<1> DEFINE dep == [sUserToAmountDeposited EXCEPT ![u] = @ + value]
           tok == AfterDeposit(token, u, value)
           rate == DepositRate(token, u)
<1>1. u \in Accounts /\ VaultAddress \in Accounts
  BY VaultAssumption DEF Users
<1>2. /\ token \in TokenStorage /\ WellFormed(token)
      /\ sUserToAmountDeposited \in Ledger
      /\ token.sUserToAmountMinted = sUserToAmountDeposited
  BY GoodTypes DEF Good
<1>3. CanMint(token, now, VaultAddress, u, value)
  BY DEF CanDeposit
<1>4. value \in Nat /\ value < MaxUint /\ value \in UInt
  BY <1>1, GoodTypes, TokenAssumption DEF UInt
<1>5. /\ rate \in UInt /\ rate <= INITIAL_RATE
      /\ token.sUserToInterestRate[u] # 0 => rate = token.sUserToInterestRate[u]
  BY <1>1, <1>2 DEF DepositRate, Good, TokenStorage
<1>6. WellFormed(tok)
  BY <1>1, <1>2, <1>3, <1>4, <1>5, MintWellFormed DEF AfterDeposit
<1>7. tok.sUserToAmountMinted = dep
  BY <1>1, <1>2 DEF AfterDeposit, AfterMint, TokenStorage
<1>8. /\ tok.minters = token.minters
      /\ tok.sInterestRate = token.sInterestRate
      /\ tok.sUserToLastUpdatedTimeStamp = token.sUserToLastUpdatedTimeStamp
      /\ tok.sUserToInterestRate = [token.sUserToInterestRate EXCEPT ![u] = rate]
  BY <1>2 DEF AfterDeposit, AfterMint, TokenStorage
<1>9. /\ \A v \in Accounts : /\ tok.sUserToInterestRate[v] <= INITIAL_RATE
                             /\ tok.sUserToLastUpdatedTimeStamp[v] = 0
      /\ RatesKept(token, tok)
  <2> HIDE DEF tok, rate
  <2>1. token.sUserToInterestRate \in [Accounts -> UInt]
    BY <1>2 DEF TokenStorage
  <2> QED BY <1>1, <1>5, <1>8, <2>1 DEF Good, RatesKept, Users
<1>10. Total(dep) = Total(sUserToAmountDeposited) + value
  <2>1. sUserToAmountDeposited[u] + value \in UInt
    BY <1>1, <1>4, GoodTypes, TokenAssumption DEF CanDeposit, UInt
  <2>2. Total(dep) = Total(sUserToAmountDeposited) - sUserToAmountDeposited[u]
                        + (sUserToAmountDeposited[u] + value)
    BY <1>1, <1>2, <2>1, TotalExcept
  <2> QED BY <1>1, <1>4, <2>2, GoodTypes
<1>11. /\ PayVault(u, value) \in Ledger
       /\ Total(PayVault(u, value)) = Total(InitialEther)
       /\ PayVault(u, value)[VaultAddress] = eth[VaultAddress] + value
  BY ReceiveGood DEF Good
<1>12. Total(dep) <= PayVault(u, value)[VaultAddress]
  <2> HIDE DEF dep
  <2> QED BY <1>1, <1>4, <1>10, <1>11, GoodTypes DEF Good
<1> HIDE DEF tok, dep
<1>13. Good(tok, dep, PayVault(u, value))
  BY <1>6, <1>7, <1>8, <1>9, <1>11, <1>12 DEF Good
<1> QED BY <1>9, <1>13 DEF tok, dep

\* What a user may redeem is less than a word can hold: the sentinel amount of
\* burn is out of reach.
LEMMA RedeemedIsBurnt ==
  ASSUME Good(token, sUserToAmountDeposited, eth), NEW u \in Users, NEW amount \in UInt,
         amount <= sUserToAmountDeposited[u]
  PROVE  Resolve(token, now, u, amount) = amount
<1>1. u \in Accounts /\ VaultAddress \in Accounts
  BY VaultAssumption DEF Users
<1>2. /\ sUserToAmountDeposited[u] <= Total(sUserToAmountDeposited)
      /\ Total(sUserToAmountDeposited) <= eth[VaultAddress]
      /\ eth[VaultAddress] < MaxUint
      /\ sUserToAmountDeposited[u] \in Nat /\ Total(sUserToAmountDeposited) \in Nat
      /\ eth[VaultAddress] \in Nat
  BY <1>1, GoodTypes DEF Good
<1>3. amount # MaxUint
  BY <1>2, TokenAssumption DEF UInt
<1> QED BY <1>3 DEF Resolve

LEMMA RedeemGood ==
  ASSUME Good(token, sUserToAmountDeposited, eth), now \in Nat, NEW u \in Users,
         NEW amount \in UInt, NEW value \in 0..eth[u],
         CanRedeem(token, sUserToAmountDeposited, now, u, amount),
         eth[VaultAddress] + value >= amount
  PROVE  /\ Good(AfterRedeem(token, now, u, amount),
                 [sUserToAmountDeposited EXCEPT ![u] = @ - amount],
                 PaidByVault(PayVault(u, value), u, amount))
         /\ RatesKept(token, AfterRedeem(token, now, u, amount))
<1> DEFINE dep == [sUserToAmountDeposited EXCEPT ![u] = @ - amount]
           tok == AfterRedeem(token, now, u, amount)
           paid == PayVault(u, value)
           e == PaidByVault(paid, u, amount)
<1>1. u \in Accounts /\ VaultAddress \in Accounts /\ u # VaultAddress
  BY VaultAssumption DEF Users
<1>2. /\ token \in TokenStorage /\ WellFormed(token)
      /\ sUserToAmountDeposited \in Ledger
      /\ token.sUserToAmountMinted = sUserToAmountDeposited
  BY GoodTypes DEF Good
<1>3. /\ CanBurn(token, now, VaultAddress, u, amount)
      /\ amount <= sUserToAmountDeposited[u]
      /\ amount \in Nat
      /\ sUserToAmountDeposited[u] \in Nat
  BY <1>1, GoodTypes, TokenAssumption DEF CanRedeem, UInt
<1>4. Resolve(token, now, u, amount) = amount
  BY <1>3, RedeemedIsBurnt
<1>5. WellFormed(tok)
  BY <1>1, <1>2, <1>3, BurnWellFormed DEF AfterRedeem
<1>6. tok.sUserToAmountMinted = dep
  BY <1>1, <1>2, <1>4 DEF AfterRedeem, AfterBurn, TokenStorage
<1>7. /\ tok.minters = token.minters
      /\ tok.sInterestRate = token.sInterestRate
      /\ tok.sUserToLastUpdatedTimeStamp = token.sUserToLastUpdatedTimeStamp
      /\ tok.sUserToInterestRate = token.sUserToInterestRate
  BY <1>2 DEF AfterRedeem, AfterBurn, TokenStorage
<1>8. Total(dep) = Total(sUserToAmountDeposited) - amount
  <2>1. sUserToAmountDeposited[u] - amount \in UInt
    BY <1>1, <1>2, <1>3, TokenAssumption DEF Ledger, UInt
  <2>2. Total(dep) = Total(sUserToAmountDeposited) - sUserToAmountDeposited[u]
                        + (sUserToAmountDeposited[u] - amount)
    BY <1>1, <1>2, <2>1, TotalExcept
  <2> QED BY <1>1, <1>3, <2>2, GoodTypes
<1>9. /\ paid \in Ledger
      /\ Total(paid) = Total(InitialEther)
      /\ paid[VaultAddress] = eth[VaultAddress] + value
      /\ value \in Nat /\ eth[VaultAddress] \in Nat
  BY <1>1, ReceiveGood, GoodTypes DEF Good
<1>10. /\ e \in Ledger
       /\ Total(e) = Total(InitialEther)
       /\ e[VaultAddress] = eth[VaultAddress] + value - amount
  <2>1. e = Paid(paid, VaultAddress, u, amount)
    BY DEF PaidByVault, Paid
  <2>2. Total(paid) < MaxUint /\ amount <= paid[VaultAddress]
    BY <1>9, EtherAssumption
  <2> HIDE DEF paid, e
  <2> QED BY <1>1, <1>3, <1>9, <2>1, <2>2, PaymentKeepsTotal
<1>11. Total(dep) <= e[VaultAddress]
  <2> HIDE DEF dep, e, paid
  <2> QED BY <1>3, <1>8, <1>9, <1>10, GoodTypes DEF Good
<1> HIDE DEF tok, dep, e
<1>12. Good(tok, dep, e)
  BY <1>5, <1>6, <1>7, <1>10, <1>11 DEF Good
<1>13. RatesKept(token, tok)
  BY <1>7 DEF RatesKept
<1> QED BY <1>12, <1>13 DEF tok, dep, e

LEMMA TransferGood ==
  ASSUME Good(token, sUserToAmountDeposited, eth), now \in Nat, NEW u \in Users,
         NEW to \in Accounts, NEW amount \in UInt, CanTransfer(token, now, u, to, amount)
  PROVE  /\ Good(AfterTransfer(token, now, u, to, amount), sUserToAmountDeposited, eth)
         /\ RatesKept(token, AfterTransfer(token, now, u, to, amount))
<1> DEFINE tok == AfterTransfer(token, now, u, to, amount)
<1>1. WellFormed(token) /\ token \in TokenStorage
  BY DEF Good, WellFormed
<1>2. WellFormed(tok)
  BY <1>1, TransferWellFormed DEF Users
<1>3. /\ tok.minters = token.minters
      /\ tok.sInterestRate = token.sInterestRate
      /\ tok.sUserToAmountMinted = token.sUserToAmountMinted
      /\ tok.sUserToLastUpdatedTimeStamp = token.sUserToLastUpdatedTimeStamp
      /\ tok.sUserToInterestRate = token.sUserToInterestRate
  BY <1>1 DEF AfterTransfer, MoveBalance, TokenStorage
<1> HIDE DEF tok
<1>4. Good(tok, sUserToAmountDeposited, eth) /\ RatesKept(token, tok)
  BY <1>2, <1>3 DEF Good, RatesKept
<1> QED BY <1>4 DEF tok

LEMMA RateCutGood ==
  ASSUME Good(token, sUserToAmountDeposited, eth), NEW u \in Users,
         NEW rate \in UInt, CanSetInterestRete(token, u, rate)
  PROVE  /\ Good(AfterSetInterestRete(token, rate), sUserToAmountDeposited, eth)
         /\ RatesKept(token, AfterSetInterestRete(token, rate))
<1> DEFINE tok == AfterSetInterestRete(token, rate)
<1>1. WellFormed(token) /\ token \in TokenStorage
  BY DEF Good, WellFormed
<1>2. WellFormed(tok)
  BY <1>1, AdministrationWellFormed DEF Users
<1>3. /\ tok.minters = token.minters
      /\ tok.sUserToAmountMinted = token.sUserToAmountMinted
      /\ tok.sUserToLastUpdatedTimeStamp = token.sUserToLastUpdatedTimeStamp
      /\ tok.sUserToInterestRate = token.sUserToInterestRate
      /\ tok.sInterestRate = rate
  BY <1>1 DEF AfterSetInterestRete, TokenStorage
<1>4. rate <= INITIAL_RATE
  <2>1. token.sInterestRate \in Nat /\ rate \in Nat /\ INITIAL_RATE \in Nat
    BY <1>1, TokenAssumption DEF TokenStorage, UInt
  <2> QED BY <2>1 DEF Good, CanSetInterestRete
<1> HIDE DEF tok
<1>5. Good(tok, sUserToAmountDeposited, eth) /\ RatesKept(token, tok)
  BY <1>2, <1>3, <1>4 DEF Good, RatesKept
<1> QED BY <1>5 DEF tok

LEMMA InitVaultInv == Init => VaultInv
<1> SUFFICES ASSUME Init PROVE VaultInv
  OBVIOUS
<1>1. Deployer \in Accounts /\ VaultAddress \in Accounts /\ VaultAddress \notin Users
  BY VaultModelAssumption, VaultAssumption DEF Users
<1>2. /\ WellFormed(Deployed(Deployer))
      /\ WellFormed(token)
  BY <1>1, DeployedWellFormed, AdministrationWellFormed DEF Init
<1>3. /\ token.sUserToAmountMinted = [u \in Accounts |-> 0]
      /\ token.sInterestRate = INITIAL_RATE
      /\ token.minters = {VaultAddress}
      /\ \A u \in Accounts : token.sUserToInterestRate[u] = 0
      /\ \A u \in Accounts : token.sUserToLastUpdatedTimeStamp[u] = 0
  BY DEF Init, Deployed, AfterGrantRole
<1>4. eth \in Ledger /\ eth[VaultAddress] = 0 /\ eth = InitialEther
  BY <1>1, VaultModelAssumption, TokenAssumption DEF Init, InitialEther, Ledger, UInt
<1>5. INITIAL_RATE \in Nat
  BY TokenAssumption
<1>6. Good(token, sUserToAmountDeposited, eth)
  BY <1>2, <1>3, <1>4, <1>5, TotalOfEmpty DEF Good, Init
<1> QED BY <1>6, VaultModelAssumption DEF VaultInv, CallInv, Init

\* An open redemption stays undoable while rates are kept.
LEMMA CallKept ==
  ASSUME CallInv, UNCHANGED call, RatesKept(token, token') PROVE CallInv'
<1>1. CASE call = Idle
  BY <1>1 DEF CallInv
<1>2. CASE call # Idle
  <2>1. /\ call.open = TRUE
        /\ call.before \in Undone
        /\ Good(call.before.token, call.before.deposited, call.before.eth)
        /\ RatesKept(call.before.token, token)
    BY <1>2 DEF CallInv
  <2>2. RatesKept(call.before.token, token')
    BY <2>1 DEF RatesKept
  <2> QED BY <2>1, <2>2 DEF CallInv
<1> QED BY <1>1, <1>2

\* What SendRedeemed leaves, in both ways to redeem.
LEMMA SendRedeemedGood ==
  ASSUME VaultInv, NEW u \in Users, NEW n \in Amounts, NEW v \in 0..eth[u],
         SendRedeemed(u, n, v)
  PROVE  /\ Good(token, sUserToAmountDeposited, eth)'
         /\ RatesKept(token, token')
         /\ call = Idle
         /\ now' = now
<1>1. /\ Good(token, sUserToAmountDeposited, eth) /\ now \in Nat
      /\ n \in UInt
  BY VaultModelAssumption DEF VaultInv
<1>2. /\ CanRedeem(token, sUserToAmountDeposited, now, u, n)
      /\ eth[VaultAddress] + v >= n
      /\ token' = AfterRedeem(token, now, u, n)
      /\ sUserToAmountDeposited' = [sUserToAmountDeposited EXCEPT ![u] = @ - n]
      /\ eth' = PaidByVault(PayVault(u, v), u, n)
  BY DEF SendRedeemed
<1>3. call = Idle
  BY DEF SendRedeemed, VaultInv, CallInv
<1> QED BY <1>1, <1>2, <1>3, RedeemGood DEF SendRedeemed

LEMMA NextVaultInv == VaultInv /\ [Next]_vars => VaultInv' /\ (RatesKept(token, token') \/ RedeemReverts)
<1> SUFFICES ASSUME VaultInv, [Next]_vars
             PROVE  VaultInv' /\ (RatesKept(token, token') \/ RedeemReverts)
  OBVIOUS
<1>1. /\ Good(token, sUserToAmountDeposited, eth)
      /\ now \in Nat /\ now \in 0..MaxTime
      /\ CallInv
  BY VaultModelAssumption DEF VaultInv
<1>2. RatesKept(token, token)
  BY DEF RatesKept
<1>3. ASSUME NEW u \in Users, NEW v \in 0..eth[u], Deposit(u, v)
      PROVE  VaultInv' /\ RatesKept(token, token')
  BY <1>1, <1>3, DepositGood, CallKept DEF Deposit, VaultInv
<1>4. ASSUME NEW u \in Users, NEW v \in 0..eth[u], Receive(u, v)
      PROVE  VaultInv' /\ RatesKept(token, token')
  BY <1>1, <1>2, <1>4, ReceiveGood, CallKept DEF Receive, VaultInv
<1>5. ASSUME NEW u \in Users, NEW n \in Amounts, NEW v \in 0..eth[u], Redeem(u, n, v)
      PROVE  VaultInv' /\ RatesKept(token, token')
  BY <1>1, <1>5, SendRedeemedGood, CallKept DEF Redeem, VaultInv
<1>6. ASSUME NEW u \in Users, NEW n \in Amounts, NEW v \in 0..eth[u], EnterRedeem(u, n, v)
      PROVE  VaultInv' /\ RatesKept(token, token')
  <2>1. /\ Good(token, sUserToAmountDeposited, eth)'
        /\ RatesKept(token, token')
        /\ now' = now
    BY <1>6, SendRedeemedGood DEF EnterRedeem
  <2>2. Snapshot \in Undone
    <3>1. /\ token \in TokenStorage /\ sUserToAmountDeposited \in [Accounts -> UInt]
          /\ eth \in [Accounts -> Nat]
      BY <1>1, GoodTypes, TokenAssumption DEF Ledger, UInt
    <3> QED BY <3>1 DEF Snapshot, Undone
  <2>3. call' = [open |-> TRUE, before |-> Snapshot]
    BY <1>6 DEF EnterRedeem
  <2>4. CallInv'
    BY <1>1, <2>1, <2>2, <2>3 DEF CallInv, Snapshot
  <2> QED BY <1>1, <2>1, <2>4 DEF VaultInv
<1>7. ASSUME NEW u \in Users, NEW to \in Accounts, NEW n \in Amounts, Transfer(u, to, n)
      PROVE  VaultInv' /\ RatesKept(token, token')
  BY <1>1, <1>7, TransferGood, CallKept, VaultModelAssumption DEF Transfer, VaultInv
<1>8. ASSUME NEW u \in Users, NEW r \in Rates, SetInterestRete(u, r)
      PROVE  VaultInv' /\ RatesKept(token, token')
  BY <1>1, <1>8, RateCutGood, CallKept, VaultModelAssumption DEF SetInterestRete, VaultInv
<1>9. CASE RedeemReturns
  BY <1>1, <1>2, <1>9 DEF RedeemReturns, VaultInv, CallInv, Idle
<1>10. CASE RedeemReverts
  <2>1. Good(call.before.token, call.before.deposited, call.before.eth)
    BY <1>1, <1>10 DEF RedeemReverts, CallInv, Idle
  <2>2. Good(token, sUserToAmountDeposited, eth)'
    BY <1>10, <2>1 DEF RedeemReverts
  <2> QED BY <1>1, <1>10, <2>2 DEF RedeemReverts, VaultInv, CallInv
<1>11. CASE Tick
  <2>1. now' \in 0..MaxTime
    BY <1>1, <1>11, VaultModelAssumption DEF Tick
  <2>2. CallInv'
    BY <1>1, <1>2, <1>11, CallKept DEF Tick
  <2> QED BY <1>1, <1>2, <1>11, <2>1, <2>2 DEF Tick, VaultInv
<1>12. CASE UNCHANGED vars
  BY <1>1, <1>2, <1>12, CallKept DEF vars, VaultInv
<1> QED BY <1>3, <1>4, <1>5, <1>6, <1>7, <1>8, <1>9, <1>10, <1>11, <1>12 DEF Next

LEMMA VaultInvHolds == Spec => []VaultInv
BY InitVaultInv, NextVaultInv, PTL DEF Spec

\* Every variable of the vault always holds a value of its type.
THEOREM VaultTypeCorrect == Spec => []TypeOK
<1>1. VaultInv => TypeOK
  <2> SUFFICES ASSUME VaultInv PROVE TypeOK
    OBVIOUS
  <2>1. /\ token \in TokenStorage /\ sUserToAmountDeposited \in [Accounts -> UInt]
        /\ eth \in [Accounts -> Nat]
    BY GoodTypes, TokenAssumption DEF VaultInv, Ledger, UInt
  <2>2. call.open => call.before \in Undone
    BY DEF VaultInv, CallInv, Idle
  <2> QED BY <2>1, <2>2 DEF VaultInv, TypeOK, Undone
<1> QED BY <1>1, VaultInvHolds, PTL

\* The vault's ledger and the token's always agree, also while a redemption is
\* calling out (deposit, redeem, mint and burn).
THEOREM LedgersAlwaysAgree == Spec => []LedgersAgree
<1>1. VaultInv => LedgersAgree
  BY DEF VaultInv, Good, WellFormed, LedgersAgree
<1> QED BY <1>1, VaultInvHolds, PTL

\* No deposit, redemption, transfer or rate cut, and no redemption undone,
\* changes the rate a user has got.
THEOREM RatesAreLocked == Spec => RateLocked
<1> DEFINE Step == \A u \in Users :
             SettledToken.sUserToInterestRate[u] # 0 =>
                SettledToken'.sUserToInterestRate[u] = SettledToken.sUserToInterestRate[u]
<1>1. VaultInv /\ VaultInv' /\ [Next]_vars => [Step]_vars
  <2> SUFFICES ASSUME VaultInv, VaultInv', [Next]_vars
               PROVE  RatesKept(SettledToken, SettledToken')
    BY DEF RatesKept
  <2>1. RatesKept(token, token') \/ RedeemReverts
    BY NextVaultInv
  <2>2. CASE call = Idle
    <3>1. ~RedeemReverts /\ SettledToken = token
      BY <2>2 DEF RedeemReverts, Idle, SettledToken
    <3>2. SettledToken' = token' \/ SettledToken' = token
      <4>1. CASE call' = Idle
        BY <4>1 DEF SettledToken, Idle
      <4>2. CASE call' # Idle
        <5>1. call' = [open |-> TRUE, before |-> Snapshot]
          BY <2>2, <4>2
          DEF Next, vars, Deposit, Receive, Redeem, EnterRedeem, Transfer, SetInterestRete,
              RedeemReturns, RedeemReverts, Tick
        <5> QED BY <5>1 DEF SettledToken, Snapshot
      <4> QED BY <4>1, <4>2
    <3> QED BY <2>1, <3>1, <3>2 DEF RatesKept
  <2>3. CASE call # Idle
    <3>1. /\ call.open = TRUE
          /\ RatesKept(call.before.token, token)
          /\ SettledToken = call.before.token
      BY <2>3 DEF VaultInv, CallInv, SettledToken
    <3>2. CASE call' = call
      BY <3>1, <3>2 DEF SettledToken, RatesKept
    <3>3. CASE call' # call
      <4>1. RedeemReturns \/ RedeemReverts
        BY <3>1, <3>3
        DEF Next, vars, Deposit, Receive, Redeem, EnterRedeem, SendRedeemed, Transfer,
            SetInterestRete, Tick
      <4>2. SettledToken' = token'
        BY <4>1 DEF RedeemReturns, RedeemReverts, SettledToken, Idle
      <4> QED BY <3>1, <4>1, <4>2 DEF RedeemReturns, RedeemReverts, RatesKept
    <3> QED BY <3>2, <3>3
  <2> QED BY <2>2, <2>3
<1> QED BY <1>1, VaultInvHolds, PTL DEF Spec, RateLocked

\* No interest the vault's users have earned overflows a word.
LEMMA BalancesReadable ==
  ASSUME VaultInv, NEW u \in Users, token.balances[u] # 0
  PROVE  CanMintAccuredInterest(token, now, u)
<1> DEFINE b == token.balances[u]
           r == token.sUserToInterestRate[u]
           g == PRECISION_FACTOR + r * now
           E == Total(InitialEther)
           G == PRECISION_FACTOR + INITIAL_RATE * MaxTime
<1>1. /\ u \in Accounts /\ VaultAddress \in Accounts
      /\ token \in TokenStorage
      /\ Good(token, sUserToAmountDeposited, eth)
      /\ now \in Nat /\ now <= MaxTime /\ MaxTime \in Nat
  BY VaultAssumption, VaultModelAssumption DEF VaultInv, Good, WellFormed, Users
<1>2. /\ b \in Nat /\ r \in Nat /\ r <= INITIAL_RATE
      /\ PRECISION_FACTOR \in Nat /\ INITIAL_RATE \in Nat /\ MaxUint \in Nat
      /\ token.sUserToLastUpdatedTimeStamp[u] = 0
  BY <1>1, StorageTypes, TokenAssumption DEF Good, UInt
<1>3. b <= E /\ E \in Nat /\ 1 <= E
  <2>1. b <= Total(token.balances)
    BY <1>1, StorageTypes, EntryAtMostTotal
  <2>2. Total(token.balances) = Total(sUserToAmountDeposited)
    BY <1>1 DEF Good, WellFormed
  <2>3. /\ Total(sUserToAmountDeposited) <= eth[VaultAddress]
        /\ eth[VaultAddress] <= Total(eth)
        /\ Total(sUserToAmountDeposited) \in Nat /\ eth[VaultAddress] \in Nat
        /\ Total(eth) = E
        /\ eth \in Ledger
    BY <1>1, GoodTypes DEF Good
  <2>4. E \in Nat
    BY <2>3, TotalIsNat
  <2> HIDE DEF b, E
  <2>5. b # 0
    BY DEF b
  <2> QED BY <1>2, <2>1, <2>2, <2>3, <2>4, <2>5
<1>4. r * now \in Nat /\ r * now <= INITIAL_RATE * MaxTime /\ INITIAL_RATE * MaxTime \in Nat
  <2> HIDE DEF r
  <2> QED BY <1>1, <1>2, ProductMonotone
<1>5. g \in Nat /\ G \in Nat /\ g <= G
  <2> HIDE DEF r
  <2> QED BY <1>2, <1>4
<1>6. E * G <= MaxUint
  BY EtherAssumption
<1> HIDE DEF b, r, g, E, G
<1>7. b * g \in Nat /\ b * g <= E * G /\ E * G \in Nat
  BY <1>2, <1>3, <1>5, ProductMonotone
<1>8. 1 * g <= E * G
  BY <1>3, <1>5, ProductMonotone
<1>9. g <= MaxUint /\ b * g <= MaxUint
  BY <1>2, <1>5, <1>6, <1>7, <1>8
<1>10. CalculateAccumulateInterest(token, now, u) = g
  <2>1. now - 0 = now
    BY <1>1
  <2> QED BY <1>2, <2>1 DEF CalculateAccumulateInterest, g, r
<1>11. CanReadBalance(token, now, u)
  BY <1>1, <1>2, <1>9, <1>10 DEF CanReadBalance, b
<1> QED BY <1>1, <1>11, BalanceAtLeastPrincipal DEF CanMintAccuredInterest

\* A user with a deposit and the principal for it can always redeem, and the
\* vault has the ether (redeem, burn).
THEOREM RedeemsNeverStuck == Spec => []RedeemNeverStuck
<1>1. VaultInv => RedeemNeverStuck
  <2> SUFFICES ASSUME VaultInv, NEW u \in Users, NEW n \in 1..MaxUint,
                      n <= sUserToAmountDeposited[u], n <= token.balances[u]
               PROVE  /\ CanRedeem(token, sUserToAmountDeposited, now, u, n)
                      /\ eth[VaultAddress] >= n
    BY DEF RedeemNeverStuck
  <2>1. /\ Good(token, sUserToAmountDeposited, eth) /\ token \in TokenStorage
        /\ u \in Accounts /\ VaultAddress \in Accounts
        /\ n \in Nat /\ n # 0 /\ n \in UInt
    BY VaultAssumption, TokenAssumption DEF VaultInv, Good, WellFormed, Users, UInt
  <2>2. token.balances[u] \in Nat /\ token.balances[u] # 0
    BY <2>1, StorageTypes, TokenAssumption DEF UInt
  <2>3. CanMintAccuredInterest(token, now, u)
    BY <2>2, BalancesReadable
  <2>4. Resolve(token, now, u, n) = n
    BY <2>1, RedeemedIsBurnt
  <2>5. token.sUserToAmountMinted[u] >= n /\ VaultAddress \in token.minters
    BY <2>1 DEF Good
  <2>6. CanRedeem(token, sUserToAmountDeposited, now, u, n)
    BY <2>1, <2>3, <2>4, <2>5 DEF CanRedeem, CanBurn
  <2>7. eth[VaultAddress] >= n
    <3>1. /\ sUserToAmountDeposited[u] <= Total(sUserToAmountDeposited)
          /\ Total(sUserToAmountDeposited) <= eth[VaultAddress]
          /\ sUserToAmountDeposited[u] \in Nat
          /\ Total(sUserToAmountDeposited) \in Nat /\ eth[VaultAddress] \in Nat
      BY <2>1, GoodTypes DEF Good
    <3> QED BY <2>1, <3>1
  <2> QED BY <2>6, <2>7
<1> QED BY <1>1, VaultInvHolds, PTL

-----------------------------------------------------------------------------
(* Custody.  Inside an open redemption users move ether and credit, and only *)
(* the whole transaction counts: that it makes nobody richer than before the *)
(* call has to be carried along while the call is open.                      *)

\* The custody specification counts the same units.
LEMMA CustodySum ==
  ASSUME NEW e \in Ledger
  PROVE  C!Sum([u \in Users |-> e[u]]) + e[VaultAddress] = Total(e)
<1> DEFINE f == [u \in Users |-> e[u]]
<1>1. /\ Summable(e) /\ DOMAIN e = Accounts /\ VaultAddress \in Accounts
      /\ MaxUint \in Nat /\ \A u \in Accounts : e[u] \in Nat /\ e[u] <= MaxUint
  BY LedgerIsSummable, VaultAssumption, TokenAssumption DEF Ledger, UInt
<1>2. Without(e, VaultAddress) = f
  BY <1>1 DEF Without, Users
<1>3. \A u \in Users : f[u] \in Nat /\ f[u] <= MaxUint
  BY <1>1 DEF Users
<1>4. DOMAIN f = Users
  OBVIOUS
<1> HIDE DEF f
<1>5. UNION {{u} \X (1..f[u]) : u \in DOMAIN f} = Units(f)
  <2>1. ASSUME NEW z \in UNION {{u} \X (1..f[u]) : u \in DOMAIN f} PROVE z \in Units(f)
    <3>1. PICK u \in Users : z \in {u} \X (1..f[u])
      BY <1>4
    <3>2. z[1] = u /\ z[2] \in 1..f[u] /\ z = <<z[1], z[2]>>
      BY <3>1
    <3>3. f[u] \in Nat /\ f[u] <= MaxUint
      BY <1>3
    <3>4. z[2] \in 1..MaxUint
      BY <1>1, <3>2, <3>3
    <3> QED BY <1>4, <3>2, <3>3, <3>4 DEF Units
  <2>2. ASSUME NEW z \in Units(f) PROVE z \in UNION {{u} \X (1..f[u]) : u \in DOMAIN f}
    <3>1. z[1] \in DOMAIN f /\ z[2] \in 1..MaxUint /\ z[2] <= f[z[1]] /\ z = <<z[1], z[2]>>
      BY DEF Units
    <3>2. z[2] \in 1..f[z[1]]
      BY <1>1, <1>3, <1>4, <3>1
    <3>3. z \in {z[1]} \X (1..f[z[1]])
      BY <3>1, <3>2
    <3> QED BY <3>1, <3>3
  <2> QED BY <2>1, <2>2
<1>6. C!Sum(f) = Total(f)
  BY <1>5 DEF C!Sum, Total, C!Cardinality, Cardinality
<1>7. Total(e) = Total(Without(e, VaultAddress)) + e[VaultAddress]
  BY <1>1, TotalWithout
<1> QED BY <1>2, <1>6, <1>7 DEF f

\* Nobody has more ether and credit together than before.
NoGain(dep, e, dep2, e2) == \A u \in Users : e2[u] + dep2[u] <= e[u] + dep[u]

LEMMA NextNoGain ==
  ASSUME VaultInv, [Next]_vars
  PROVE  NoGain(sUserToAmountDeposited, eth, sUserToAmountDeposited', eth') \/ RedeemReverts
<1> DEFINE dep == sUserToAmountDeposited
<1>1. /\ dep \in Ledger /\ eth \in Ledger /\ VaultAddress \in Accounts
      /\ \A u \in Users : /\ u \in Accounts /\ u # VaultAddress
                          /\ dep[u] \in Nat /\ eth[u] \in Nat
  BY GoodTypes, VaultAssumption DEF VaultInv, Users
<1>2. dep \in [Accounts -> UInt] /\ eth \in [Accounts -> UInt]
  BY <1>1 DEF Ledger
<1>3. ASSUME NEW u \in Users, NEW v \in 0..eth[u], eth' = PayVault(u, v)
      PROVE  \A w \in Users : eth'[w] = eth[w] - (IF w = u THEN v ELSE 0)
  BY <1>1, <1>2, <1>3 DEF PayVault
<1>4. ASSUME NEW u \in Users, NEW v \in 0..eth[u], Deposit(u, v)
      PROVE  NoGain(dep, eth, dep', eth')
  <2>1. \A w \in Users : eth'[w] = eth[w] - (IF w = u THEN v ELSE 0)
    BY <1>3, <1>4 DEF Deposit
  <2>2. \A w \in Users : dep'[w] = dep[w] + (IF w = u THEN v ELSE 0)
    BY <1>1, <1>2, <1>4 DEF Deposit
  <2> QED BY <1>1, <2>1, <2>2 DEF NoGain
<1>5. ASSUME NEW u \in Users, NEW v \in 0..eth[u], Receive(u, v)
      PROVE  NoGain(dep, eth, dep', eth')
  <2>1. \A w \in Users : eth'[w] = eth[w] - (IF w = u THEN v ELSE 0)
    BY <1>3, <1>5 DEF Receive
  <2>2. dep' = dep
    BY <1>5 DEF Receive
  <2> QED BY <1>1, <2>1, <2>2 DEF NoGain
<1>6. ASSUME NEW u \in Users, NEW n \in Amounts, NEW v \in 0..eth[u], SendRedeemed(u, n, v)
      PROVE  NoGain(dep, eth, dep', eth')
  <2>1. n \in Nat
    BY VaultModelAssumption, TokenAssumption DEF UInt
  <2>2. \A w \in Users : eth'[w] = eth[w] - (IF w = u THEN v ELSE 0) + (IF w = u THEN n ELSE 0)
    <3>1. eth' = PaidByVault(PayVault(u, v), u, n)
      BY <1>6 DEF SendRedeemed
    <3> DEFINE paid == PayVault(u, v)
    <3>2. DOMAIN paid = Accounts /\ \A w \in Users : paid[w] = eth[w] - (IF w = u THEN v ELSE 0)
      BY <1>1, <1>2 DEF PayVault
    <3> HIDE DEF paid
    <3>3. \A w \in Users : PaidByVault(paid, u, n)[w] = paid[w] + (IF w = u THEN n ELSE 0)
      BY <1>1, <2>1, <3>2 DEF PaidByVault
    <3> QED BY <1>1, <2>1, <3>1, <3>2, <3>3 DEF paid
  <2>3. \A w \in Users : dep'[w] = dep[w] - (IF w = u THEN n ELSE 0)
    BY <1>1, <1>2, <1>6, <2>1 DEF SendRedeemed
  <2> QED BY <1>1, <2>1, <2>2, <2>3 DEF NoGain
<1>7. UNCHANGED <<dep, eth>> => NoGain(dep, eth, dep', eth')
  BY <1>1 DEF NoGain
<1> QED
  BY <1>4, <1>5, <1>6, <1>7 DEF Next, vars, Redeem, EnterRedeem, Transfer, SetInterestRete,
     RedeemReturns, Tick

\* What an open redemption has moved so far makes nobody richer.
OpenCallInv ==
    call # Idle =>
       NoGain(call.before.deposited, call.before.eth, sUserToAmountDeposited, eth)

\* How a step shows in what is settled.
LEMMA SettledStep ==
  ASSUME VaultInv, VaultInv', OpenCallInv, [Next]_vars
  PROVE  /\ NoGain(SettledDeposits, SettledEth, SettledDeposits', SettledEth')
         /\ OpenCallInv'
<1> DEFINE dep == sUserToAmountDeposited
<1>1. NoGain(dep, eth, dep', eth') \/ RedeemReverts
  BY NextNoGain
<1>2. /\ \A u \in Users : dep[u] \in Nat /\ eth[u] \in Nat
      /\ \A u \in Users : dep'[u] \in Nat /\ eth'[u] \in Nat
  <2>1. \A u \in Users : dep[u] \in Nat /\ eth[u] \in Nat
    BY GoodTypes DEF VaultInv, Users
  <2>2. Good(token', dep', eth')
    BY DEF VaultInv, Good
  <2> HIDE DEF dep
  <2>3. \A u \in Users : dep'[u] \in Nat /\ eth'[u] \in Nat
    BY <2>2, GoodTypes DEF Users
  <2> QED BY <2>1, <2>3
<1>3. CASE call = Idle
  <2>1. ~RedeemReverts /\ SettledDeposits = dep /\ SettledEth = eth
    BY <1>3 DEF RedeemReverts, Idle, SettledDeposits, SettledEth
  <2>2. CASE call' = Idle
    <3>1. SettledDeposits' = dep' /\ SettledEth' = eth'
      BY <2>2 DEF SettledDeposits, SettledEth, Idle
    <3> QED BY <1>1, <2>1, <2>2, <3>1 DEF OpenCallInv
  <2>3. CASE call' # Idle
    <3>1. call' = [open |-> TRUE, before |-> Snapshot]
      BY <1>3, <2>3
      DEF Next, vars, Deposit, Receive, Redeem, EnterRedeem, Transfer, SetInterestRete,
          RedeemReturns, RedeemReverts, Tick
    <3>2. SettledDeposits' = dep /\ SettledEth' = eth
      BY <3>1 DEF SettledDeposits, SettledEth, Snapshot
    <3>3. OpenCallInv'
      BY <1>1, <2>1, <3>1 DEF OpenCallInv, Snapshot
    <3> QED BY <1>2, <2>1, <3>2, <3>3 DEF NoGain
  <2> QED BY <2>2, <2>3
<1>4. CASE call # Idle
  <2>1. /\ call.open = TRUE
        /\ SettledDeposits = call.before.deposited /\ SettledEth = call.before.eth
        /\ NoGain(SettledDeposits, SettledEth, dep, eth)
        /\ \A u \in Users : SettledDeposits[u] \in Nat /\ SettledEth[u] \in Nat
    <3>1. call.open = TRUE /\ Good(call.before.token, call.before.deposited, call.before.eth)
      BY <1>4 DEF VaultInv, CallInv
    <3>2. SettledDeposits = call.before.deposited /\ SettledEth = call.before.eth
      BY <3>1 DEF SettledDeposits, SettledEth
    <3>3. \A u \in Users : SettledDeposits[u] \in Nat /\ SettledEth[u] \in Nat
      BY <3>1, <3>2, GoodTypes DEF Users
    <3> QED BY <1>4, <3>1, <3>2, <3>3 DEF OpenCallInv
  <2>2. CASE call' = call
    <3>1. SettledDeposits' = SettledDeposits /\ SettledEth' = SettledEth
      BY <2>1, <2>2 DEF SettledDeposits, SettledEth
    <3>2. NoGain(dep, eth, dep', eth')
      <4>1. ~RedeemReverts
        BY <1>4, <2>2 DEF RedeemReverts
      <4> QED BY <1>1, <4>1
    <3>3. NoGain(SettledDeposits, SettledEth, dep', eth')
      BY <1>2, <2>1, <3>2 DEF NoGain
    <3>4. OpenCallInv'
      BY <2>1, <2>2, <3>3 DEF OpenCallInv
    <3> QED BY <2>1, <3>1, <3>4 DEF NoGain
  <2>3. CASE call' # call
    <3>1. RedeemReturns \/ RedeemReverts
      BY <2>1, <2>3
      DEF Next, vars, Deposit, Receive, Redeem, EnterRedeem, SendRedeemed, Transfer,
          SetInterestRete, Tick
    <3>2. /\ call' = Idle /\ SettledDeposits' = dep' /\ SettledEth' = eth'
          /\ OpenCallInv'
      BY <3>1 DEF RedeemReturns, RedeemReverts, SettledDeposits, SettledEth, Idle, OpenCallInv
    <3>3. CASE RedeemReturns
      BY <2>1, <3>2, <3>3 DEF RedeemReturns
    <3>4. CASE RedeemReverts
      BY <2>1, <3>2, <3>4 DEF RedeemReverts, NoGain
    <3> QED BY <3>1, <3>2, <3>3, <3>4
  <2> QED BY <2>2, <2>3
<1> QED BY <1>3, <1>4

\* The ether there is does not change, settled or not.
SettledInv ==
    /\ SettledEth \in Ledger
    /\ Total(SettledEth) = Total(InitialEther)
    /\ \A u \in Users : SettledDeposits[u] \in Nat /\ SettledEth[u] \in Nat

LEMMA SettledInvHolds == VaultInv => SettledInv
<1> SUFFICES ASSUME VaultInv PROVE SettledInv
  OBVIOUS
<1>1. CASE call = Idle
  <2>1. SettledDeposits = sUserToAmountDeposited /\ SettledEth = eth
    BY <1>1 DEF Idle, SettledDeposits, SettledEth
  <2>2. Good(token, sUserToAmountDeposited, eth)
    BY DEF VaultInv
  <2> QED BY <2>1, <2>2, GoodTypes DEF Good, Users, SettledInv
<1>2. CASE call # Idle
  <2>1. call.open = TRUE /\ Good(call.before.token, call.before.deposited, call.before.eth)
    BY <1>2 DEF VaultInv, CallInv
  <2>2. SettledDeposits = call.before.deposited /\ SettledEth = call.before.eth
    BY <2>1 DEF SettledDeposits, SettledEth
  <2> QED BY <2>1, <2>2, GoodTypes DEF Good, Users, SettledInv
<1> QED BY <1>1, <1>2

\* The vault keeps the promise of Custody, transaction by transaction and
\* whatever contract accounts do inside a redemption (deposit, redeem, receive).
THEOREM VaultImplementsCustody == Spec => ImplementsCustody
<1> DEFINE wallet == [u \in Users |-> SettledEth[u]]
           credit == [u \in Users |-> SettledDeposits[u]]
           pot == SettledEth[VaultAddress]
<1>1. Init => C!Init
  <2> SUFFICES ASSUME Init PROVE C!Init
    OBVIOUS
  <2>1. SettledEth = InitialEther /\ SettledDeposits = [u \in Accounts |-> 0]
    BY DEF Init, Idle, SettledEth, SettledDeposits
  <2>2. wallet = Funds
    BY <2>1, VaultModelAssumption DEF InitialEther, Users
  <2>3. credit = [u \in Users |-> 0] /\ pot = 0
    BY <2>1, VaultAssumption DEF InitialEther, Users
  <2> QED BY <2>2, <2>3 DEF C!Init
<1>2. ASSUME VaultInv, VaultInv', SettledInv, SettledInv', OpenCallInv, [Next]_vars
      PROVE  C!Settle
  <2>1. NoGain(SettledDeposits, SettledEth, SettledDeposits', SettledEth')
    BY <1>2, SettledStep
  <2>2. /\ SettledEth \in Ledger /\ Total(SettledEth) = Total(InitialEther)
        /\ \A u \in Users : SettledDeposits[u] \in Nat /\ SettledEth[u] \in Nat
    BY <1>2 DEF SettledInv
  <2>3. /\ SettledEth' \in Ledger /\ Total(SettledEth') = Total(InitialEther)
        /\ \A u \in Users : SettledDeposits'[u] \in Nat /\ SettledEth'[u] \in Nat
    BY <1>2 DEF SettledInv
  <2>4. C!Sum(wallet) + pot = Total(InitialEther)
    BY <2>2, CustodySum
  <2>5. C!Sum(wallet') + pot' = Total(InitialEther)
    BY <2>3, CustodySum
  <2>6. \A u \in Users : /\ wallet'[u] >= 0 /\ credit'[u] >= 0
                         /\ wallet'[u] + credit'[u] <= wallet[u] + credit[u]
    BY <2>1, <2>2, <2>3 DEF NoGain
  <2> QED BY <2>4, <2>5, <2>6 DEF C!Settle
<1>3. Init => OpenCallInv
  BY DEF Init, OpenCallInv
<1>4. VaultInv /\ VaultInv' /\ OpenCallInv /\ [Next]_vars => OpenCallInv'
  BY SettledStep
<1>5. Spec => [](VaultInv /\ SettledInv /\ OpenCallInv)
  BY <1>3, <1>4, VaultInvHolds, SettledInvHolds, PTL DEF Spec
<1>6. VaultInv /\ VaultInv' /\ SettledInv /\ SettledInv' /\ OpenCallInv /\ [Next]_vars => [C!Settle]_<<wallet, credit, pot>>
  BY <1>2
<1> QED BY <1>1, <1>5, <1>6, PTL DEF Spec, ImplementsCustody, C!Spec
=============================================================================
