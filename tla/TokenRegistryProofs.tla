-------------------------- MODULE TokenRegistryProofs --------------------------
(***************************************************************************)
(* Whatever accounts, pools and registry modules there are, the script     *)
(* lists the token as it means to, and an administrator keeps its role     *)
(* until it gives it away.                                                 *)
(***************************************************************************)
EXTENDS TokenRegistry, TLAPS

\* What the script has reached, and what still holds of what it relies on.
ScriptInv ==
    /\ script \in {"register", "accept"} => owner = Deployer
    /\ script \in {"setPool", "done"} =>
          administrator = Deployer /\ pendingAdministrator = ZeroAddress
    /\ script = "done" => tokenPool = DeployedPool
    /\ script \in {"register", "accept"} /\ ~intervened =>
          administrator = ZeroAddress
    /\ script = "register" /\ ~intervened =>
          Module \in registryModules /\ pendingAdministrator \in {ZeroAddress, Deployer}
    /\ script = "accept" /\ ~intervened => pendingAdministrator = Deployer
    /\ script = "aborted" => intervened

\* Once there is an administrator, nobody is pending but whom it named.
NamedInv == administrator # ZeroAddress => pendingAdministrator = named

RegistryInv == TypeOK /\ ScriptInv /\ NamedInv

LEMMA RegistryInvHolds == Spec => []RegistryInv
<1>1. Init => RegistryInv
  BY TokenRegistryAssumption
  DEF Init, RegistryInv, TypeOK, ScriptInv, NamedInv, Steps
<1>2. RegistryInv /\ [Next]_vars => RegistryInv'
  <2> SUFFICES ASSUME RegistryInv, [Next]_vars PROVE RegistryInv'
    OBVIOUS
  <2> USE TokenRegistryAssumption
      DEF RegistryInv, TypeOK, ScriptInv, NamedInv, Steps, config
  <2>1. CASE ScriptRegisters
    BY <2>1 DEF ScriptRegisters, Propose, MayPropose
  <2>2. CASE ScriptAccepts
    BY <2>2 DEF ScriptAccepts, Accept, MayAccept
  <2>3. CASE ScriptSetsPool
    BY <2>3 DEF ScriptSetsPool, Set
  <2>4. CASE ScriptAborts
    BY <2>4 DEF ScriptAborts, MayGoOn, MayRegister, MayPropose, MayAccept, MaySetPool
  <2>5. ASSUME NEW sender \in Accounts, RegisterAdminViaOwner(sender) PROVE RegistryInv'
    BY <2>5 DEF RegisterAdminViaOwner, Sends, MayRegister, Propose, MayPropose
  <2>6. ASSUME NEW sender \in Accounts, AcceptAdminRole(sender) PROVE RegistryInv'
    BY <2>6 DEF AcceptAdminRole, Sends, Accept, MayAccept
  <2>7. ASSUME NEW sender \in Accounts, NEW p \in Pools \cup OtherPools \cup {ZeroAddress},
               SetPool(sender, p)
        PROVE  RegistryInv'
    BY <2>7 DEF SetPool, Sends, Set, MaySetPool
  <2>8. ASSUME NEW sender \in Accounts, NEW to \in Accounts \cup {ZeroAddress},
               TransferAdminRole(sender, to)
        PROVE  RegistryInv'
    BY <2>8 DEF TransferAdminRole, Sends, TransferRole
  <2>9. ASSUME NEW sender \in Accounts, NEW to \in Accounts \cup {ZeroAddress},
               TransferOwnership(sender, to)
        PROVE  RegistryInv'
    BY <2>9 DEF TransferOwnership, Sends
  <2>10. ASSUME NEW sender \in Modules \cup {RegistryOwner}, NEW admin \in Accounts,
                ProposeAdministrator(sender, admin)
         PROVE  RegistryInv'
    BY <2>10 DEF ProposeAdministrator, Propose, MayPropose
  <2>11. ASSUME NEW module \in Modules, AddRegistryModule(module) PROVE RegistryInv'
    BY <2>11 DEF AddRegistryModule
  <2>12. ASSUME NEW module \in Modules, RemoveRegistryModule(module) PROVE RegistryInv'
    BY <2>12 DEF RemoveRegistryModule
  <2>13. CASE UNCHANGED vars
    BY <2>13 DEF vars
  <2> QED BY <2>1, <2>2, <2>3, <2>4, <2>5, <2>6, <2>7, <2>8, <2>9, <2>10, <2>11, <2>12, <2>13
          DEF Next
<1> QED BY <1>1, <1>2, PTL DEF Spec

\* Every variable holds a value of its type, and the pool set supports the
\* token (_setPool).
THEOREM RegistryTypeOK == Spec => []TypeOK
<1>1. RegistryInv => TypeOK
  BY DEF RegistryInv
<1> QED BY <1>1, RegistryInvHolds, PTL

\* Only the registry's owner and the modules it lets in can make a transaction
\* of TokenAndPoolDeployer revert, and only before the deployer has accepted
\* (proposeAdministrator, removeRegistryModule).
THEOREM ScriptOnlyStoppedByRegistry == Spec => []OnlyRegistryStopsScript
<1>1. RegistryInv => OnlyRegistryStopsScript
  BY DEF RegistryInv, ScriptInv, OnlyRegistryStopsScript
<1> QED BY <1>1, RegistryInvHolds, PTL

\* When TokenAndPoolDeployer is through, the token is served by its pool.
THEOREM ScriptLists == Spec => []ListedAsDeployed
<1>1. RegistryInv => ListedAsDeployed
  BY DEF RegistryInv, ScriptInv, ListedAsDeployed
<1> QED BY <1>1, RegistryInvHolds, PTL

\* An administrator is succeeded only by the account it named last
\* (transferAdminRole, acceptAdminRole).
THEOREM AdministratorNamesSuccessor == Spec => SucceededOnlyByNamed
<1> DEFINE Step == administrator # ZeroAddress /\ administrator' # administrator =>
                      administrator' = named
<1>1. RegistryInv /\ [Next]_vars => [Step]_vars
  <2> SUFFICES ASSUME RegistryInv, [Next]_vars, administrator # ZeroAddress,
                      administrator' # administrator
               PROVE  administrator' = named
    OBVIOUS
  <2>1. \E sender \in Accounts : Accept(sender)
    BY TokenRegistryAssumption
    DEF Next, vars, config, ScriptRegisters, ScriptAccepts, ScriptSetsPool, ScriptAborts,
        RegisterAdminViaOwner, AcceptAdminRole, SetPool, Set, TransferAdminRole, TransferRole,
        TransferOwnership, ProposeAdministrator, Propose, AddRegistryModule,
        RemoveRegistryModule
  <2> QED BY <2>1 DEF RegistryInv, NamedInv, Accept, MayAccept
<1> QED BY <1>1, RegistryInvHolds, PTL DEF Spec, SucceededOnlyByNamed
=============================================================================
