---------------------------- MODULE TokenRegistry ----------------------------
(***************************************************************************)
(* The TokenAdminRegistry, which says who administers a token and which    *)
(* pool serves it, with its RegistryModuleOwnerCustom, for one RebaseToken.*)
(* The deployer registers the token with TokenAndPoolDeployer, a script of *)
(* several transactions, while others may act between them.  Of the other  *)
(* registry modules nothing is known: they may propose anybody.            *)
(***************************************************************************)
CONSTANTS
    Accounts,       \* everybody who sends transactions
    Deployer,       \* deploys the token and runs the script
    RegistryOwner,  \* owns the registry
    Pools,          \* the pools that support the token
    OtherPools,     \* pools that support another one
    DeployedPool,   \* the pool the script deploys
    Modules,        \* registry modules
    Module,         \* the module the script uses
    ZeroAddress

ASSUME TokenRegistryAssumption ==
    /\ {Deployer, RegistryOwner} \subseteq Accounts
    /\ Deployer # RegistryOwner
    /\ DeployedPool \in Pools
    /\ Pools \cap OtherPools = {}
    /\ Module \in Modules
    /\ ZeroAddress \notin Accounts \cup Pools \cup OtherPools

VARIABLES
    owner,                 \* the owner of the token
    administrator,         \* the fields of the token's TokenConfig
    pendingAdministrator,
    tokenPool,
    registryModules,       \* the modules that may propose
    script,                \* what the script does next, or how it ended
    named,                 \* observer: whom the administrator named last
    intervened             \* observer: whether, before the deployer was its
                           \* administrator, somebody else was proposed by the
                           \* registry's owner or by another module, or Module
                           \* was removed before the script had used it

config == <<administrator, pendingAdministrator, tokenPool>>
vars == <<owner, config, registryModules, script, named, intervened>>

\* The script ends "done" or "aborted"; "over" once the deployer has acted
\* again after that.
Steps == {"register", "accept", "setPool", "done", "aborted", "over"}

\* The token and its pool are deployed, the pool has its role.
Init ==
    /\ owner = Deployer
    /\ administrator = ZeroAddress
    /\ pendingAdministrator = ZeroAddress
    /\ tokenPool = ZeroAddress
    /\ registryModules \in {registered \in SUBSET Modules : Module \in registered}
    /\ script = "register"
    /\ named = ZeroAddress
    /\ intervened = FALSE

-----------------------------------------------------------------------------
(* The calls of the two contracts, and when they do not revert. *)

\* Mutant: a token that has an administrator is proposed for again.
MayProposeAlways(admin) == admin # ZeroAddress

MayPropose(admin) == admin # ZeroAddress /\ administrator = ZeroAddress

\* proposeAdministrator, once its caller is let in.
Propose(admin) ==
    /\ MayPropose(admin)
    /\ pendingAdministrator' = admin
    /\ UNCHANGED <<administrator, tokenPool, named>>

\* Mutant: anybody may register himself.
MayRegisterAnybody(sender) == Module \in registryModules /\ MayPropose(sender)

\* registerAdminViaOwner.  The other two ways find nobody in a RebaseToken: it
\* has no getCCIPAdmin, and nobody has its DEFAULT_ADMIN_ROLE.
MayRegister(sender) ==
    /\ Module \in registryModules
    /\ owner = sender
    /\ MayPropose(sender)

MayAccept(sender) == pendingAdministrator = sender

\* acceptAdminRole
Accept(sender) ==
    /\ MayAccept(sender)
    /\ administrator' = sender
    /\ pendingAdministrator' = ZeroAddress
    /\ named' = ZeroAddress
    /\ UNCHANGED tokenPool

\* The zero address takes the token off the list.
MaySetPool(sender, p) == administrator = sender /\ p \notin OtherPools

Set(sender, p) ==
    /\ MaySetPool(sender, p)
    /\ tokenPool' = p
    /\ UNCHANGED <<administrator, pendingAdministrator, named>>

\* Mutant: a transfer that is pending cannot be cancelled or redirected.
TransferRoleOnce(sender, newAdmin) ==
    /\ administrator = sender
    /\ pendingAdministrator' = IF pendingAdministrator = ZeroAddress
                               THEN newAdmin ELSE pendingAdministrator
    /\ named' = newAdmin
    /\ UNCHANGED <<administrator, tokenPool>>

\* transferAdminRole; the zero address cancels a transfer.
TransferRole(sender, newAdmin) ==
    /\ administrator = sender
    /\ pendingAdministrator' = newAdmin
    /\ named' = newAdmin
    /\ UNCHANGED <<administrator, tokenPool>>

-----------------------------------------------------------------------------
(* Who calls them. *)

\* The transactions of the script.
ScriptRegisters ==
    /\ script = "register"
    /\ MayRegister(Deployer)
    /\ Propose(Deployer)
    /\ script' = "accept"
    /\ UNCHANGED <<owner, registryModules, intervened>>

ScriptAccepts ==
    /\ script = "accept"
    /\ Accept(Deployer)
    /\ script' = "setPool"
    /\ UNCHANGED <<owner, registryModules, intervened>>

ScriptSetsPool ==
    /\ script = "setPool"
    /\ Set(Deployer, DeployedPool)
    /\ script' = "done"
    /\ UNCHANGED <<owner, registryModules, intervened>>

\* Where one of them reverts the script ends.
MayGoOn ==
    CASE script = "register" -> MayRegister(Deployer)
      [] script = "accept" -> MayAccept(Deployer)
      [] script = "setPool" -> MaySetPool(Deployer, DeployedPool)
      [] OTHER -> TRUE

ScriptAborts ==
    /\ ~MayGoOn
    /\ script' = "aborted"
    /\ UNCHANGED <<owner, config, registryModules, named, intervened>>

\* The deployer has its hands free when the script has ended.
Sends(sender) ==
    IF sender = Deployer
    THEN script \in {"done", "aborted", "over"} /\ script' = "over"
    ELSE UNCHANGED script

RegisterAdminViaOwner(sender) ==
    /\ Sends(sender)
    /\ MayRegister(sender)
    /\ Propose(sender)
    /\ UNCHANGED <<owner, registryModules, intervened>>

AcceptAdminRole(sender) ==
    /\ Sends(sender)
    /\ Accept(sender)
    /\ UNCHANGED <<owner, registryModules, intervened>>

SetPool(sender, p) ==
    /\ Sends(sender)
    /\ Set(sender, p)
    /\ UNCHANGED <<owner, registryModules, intervened>>

TransferAdminRole(sender, newAdmin) ==
    /\ Sends(sender)
    /\ TransferRole(sender, newAdmin)
    /\ UNCHANGED <<owner, registryModules, intervened>>

\* Ownable, in the token.
TransferOwnership(sender, newOwner) ==
    /\ Sends(sender)
    /\ owner = sender
    /\ owner' = newOwner
    /\ UNCHANGED <<config, registryModules, named, intervened>>

\* Module proposes nobody but who registers himself with it.
MayCallPropose(sender) ==
    \/ sender = RegistryOwner
    \/ sender \in registryModules \ {Module}

\* By the registry's owner or by a module.
ProposeAdministrator(sender, admin) ==
    /\ MayCallPropose(sender)
    /\ Propose(admin)
    /\ intervened' = (intervened \/ admin # Deployer)
    /\ UNCHANGED <<owner, registryModules, script>>

\* By the registry's owner, as the removal is.
AddRegistryModule(module) ==
    /\ registryModules' = registryModules \cup {module}
    /\ UNCHANGED <<owner, config, script, named, intervened>>

RemoveRegistryModule(module) ==
    /\ registryModules' = registryModules \ {module}
    /\ intervened' = (intervened \/ (module = Module /\ script = "register"))
    /\ UNCHANGED <<owner, config, script, named>>

Next ==
    \/ ScriptRegisters
    \/ ScriptAccepts
    \/ ScriptSetsPool
    \/ ScriptAborts
    \/ \E sender \in Accounts :
          \/ RegisterAdminViaOwner(sender)
          \/ AcceptAdminRole(sender)
          \/ \E p \in Pools \cup OtherPools \cup {ZeroAddress} :
                SetPool(sender, p)
          \/ \E to \in Accounts \cup {ZeroAddress} :
                \/ TransferAdminRole(sender, to)
                \/ TransferOwnership(sender, to)
    \/ \E sender \in Modules \cup {RegistryOwner} :
          \E admin \in Accounts : ProposeAdministrator(sender, admin)
    \/ \E module \in Modules :
          AddRegistryModule(module) \/ RemoveRegistryModule(module)

Spec == Init /\ [][Next]_vars

-----------------------------------------------------------------------------
(* Properties. *)

\* Every variable holds a value of its type, and the pool is the token's.
TypeOK ==
    /\ owner \in Accounts \cup {ZeroAddress}
    /\ administrator \in Accounts \cup {ZeroAddress}
    /\ pendingAdministrator \in Accounts \cup {ZeroAddress}
    /\ tokenPool \in Pools \cup {ZeroAddress}
    /\ registryModules \subseteq Modules
    /\ script \in Steps
    /\ named \in Accounts \cup {ZeroAddress}
    /\ intervened \in BOOLEAN

\* Nobody can stop the deployment between two transactions of the script but
\* the registry's owner, by proposing somebody else before the deployer has
\* accepted or by removing Module before the deployer has registered, and
\* another registry module, by proposing somebody else before then: no call of
\* anybody else does, and no removal of Module once it has been used.
OnlyRegistryStopsScript == script = "aborted" => intervened

\* When the script is through, the token is served by the pool it deployed,
\* and stays so until the deployer itself acts: neither a proposal made
\* before, nor the registry's owner, nor whoever else calls takes it away.
ListedAsDeployed ==
    script = "done" => administrator = Deployer /\ tokenPool = DeployedPool

\* An administrator is succeeded only by the account it has named last: a
\* transfer it cancelled or redirected cannot be accepted any more, and no
\* owner of the token or of the registry can take the role.
SucceededOnlyByNamed ==
    [][administrator # ZeroAddress /\ administrator' # administrator =>
          administrator' = named]_vars
=============================================================================
