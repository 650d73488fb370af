SPECIFICATION Spec
CONSTANTS
    deployer = deployer
    registryOwner = registryOwner
    stranger = stranger
    Accounts = {deployer, registryOwner, stranger}
    Deployer = deployer
    RegistryOwner = registryOwner
    Pools = {pool, upgrade}
    OtherPools = {alien}
    DeployedPool = pool
    Modules = {module, otherModule}
    Module = module
    ZeroAddress = zero
INVARIANTS OnlyRegistryStopsScript ListedAsDeployed
PROPERTIES SucceededOnlyByNamed
