SPECIFICATION FairSpec
CONSTANTS
    alice = alice
    bob = bob
    Home = home
    Remote = remote
    Pool = pool
    Router = router
    VaultAddress = vault
    Users = {alice, bob}
    Senders = {alice, bob}
    Accounts = {alice, bob, pool, router, vault}
    ZeroAddress = zero
    Deployer = alice
    Funds = 2
    MaxUint = 30
    PRECISION_FACTOR = 2
    INITIAL_RATE = 4
    Amounts = {1, 2}
    Fees = {0, 1}
    Issues = {3}
    Rates = {0}
    MaxTime = 1
    MaxIssued = 3
    MaxMessages <- ThreeOut
INVARIANTS SupplyConserved FirstAttemptsInOrder
PROPERTIES BalanceFallsOnlyWithPrincipal EveryMessageAttempted
