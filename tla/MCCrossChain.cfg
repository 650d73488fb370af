SPECIFICATION Spec
CONSTANTS
    alice = alice
    bob = bob
    Home = home
    Remote = remote
    Pool = pool
    Router = router
    VaultAddress = vault
    Users = {alice, bob}
    Senders = {alice}
    Accounts = {alice, bob, pool, router, vault}
    ZeroAddress = zero
    Deployer = bob
    Funds = 1
    MaxUint = 12
    PRECISION_FACTOR = 2
    INITIAL_RATE = 2
    Amounts = {1, 12}
    Fees = {0}
    Issues = {2}
    Rates = {0}
    MaxTime = 1
    MaxIssued = 2
    MaxMessages <- TwoAndOne
INVARIANTS
    TypeOK SupplyConserved ArrivesAtMostBurnt PoolLedger RateProvenance
    RedeemNeverStuck
