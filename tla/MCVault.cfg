SPECIFICATION Spec
CONSTANTS
    alice = alice
    carol = carol
    VaultAddress = vault
    Accounts = {alice, carol, vault}
    ZeroAddress = zero
    Deployer = alice
    Contracts = {carol}
    Funds <- MCFunds
    MaxUint = 24
    PRECISION_FACTOR = 2
    INITIAL_RATE = 2
    Amounts = {0, 1, 2, 3, 24}
    Rates = {0, 1, 2}
    MaxTime = 2
INVARIANTS TypeOK LedgersAgree RedeemNeverStuck
PROPERTIES RateLocked ImplementsCustody
