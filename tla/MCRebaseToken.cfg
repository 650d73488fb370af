SPECIFICATION Spec
CONSTANTS
    Accounts = {alice, bob}
    Deployer = alice
    ZeroAddress = zero
    MaxUint = 5
    PRECISION_FACTOR = 2
    INITIAL_RATE = 1
    Amounts = {1, 2, 5}
    Allowances = {1, 5}
    Spenders = {bob}
    Rates = {0, 1}
    MaxTime = 1
INVARIANTS TypeOK LedgersAddUp MintersIrrevocable SentinelMovesAll
PROPERTIES FrozenForever
