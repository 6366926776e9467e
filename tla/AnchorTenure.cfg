\* A keeper that registers when the designated one has missed its ledger.
SPECIFICATION TenureSpec
CONSTANTS
    Address = {a1, a2}
    None = None
    GRACE_LEDGERS = 2
    U32 = 1000
    I128 = 500000000
    Stakes = {10600000}
    MinStakes = {10000000}
    Intervals = {1}
    Rewards = {1}
    Deposits = {600000}
    DeployLedger = 1
    MaxLedger = 6
    MaxTasks = 1
    MaxFunding = 600000
PROPERTY
    SecondaryRegisteredBefore
