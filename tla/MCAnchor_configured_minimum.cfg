\* initialize configures a minimum above the compile-time constant.
SPECIFICATION Spec
CONSTANTS
    Address = {a1, a2}
    None = None
    GRACE_LEDGERS = 2
    U32 = 1000
    I128 = 500000000
    Stakes = {20000000}
    MinStakes = {20000000}
    Intervals = {1}
    Rewards = {1}
    Deposits = {1000000}
    DeployLedger = 1
    MaxLedger = 6
    MaxTasks = 1
    MaxFunding = 1000000
INVARIANT
    EligibleMeetsConfiguredMinimum
