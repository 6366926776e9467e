\* initialize configures a minimum of zero: a keeper may register with no stake.
SPECIFICATION Spec
CONSTANTS
    Address = {a1, a2}
    None = None
    GRACE_LEDGERS = 2
    U32 = 1000
    I128 = 500000000
    Stakes = {0}
    MinStakes = {0}
    Intervals = {1}
    Rewards = {1}
    Deposits = {600000}
    DeployLedger = 1
    MaxLedger = 6
    MaxTasks = 1
    MaxFunding = 600000
INVARIANT
    DueTaskExecutable
