\* An interval close to 2^32 wraps the u32 schedule: the next execution stays in
\* the past.
SPECIFICATION Spec
CONSTANTS
    Address = {a1, a2}
    None = None
    GRACE_LEDGERS = 2
    U32 = 10
    I128 = 500000000
    Stakes = {10600000}
    MinStakes = {10000000}
    Intervals = {1, 9}
    Rewards = {1}
    Deposits = {600000}
    DeployLedger = 1
    MaxLedger = 6
    MaxTasks = 1
    MaxFunding = 600000
PROPERTY
    ScheduleAdvances
