\* The designated keeper's own engine.
SPECIFICATION NetworkSpec
CONSTANTS
    Address = {n1, k2}
    None = None
    GRACE_LEDGERS = 2
    U32 = 1000
    I128 = 500000000
    Stakes = {10600000}
    MinStakes = {10000000}
    Intervals = {1}
    Rewards = {1}
    Deposits = {516752}
    DeployLedger = 1
    MaxLedger = 6
    MaxTasks = 1
    MaxFunding = 516752
    Node = {n1}
    NoTask = NoTask
    CHANNEL_CAPACITY = 1
    max_retries = 0
    retry_backoff_initial = 1
    retry_backoff_max = 1
    MaxTxs = 2
    QueryWired = TRUE
    CalmLedger = 0
    FaultTxs = 0
INVARIANT
    DesignatedInTime
