\* Faults until ledger 4, room for a transaction per ledger after that, a
\* contract that can pay for every run, and a query that finds the due tasks.
SPECIFICATION LiveSpec
CONSTANTS
    Address = {n1, k2}
    None = None
    GRACE_LEDGERS = 1
    U32 = 1000
    I128 = 500000000
    Stakes = {10600000}
    MinStakes = {10000000}
    Intervals = {1}
    Rewards = {1}
    Deposits = {3000000}
    DeployLedger = 1
    MaxLedger = 6
    MaxTasks = 1
    MaxFunding = 3000000
    Node = {n1}
    NoTask = NoTask
    CHANNEL_CAPACITY = 1
    max_retries = 0
    retry_backoff_initial = 1
    retry_backoff_max = 1
    MaxTxs = 7
    QueryWired = TRUE
    CalmLedger = 4
    FaultTxs = 2
PROPERTY
    TaskKeepsRunning
