\* One node, two tasks run several times, retries, a channel that overflows.
SPECIFICATION FairSpec
CONSTANTS
    Node = {n1}
    TaskIds = {t1, t2}
    Owners = {n1, k2}
    NoTask = NoTask
    GRACE_LEDGERS = 1
    U32 = 1000
    CHANNEL_CAPACITY = 1
    max_retries = 2
    retry_backoff_initial = 2
    retry_backoff_max = 5
    Repeat = 1
    MaxLedger = 3
    MaxTxs = 1
INVARIANTS
    TypeOK
    LedgerEventsOrdered
    BackoffBounded
    ReportedExecutionReal
    InFlightExact
PROPERTIES
    CycleTerminates
    StatusKept
