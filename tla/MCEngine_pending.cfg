\* getTransaction answers before a ledger includes the transaction.
SPECIFICATION Spec
CONSTANTS
    Node = {n1}
    TaskIds = {t1}
    Owners = {n1, k2}
    NoTask = NoTask
    GRACE_LEDGERS = 1
    U32 = 1000
    CHANNEL_CAPACITY = 1
    max_retries = 2
    retry_backoff_initial = 2
    retry_backoff_max = 5
    Repeat = 1
    MaxLedger = 4
    MaxTxs = 2
INVARIANT
    LoggedFailuresFinal
