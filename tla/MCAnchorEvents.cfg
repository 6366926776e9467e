\* A configured minimum of one stroop: slashes that round to nothing, odd splits,
\* keepers slashed again and again.
SPECIFICATION EventsSpec
CONSTANTS
    Address = {a1, a2}
    None = None
    GRACE_LEDGERS = 2
    U32 = 1000
    I128 = 500000000
    Stakes = {1, 19, 20, 59}
    MinStakes = {1}
    Intervals = {1, 2}
    Rewards = {1}
    Deposits = {3}
    DeployLedger = 1
    MaxLedger = 6
    MaxTasks = 2
    MaxFunding = 6
INVARIANTS
    IndexAgrees
    SlashConservation
    StakeSurvivesSlashing
    DueTaskExecutable
