\* Stakes one slash above the minimum and one that any slash takes below it.
SPECIFICATION Spec
CONSTANTS
    Address = {a1, a2, a3}
    None = None
    GRACE_LEDGERS = 2
    U32 = 1000
    I128 = 500000000
    Stakes = {9999999, 10000020, 10600000}
    MinStakes = {10000000}
    Intervals = {0, 1, 2}
    Rewards = {0, 1}
    Deposits = {258376}
    DeployLedger = 1
    MaxLedger = 6
    MaxTasks = 2
    MaxFunding = 516752
SYMMETRY AddressSymmetry
INVARIANTS
    TypeOK
    AnchorInv
    NoInternalError
    RunBudget
    DueTaskExecutable
    IneligibleExact
    SlashConservation
    TokenConservation
    RunsCredited
PROPERTIES
    SlashOnlyForMissedWindow
    ScheduleAdvances
    ScheduleImplemented
