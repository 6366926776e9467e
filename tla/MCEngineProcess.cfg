\* Two changes to the configuration between starts, two ledgers, one task.
SPECIFICATION Spec
CONSTANTS
    Unset = Unset
    Blank = Blank
    Garbage = Garbage
    NoFile = NoFile
    BadFile = BadFile
    Self = n1
    TaskIds = {t1}
    Candidates <- BoundaryValues
    MaxEdits = 2
    MaxLedger = 2
INVARIANTS
    TypeOK
    RunningConfigSound
    ErrorNamesCulprit
    ReportTruthful

    
