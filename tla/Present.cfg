\* A file and a live input.
SPECIFICATION Spec
CONSTANTS
    Inputs <- FileAndLive
    ResyncLate = 2
    ResyncEarly = 2
    AudioMasterIdle = 2
    DropThreshold = 1
    MaxFreeze = 2
    MaxSleepStep = 1
INVARIANTS
    TypeOK
    EarlyOnlyAcrossResync
    FileNeverRunsAhead
    JumpIsTakenUp
CHECK_DEADLOCK FALSE
