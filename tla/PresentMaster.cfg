\* The comment on masters, as a property.
SPECIFICATION Spec
CONSTANTS
    Inputs <- FileAlone
    ResyncLate = 2
    ResyncEarly = 2
    AudioMasterIdle = 2
    DropThreshold = 1
    MaxFreeze = 2
    MaxSleepStep = 1
PROPERTIES
    OnlyMasterMovesClock
CHECK_DEADLOCK FALSE
