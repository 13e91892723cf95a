\* The comment on backlogs, as a property.
SPECIFICATION Spec
CONSTANTS
    Items <- OnePass
    Delay = 0
    MaxAttempts = 1
    GiveUpAfter = 2
    VideoBehindGrace = 1
    MaxDecodeFreeze = 1
    MayBeLate = TRUE
    MayRefuse = FALSE
    MayStop = FALSE
    MaxTime = 3
PROPERTIES
    SkipsOnlyWhenBehind
