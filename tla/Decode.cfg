\* Two passes through a decoder that keeps two packets back, with errors, refusals, overload.
SPECIFICATION Spec
CONSTANTS
    Items <- TwoPasses
    Delay = 2
    MaxAttempts = 1
    GiveUpAfter = 1
    VideoBehindGrace = 1
    MaxDecodeFreeze = 1
    MayBeLate = TRUE
    MayRefuse = TRUE
    MayStop = TRUE
    MaxTime = 2
INVARIANTS
    TypeOK
    NothingIsCut
    ReferencesAreThere
    GivesUpOnlyWhenLost
PROPERTIES
    LoopEnds
