\* Six passes, each of any kind.
SPECIFICATION Spec
CONSTANTS
    Micros = 1000
    TicksPerSecond <- Ticks
    DefaultDuration <- Durations
    Files <- FilesTaken
    OutRates = {0, 45, 60}
    KeptBack = 2
    kOverlapToleranceUs = 40
    kMaxOverlapTrimUs = 300
    MaxPasses = 6
INVARIANTS
    PassesFollow
    BlocksJoin
    NoSampleIsLost
