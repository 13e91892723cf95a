SPECIFICATION Spec
CONSTANTS
    video = video
    audio = audio
    Streams = {video, audio}
    Pts <- Timestamps
    NoPts = 99
    Preroll = 1
    StartTimeout = 2
    UtcOffsets <- Offsets
    MaxTime = 1
INVARIANTS
    TimecodeMatchesDue
    NoNeedlessWait
PROPERTIES
    FirstFramesOnTime
    StartIsComplete
    StartsOnce
    WaitEnds
