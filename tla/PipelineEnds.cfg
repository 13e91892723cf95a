\* How it ends, for one stream and for two that depend on each other.
SPECIFICATION Spec
CONSTANT Setups <- Ends
INVARIANTS
    TypeOK
    LastPictureShown
    NobodyIsAbandoned
PROPERTIES
    Terminates
    DemuxerGetsThrough
