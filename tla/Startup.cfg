\* The life of the process, signals included.
SPECIFICATION Spec
CONSTANTS
    CommandLines <- Lines
    Worlds <- WorldsFound
INVARIANTS
    InterruptIsNoFailure
    TeardownInOrder
PROPERTIES
    SignalEndsProcess
