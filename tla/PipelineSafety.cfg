\* Both streams of a looped input.
SPECIFICATION Safety
CONSTANT Setups <- Both
INVARIANTS
    Conveyor
    PassesDoNotMix
    CleanExitIsComplete
