\* The comment on full-range sources, as a property.
SPECIFICATION Spec
CONSTANTS
    Cells = {1, 2, 3, 4, 5, 6, 7, 8, 9}
    QueueCapacity = 2
    HdHeight = 4
    Scenarios <- FullRange422
INVARIANTS
    FullRangeIsConverted
