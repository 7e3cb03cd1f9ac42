\* Every class of record through both validations, the second up to 4 units later,
\* on a clock of half the resolution.
SPECIFICATION Spec
CONSTANTS
    MaxSkew = 3
    LateAfter = 1
    Second = 2
    Times = {0, 1, 2, 4, 6, 8}
    Start = 5
    MaxNow = 9
INVARIANT
    CandleInputsDefined
PROPERTIES
    StreamConfirmsProducer
    StreamAcceptsNoMore
CHECK_DEADLOCK FALSE
