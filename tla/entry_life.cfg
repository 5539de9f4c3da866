CONSTANTS
    None = None  Infinity = Infinity  Null = Null
    Second = 2  MaxTtl = 2  Window = 1
    Durations <- Spans
    Lengths = {2}  MaxClock = 4
SPECIFICATION ESpec
INVARIANTS ETypeOK VerbatimOrMiss ServedSoonAfterExpire KeptUntilExpire
PROPERTY RenderNotStalled
