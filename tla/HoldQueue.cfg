SPECIFICATION FairSpec
CONSTANTS
    Tickets = {t1, t2, t3, t4}
    MaxCopies = 2
INVARIANT TypeOK
PROPERTIES
    EveryHoldEnds
    NobodyStarves
    CopiesCirculateWhileAwaited
