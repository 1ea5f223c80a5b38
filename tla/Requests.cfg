SPECIFICATION FairSpec
CONSTANTS
    b1 = b1
    b2 = b2
    i1 = i1
    i2 = i2
    e1 = e1
    l1 = l1
    Books = {b1, b2}
    Isbns = {i1, i2}
    Emails = {e1}
    Loans = {l1}
    Sessions = {s1, s2}
    Operations <- MCOperations
    PoolSize = 2
    MaxReaders = 1
INVARIANTS
    TypeOK
    NoConnectionLeaks
    NothingHalfDone
PROPERTIES
    PromisesKept
    EveryRequestEnds
