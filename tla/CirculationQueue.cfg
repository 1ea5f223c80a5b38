SPECIFICATION Spec
CONSTANTS
    Books = {b1}
    Members = {m1, m2, m3}
    LoanIds = {l1, l2}
    ReservationIds = {r1, r2, r3}
    BorrowLimit = 1
    MaxActiveReservations = 2
    MaxRenewals = 0
    HistoryPage = 2
    BorrowPeriod = 0
    RenewalPeriod = 1
    HoldDuration = 0
    MaxCopies = 2
    MaxTime = 1
SYMMETRY Symmetry
INVARIANTS
    TypeOK
    CopiesConserved
    DeadlineOfHolds
    NoDuplicateReservation
    SweepIsItsLoop
PROPERTIES
    FifoPromotion
    ShelvedOnlyWithoutQueue
    PositionTellsTheTurn
    EveryBookIsAQueue
