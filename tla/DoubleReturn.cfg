SPECIFICATION TxnSpec
CONSTANTS
    Books = {b1}
    Members = {m1, m2}
    LoanIds = {l1, l2}
    ReservationIds = {r1, r2}
    BorrowLimit = 1
    MaxActiveReservations = 1
    MaxRenewals = 0
    HistoryPage = 2
    BorrowPeriod = 0
    RenewalPeriod = 1
    HoldDuration = 0
    MaxCopies = 1
    MaxTime = 0
    Requests = {q1, q2}
    LoanOverlap = TRUE
SYMMETRY Symmetry
INVARIANT NoCopyReleasedTwice
