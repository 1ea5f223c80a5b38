SPECIFICATION Spec
CONSTANTS
    Books = {b1, b2}
    Members = {m1, m2}
    LoanIds = {l1, l2}
    ReservationIds = {r1, r2}
    BorrowLimit = 1
    MaxActiveReservations = 1
    MaxRenewals = 2
    HistoryPage = 1
    BorrowPeriod = 0
    RenewalPeriod = 1
    HoldDuration = 0
    MaxCopies = 1
    MaxTime = 1
SYMMETRY Symmetry
INVARIANTS
    CopiesConserved
    LimitsRespected
    DueDateAccountsForRenewals
    FinePerStartedDay
    FiguresAgree
PROPERTIES
    Settled
    
    OwnLoanPastThePage
