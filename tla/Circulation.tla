---------------------------- MODULE Circulation ----------------------------
(***************************************************************************)
(* Loans, reservations and stock of the library, one action per service    *)
(* operation: app/services/borrow_service.py, reservation_service.py and   *)
(* book_service.py.  Every operation is one atomic step here: this is what *)
(* each request does when no other request overlaps it.  The interleaving  *)
(* of the SQL statements inside the operations is CirculationTxn's.        *)
(*                                                                         *)
(* An operation that raises rolls its transaction back (@transactional,    *)
(* app/db/transaction.py), so a rejected request is no step at all.        *)
(***************************************************************************)
EXTENDS Integers, FiniteSets

CONSTANTS
    Books,                  \* identities of rows of the books table
    Members,                \* identities of rows of the members table
    LoanIds,                \* identities of rows of borrow_records
    ReservationIds,         \* identities of rows of reservations
    BorrowLimit,            \* max_borrow_limit, 5 in production
    MaxActiveReservations,  \* MAX_ACTIVE_RESERVATIONS, 3
    MaxRenewals,            \* 2
    HistoryPage,            \* rows place_reservation reads of a member's history, 20
    BorrowPeriod,           \* borrow_days
    RenewalPeriod,          \* renewal_days
    HoldDuration,           \* HOLD_DURATION_HOURS
    MaxCopies,              \* bound: copies of a book in an explored state
    MaxTime                 \* bound: the last instant explored

ASSUME IdsAssumption == IsFiniteSet(LoanIds) /\ IsFiniteSet(ReservationIds)
ASSUME LimitsAssumption ==
    /\ BorrowLimit \in Nat /\ MaxActiveReservations \in Nat
    /\ MaxRenewals \in Nat /\ HistoryPage \in Nat
ASSUME PeriodsAssumption ==
    BorrowPeriod \in Nat /\ RenewalPeriod \in Nat /\ HoldDuration \in Nat
ASSUME BoundsAssumption == MaxCopies \in Nat /\ MaxTime \in Nat

VARIABLES
    now,            \* the clock every handler reads, shared by app and database
    books,          \* the books table
    loans,          \* the borrow_records table
    reservations,   \* the reservations table
    membership      \* membership_status of every member

vars == <<now, books, loans, reservations, membership>>

-----------------------------------------------------------------------------
(* Rows.  A row that was never inserted has status (or state) "NONE".      *)

NoTime == -1        \* SQL NULL in a DATETIME column

Times == Nat
\* BLOCKED is INACTIVE or SUSPENDED, which differ in the exception raised only.
MembershipStatus == {"ACTIVE", "BLOCKED"}
Book == [state : {"NONE", "LIVE", "DELETED"}, total : Nat, available : Nat]

\* BorrowStatus.OVERDUE exists in the enum and no code assigns it.
Loan == [member : Members, book : Books,
         status : {"BORROWED", "RENEWED", "RETURNED"},
         borrow_date : Times, due_date : Times, renewal_count : Nat]

Reservation == [member : Members, book : Books,
                status : {"PENDING", "HOLD", "COMPLETED", "CANCELLED", "EXPIRED"},
                reserved_at : Times, expires_at : Times \cup {NoTime}]

NoRow == [status |-> "NONE"]

TypeOK ==
    /\ now \in Times
    /\ books \in [Books -> Book]
    /\ loans \in [LoanIds -> Loan \cup {NoRow}]
    /\ reservations \in [ReservationIds -> Reservation \cup {NoRow}]
    /\ membership \in [Members -> MembershipStatus]

-----------------------------------------------------------------------------
(* Queries of the repositories.                                            *)

OnLoan(l) == loans[l].status \in {"BORROWED", "RENEWED"}
LoansOfMember(m) == {l \in LoanIds : loans[l] # NoRow /\ loans[l].member = m}
ActiveLoans(m) == {l \in LoanIds : OnLoan(l) /\ loans[l].member = m}

\* Variant: a loan is overdue on its due date already.
DueLoans(m) == {l \in ActiveLoans(m) : loans[l].due_date <= now}

OverdueLoans(m) == {l \in ActiveLoans(m) : loans[l].due_date < now}
CopiesOut(b) == {l \in LoanIds : OnLoan(l) /\ loans[l].book = b}

\* rs is the reservations table as the running transaction sees it.
Pending(b, rs) == {r \in ReservationIds : rs[r].status = "PENDING" /\ rs[r].book = b}
Held(b, rs) == {r \in ReservationIds : rs[r].status = "HOLD" /\ rs[r].book = b}
ActiveReservations(m) ==
    {r \in ReservationIds : reservations[r].status \in {"PENDING", "HOLD"}
                            /\ reservations[r].member = m}

\* expires_at < now is not true of a NULL expires_at.
ExpiredHolds ==
    {r \in ReservationIds : /\ reservations[r].status = "HOLD"
                            /\ reservations[r].expires_at # NoTime
                            /\ reservations[r].expires_at < now}

MinOf(i, j) == IF i <= j THEN i ELSE j

\* Variant: the page has the oldest loans, DESC is missing.
OldestLoans(m) ==
    {page \in SUBSET LoansOfMember(m) :
        /\ Cardinality(page) = MinOf(HistoryPage, Cardinality(LoansOfMember(m)))
        /\ \A l \in page, k \in LoansOfMember(m) \ page :
              loans[l].borrow_date <= loans[k].borrow_date}

\* ORDER BY borrow_date DESC LIMIT HistoryPage; rows with equal dates come in any order.
NewestLoans(m) ==
    {page \in SUBSET LoansOfMember(m) :
        /\ Cardinality(page) = MinOf(HistoryPage, Cardinality(LoansOfMember(m)))
        /\ \A l \in page, k \in LoansOfMember(m) \ page :
              loans[l].borrow_date >= loans[k].borrow_date}

-----------------------------------------------------------------------------
Init ==
    /\ now = 0
    /\ books = [b \in Books |-> [state |-> "NONE", total |-> 0, available |-> 0]]
    /\ loans = [l \in LoanIds |-> NoRow]
    /\ reservations = [r \in ReservationIds |-> NoRow]
    /\ membership = [m \in Members |-> "ACTIVE"]

-----------------------------------------------------------------------------
(* book_service.py                                                         *)

CreateBook(b, n) ==
    /\ books[b].state = "NONE"
    /\ books' = [books EXCEPT ![b] = [state |-> "LIVE", total |-> n, available |-> n]]
    /\ UNCHANGED <<now, loans, reservations, membership>>

\* Variant: the check that copies off the shelf cannot be removed is missing.
UpdateBookUnchecked(b, n) ==
    /\ books[b].state = "LIVE"
    /\ books' = [books EXCEPT ![b] =
          [state |-> "LIVE", total |-> n, available |-> @.available + n - @.total]]
    /\ UNCHANGED <<now, loans, reservations, membership>>

\* n is the new total; the difference goes to, or comes from, the shelf.
UpdateBook(b, n) ==
    /\ books[b].state = "LIVE"
    /\ books[b].available + n - books[b].total >= 0
    /\ books' = [books EXCEPT ![b] =
          [state |-> "LIVE", total |-> n, available |-> @.available + n - @.total]]
    /\ UNCHANGED <<now, loans, reservations, membership>>

\* Soft delete.  Loans, holds and the queue of the book are not looked at.
DeleteBook(b) ==
    /\ books[b].state = "LIVE"
    /\ books' = [books EXCEPT ![b].state = "DELETED"]
    /\ UNCHANGED <<now, loans, reservations, membership>>

-----------------------------------------------------------------------------
(* reservation_service.py: promotion                                       *)

\* Variant: the queue is served newest first.
PromotableNewestFirst(b, n, rs) ==
    {P \in SUBSET Pending(b, rs) :
        /\ Cardinality(P) = MinOf(n, Cardinality(Pending(b, rs)))
        /\ \A p \in P, q \in Pending(b, rs) \ P : rs[p].reserved_at >= rs[q].reserved_at}

\* What n calls of get_fifo_pending_by_book_id, each row promoted before the
\* next call, can return: oldest first, ties in any order.
Promotable(b, n, rs) ==
    {P \in SUBSET Pending(b, rs) :
        /\ Cardinality(P) = MinOf(n, Cardinality(Pending(b, rs)))
        /\ \A p \in P, q \in Pending(b, rs) \ P : rs[p].reserved_at <= rs[q].reserved_at}

\* Variant: a promoted hold gets no deadline.
PromotedWithoutDeadline(res) == [res EXCEPT !.status = "HOLD"]

Promoted(res) == [res EXCEPT !.status = "HOLD", !.expires_at = now + HoldDuration]

\* Variant: every released copy goes back on the shelf, promotion or not.
ShelvedAlways(book, n, promoted) ==
    IF book.state = "LIVE" THEN [book EXCEPT !.available = @ + n] ELSE book

\* A copy nobody waits for goes back on the shelf, unless the book was
\* deleted: get_by_id_for_update then finds no row and the copy is dropped.
Shelved(book, n, promoted) ==
    IF book.state = "LIVE" THEN [book EXCEPT !.available = @ + n - promoted] ELSE book

\* The rows that the promotions of one transaction may choose together, and
\* what they leave of both tables.
MayPromote(released, rs) ==
    {P \in SUBSET UNION {Pending(b, rs) : b \in Books} :
        \A b \in Books : P \cap Pending(b, rs) \in Promotable(b, released[b], rs)}
WithPromoted(P, rs) == [r \in ReservationIds |-> IF r \in P THEN Promoted(rs[r]) ELSE rs[r]]
WithShelved(P, released, rs) ==
    [b \in Books |-> Shelved(books[b], released[b], Cardinality(P \cap Pending(b, rs)))]

\* promote_next_reservation, called once for every copy the transaction
\* releases: released[b] copies of each book b, rs the table so far.  The
\* calls are one step; SweepIsItsLoop compares it with the loop.  Promotion
\* does not read the book: the queue of a deleted book is still served.
PromoteNext(released, rs) ==
    \E P \in MayPromote(released, rs) :
        /\ reservations' = WithPromoted(P, rs)
        /\ books' = WithShelved(P, released, rs)

\* Variant: a promotion is not flushed, and the next call finds its row again.
PromoteOneUnflushed(b, t) ==
    IF Pending(b, reservations) = {}
    THEN {[t EXCEPT !.books[b] = Shelved(@, 1, 0)]}
    ELSE {[t EXCEPT !.reservations[r] = Promoted(@)] :
             r \in {q \in ReservationIds : {q} \in Promotable(b, 1, reservations)}}

\* One call, on the tables t as the transaction sees them: what it may leave.
PromoteOne(b, t) ==
    IF Pending(b, t.reservations) = {}
    THEN {[t EXCEPT !.books[b] = Shelved(@, 1, 0)]}
    ELSE {[t EXCEPT !.reservations[r] = Promoted(@)] :
             r \in {q \in ReservationIds : {q} \in Promotable(b, 1, t.reservations)}}

\* The table with the reservations R closed as status.
Closed(rs, R, status) ==
    [r \in ReservationIds |->
        IF r \in R THEN [rs[r] EXCEPT !.status = status, !.expires_at = NoTime] ELSE rs[r]]

OneCopyOf(b) == [c \in Books |-> IF c = b THEN 1 ELSE 0]

-----------------------------------------------------------------------------
(* borrow_service.py                                                       *)

\* Variant: the limit is compared one too late.
MayBorrowOneMore(m) ==
    /\ membership[m] = "ACTIVE"
    /\ OverdueLoans(m) = {}
    /\ Cardinality(ActiveLoans(m)) <= BorrowLimit

MayBorrow(m) ==
    /\ membership[m] = "ACTIVE"
    /\ OverdueLoans(m) = {}
    /\ Cardinality(ActiveLoans(m)) < BorrowLimit

\* scalar_one_or_none raises when two holds exist, so neither disjunct of
\* CheckOut applies then.
SoleHolder(m, b) ==
    \E r \in ReservationIds : Held(b, reservations) = {r} /\ reservations[r].member = m

OnShelf(b) == Held(b, reservations) = {} /\ books[b].available > 0

\* Variant: the holder's copy is also taken off the shelf.
TakeCopyTwice(m, b) ==
    \/ /\ SoleHolder(m, b)
       /\ reservations' = Closed(reservations, Held(b, reservations), "COMPLETED")
       /\ books' = [books EXCEPT ![b].available = @ - 1]
    \/ /\ OnShelf(b)
       /\ books' = [books EXCEPT ![b].available = @ - 1]
       /\ UNCHANGED reservations

\* The member's hold is completed, whatever its expires_at, or a copy leaves
\* the shelf.  A hold of another member blocks the book for everybody else,
\* even with copies on the shelf.
TakeCopy(m, b) ==
    \/ /\ SoleHolder(m, b)
       /\ reservations' = Closed(reservations, Held(b, reservations), "COMPLETED")
       /\ UNCHANGED books
    \/ /\ OnShelf(b)
       /\ books' = [books EXCEPT ![b].available = @ - 1]
       /\ UNCHANGED reservations

NewLoan(m, b) ==
    [member |-> m, book |-> b, status |-> "BORROWED", borrow_date |-> now,
     due_date |-> now + BorrowPeriod, renewal_count |-> 0]

BorrowBook(m, b, l) ==
    /\ loans[l] = NoRow
    /\ MayBorrow(m)
    /\ books[b].state = "LIVE"
    /\ TakeCopy(m, b)
    /\ loans' = [loans EXCEPT ![l] = NewLoan(m, b)]
    /\ UNCHANGED <<now, membership>>

\* A loan already RETURNED is answered as it is, with no change.
ReturnBook(l) ==
    /\ OnLoan(l)
    /\ loans' = [loans EXCEPT ![l].status = "RETURNED"]
    /\ PromoteNext(OneCopyOf(loans[l].book), reservations)
    /\ UNCHANGED <<now, membership>>

\* Variant: the new due date counts from today.
ExtendedFromToday(loan) ==
    [loan EXCEPT !.status = "RENEWED", !.renewal_count = @ + 1, !.due_date = now + RenewalPeriod]

Extended(loan) ==
    [loan EXCEPT !.status = "RENEWED", !.renewal_count = @ + 1, !.due_date = @ + RenewalPeriod]

\* Variant: the check that the loan is not returned yet is missing.
RenewBookReturned(l) ==
    /\ loans[l] # NoRow
    /\ loans[l].renewal_count < MaxRenewals
    /\ now <= loans[l].due_date
    /\ loans' = [loans EXCEPT ![l] = Extended(@)]
    /\ UNCHANGED <<now, books, reservations, membership>>

\* The reservation policy wired in production never blocks a renewal.
RenewBook(l) ==
    /\ OnLoan(l)
    /\ loans[l].renewal_count < MaxRenewals
    /\ now <= loans[l].due_date
    /\ loans' = [loans EXCEPT ![l] = Extended(@)]
    /\ UNCHANGED <<now, books, reservations, membership>>

-----------------------------------------------------------------------------
(* reservation_service.py: requests                                        *)

\* Variant: a member may queue twice for one book.
MayReserveAgain(m, b) ==
    /\ membership[m] = "ACTIVE"
    /\ Cardinality(ActiveReservations(m)) < MaxActiveReservations
    /\ \E page \in NewestLoans(m) : \A l \in page : ~(OnLoan(l) /\ loans[l].book = b)

\* Variant: the limit is compared one too late.
MayReserveOneMore(m, b) ==
    /\ membership[m] = "ACTIVE"
    /\ Cardinality(ActiveReservations(m)) <= MaxActiveReservations
    /\ \A r \in ActiveReservations(m) : reservations[r].book # b
    /\ \E page \in NewestLoans(m) : \A l \in page : ~(OnLoan(l) /\ loans[l].book = b)

MayReserve(m, b) ==
    /\ membership[m] = "ACTIVE"
    /\ Cardinality(ActiveReservations(m)) < MaxActiveReservations
    /\ \A r \in ActiveReservations(m) : reservations[r].book # b
    /\ \E page \in NewestLoans(m) : \A l \in page : ~(OnLoan(l) /\ loans[l].book = b)

NewReservation(m, b) ==
    [member |-> m, book |-> b, status |-> "PENDING", reserved_at |-> now, expires_at |-> NoTime]

PlaceReservation(m, b, r) ==
    /\ reservations[r] = NoRow
    /\ books[b].state = "LIVE"
    /\ books[b].available <= 0
    /\ MayReserve(m, b)
    /\ reservations' = [reservations EXCEPT ![r] = NewReservation(m, b)]
    /\ UNCHANGED <<now, books, loans, membership>>

CancelPending(r) ==
    /\ reservations[r].status = "PENDING"
    /\ reservations' = Closed(reservations, {r}, "CANCELLED")
    /\ UNCHANGED <<now, books, loans, membership>>

\* Variant: the copy of a cancelled hold goes to the shelf past the queue.
CancelHoldToShelf(r) ==
    /\ reservations[r].status = "HOLD"
    /\ reservations' = Closed(reservations, {r}, "CANCELLED")
    /\ books' = [b \in Books |-> Shelved(books[b], OneCopyOf(reservations[r].book)[b], 0)]
    /\ UNCHANGED <<now, loans, membership>>

CancelHold(r) ==
    /\ reservations[r].status = "HOLD"
    /\ PromoteNext(OneCopyOf(reservations[r].book), Closed(reservations, {r}, "CANCELLED"))
    /\ UNCHANGED <<now, loans, membership>>

\* Variant: the sweep promotes once per book, not once per expired hold.
SweepPromotingOnce ==
    /\ ExpiredHolds # {}
    /\ PromoteNext([b \in Books |-> MinOf(1, Cardinality(Held(b, reservations) \cap ExpiredHolds))],
                   Closed(reservations, ExpiredHolds, "EXPIRED"))
    /\ UNCHANGED <<now, loans, membership>>

\* process_expired_holds: every expired hold of every book in one transaction.
SweepExpiredHolds ==
    /\ ExpiredHolds # {}
    /\ PromoteNext([b \in Books |-> Cardinality(Held(b, reservations) \cap ExpiredHolds)],
                   Closed(reservations, ExpiredHolds, "EXPIRED"))
    /\ UNCHANGED <<now, loans, membership>>

ExpireHold(r, t) ==
    PromoteOne(reservations[r].book, [t EXCEPT !.reservations = Closed(@, {r}, "EXPIRED")])

\* The same as the code runs it: hold by hold, in whatever order the query
\* found them, each expired and its copy released before the next.
LoopOutcomes ==
    LET after[H \in SUBSET ExpiredHolds] ==
            IF H = {} THEN {[books |-> books, reservations |-> reservations]}
            ELSE UNION {UNION {ExpireHold(r, t) : t \in after[H \ {r}]} : r \in H}
    IN  after[ExpiredHolds]

-----------------------------------------------------------------------------
(* Outside the services.                                                   *)

\* Nothing in the application writes membership_status: a librarian's change
\* reaches the database from outside.
SetMembership(m, s) ==
    /\ membership[m] # s
    /\ membership' = [membership EXCEPT ![m] = s]
    /\ UNCHANGED <<now, books, loans, reservations>>

Tick ==
    /\ now < MaxTime
    /\ now' = now + 1
    /\ UNCHANGED <<books, loans, reservations, membership>>

Next ==
    \/ \E b \in Books, n \in 0..MaxCopies : CreateBook(b, n) \/ UpdateBook(b, n)
    \/ \E b \in Books : DeleteBook(b)
    \/ \E m \in Members, b \in Books, l \in LoanIds : BorrowBook(m, b, l)
    \/ \E l \in LoanIds : ReturnBook(l) \/ RenewBook(l)
    \/ \E m \in Members, b \in Books, r \in ReservationIds : PlaceReservation(m, b, r)
    \/ \E r \in ReservationIds : CancelPending(r) \/ CancelHold(r)
    \/ SweepExpiredHolds
    \/ \E m \in Members, s \in MembershipStatus : SetMembership(m, s)
    \/ Tick

Spec == Init /\ [][Next]_vars
-----------------------------------------------------------------------------
(* Properties.                                                             *)

\* Every physical copy of a book in the catalogue is on the shelf, on loan or
\* held for a member, and is counted once: books.available_copies is kept by
\* hand in borrow_book, promote_next_reservation and update_book, and the
\* loans and holds it must agree with live in two other tables.  A deleted
\* book loses the copies that come back after the deletion.
CopiesConserved ==
    \A b \in Books :
        LET out == Cardinality(CopiesOut(b)) + Cardinality(Held(b, reservations))
        IN  /\ books[b].state = "NONE" => out = 0
            /\ books[b].state = "LIVE" => books[b].total = books[b].available + out
            /\ books[b].state = "DELETED" => books[b].total >= books[b].available + out

\* A member has at most one PENDING or HOLD reservation of a book.  Two would
\* make get_active_by_member_and_book raise, and the member could never
\* reserve that book again until one of them closes.
NoDuplicateReservation ==
    \A m \in Members : \A r, q \in ActiveReservations(m) :
        reservations[r].book = reservations[q].book => r = q

\* No member exceeds the loan limit of _validate_member_for_borrow or the
\* reservation limit of place_reservation, although promotion, cancellation,
\* expiry and checkout all move the counted rows.
LimitsRespected ==
    \A m \in Members :
        /\ Cardinality(ActiveLoans(m)) <= BorrowLimit
        /\ Cardinality(ActiveReservations(m)) <= MaxActiveReservations

\* A reservation has a deadline exactly while it is a HOLD.  The sweep finds
\* holds by expires_at: a hold without one would keep its copy for ever, and
\* one left on a closed row would be a stale promise to the member.
DeadlineOfHolds ==
    \A r \in ReservationIds : reservations[r] # NoRow =>
        (reservations[r].status = "HOLD" <=> reservations[r].expires_at # NoTime)

\* The due date is the date of the loan plus what the renewals granted, and
\* never more than MaxRenewals of them (CHECK chk_borrow_renewal_count_max_limit):
\* renewing early must not lose days, renewing late must not gain them.
DueDateAccountsForRenewals ==
    \A l \in LoanIds : loans[l] # NoRow =>
        /\ loans[l].renewal_count <= MaxRenewals
        /\ loans[l].due_date = loans[l].borrow_date + BorrowPeriod
                                 + loans[l].renewal_count * RenewalPeriod

Promotes(r) == reservations[r].status = "PENDING" /\ reservations'[r].status = "HOLD"

\* ADR-0020: a step that promotes a reservation leaves no older one of the
\* same book waiting, whichever of return, cancellation or sweep released the
\* copy, and however many holds of the book one sweep expires.
FifoPromotion ==
    [][\A r, q \in ReservationIds :
          (Promotes(r) /\ q \in Pending(reservations[r].book, reservations'))
              => reservations[r].reserved_at <= reservations'[q].reserved_at]_vars

\* A sweep may as well be one step: promoting hold by hold, each call reading
\* the queue that the calls before it left, comes to the same tables as serving
\* the oldest of every queue together, in whatever order the holds are taken
\* and equal arrivals are found.
SweepIsItsLoop ==
    LET released == [b \in Books |-> Cardinality(Held(b, reservations) \cap ExpiredHolds)]
        rs == Closed(reservations, ExpiredHolds, "EXPIRED")
    IN  LoopOutcomes = {[books |-> WithShelved(P, released, rs), reservations |-> WithPromoted(P, rs)] :
                           P \in MayPromote(released, rs)}

\* ADR-0019: a copy that comes back goes on the shelf only when nobody waits
\* for the book.  Only a change of the stock itself may add copies past the
\* queue: update_book looks at no reservation, and borrow_book then lends the
\* new copies to whoever comes first.
ShelvedOnlyWithoutQueue ==
    [][\A b \in Books :
          (books'[b].available > books[b].available /\ books'[b].total = books[b].total)
              => Pending(b, reservations') = {}]_vars

\* A loan that is late stays late until it comes back, and so long nothing
\* more is lent to its borrower.  The eligibility check finds late loans with
\* one comparison of the due date and the clock, the renewal refuses them with
\* another: a loan that one calls late and the other does not would be renewed
\* and be good again.
LateUntilReturned ==
    [][\A m \in Members : \A l \in OverdueLoans(m) :
          /\ l \in OverdueLoans(m)' \/ loans'[l].status = "RETURNED"
          /\ ActiveLoans(m)' \subseteq ActiveLoans(m)]_vars

\* A member reserves a book that is on loan to them only when HistoryPage
\* other loans of theirs are as new: place_reservation looks for the book on
\* the newest page of the member's history alone.
OwnLoanPastThePage ==
    [][\A r \in ReservationIds :
          (reservations[r] = NoRow /\ reservations'[r] # NoRow) =>
              LET m == reservations'[r].member
              IN  \A l \in ActiveLoans(m) \cap CopiesOut(reservations'[r].book) :
                      HistoryPage <= Cardinality({k \in LoansOfMember(m) \ {l} :
                                        loans[k].borrow_date >= loans[l].borrow_date})]_vars

\* A reservation that is closed stays as it was closed, and a loan that was
\* returned stays returned (the state machines of app/domain/enums.py).
Settled ==
    [][/\ \A l \in LoanIds : loans[l].status = "RETURNED" => loans'[l] = loans[l]
       /\ \A r \in ReservationIds :
             reservations[r].status \in {"COMPLETED", "CANCELLED", "EXPIRED"}
                 => reservations'[r] = reservations[r]]_vars

-----------------------------------------------------------------------------
(* What the documents promise and the code does not do.                    *)

\* ADR-0019, line 16: the member a copy is held for can borrow it.  Two holds
\* of one book make the query of borrow_book raise MultipleResultsFound for
\* everybody, the holders included.
HolderCanBorrow ==
    \A r \in ReservationIds :
        LET res == reservations[r]
        IN  (/\ res.status = "HOLD"
             /\ books[res.book].state = "LIVE"
             /\ MayBorrow(res.member))
                => SoleHolder(res.member, res.book) \/ OnShelf(res.book)

=============================================================================
