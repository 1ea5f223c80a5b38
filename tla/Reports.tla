------------------------------ MODULE Reports ------------------------------
(***************************************************************************)
(* What the library tells people about the state of Circulation: the       *)
(* position in a queue, the fine of a late return and the dashboard of the *)
(* librarians.  Nothing here changes state.  The queries of one dashboard  *)
(* run in one transaction, REPEATABLE READ, so they see one snapshot of    *)
(* the tables (app/services/dashboard_service.py).                         *)
(***************************************************************************)
EXTENDS Circulation, FiniteSetsExt

\* The tables are finite.
ASSUME CatalogueAssumption == IsFiniteSet(Books) /\ IsFiniteSet(Members)

-----------------------------------------------------------------------------
(* Positions (app/repositories/reservation_repository.py).                 *)

\* Variant: reservations of the same instant count as earlier ones.
PositionAfterTies(r) ==
    Cardinality({q \in Pending(reservations[r].book, reservations) :
                    reservations[q].reserved_at <= reservations[r].reserved_at})

\* compute_queue_position: 1 for the oldest; equal arrivals share a position.
Position(r) ==
    1 + Cardinality({q \in Pending(reservations[r].book, reservations) :
                        reservations[q].reserved_at < reservations[r].reserved_at})

-----------------------------------------------------------------------------
(* Fines (FlatDailyFineStrategy of app/services/borrow_service.py).        *)
(* Durations are in any unit; day and second are those of timedelta.       *)

\* Variant: a day that has just begun is not counted.
FullDaysOverdue(overdue, day, second) == IF overdue <= 0 THEN 0 ELSE overdue \div day

\* timedelta.days, and one more when timedelta.seconds, which does not hold
\* the microseconds, is positive.
DaysOverdue(overdue, day, second) ==
    IF overdue <= 0 THEN 0
    ELSE overdue \div day + (IF (overdue % day) \div second > 0 THEN 1 ELSE 0)

Fine(overdue, day, second, rate, maximum) ==
    MinOf(DaysOverdue(overdue, day, second) * rate, maximum)

-----------------------------------------------------------------------------
(* The dashboard (app/repositories/dashboard_repository.py).               *)

\* func.sum over a column f of the rows S.
SumOver(f, S) == MapThenSumSet(LAMBDA x : f[x], S)

LiveBooks == {b \in Books : books[b].state = "LIVE"}

\* Variant: renewed loans are left out.
BorrowedOnly == {l \in LoanIds : loans[l].status = "BORROWED"}

\* Loans of deleted books are counted as well.
CheckedOut == {l \in LoanIds : OnLoan(l)}

\* deleted_at is not looked at for reservations either.
InState(status) == {r \in ReservationIds : reservations[r].status = status}

InventorySummary ==
    [total_titles |-> Cardinality(LiveBooks),
     total_copies |-> SumOver([b \in Books |-> books[b].total], LiveBooks),
     checked_out_copies |-> Cardinality(CheckedOut),
     available_copies |-> SumOver([b \in Books |-> books[b].available], LiveBooks)]

ReservationSummary ==
    [pending |-> Cardinality(InState("PENDING")), hold |-> Cardinality(InState("HOLD"))]

OverdueSummary ==
    [count |-> Cardinality({l \in CheckedOut : loans[l].due_date < now})]

LoansSince(start) == {l \in LoanIds : loans[l] # NoRow /\ loans[l].borrow_date >= start}

BorrowVelocity(days) == Cardinality(LoansSince(now - days))

\* Checkouts of a book in the window; the query joins books that are not deleted.
Checkouts(b, days) == Cardinality({l \in LoansSince(now - days) : loans[l].book = b})

\* The top most borrowed books; those nobody borrowed have no row in the join.
PopularBooks(days, top) ==
    LET borrowed == {b \in LiveBooks : Checkouts(b, days) > 0}
    IN  {P \in SUBSET borrowed :
            /\ Cardinality(P) = MinOf(top, Cardinality(borrowed))
            /\ \A b \in P, c \in borrowed \ P : Checkouts(b, days) >= Checkouts(c, days)}

\* get_summary adds up the rows of the popular books.
TotalBorrowsInWindow(days, popular) ==
    SumOver([b \in Books |-> Checkouts(b, days)], popular)

-----------------------------------------------------------------------------
(* Properties.                                                             *)

\* What a member is told keeps its word: while a reservation waits, its
\* position never gets worse, whoever joins, leaves or is promoted, and a
\* reservation is promoted only when its position is among the copies that
\* were released.  Positions are counted by reserved_at and promotion is
\* ordered by it, in two queries that treat equal times differently.
PositionTellsTheTurn ==
    [][\A r \in ReservationIds : reservations[r].status = "PENDING" =>
          /\ reservations'[r].status = "PENDING" => Position(r)' <= Position(r)
          /\ Promotes(r) =>
                Position(r) <= Cardinality({q \in Pending(reservations[r].book, reservations) :
                                               Promotes(q)})]_vars

\* "Count any partial day as a full day overdue" (borrow_service.py, line 65),
\* up to what the code makes of it: a day counts once a full second of it is
\* over.  The fine of a loan never falls as the return is put off, and never
\* exceeds the limit; and only a late loan costs one, although a late loan may
\* cost none yet.  An instant is a day of four units here, a second two.
FinePerStartedDay ==
    \A l \in CheckedOut, later \in 0..3 :
        LET overdue == 4 * (now - loans[l].due_date) + later
            begun == {d \in 0..MaxTime : overdue >= 4 * d + 2}
            fine(delay) == Fine(delay, 4, 2, 3, 5)
        IN  /\ DaysOverdue(overdue, 4, 2) = Cardinality(begun)
            /\ fine(overdue) <= fine(overdue + 1) /\ fine(overdue) <= 5

\* The figures of one dashboard agree although they come from unrelated
\* queries: the copies of the catalogue are on the shelf, checked out or on
\* hold, and exceeded by exactly those copies of deleted books that are still
\* out or held, which the two queries of deleted rows count and the others do
\* not; every active reservation is some member's; every overdue loan counts
\* against some member at the next checkout; and the borrows of a window never exceed
\* the velocity of the same window, and reach it while no borrowed book is
\* deleted and the list of popular books is long enough.
FiguresAgree ==
    LET inventory == InventorySummary
        gone == {b \in Books : books[b].state = "DELETED"}
        stray == [b \in Books |-> Cardinality(CopiesOut(b)) + Cardinality(Held(b, reservations))]
        active == [m \in Members |-> Cardinality(ActiveReservations(m))]
    IN  /\ inventory.total_copies + SumOver(stray, gone)
             = inventory.available_copies + inventory.checked_out_copies + ReservationSummary.hold
        /\ ReservationSummary.pending + ReservationSummary.hold
             = SumOver(active, Members)
        /\ OverdueSummary.count = SumOver([m \in Members |-> Cardinality(OverdueLoans(m))], Members)
        /\ \A days \in 0..MaxTime, top \in 1..2 : \A popular \in PopularBooks(days, top) :
              /\ TotalBorrowsInWindow(days, popular) <= BorrowVelocity(days)
              /\ (\A b \in gone : Checkouts(b, days) = 0) /\ top >= Cardinality(Books)
                    => TotalBorrowsInWindow(days, popular) = BorrowVelocity(days)

=============================================================================
