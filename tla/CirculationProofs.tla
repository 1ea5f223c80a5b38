------------------------- MODULE CirculationProofs -------------------------
(***************************************************************************)
(* Circulation's invariants and action properties, for every number of     *)
(* books, members, loans and reservations and every limit and period.      *)
(***************************************************************************)
EXTENDS Circulation, FiniteSetTheorems, TLAPS

-----------------------------------------------------------------------------
(* Sets of rows.                                                           *)

\* Sets of rows are finite, for any state of the reservations table.
LEMMA RowSetsFinite ==
    /\ \A S \in SUBSET LoanIds : IsFiniteSet(S) /\ Cardinality(S) \in Nat
    /\ \A S \in SUBSET ReservationIds : IsFiniteSet(S) /\ Cardinality(S) \in Nat
BY IdsAssumption, FS_Subset, FS_CardinalityType

\* The cardinality of a set of reservations split in two.
LEMMA SplitCardinality ==
    ASSUME NEW S \in SUBSET ReservationIds, NEW T \in SUBSET ReservationIds
    PROVE  /\ S \cap T = {} => Cardinality(S \cup T) = Cardinality(S) + Cardinality(T)
           /\ Cardinality(S \ T) = Cardinality(S) - Cardinality(S \cap T)
<1>1. IsFiniteSet(S) /\ IsFiniteSet(T) /\ Cardinality(S) \in Nat /\ Cardinality(T) \in Nat
    BY RowSetsFinite
<1>2. S \cap T = {} => Cardinality(S \cup T) = Cardinality(S) + Cardinality(T)
    <2>1. Cardinality(S \cup T) = Cardinality(S) + Cardinality(T) - Cardinality(S \cap T)
        BY <1>1, FS_Union
    <2> QED BY <1>1, <2>1, FS_EmptySet
<1>3. Cardinality(S \ T) = Cardinality(S) - Cardinality(S \cap T)
    BY <1>1, FS_Difference
<1> QED BY <1>2, <1>3

-----------------------------------------------------------------------------
(* What promote_next_reservation does to the tables.                       *)

Released == [Books -> Nat]
ReservationTable == [ReservationIds -> Reservation \cup {NoRow}]

\* A step of PromoteNext that chose the rows P, and what became of both tables.
Chosen(P, released, rs) ==
    /\ reservations' = [r \in ReservationIds |-> IF r \in P THEN Promoted(rs[r]) ELSE rs[r]]
    /\ \A r \in P : rs[r] \in Reservation /\ rs[r].status = "PENDING"
    /\ \A b \in Books :
          LET n == Cardinality(P \cap Pending(b, rs))
          IN  /\ n \in Nat /\ n <= released[b]
              /\ books'[b] = Shelved(books[b], released[b], n)
              /\ P \cap Pending(b, rs) \in Promotable(b, released[b], rs)

LEMMA PromotionEffect ==
    ASSUME TypeOK, NEW released \in Released, NEW rs \in ReservationTable,
           PromoteNext(released, rs)
    PROVE  /\ \E P \in SUBSET ReservationIds : Chosen(P, released, rs)
           /\ books' \in [Books -> Book]
           /\ reservations' \in ReservationTable
<1>1. PICK P \in SUBSET UNION {Pending(b, rs) : b \in Books} :
          /\ \A b \in Books : P \cap Pending(b, rs) \in Promotable(b, released[b], rs)
          /\ reservations' = [r \in ReservationIds |-> IF r \in P THEN Promoted(rs[r]) ELSE rs[r]]
          /\ books' = [b \in Books |->
                          Shelved(books[b], released[b], Cardinality(P \cap Pending(b, rs)))]
    BY DEF PromoteNext, MayPromote, WithPromoted, WithShelved
<1>2. P \in SUBSET ReservationIds
    BY <1>1 DEF Pending
<1>3. \A r \in P : rs[r] \in Reservation /\ rs[r].status = "PENDING"
    BY <1>1, <1>2 DEF Pending, ReservationTable, NoRow
<1>4. ASSUME NEW b \in Books
      PROVE  LET n == Cardinality(P \cap Pending(b, rs))
             IN  /\ n \in Nat /\ n <= released[b]
                 /\ books'[b] = Shelved(books[b], released[b], n)
                 /\ Shelved(books[b], released[b], n) \in Book
    <2> DEFINE n == Cardinality(P \cap Pending(b, rs))
    <2>1. P \cap Pending(b, rs) \in SUBSET ReservationIds
          /\ Pending(b, rs) \in SUBSET ReservationIds
        BY <1>2 DEF Pending
    <2>2. n \in Nat /\ Cardinality(Pending(b, rs)) \in Nat /\ released[b] \in Nat
        BY <2>1, RowSetsFinite DEF Released
    <2>3. n = MinOf(released[b], Cardinality(Pending(b, rs)))
        BY <1>1 DEF Promotable
    <2>4. n <= released[b]
        BY <2>2, <2>3 DEF MinOf
    <2>5. books[b] \in Book
        BY DEF TypeOK
    <2>6. Shelved(books[b], released[b], n) \in Book
        BY <2>2, <2>4, <2>5 DEF Shelved, Book
    <2> QED BY <1>1, <2>2, <2>4, <2>6
<1>5. books' \in [Books -> Book]
    BY <1>1, <1>4
<1>6. reservations' \in ReservationTable
    <2>1. ASSUME NEW r \in P PROVE Promoted(rs[r]) \in Reservation
        <3>1. now + HoldDuration \in Times
            BY PeriodsAssumption DEF TypeOK, Times
        <3> QED BY <1>3, <3>1 DEF Promoted, Reservation
    <2> QED BY <1>1, <1>2, <2>1 DEF ReservationTable
<1>7. Chosen(P, released, rs)
    BY <1>1, <1>3, <1>4 DEF Chosen
<1> QED BY <1>2, <1>5, <1>6, <1>7

\* Closing reservations keeps the table well typed.
LEMMA ClosedType ==
    ASSUME TypeOK, NEW R \in SUBSET ReservationIds,
           \A r \in R : reservations[r].status = "PENDING" \/ reservations[r].status = "HOLD",
           NEW status \in {"COMPLETED", "CANCELLED", "EXPIRED"}
    PROVE  Closed(reservations, R, status) \in ReservationTable
<1>1. ASSUME NEW r \in R
      PROVE  [reservations[r] EXCEPT !.status = status, !.expires_at = NoTime] \in Reservation
    <2>1. reservations[r] \in Reservation
        BY DEF TypeOK, NoRow
    <2> QED BY <2>1 DEF Reservation
<1> QED BY <1>1 DEF Closed, ReservationTable, TypeOK

LEMMA OneCopyReleased ==
    \A b \in Books : OneCopyOf(b) \in Released
BY DEF OneCopyOf, Released

\* What the sweep releases of each book.
SweptCopies == [b \in Books |-> Cardinality(Held(b, reservations) \cap ExpiredHolds)]

LEMMA SweptCopiesReleased == SweptCopies \in Released
<1>1. \A b \in Books : Held(b, reservations) \cap ExpiredHolds \in SUBSET ReservationIds
    BY DEF Held
<1> QED BY <1>1, RowSetsFinite DEF SweptCopies, Released

\* A renewal.
LEMMA ExtendedLoan ==
    ASSUME NEW loan \in Loan
    PROVE  /\ Extended(loan) \in Loan /\ Extended(loan).status = "RENEWED"
           /\ Extended(loan).member = loan.member /\ Extended(loan).book = loan.book
           /\ Extended(loan).borrow_date = loan.borrow_date
           /\ Extended(loan).renewal_count = loan.renewal_count + 1
           /\ Extended(loan).due_date = loan.due_date + RenewalPeriod
<1>1. loan.renewal_count + 1 \in Nat /\ loan.due_date + RenewalPeriod \in Nat
    BY PeriodsAssumption DEF Loan, Times
<1>2. Extended(loan) \in Loan
    BY <1>1 DEF Extended, Loan, Times
<1>3. /\ Extended(loan).status = "RENEWED"
      /\ Extended(loan).member = loan.member /\ Extended(loan).book = loan.book
    BY DEF Extended, Loan
<1>4. /\ Extended(loan).borrow_date = loan.borrow_date
      /\ Extended(loan).renewal_count = loan.renewal_count + 1
    BY DEF Extended, Loan
<1>5. Extended(loan).due_date = loan.due_date + RenewalPeriod
    BY DEF Extended, Loan
<1> QED BY <1>2, <1>3, <1>4, <1>5

-----------------------------------------------------------------------------
(* Wider steps.  Requests that overlap do what a request alone is refused  *)
(* (CirculationTxn), so a lemma is about the widest steps it holds of:     *)
(* FreeNext without the reservation limit, RacyNext without the checks of  *)
(* the loan and of the borrower as well.                                   *)

\* place_reservation, however many reservations the member has.
Enqueue(m, b, r) ==
    /\ reservations[r] = NoRow
    /\ books[b].state = "LIVE"
    /\ books[b].available <= 0
    /\ \A q \in ActiveReservations(m) : reservations[q].book # b
    /\ reservations' = [reservations EXCEPT ![r] = NewReservation(m, b)]
    /\ UNCHANGED <<now, books, loans, membership>>

\* borrow_book, whatever else the member has on loan.
Lend(m, b, l) ==
    /\ loans[l] = NoRow
    /\ books[b].state = "LIVE"
    /\ TakeCopy(m, b)
    /\ loans' = [loans EXCEPT ![l] = NewLoan(m, b)]
    /\ UNCHANGED <<now, membership>>

\* return_book of a loan that may be back already.
GiveBack(l) ==
    /\ loans[l] # NoRow
    /\ loans' = [loans EXCEPT ![l].status = "RETURNED"]
    /\ PromoteNext(OneCopyOf(loans[l].book), reservations)
    /\ UNCHANGED <<now, membership>>

\* renew_book that writes over whatever became of the loan it has read: the
\* loan of the same book, which never comes back by that.
Rewrite(l, row) ==
    /\ loans[l] # NoRow
    /\ row.book = loans[l].book
    /\ OnLoan(l) => row.status # "RETURNED"
    /\ loans' = [loans EXCEPT ![l] = row]
    /\ UNCHANGED <<now, books, reservations, membership>>

FreeNext == Next \/ \E m \in Members, b \in Books, r \in ReservationIds : Enqueue(m, b, r)

RacyNext ==
    \/ \E b \in Books, n \in 0..MaxCopies : CreateBook(b, n) \/ UpdateBook(b, n)
    \/ \E b \in Books : DeleteBook(b)
    \/ \E m \in Members, b \in Books, l \in LoanIds : Lend(m, b, l)
    \/ \E l \in LoanIds : GiveBack(l) \/ \E row \in Loan : Rewrite(l, row)
    \/ \E m \in Members, b \in Books, r \in ReservationIds : Enqueue(m, b, r)
    \/ \E r \in ReservationIds : CancelPending(r) \/ CancelHold(r)
    \/ SweepExpiredHolds
    \/ \E m \in Members, s \in MembershipStatus : SetMembership(m, s)
    \/ Tick

LEMMA PlacingEnqueues ==
    \A m \in Members, b \in Books, r \in ReservationIds : PlaceReservation(m, b, r) => Enqueue(m, b, r)
BY DEF PlaceReservation, MayReserve, Enqueue

LEMMA RacyReturn == \A l \in LoanIds : ReturnBook(l) => GiveBack(l)
BY DEF ReturnBook, GiveBack, OnLoan, NoRow

LEMMA WiderSteps ==
    ASSUME TypeOK, [FreeNext]_vars
    PROVE  [RacyNext]_vars
<1>1. ASSUME NEW l \in LoanIds, RenewBook(l) PROVE \E row \in Loan : Rewrite(l, row)
    <2>1. loans[l] \in Loan /\ loans[l] # NoRow
        BY <1>1 DEF RenewBook, OnLoan, TypeOK, NoRow
    <2>2. loans' = [loans EXCEPT ![l] = Extended(loans[l])]
        BY <1>1 DEF RenewBook
    <2>3. /\ Extended(loans[l]) \in Loan /\ Extended(loans[l]).book = loans[l].book
          /\ Extended(loans[l]).status = "RENEWED"
        BY <2>1, ExtendedLoan
    <2> QED BY <1>1, <2>1, <2>2, <2>3 DEF RenewBook, Rewrite
<1>2. \A m \in Members, b \in Books, l \in LoanIds : BorrowBook(m, b, l) => Lend(m, b, l)
    BY DEF BorrowBook, Lend
<1> QED BY <1>1, <1>2, PlacingEnqueues, RacyReturn DEF FreeNext, Next, RacyNext

LEMMA NextIsFree == [Next]_vars => [FreeNext]_vars
BY DEF FreeNext

-----------------------------------------------------------------------------
(* Type correctness.                                                       *)

LEMMA TypeInit == Init => TypeOK
<1> SUFFICES ASSUME Init PROVE TypeOK
    OBVIOUS
<1>1. now \in Times
    BY DEF Init, Times
<1>2. books \in [Books -> Book]
    BY DEF Init, Book
<1>3. membership \in [Members -> MembershipStatus]
    BY DEF Init, MembershipStatus
<1> QED BY <1>1, <1>2, <1>3 DEF Init, TypeOK

LEMMA TypeStep == TypeOK /\ [RacyNext]_vars => TypeOK'
<1> SUFFICES ASSUME TypeOK, [RacyNext]_vars PROVE TypeOK'
    OBVIOUS
<1>1. ASSUME NEW b \in Books, NEW n \in 0..MaxCopies, CreateBook(b, n) PROVE TypeOK'
    <2>1. n \in Nat
        BY BoundsAssumption
    <2>2. [state |-> "LIVE", total |-> n, available |-> n] \in Book
        BY <2>1 DEF Book
    <2> QED BY <1>1, <2>2 DEF CreateBook, TypeOK
<1>2. ASSUME NEW b \in Books, NEW n \in 0..MaxCopies, UpdateBook(b, n) PROVE TypeOK'
    <2>1. n \in Nat /\ books[b] \in Book
        BY BoundsAssumption DEF TypeOK
    <2>2. [state |-> "LIVE", total |-> n,
           available |-> books[b].available + n - books[b].total] \in Book
        BY <1>2, <2>1 DEF UpdateBook, Book
    <2> QED BY <1>2, <2>2 DEF UpdateBook, TypeOK
<1>3. ASSUME NEW b \in Books, DeleteBook(b) PROVE TypeOK'
    BY <1>3 DEF DeleteBook, TypeOK, Book
<1>4. ASSUME NEW m \in Members, NEW b \in Books, NEW l \in LoanIds, Lend(m, b, l)
      PROVE  TypeOK'
    <2>1. loans' \in [LoanIds -> Loan \cup {NoRow}]
        <3>1. now + BorrowPeriod \in Times /\ now \in Times
            BY PeriodsAssumption DEF TypeOK, Times
        <3>2. [member |-> m, book |-> b, status |-> "BORROWED", borrow_date |-> now,
               due_date |-> now + BorrowPeriod, renewal_count |-> 0] \in Loan
            BY <3>1 DEF Loan
        <3> QED BY <1>4, <3>2 DEF Lend, NewLoan, TypeOK
    <2>2. CASE SoleHolder(m, b) /\ books' = books
                 /\ reservations' = Closed(reservations, Held(b, reservations), "COMPLETED")
        <3>1. Closed(reservations, Held(b, reservations), "COMPLETED") \in ReservationTable
            BY ClosedType DEF Held
        <3> QED BY <1>4, <2>1, <2>2, <3>1 DEF Lend, NewLoan, TypeOK, ReservationTable
    <2>3. CASE OnShelf(b) /\ reservations' = reservations
                 /\ books' = [books EXCEPT ![b].available = @ - 1]
        <3>1. books' \in [Books -> Book]
            BY <2>3 DEF OnShelf, TypeOK, Book
        <3> QED BY <1>4, <2>1, <2>3, <3>1 DEF Lend, NewLoan, TypeOK
    <2> QED BY <1>4, <2>2, <2>3 DEF Lend, NewLoan, TakeCopy, Closed
<1>5. ASSUME NEW l \in LoanIds, GiveBack(l) PROVE TypeOK'
    <2>1. loans[l] \in Loan
        BY <1>5 DEF GiveBack, OnLoan, TypeOK, NoRow
    <2>2. loans' \in [LoanIds -> Loan \cup {NoRow}]
        BY <1>5, <2>1 DEF GiveBack, TypeOK, Loan
    <2>3. OneCopyOf(loans[l].book) \in Released /\ reservations \in ReservationTable
        BY <2>1, OneCopyReleased DEF Loan, TypeOK, ReservationTable
    <2>4. books' \in [Books -> Book] /\ reservations' \in ReservationTable
        BY <1>5, <2>3, PromotionEffect DEF GiveBack
    <2> QED BY <1>5, <2>2, <2>4 DEF GiveBack, TypeOK, ReservationTable
<1>6. ASSUME NEW l \in LoanIds, NEW row \in Loan, Rewrite(l, row) PROVE TypeOK'
    BY <1>6 DEF Rewrite, TypeOK
<1>7. ASSUME NEW m \in Members, NEW b \in Books, NEW r \in ReservationIds,
             Enqueue(m, b, r)
      PROVE  TypeOK'
    <2>1. [member |-> m, book |-> b, status |-> "PENDING",
           reserved_at |-> now, expires_at |-> NoTime] \in Reservation
        BY DEF Reservation, TypeOK
    <2> QED BY <1>7, <2>1 DEF Enqueue, NewReservation, TypeOK
<1>8. ASSUME NEW r \in ReservationIds, CancelPending(r) PROVE TypeOK'
    <2>1. Closed(reservations, {r}, "CANCELLED") \in ReservationTable
        BY <1>8, ClosedType DEF CancelPending
    <2> QED BY <1>8, <2>1 DEF CancelPending, TypeOK, ReservationTable
<1>9. ASSUME NEW r \in ReservationIds, CancelHold(r) PROVE TypeOK'
    <2>1. Closed(reservations, {r}, "CANCELLED") \in ReservationTable
        BY <1>9, ClosedType DEF CancelHold
    <2>2. reservations[r].book \in Books
        BY <1>9 DEF CancelHold, TypeOK, NoRow, Reservation
    <2>3. books' \in [Books -> Book] /\ reservations' \in ReservationTable
        BY <1>9, <2>1, <2>2, OneCopyReleased, PromotionEffect DEF CancelHold
    <2> QED BY <1>9, <2>3 DEF CancelHold, TypeOK, ReservationTable
<1>10. ASSUME SweepExpiredHolds PROVE TypeOK'
    <2>1. Closed(reservations, ExpiredHolds, "EXPIRED") \in ReservationTable
        BY ClosedType DEF ExpiredHolds
    <2>2. books' \in [Books -> Book] /\ reservations' \in ReservationTable
        BY <1>10, <2>1, SweptCopiesReleased, PromotionEffect DEF SweepExpiredHolds, SweptCopies
    <2> QED BY <1>10, <2>2 DEF SweepExpiredHolds, TypeOK, ReservationTable
<1>11. ASSUME NEW m \in Members, NEW s \in MembershipStatus, SetMembership(m, s) PROVE TypeOK'
    BY <1>11 DEF SetMembership, TypeOK
<1>12. CASE Tick
    BY <1>12 DEF Tick, TypeOK, Times
<1>13. CASE UNCHANGED vars
    BY <1>13 DEF vars, TypeOK
<1> QED BY <1>1, <1>2, <1>3, <1>4, <1>5, <1>6, <1>7, <1>8, <1>9, <1>10, <1>11, <1>12, <1>13
        DEF RacyNext

\* The tables hold rows of their types in every reachable state; in
\* particular no copy count is ever negative, so that the CHECK constraint
\* available_copies >= 0 never rejects an operation.
THEOREM TypeCorrect == Spec => []TypeOK
<1>1. TypeOK /\ [Next]_vars => TypeOK'
    BY TypeStep, WiderSteps, NextIsFree
<1> QED BY <1>1, TypeInit, PTL DEF Spec

-----------------------------------------------------------------------------
(* Conservation of copies.                                                 *)

\* Holds after a promotion: the ones before it and the promoted rows.
LEMMA PromotionHolds ==
    ASSUME TypeOK, NEW released \in Released, NEW rs \in ReservationTable,
           PromoteNext(released, rs), NEW b \in Books
    PROVE  \E n \in Nat :
              /\ n <= released[b]
              /\ books'[b] = Shelved(books[b], released[b], n)
              /\ Cardinality(Held(b, reservations')) = Cardinality(Held(b, rs)) + n
<1>1. PICK P \in SUBSET ReservationIds : Chosen(P, released, rs)
    BY PromotionEffect
<1> DEFINE chosen == P \cap Pending(b, rs)
<1>2. \A r \in P : Promoted(rs[r]).status = "HOLD" /\ Promoted(rs[r]).book = rs[r].book
    BY <1>1 DEF Chosen, Promoted, Reservation
<1>3. Held(b, reservations') = Held(b, rs) \cup chosen
    BY <1>1, <1>2 DEF Chosen, Held, Pending
<1>4. Held(b, rs) \cap chosen = {}
    BY DEF Held, Pending
<1>5. Held(b, rs) \in SUBSET ReservationIds /\ chosen \in SUBSET ReservationIds
    BY DEF Held
<1>6. Cardinality(Held(b, reservations')) = Cardinality(Held(b, rs)) + Cardinality(chosen)
    BY <1>3, <1>4, <1>5, SplitCardinality
<1> QED BY <1>1, <1>6 DEF Chosen

\* If every released copy left a loan or a hold, promotion conserves copies.
LEMMA PromotionConserves ==
    ASSUME TypeOK, CopiesConserved,
           NEW released \in Released, NEW rs \in ReservationTable,
           PromoteNext(released, rs),
           \A b \in Books :
              Cardinality(CopiesOut(b)') + Cardinality(Held(b, rs)) + released[b]
                = Cardinality(CopiesOut(b)) + Cardinality(Held(b, reservations))
    PROVE  CopiesConserved'
<1> SUFFICES ASSUME NEW b \in Books
             PROVE  LET out == Cardinality(CopiesOut(b)') + Cardinality(Held(b, reservations'))
                    IN  /\ books'[b].state = "NONE" => out = 0
                        /\ books'[b].state = "LIVE" => books'[b].total = books'[b].available + out
                        /\ books'[b].state = "DELETED"
                              => books'[b].total >= books'[b].available + out
    BY DEF CopiesConserved
<1>1. PICK n \in Nat :
          /\ n <= released[b]
          /\ books'[b] = Shelved(books[b], released[b], n)
          /\ Cardinality(Held(b, reservations')) = Cardinality(Held(b, rs)) + n
    BY PromotionHolds
<1>2. /\ Cardinality(CopiesOut(b)) \in Nat /\ Cardinality(CopiesOut(b)') \in Nat
      /\ Cardinality(Held(b, reservations)) \in Nat /\ Cardinality(Held(b, rs)) \in Nat
    BY RowSetsFinite DEF CopiesOut, Held
<1>3. released[b] \in Nat /\ books[b] \in Book
    BY DEF Released, TypeOK
<1>4. /\ books[b].state = "NONE"
            => Cardinality(CopiesOut(b)) + Cardinality(Held(b, reservations)) = 0
      /\ books[b].state = "LIVE"
            => books[b].total = books[b].available + Cardinality(CopiesOut(b))
                                  + Cardinality(Held(b, reservations))
      /\ books[b].state = "DELETED"
            => books[b].total >= books[b].available + Cardinality(CopiesOut(b))
                                  + Cardinality(Held(b, reservations))
    BY <1>2, <1>3 DEF CopiesConserved, Book
<1>5. Cardinality(CopiesOut(b)') + Cardinality(Held(b, rs)) + released[b]
        = Cardinality(CopiesOut(b)) + Cardinality(Held(b, reservations))
    OBVIOUS
<1> DEFINE out == Cardinality(CopiesOut(b)) + Cardinality(Held(b, reservations))
           after == Cardinality(CopiesOut(b)') + Cardinality(Held(b, reservations'))
<1>6. after = out + n - released[b] /\ after \in Nat /\ out \in Nat
    BY <1>1, <1>2, <1>3, <1>5
<1>7. /\ books[b].state = "NONE" => out = 0
      /\ books[b].state = "LIVE" => books[b].total = books[b].available + out
      /\ books[b].state = "DELETED" => books[b].total >= books[b].available + out
    BY <1>4, <1>2, <1>3 DEF Book
<1>8. books[b].total \in Nat /\ books[b].available \in Nat
    BY <1>3 DEF Book
<1> HIDE DEF out, after
<1>9. /\ books'[b].state = "NONE" => after = 0
      /\ books'[b].state = "LIVE" => books'[b].total = books'[b].available + after
      /\ books'[b].state = "DELETED" => books'[b].total >= books'[b].available + after
    <2>1. CASE books[b].state = "LIVE"
        <3>1. /\ books'[b].state = "LIVE" /\ books'[b].total = books[b].total
              /\ books'[b].available = books[b].available + released[b] - n
            BY <1>1, <1>3, <2>1 DEF Shelved, Book
        <3> QED BY <1>1, <1>3, <1>6, <1>7, <1>8, <2>1, <3>1
    <2>2. CASE books[b].state # "LIVE"
        <3>1. books'[b] = books[b]
            BY <1>1, <2>2 DEF Shelved
        <3> QED BY <1>1, <1>3, <1>6, <1>7, <1>8, <2>2, <3>1
    <2> QED BY <2>1, <2>2
<1> QED BY <1>9 DEF after

\* Closing holds takes them out of the held copies.
LEMMA ClosingHolds ==
    ASSUME TypeOK, NEW R \in SUBSET ReservationIds,
           \A r \in R : reservations[r].status = "HOLD",
           NEW status \in {"COMPLETED", "CANCELLED", "EXPIRED"}, NEW b \in Books
    PROVE  Cardinality(Held(b, Closed(reservations, R, status)))
              = Cardinality(Held(b, reservations)) - Cardinality(Held(b, reservations) \cap R)
<1>1. \A r \in R : [reservations[r] EXCEPT !.status = status, !.expires_at = NoTime].status = status
    <2>1. \A r \in R : reservations[r] \in Reservation
        BY DEF TypeOK, NoRow
    <2> QED BY <2>1 DEF Reservation
<1>2. Held(b, Closed(reservations, R, status)) = Held(b, reservations) \ R
    BY <1>1 DEF Held, Closed
<1> QED BY <1>2, SplitCardinality DEF Held

\* What is released is what is no longer held.
LEMMA CancelledHold ==
    ASSUME TypeOK, NEW r \in ReservationIds, reservations[r].status = "HOLD", NEW b \in Books
    PROVE  Cardinality(Held(b, Closed(reservations, {r}, "CANCELLED"))) + OneCopyOf(reservations[r].book)[b]
              = Cardinality(Held(b, reservations))
<1>1. Cardinality(Held(b, Closed(reservations, {r}, "CANCELLED")))
         = Cardinality(Held(b, reservations)) - Cardinality(Held(b, reservations) \cap {r})
    BY ClosingHolds
<1>2. Held(b, reservations) \cap {r} = IF b = reservations[r].book THEN {r} ELSE {}
    BY DEF Held
<1>3. Cardinality(Held(b, reservations) \cap {r}) = OneCopyOf(reservations[r].book)[b]
    BY <1>2, FS_EmptySet, FS_Singleton DEF OneCopyOf
<1>4. OneCopyOf(reservations[r].book)[b] \in Nat /\ Cardinality(Held(b, reservations)) \in Nat
    BY RowSetsFinite DEF OneCopyOf, Held
<1> QED BY <1>1, <1>3, <1>4

LEMMA SweptHolds ==
    ASSUME TypeOK, NEW b \in Books
    PROVE  Cardinality(Held(b, Closed(reservations, ExpiredHolds, "EXPIRED"))) + SweptCopies[b]
              = Cardinality(Held(b, reservations))
<1>1. Cardinality(Held(b, Closed(reservations, ExpiredHolds, "EXPIRED")))
         = Cardinality(Held(b, reservations)) - SweptCopies[b]
    BY ClosingHolds DEF ExpiredHolds, SweptCopies
<1>2. SweptCopies[b] \in Nat /\ Cardinality(Held(b, reservations)) \in Nat
    BY RowSetsFinite, SweptCopiesReleased DEF Held, Released
<1> QED BY <1>1, <1>2

\* A step that changes neither books, loans nor holds conserves copies.
LEMMA UntouchedCopies ==
    ASSUME CopiesConserved, UNCHANGED books,
           \A b \in Books : CopiesOut(b)' = CopiesOut(b)
                            /\ Held(b, reservations') = Held(b, reservations)
    PROVE  CopiesConserved'
BY DEF CopiesConserved

LEMMA CopiesInit == Init => CopiesConserved
<1> SUFFICES ASSUME Init, NEW b \in Books
             PROVE  Cardinality(CopiesOut(b)) + Cardinality(Held(b, reservations)) = 0
    BY DEF CopiesConserved, Init
<1>1. CopiesOut(b) = {} /\ Held(b, reservations) = {}
    BY DEF Init, NoRow, CopiesOut, OnLoan, Held
<1> QED BY <1>1, FS_EmptySet

LEMMA CopiesStep == TypeOK /\ CopiesConserved /\ [FreeNext]_vars => CopiesConserved'
<1> SUFFICES ASSUME TypeOK, CopiesConserved, [FreeNext]_vars PROVE CopiesConserved'
    OBVIOUS
<1>0. /\ \A b \in Books : books[b] \in Book
      /\ \A b \in Books : /\ Cardinality(CopiesOut(b)) \in Nat
                          /\ Cardinality(Held(b, reservations)) \in Nat
    BY RowSetsFinite DEF TypeOK, CopiesOut, Held
<1>1. ASSUME NEW b \in Books, NEW n \in 0..MaxCopies, CreateBook(b, n) PROVE CopiesConserved'
    <2>1. n \in Nat
        BY BoundsAssumption
    <2>2. books'[b] = [state |-> "LIVE", total |-> n, available |-> n]
          /\ \A c \in Books \ {b} : books'[c] = books[c]
        BY <1>1 DEF CreateBook, TypeOK
    <2>3. \A c \in Books : CopiesOut(c)' = CopiesOut(c)
                           /\ Held(c, reservations') = Held(c, reservations)
        BY <1>1 DEF CreateBook, CopiesOut, OnLoan
    <2>4. Cardinality(CopiesOut(b)) + Cardinality(Held(b, reservations)) = 0
        BY <1>1 DEF CreateBook, CopiesConserved
    <2>5. n = n + 0
        BY <2>1
    <2> QED BY <2>2, <2>3, <2>4, <2>5 DEF CopiesConserved
<1>2. ASSUME NEW b \in Books, NEW n \in 0..MaxCopies, UpdateBook(b, n) PROVE CopiesConserved'
    <2>1. n \in Nat
        BY BoundsAssumption
    <2>2. books'[b] = [state |-> "LIVE", total |-> n,
                       available |-> books[b].available + n - books[b].total]
          /\ \A c \in Books \ {b} : books'[c] = books[c]
        BY <1>2 DEF UpdateBook, TypeOK
    <2>3. \A c \in Books : CopiesOut(c)' = CopiesOut(c)
                           /\ Held(c, reservations') = Held(c, reservations)
        BY <1>2 DEF UpdateBook, CopiesOut, OnLoan
    <2> DEFINE out == Cardinality(CopiesOut(b)) + Cardinality(Held(b, reservations))
    <2>4. books[b].total = books[b].available + out
        BY <1>2 DEF UpdateBook, CopiesConserved
    <2>5. out \in Nat /\ books[b].total \in Nat /\ books[b].available \in Nat
        BY <1>0 DEF Book
    <2> HIDE DEF out
    <2>6. n = (books[b].available + n - books[b].total) + out
        BY <2>1, <2>4, <2>5
    <2> QED BY <2>2, <2>3, <2>6 DEF CopiesConserved, out
<1>3. ASSUME NEW b \in Books, DeleteBook(b) PROVE CopiesConserved'
    <2>1. /\ books'[b] = [books[b] EXCEPT !.state = "DELETED"]
          /\ \A c \in Books \ {b} : books'[c] = books[c]
        BY <1>3 DEF DeleteBook, TypeOK
    <2>2. /\ books'[b].state = "DELETED" /\ books'[b].total = books[b].total
          /\ books'[b].available = books[b].available
        BY <1>0, <2>1 DEF Book
    <2>3. \A c \in Books : CopiesOut(c)' = CopiesOut(c)
                           /\ Held(c, reservations') = Held(c, reservations)
        BY <1>3 DEF DeleteBook, CopiesOut, OnLoan
    <2> DEFINE out == Cardinality(CopiesOut(b)) + Cardinality(Held(b, reservations))
    <2>4. books[b].total = books[b].available + out /\ books[b].total \in Nat
        BY <1>0, <1>3 DEF DeleteBook, CopiesConserved, Book
    <2>5. books[b].total >= books[b].available + out
        BY <2>4
    <2> QED BY <2>1, <2>2, <2>3, <2>5 DEF CopiesConserved
<1>4. ASSUME NEW m \in Members, NEW b \in Books, NEW l \in LoanIds, BorrowBook(m, b, l)
      PROVE  CopiesConserved'
    <2>1. l \notin CopiesOut(b) /\ CopiesOut(b)' = CopiesOut(b) \cup {l}
          /\ \A c \in Books \ {b} : CopiesOut(c)' = CopiesOut(c)
        BY <1>4 DEF BorrowBook, NewLoan, NoRow, CopiesOut, OnLoan, TypeOK
    <2>2. Cardinality(CopiesOut(b)') = Cardinality(CopiesOut(b)) + 1
        BY <2>1, RowSetsFinite, FS_AddElement DEF CopiesOut
    <2>3. books[b].state = "LIVE" /\ books[b].total \in Nat /\ books[b].available \in Nat
          /\ books[b].total = books[b].available
                + (Cardinality(CopiesOut(b)) + Cardinality(Held(b, reservations)))
        BY <1>0, <1>4 DEF BorrowBook, NewLoan, CopiesConserved, Book
    <2>4. CASE SoleHolder(m, b) /\ books' = books
                 /\ reservations' = Closed(reservations, Held(b, reservations), "COMPLETED")
        <3>1. PICK r \in ReservationIds : Held(b, reservations) = {r}
            BY <2>4 DEF SoleHolder
        <3>2. Cardinality(Held(b, reservations)) = 1
            BY <3>1, FS_Singleton
        <3>3. \A c \in Books :
                 Cardinality(Held(c, reservations'))
                    = Cardinality(Held(c, reservations))
                        - Cardinality(Held(c, reservations) \cap Held(b, reservations))
            BY <2>4, ClosingHolds DEF Held
        <3>4. Cardinality(Held(b, reservations')) = 0
            <4>1. Held(b, reservations) \cap Held(b, reservations) = Held(b, reservations)
                OBVIOUS
            <4> QED BY <3>2, <3>3, <4>1
        <3>5. ASSUME NEW c \in Books \ {b}
              PROVE  Cardinality(Held(c, reservations')) = Cardinality(Held(c, reservations))
            <4>1. Held(c, reservations) \cap Held(b, reservations) = {}
                BY DEF Held
            <4> QED BY <1>0, <3>3, <4>1, FS_EmptySet
        <3>6. Cardinality(CopiesOut(b)') + Cardinality(Held(b, reservations'))
                = Cardinality(CopiesOut(b)) + Cardinality(Held(b, reservations))
            BY <1>0, <2>2, <3>2, <3>4
        <3> QED BY <2>1, <2>4, <3>5, <3>6 DEF CopiesConserved
    <2>5. CASE OnShelf(b) /\ reservations' = reservations
                 /\ books' = [books EXCEPT ![b].available = @ - 1]
        <3>1. /\ books'[b] = [books[b] EXCEPT !.available = books[b].available - 1]
              /\ \A c \in Books \ {b} : books'[c] = books[c]
            BY <2>5 DEF TypeOK
        <3>2. /\ books'[b].state = "LIVE" /\ books'[b].total = books[b].total
              /\ books'[b].available = books[b].available - 1
            BY <1>0, <2>3, <3>1 DEF Book
        <3>3. books[b].total = (books[b].available - 1)
                 + (Cardinality(CopiesOut(b)') + Cardinality(Held(b, reservations')))
            BY <1>0, <2>2, <2>3, <2>5
        <3>4. \A c \in Books \ {b} :
                 /\ books'[c] = books[c] /\ CopiesOut(c)' = CopiesOut(c)
                 /\ Held(c, reservations') = Held(c, reservations)
            BY <2>1, <2>5, <3>1
        <3>5. books'[b].state = "LIVE" /\ books'[b].total = books'[b].available
                 + (Cardinality(CopiesOut(b)') + Cardinality(Held(b, reservations')))
            BY <3>2, <3>3
        <3> QED BY <3>4, <3>5 DEF CopiesConserved
    <2> QED BY <1>4, <2>4, <2>5 DEF BorrowBook, NewLoan, TakeCopy, Closed
<1>5. ASSUME NEW l \in LoanIds, ReturnBook(l) PROVE CopiesConserved'
    <2>0. loans[l] \in Loan
        BY <1>5 DEF ReturnBook, OnLoan, TypeOK, NoRow
    <2>1. PICK b \in Books : b = loans[l].book
        BY <2>0 DEF Loan
    <2>2. l \in CopiesOut(b) /\ CopiesOut(b)' = CopiesOut(b) \ {l}
          /\ \A c \in Books \ {b} : CopiesOut(c)' = CopiesOut(c)
        BY <1>5, <2>0, <2>1 DEF ReturnBook, CopiesOut, OnLoan, TypeOK, Loan
    <2>3. Cardinality(CopiesOut(b)') = Cardinality(CopiesOut(b)) - 1
        BY <2>2, RowSetsFinite, FS_RemoveElement DEF CopiesOut
    <2>4. \A c \in Books : OneCopyOf(b)[c] = IF c = b THEN 1 ELSE 0
        BY DEF OneCopyOf
    <2>5. ASSUME NEW c \in Books
          PROVE  Cardinality(CopiesOut(c)') + Cardinality(Held(c, reservations)) + OneCopyOf(b)[c]
                   = Cardinality(CopiesOut(c)) + Cardinality(Held(c, reservations))
        <3>1. CASE c = b
            <4>1. Cardinality(CopiesOut(c)') = Cardinality(CopiesOut(c)) - 1 /\ OneCopyOf(b)[c] = 1
                BY <2>1, <2>3, <2>4, <3>1
            <4> QED BY <1>0, <4>1
        <3>2. CASE c # b
            BY <1>0, <2>1, <2>2, <2>4, <3>2
        <3> QED BY <3>1, <3>2
    <2>6. reservations \in ReservationTable /\ OneCopyOf(b) \in Released
        BY OneCopyReleased DEF TypeOK, ReservationTable
    <2> QED BY <1>5, <2>1, <2>5, <2>6, PromotionConserves DEF ReturnBook
<1>6. ASSUME NEW l \in LoanIds, RenewBook(l) PROVE CopiesConserved'
    <2>1. loans[l] \in Loan
        BY <1>6 DEF RenewBook, OnLoan, TypeOK, NoRow
    <2>2. \A b \in Books : CopiesOut(b)' = CopiesOut(b)
        BY <1>6, <2>1, ExtendedLoan DEF RenewBook, CopiesOut, OnLoan, TypeOK
    <2> QED BY <1>6, <2>2, UntouchedCopies DEF RenewBook
<1>7. ASSUME NEW m \in Members, NEW b \in Books, NEW r \in ReservationIds,
             Enqueue(m, b, r)
      PROVE  CopiesConserved'
    <2>1. \A c \in Books : Held(c, reservations') = Held(c, reservations)
        BY <1>7 DEF Enqueue, NewReservation, Held, NoRow, TypeOK
    <2>2. \A c \in Books : CopiesOut(c)' = CopiesOut(c)
        BY <1>7 DEF Enqueue, NewReservation, CopiesOut, OnLoan
    <2> QED BY <1>7, <2>1, <2>2, UntouchedCopies DEF Enqueue, NewReservation
<1>8. ASSUME NEW r \in ReservationIds, CancelPending(r) PROVE CopiesConserved'
    <2>1. reservations[r] \in Reservation
        BY <1>8 DEF CancelPending, TypeOK, NoRow
    <2>2. [reservations[r] EXCEPT !.status = "CANCELLED", !.expires_at = NoTime].status # "HOLD"
        BY <2>1 DEF Reservation
    <2>3. \A c \in Books : Held(c, reservations') = Held(c, reservations)
        BY <1>8, <2>2 DEF CancelPending, Closed, Held
    <2>4. \A c \in Books : CopiesOut(c)' = CopiesOut(c)
        BY <1>8 DEF CancelPending, CopiesOut, OnLoan
    <2> QED BY <1>8, <2>3, <2>4, UntouchedCopies DEF CancelPending
<1>9. ASSUME NEW r \in ReservationIds, CancelHold(r) PROVE CopiesConserved'
    <2> DEFINE b == reservations[r].book
               rs == Closed(reservations, {r}, "CANCELLED")
    <2>1. b \in Books
        BY <1>9 DEF CancelHold, TypeOK, NoRow, Reservation
    <2>2. rs \in ReservationTable /\ OneCopyOf(b) \in Released
        BY <1>9, <2>1, ClosedType, OneCopyReleased DEF CancelHold
    <2>3. \A c \in Books : CopiesOut(c)' = CopiesOut(c)
        BY <1>9 DEF CancelHold, CopiesOut, OnLoan
    <2>4. \A c \in Books :
             Cardinality(Held(c, rs)) + OneCopyOf(b)[c] = Cardinality(Held(c, reservations))
        BY <1>9, CancelledHold DEF CancelHold
    <2>5. \A c \in Books :
             Cardinality(CopiesOut(c)') + Cardinality(Held(c, rs)) + OneCopyOf(b)[c]
               = Cardinality(CopiesOut(c)) + Cardinality(Held(c, reservations))
        <3> SUFFICES ASSUME NEW c \in Books
                     PROVE  Cardinality(CopiesOut(c)') + Cardinality(Held(c, rs)) + OneCopyOf(b)[c]
                              = Cardinality(CopiesOut(c)) + Cardinality(Held(c, reservations))
            OBVIOUS
        <3>1. Cardinality(Held(c, rs)) \in Nat /\ OneCopyOf(b)[c] \in Nat
            BY RowSetsFinite DEF Held, OneCopyOf
        <3>2. Cardinality(CopiesOut(c)') = Cardinality(CopiesOut(c))
            BY <2>3
        <3>3. Cardinality(Held(c, rs)) + OneCopyOf(b)[c] = Cardinality(Held(c, reservations))
            BY <2>4
        <3> HIDE DEF b, rs
        <3> QED BY <1>0, <3>1, <3>2, <3>3
    <2> QED BY <1>9, <2>2, <2>5, PromotionConserves DEF CancelHold
<1>10. ASSUME SweepExpiredHolds PROVE CopiesConserved'
    <2> DEFINE rs == Closed(reservations, ExpiredHolds, "EXPIRED")
    <2>1. rs \in ReservationTable
        BY ClosedType DEF ExpiredHolds
    <2>2. \A c \in Books : CopiesOut(c)' = CopiesOut(c)
        BY <1>10 DEF SweepExpiredHolds, CopiesOut, OnLoan
    <2>3. \A c \in Books : Cardinality(Held(c, rs)) + SweptCopies[c] = Cardinality(Held(c, reservations))
        BY SweptHolds
    <2>4. \A c \in Books : Cardinality(Held(c, rs)) \in Nat /\ SweptCopies[c] \in Nat
        BY RowSetsFinite, SweptCopiesReleased DEF Held, Released
    <2>5. \A c \in Books :
             Cardinality(CopiesOut(c)') + Cardinality(Held(c, rs)) + SweptCopies[c]
               = Cardinality(CopiesOut(c)) + Cardinality(Held(c, reservations))
        BY <1>0, <2>2, <2>3, <2>4
    <2>6. PromoteNext(SweptCopies, rs)
        BY <1>10 DEF SweepExpiredHolds, SweptCopies
    <2> QED BY <2>1, <2>5, <2>6, SweptCopiesReleased, PromotionConserves
<1>11. ASSUME NEW m \in Members, NEW s \in MembershipStatus, SetMembership(m, s)
       PROVE  CopiesConserved'
    BY <1>11, UntouchedCopies DEF SetMembership, CopiesOut, OnLoan
<1>12. CASE Tick
    BY <1>12, UntouchedCopies DEF Tick, CopiesOut, OnLoan
<1>13. CASE UNCHANGED vars
    BY <1>13, UntouchedCopies DEF vars, CopiesOut, OnLoan
<1> QED BY <1>1, <1>2, <1>3, <1>4, <1>5, <1>6, <1>7, <1>8, <1>9, <1>10, <1>11, <1>12, <1>13,
        PlacingEnqueues DEF FreeNext, Next

\* No operation of any service loses or invents a copy.
THEOREM CopiesAlwaysConserved == Spec => []CopiesConserved
<1>1. Init => TypeOK /\ CopiesConserved
    BY TypeInit, CopiesInit
<1>2. TypeOK /\ CopiesConserved /\ [Next]_vars => (TypeOK /\ CopiesConserved)'
    BY TypeStep, CopiesStep, WiderSteps, NextIsFree
<1> QED BY <1>1, <1>2, PTL DEF Spec

=============================================================================
