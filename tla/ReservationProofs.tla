------------------------- MODULE ReservationProofs -------------------------
(***************************************************************************)
(* What holds of the reservation queue and of the loans, for every value   *)
(* of Circulation's constants.                                             *)
(***************************************************************************)
EXTENDS CirculationProofs

ActiveStatus == {"PENDING", "HOLD"}
ClosedStatus == {"COMPLETED", "CANCELLED", "EXPIRED"}

-----------------------------------------------------------------------------
(* The four ways a step changes the reservations table.                    *)

Closes(R, status) ==
    /\ \A r \in R : reservations[r].status \in ActiveStatus
    /\ reservations' = Closed(reservations, R, status)

Releases(released, R, status) ==
    /\ \A r \in R : reservations[r].status = "HOLD"
    /\ PromoteNext(released, Closed(reservations, R, status))

SomeRelease ==
    \E R \in SUBSET ReservationIds, s \in ClosedStatus, n \in Released : Releases(n, R, s)

\* The operations that release copies.
LEMMA ReleasingSteps ==
    ASSUME TypeOK
    PROVE  /\ \A l \in LoanIds : GiveBack(l) => SomeRelease
           /\ \A r \in ReservationIds : CancelHold(r) => SomeRelease
           /\ SweepExpiredHolds => SomeRelease
<1>1. ASSUME NEW l \in LoanIds, GiveBack(l) PROVE SomeRelease
    <2>1. loans[l].book \in Books
        BY <1>1 DEF GiveBack, TypeOK, NoRow, Loan
    <2>2. Closed(reservations, {}, "CANCELLED") = reservations
        BY DEF Closed, TypeOK
    <2>3. Releases(OneCopyOf(loans[l].book), {}, "CANCELLED")
        BY <1>1, <2>2 DEF GiveBack, Releases
    <2> QED BY <2>1, <2>3, OneCopyReleased DEF SomeRelease, ClosedStatus
<1>2. ASSUME NEW r \in ReservationIds, CancelHold(r) PROVE SomeRelease
    <2>1. reservations[r].book \in Books
        BY <1>2 DEF CancelHold, TypeOK, NoRow, Reservation
    <2>2. Releases(OneCopyOf(reservations[r].book), {r}, "CANCELLED")
        BY <1>2 DEF CancelHold, Releases
    <2> QED BY <2>1, <2>2, OneCopyReleased DEF SomeRelease, ClosedStatus
<1>3. ASSUME SweepExpiredHolds PROVE SomeRelease
    <2>1. Releases(SweptCopies, ExpiredHolds, "EXPIRED")
        BY <1>3 DEF SweepExpiredHolds, SweptCopies, Releases, ExpiredHolds
    <2>2. ExpiredHolds \in SUBSET ReservationIds
        BY DEF ExpiredHolds
    <2> QED BY <2>1, <2>2, SweptCopiesReleased DEF SomeRelease, ClosedStatus
<1> QED BY <1>1, <1>2, <1>3

LEMMA ReservationSteps ==
    ASSUME TypeOK, [RacyNext]_vars
    PROVE  \/ reservations' = reservations
           \/ \E m \in Members, b \in Books, r \in ReservationIds : Enqueue(m, b, r)
           \/ \E R \in SUBSET ReservationIds, s \in ClosedStatus : Closes(R, s)
           \/ SomeRelease
<1>1. ASSUME NEW m \in Members, NEW b \in Books, NEW l \in LoanIds, Lend(m, b, l),
             reservations' # reservations
      PROVE  \E R \in SUBSET ReservationIds, s \in ClosedStatus : Closes(R, s)
    <2>1. Closes(Held(b, reservations), "COMPLETED")
        BY <1>1 DEF Lend, NewLoan, TakeCopy, Closes, Closed, Held, ActiveStatus
    <2>2. Held(b, reservations) \in SUBSET ReservationIds
        BY DEF Held
    <2> QED BY <2>1, <2>2 DEF ClosedStatus
<1>2. ASSUME NEW r \in ReservationIds, CancelPending(r)
      PROVE  \E R \in SUBSET ReservationIds, s \in ClosedStatus : Closes(R, s)
    <2>1. Closes({r}, "CANCELLED")
        BY <1>2 DEF CancelPending, Closes, ActiveStatus
    <2> QED BY <2>1 DEF ClosedStatus
<1> QED BY <1>1, <1>2, ReleasingSteps
        DEF RacyNext, vars, CreateBook, UpdateBook, DeleteBook, Rewrite, SetMembership, Tick

LEMMA BookSteps ==
    ASSUME TypeOK, [RacyNext]_vars
    PROVE  \/ books' = books
           \/ \E b \in Books, n \in 0..MaxCopies : CreateBook(b, n) \/ UpdateBook(b, n)
           \/ \E b \in Books : DeleteBook(b)
           \/ \E m \in Members, b \in Books, l \in LoanIds : Lend(m, b, l)
           \/ SomeRelease
BY ReleasingSteps
   DEF RacyNext, vars, Rewrite, Enqueue, NewReservation, CancelPending, SetMembership, Tick

-----------------------------------------------------------------------------
(* Single rows.                                                            *)

\* A closed row is no longer active and keeps its member, book and place.
LEMMA ClosedRows ==
    ASSUME TypeOK, NEW R \in SUBSET ReservationIds,
           \A r \in R : reservations[r].status \in ActiveStatus,
           NEW s \in ClosedStatus, NEW r \in ReservationIds
    PROVE  LET row == Closed(reservations, R, s)[r]
           IN  /\ r \notin R => row = reservations[r]
               /\ r \in R => /\ row.status = s /\ row.expires_at = NoTime
                             /\ row \in Reservation /\ reservations[r] \in Reservation
<1>1. ASSUME r \in R
      PROVE  reservations[r] \in Reservation
    BY <1>1 DEF TypeOK, NoRow, ActiveStatus
<1>2. ASSUME r \in R
      PROVE  LET row == [reservations[r] EXCEPT !.status = s, !.expires_at = NoTime]
             IN  row.status = s /\ row.expires_at = NoTime /\ row \in Reservation
    BY <1>1, <1>2 DEF Reservation, ClosedStatus
<1> QED BY <1>1, <1>2 DEF Closed

\* What one row looks like after a step that releases copies.
LEMMA ReleasedRows ==
    ASSUME TypeOK, NEW R \in SUBSET ReservationIds, NEW s \in ClosedStatus,
           NEW n \in Released, Releases(n, R, s), NEW r \in ReservationIds
    PROVE  \/ reservations'[r] = reservations[r]
           \/ /\ r \in R /\ reservations'[r].status = s /\ reservations'[r].expires_at = NoTime
           \/ /\ reservations[r] \in Reservation /\ reservations[r].status = "PENDING"
              /\ reservations'[r] = Promoted(reservations[r])
<1> DEFINE rs == Closed(reservations, R, s)
<1>1. rs \in ReservationTable
    BY ClosedType DEF Releases, ClosedStatus
<1>2. PICK P \in SUBSET ReservationIds : Chosen(P, n, rs)
    BY <1>1, PromotionEffect DEF Releases
<1>3. /\ r \notin R => rs[r] = reservations[r]
      /\ r \in R => rs[r].status = s /\ rs[r].expires_at = NoTime
    BY ClosedRows DEF Releases, ActiveStatus
<1>4. r \in P => r \notin R
    BY <1>2, <1>3 DEF Chosen, ClosedStatus
<1> QED BY <1>2, <1>3, <1>4 DEF Chosen

LEMMA PromotedRow ==
    ASSUME TypeOK, NEW res \in Reservation
    PROVE  /\ Promoted(res).status = "HOLD" /\ Promoted(res).member = res.member
           /\ Promoted(res).book = res.book /\ Promoted(res).reserved_at = res.reserved_at
           /\ Promoted(res).expires_at = now + HoldDuration
BY DEF Promoted, Reservation

-----------------------------------------------------------------------------
(* The queue.                                                              *)

LEMMA FifoStep ==
    ASSUME TypeOK, [RacyNext]_vars, NEW r \in ReservationIds, NEW q \in ReservationIds,
           Promotes(r), q \in Pending(reservations[r].book, reservations')
    PROVE  reservations[r].reserved_at <= reservations'[q].reserved_at
<1>1. PICK R \in SUBSET ReservationIds, s \in ClosedStatus, n \in Released : Releases(n, R, s)
    <2>1. reservations' # reservations
        BY DEF Promotes
    <2>2. ASSUME NEW m \in Members, NEW b \in Books, NEW p \in ReservationIds,
                 Enqueue(m, b, p)
          PROVE  FALSE
        BY <2>2 DEF Enqueue, NewReservation, Promotes, TypeOK
    <2>3. ASSUME NEW R \in SUBSET ReservationIds, NEW s \in ClosedStatus, Closes(R, s)
          PROVE  FALSE
        <3>1. reservations'[r].status = s \/ reservations'[r] = reservations[r]
            BY <2>3, ClosedRows DEF Closes
        <3> QED BY <3>1 DEF Promotes, ClosedStatus
    <2> QED BY <2>1, <2>2, <2>3, ReservationSteps DEF SomeRelease
<1> DEFINE rs == Closed(reservations, R, s)
<1>2. rs \in ReservationTable
    BY <1>1, ClosedType DEF Releases, ClosedStatus
<1>3. PICK P \in SUBSET ReservationIds : Chosen(P, n, rs)
    BY <1>1, <1>2, PromotionEffect DEF Releases
<1>4. rs[r] = reservations[r] /\ rs[r].status = "PENDING"
    <2>1. r \notin R
        BY <1>1 DEF Releases, Promotes
    <2> QED BY <1>1, <2>1, ClosedRows DEF Releases, Promotes, ActiveStatus
<1>5. r \in P /\ rs[r] \in Reservation
    BY <1>3, <1>4 DEF Chosen, Promotes
<1>6. q \notin P /\ reservations'[q] = rs[q]
    <2>1. q \in P => Promoted(rs[q]).status = "HOLD"
        BY <1>3, PromotedRow DEF Chosen
    <2> QED BY <1>3, <2>1 DEF Chosen, Pending
<1>7. PICK b \in Books : b = rs[r].book
    BY <1>5 DEF Reservation
<1>8. r \in P \cap Pending(b, rs) /\ q \in Pending(b, rs) \ (P \cap Pending(b, rs))
    BY <1>4, <1>5, <1>6, <1>7 DEF Pending
<1>9. P \cap Pending(b, rs) \in Promotable(b, n[b], rs)
    BY <1>3 DEF Chosen
<1>10. rs[r].reserved_at <= rs[q].reserved_at
    BY <1>8, <1>9 DEF Promotable
<1> QED BY <1>4, <1>6, <1>10

\* Whatever releases copies, the queue of each book is served in the order of
\* the requests.
THEOREM QueueIsFifo == Spec => FifoPromotion
<1>1. TypeOK /\ [Next]_vars =>
         [\A r, q \in ReservationIds :
             (Promotes(r) /\ q \in Pending(reservations[r].book, reservations'))
                => reservations[r].reserved_at <= reservations'[q].reserved_at]_vars
    BY FifoStep, WiderSteps, NextIsFree
<1> QED BY <1>1, TypeCorrect, PTL DEF Spec, FifoPromotion

LEMMA ShelfStep ==
    ASSUME TypeOK, NEW released \in Released, NEW rs \in ReservationTable,
           PromoteNext(released, rs), NEW b \in Books,
           books'[b].available > books[b].available
    PROVE  Pending(b, reservations') = {}
<1>1. PICK P \in SUBSET ReservationIds : Chosen(P, released, rs)
    BY PromotionEffect
<1> DEFINE chosen == P \cap Pending(b, rs)
           n == Cardinality(chosen)
<1>2. /\ n \in Nat /\ n <= released[b] /\ released[b] \in Nat
      /\ books'[b] = Shelved(books[b], released[b], n)
      /\ chosen \in Promotable(b, released[b], rs)
    BY <1>1 DEF Chosen, Released
<1>3. n < released[b]
    <2>1. books[b] \in Book
        BY DEF TypeOK
    <2>2. books[b].state = "LIVE"
        BY <1>2, <2>1 DEF Shelved, Book
    <2>3. books'[b].available = books[b].available + released[b] - n
        BY <1>2, <2>1, <2>2 DEF Shelved, Book
    <2>4. books[b].available \in Nat
        BY <2>1 DEF Book
    <2> HIDE DEF n
    <2> QED BY <1>2, <2>3, <2>4
<1>4. Pending(b, rs) \in SUBSET ReservationIds /\ chosen \in SUBSET Pending(b, rs)
    BY DEF Pending
<1>5. chosen = Pending(b, rs)
    <2>1. n = MinOf(released[b], Cardinality(Pending(b, rs)))
        BY <1>2 DEF Promotable
    <2>2. IsFiniteSet(Pending(b, rs)) /\ Cardinality(Pending(b, rs)) \in Nat
        BY <1>4, RowSetsFinite
    <2>3. n = Cardinality(Pending(b, rs))
        BY <1>2, <1>3, <2>1, <2>2 DEF MinOf
    <2> QED BY <1>4, <2>2, <2>3, FS_Subset
<1>6. ASSUME NEW r \in Pending(b, reservations') PROVE FALSE
    <2>1. r \in ReservationIds /\ reservations'[r].status = "PENDING" /\ reservations'[r].book = b
        BY <1>6 DEF Pending
    <2>2. r \notin P
        BY <1>1, <2>1, PromotedRow DEF Chosen
    <2>3. rs[r] = reservations'[r]
        BY <1>1, <2>1, <2>2 DEF Chosen
    <2>4. r \in Pending(b, rs)
        BY <2>1, <2>3 DEF Pending
    <2> QED BY <1>5, <2>2, <2>4
<1> QED BY <1>6

\* A book that does not exist yet has no copies, so creating it changes its total.
UnusedBooks == \A b \in Books : books[b].state = "NONE" => books[b].total = 0

LEMMA UnusedStep == TypeOK /\ UnusedBooks /\ [RacyNext]_vars => UnusedBooks'
<1> SUFFICES ASSUME TypeOK, UnusedBooks, [RacyNext]_vars, NEW b \in Books, books'[b].state = "NONE"
             PROVE  books'[b].total = 0
    BY DEF UnusedBooks
<1> USE DEF UnusedBooks
<1>1. ASSUME NEW c \in Books, NEW n \in 0..MaxCopies, CreateBook(c, n) \/ UpdateBook(c, n)
      PROVE  books'[b] = books[b]
    BY <1>1 DEF CreateBook, UpdateBook, TypeOK
<1>2. ASSUME NEW c \in Books, DeleteBook(c) PROVE books'[b] = books[b]
    BY <1>2 DEF DeleteBook, TypeOK, Book
<1>3. ASSUME NEW m \in Members, NEW c \in Books, NEW l \in LoanIds, Lend(m, c, l)
      PROVE  books'[b] = books[b]
    BY <1>3 DEF Lend, NewLoan, TakeCopy, TypeOK, Book
<1>4. ASSUME NEW n \in Released, NEW rs \in ReservationTable, PromoteNext(n, rs)
      PROVE  books'[b] = books[b]
    <2>1. books[b] \in Book
        BY DEF TypeOK
    <2>2. PICK k \in Nat : books'[b] = Shelved(books[b], n[b], k)
        BY <1>4, PromotionHolds
    <2> QED BY <2>1, <2>2 DEF Shelved, Book
<1>5. ASSUME NEW R \in SUBSET ReservationIds, NEW s \in ClosedStatus, NEW n \in Released,
             Releases(n, R, s)
      PROVE  books'[b] = books[b]
    BY <1>4, <1>5, ClosedType DEF Releases, ClosedStatus
<1> QED BY <1>1, <1>2, <1>3, <1>5, BookSteps DEF SomeRelease

LEMMA ShelvedStep ==
    ASSUME TypeOK, UnusedBooks, [RacyNext]_vars, NEW b \in Books,
           books'[b].available > books[b].available, books'[b].total = books[b].total
    PROVE  Pending(b, reservations') = {}
<1>1. ASSUME NEW c \in Books, NEW n \in 0..MaxCopies, CreateBook(c, n) PROVE FALSE
    <2>1. b # c => books'[b] = books[b]
        BY <1>1 DEF CreateBook, TypeOK
    <2>2. b = c => books'[b].available = n /\ books'[b].total = n
        BY <1>1 DEF CreateBook, TypeOK
    <2>3. b = c => books[b].total = 0 /\ books[b].available \in Nat
        BY <1>1 DEF CreateBook, UnusedBooks, TypeOK, Book
    <2> QED BY <2>1, <2>2, <2>3, BoundsAssumption DEF TypeOK, Book
<1>2. ASSUME NEW c \in Books, NEW n \in 0..MaxCopies, UpdateBook(c, n) PROVE FALSE
    <2>1. b # c => books'[b] = books[b]
        BY <1>2 DEF UpdateBook, TypeOK
    <2>2. b = c => /\ books'[b].total = n
                   /\ books'[b].available = books[b].available + n - books[b].total
        BY <1>2 DEF UpdateBook, TypeOK
    <2> QED BY <2>1, <2>2, BoundsAssumption DEF TypeOK, Book
<1>3. ASSUME NEW c \in Books, DeleteBook(c) PROVE FALSE
    <2>1. books'[b].available = books[b].available
        BY <1>3 DEF DeleteBook, TypeOK, Book
    <2> QED BY <2>1 DEF TypeOK, Book
<1>4. ASSUME NEW m \in Members, NEW c \in Books, NEW l \in LoanIds, Lend(m, c, l)
      PROVE  FALSE
    <2>1. books[b] \in Book
        BY DEF TypeOK
    <2>2. books' = books \/ books' = [books EXCEPT ![c].available = @ - 1]
        BY <1>4 DEF Lend, NewLoan, TakeCopy
    <2>3. books'[b] = books[b] \/ books'[b] = [books[b] EXCEPT !.available = @ - 1]
        BY <2>2 DEF TypeOK
    <2>4. books'[b].available = books[b].available \/ books'[b].available = books[b].available - 1
        BY <2>1, <2>3 DEF Book
    <2> QED BY <2>1, <2>4 DEF Book
<1>5. CASE SomeRelease
    BY <1>5, ShelfStep, ClosedType DEF SomeRelease, Releases, ClosedStatus
<1>6. CASE books' = books
    BY <1>6 DEF TypeOK, Book
<1> QED BY <1>1, <1>2, <1>3, <1>4, <1>5, <1>6, BookSteps

\* A released copy goes on the shelf only when its queue is empty.
THEOREM ShelvedAfterQueue == Spec => ShelvedOnlyWithoutQueue
<1>1. Init => TypeOK /\ UnusedBooks
    BY TypeInit DEF Init, UnusedBooks
<1>2. TypeOK /\ UnusedBooks /\ [Next]_vars => (TypeOK /\ UnusedBooks)'
    BY TypeStep, UnusedStep, WiderSteps, NextIsFree
<1>3. TypeOK /\ UnusedBooks /\ [Next]_vars =>
         [\A b \in Books :
             (books'[b].available > books[b].available /\ books'[b].total = books[b].total)
                => Pending(b, reservations') = {}]_vars
    BY ShelvedStep, WiderSteps, NextIsFree
<1> QED BY <1>1, <1>2, <1>3, PTL DEF Spec, ShelvedOnlyWithoutQueue

-----------------------------------------------------------------------------
(* Uniqueness and limits.                                                  *)

\* No reservation became active, changed owner or changed book.
ActiveKept ==
    \A r \in ReservationIds : reservations'[r].status \in ActiveStatus =>
        /\ reservations[r].status \in ActiveStatus
        /\ reservations'[r].member = reservations[r].member
        /\ reservations'[r].book = reservations[r].book

LEMMA OnlyPlacingActivates ==
    ASSUME TypeOK, [RacyNext]_vars
    PROVE  \/ ActiveKept
           \/ \E m \in Members, b \in Books, r \in ReservationIds : Enqueue(m, b, r)
<1>1. CASE reservations' = reservations
    BY <1>1 DEF ActiveKept
<1>2. ASSUME NEW R \in SUBSET ReservationIds, NEW s \in ClosedStatus, Closes(R, s)
      PROVE  ActiveKept
    <2>1. \A r \in ReservationIds : reservations'[r].status = s \/ reservations'[r] = reservations[r]
        BY <1>2, ClosedRows DEF Closes
    <2> QED BY <2>1 DEF ActiveKept, ActiveStatus, ClosedStatus
<1>3. ASSUME NEW R \in SUBSET ReservationIds, NEW s \in ClosedStatus, NEW n \in Released,
             Releases(n, R, s), NEW r \in ReservationIds,
             reservations'[r].status \in ActiveStatus
      PROVE  /\ reservations[r].status \in ActiveStatus
             /\ reservations'[r].member = reservations[r].member
             /\ reservations'[r].book = reservations[r].book
    <2>1. CASE reservations'[r] = reservations[r]
        BY <1>3, <2>1
    <2>2. CASE reservations'[r].status = s
        BY <1>3, <2>2 DEF ActiveStatus, ClosedStatus
    <2>3. CASE /\ reservations[r] \in Reservation /\ reservations[r].status = "PENDING"
               /\ reservations'[r] = Promoted(reservations[r])
        BY <2>3, PromotedRow DEF ActiveStatus
    <2> QED BY <1>3, <2>1, <2>2, <2>3, ReleasedRows
<1> QED BY <1>1, <1>2, <1>3, ReservationSteps DEF SomeRelease, ActiveKept

LEMMA UniqueStep == TypeOK /\ NoDuplicateReservation /\ [RacyNext]_vars => NoDuplicateReservation'
<1> SUFFICES ASSUME TypeOK, NoDuplicateReservation, [RacyNext]_vars PROVE NoDuplicateReservation'
    OBVIOUS
<1>1. CASE ActiveKept
    BY <1>1 DEF ActiveKept, ActiveStatus, NoDuplicateReservation, ActiveReservations
<1>2. ASSUME NEW m \in Members, NEW b \in Books, NEW r \in ReservationIds,
             Enqueue(m, b, r)
      PROVE  NoDuplicateReservation'
    <2>1. reservations'[r].member = m /\ reservations'[r].book = b
          /\ \A q \in ReservationIds \ {r} : reservations'[q] = reservations[q]
        BY <1>2 DEF Enqueue, NewReservation, TypeOK
    <2>2. \A q \in ActiveReservations(m) : reservations[q].book # b
        BY <1>2 DEF Enqueue
    <2>3. ASSUME NEW k \in Members, NEW p \in ActiveReservations(k)',
                 NEW q \in ActiveReservations(k)', reservations'[p].book = reservations'[q].book
          PROVE  p = q
        <3>1. p \in ReservationIds /\ q \in ReservationIds
              /\ reservations'[p].member = k /\ reservations'[q].member = k
            BY DEF ActiveReservations
        <3>2. \A x \in {p, q} : x # r => x \in ActiveReservations(k)
            BY <2>1, <3>1 DEF ActiveReservations
        <3>3. CASE p # r /\ q # r
            BY <2>1, <2>3, <3>1, <3>2, <3>3 DEF NoDuplicateReservation
        <3>4. CASE p = r /\ q # r
            BY <2>1, <2>2, <2>3, <3>1, <3>2, <3>4
        <3>5. CASE p # r /\ q = r
            BY <2>1, <2>2, <2>3, <3>1, <3>2, <3>5
        <3> QED BY <3>3, <3>4, <3>5
    <2> QED BY <2>3 DEF NoDuplicateReservation
<1> QED BY <1>1, <1>2, OnlyPlacingActivates

\* A member never has two active reservations of one book.
THEOREM ReservationsUnique == Spec => []NoDuplicateReservation
<1>1. Init => NoDuplicateReservation
    BY DEF Init, NoRow, NoDuplicateReservation, ActiveReservations
<1>2. TypeOK /\ NoDuplicateReservation /\ [Next]_vars => NoDuplicateReservation'
    BY UniqueStep, WiderSteps, NextIsFree
<1> QED BY <1>1, <1>2, TypeCorrect, PTL DEF Spec

LEMMA LoanSteps ==
    ASSUME [FreeNext]_vars
    PROVE  \/ loans' = loans
           \/ \E m \in Members, b \in Books, l \in LoanIds : BorrowBook(m, b, l)
           \/ \E l \in LoanIds : ReturnBook(l) \/ RenewBook(l)
BY DEF FreeNext, Next, vars, Enqueue, CreateBook, UpdateBook, DeleteBook, PlaceReservation, NewReservation, CancelPending,
       CancelHold, SweepExpiredHolds, SetMembership, Tick

LEMMA OneMore ==
    ASSUME NEW S, IsFiniteSet(S), NEW x, NEW T \in SUBSET (S \cup {x})
    PROVE  Cardinality(T) <= Cardinality(S) + 1
<1>1. IsFiniteSet(S \cup {x})
    BY FS_AddElement
<1>2. Cardinality(S \cup {x}) = Cardinality(S) \/ Cardinality(S \cup {x}) = Cardinality(S) + 1
    BY FS_AddElement
<1>3. Cardinality(T) <= Cardinality(S \cup {x})
    BY <1>1, FS_Subset
<1>4. /\ Cardinality(S) \in Nat /\ Cardinality(T) \in Nat
      /\ Cardinality(S \cup {x}) \in Nat
    BY <1>1, FS_Subset, FS_CardinalityType
<1> QED BY <1>2, <1>3, <1>4

LoanLimit == \A m \in Members : Cardinality(ActiveLoans(m)) <= BorrowLimit
ReservationLimit ==
    \A m \in Members : Cardinality(ActiveReservations(m)) <= MaxActiveReservations

LEMMA LoanLimitStep == TypeOK /\ LoanLimit /\ [FreeNext]_vars => LoanLimit'
<1> SUFFICES ASSUME TypeOK, LoanLimit, [FreeNext]_vars, NEW k \in Members
             PROVE  Cardinality(ActiveLoans(k)') <= BorrowLimit
    BY DEF LoanLimit
<1>0. /\ IsFiniteSet(ActiveLoans(k)) /\ Cardinality(ActiveLoans(k)) \in Nat
      /\ ActiveLoans(k)' \in SUBSET LoanIds /\ Cardinality(ActiveLoans(k)') \in Nat
      /\ Cardinality(ActiveLoans(k)) <= BorrowLimit /\ BorrowLimit \in Nat
    BY RowSetsFinite, LimitsAssumption DEF ActiveLoans, LoanLimit
<1>1. ASSUME ActiveLoans(k)' \subseteq ActiveLoans(k)
      PROVE  Cardinality(ActiveLoans(k)') <= BorrowLimit
    <2>1. Cardinality(ActiveLoans(k)') <= Cardinality(ActiveLoans(k))
        BY <1>0, <1>1, FS_Subset
    <2> QED BY <1>0, <2>1
<1>2. CASE loans' = loans
    BY <1>1, <1>2 DEF ActiveLoans, OnLoan
<1>3. ASSUME NEW m \in Members, NEW b \in Books, NEW l \in LoanIds, BorrowBook(m, b, l)
      PROVE  Cardinality(ActiveLoans(k)') <= BorrowLimit
    <2>1. loans'[l].member = m /\ \A j \in LoanIds \ {l} : loans'[j] = loans[j]
        BY <1>3 DEF BorrowBook, NewLoan, TypeOK
    <2>2. CASE k # m
        BY <1>1, <2>1, <2>2 DEF ActiveLoans, OnLoan
    <2>3. CASE k = m
        <3>1. ActiveLoans(k)' \subseteq ActiveLoans(k) \cup {l}
            BY <2>1 DEF ActiveLoans, OnLoan
        <3>2. Cardinality(ActiveLoans(k)') <= Cardinality(ActiveLoans(k)) + 1
            BY <1>0, <3>1, OneMore
        <3>3. Cardinality(ActiveLoans(k)) < BorrowLimit
            BY <1>3, <2>3 DEF BorrowBook, NewLoan, MayBorrow
        <3> QED BY <1>0, <3>2, <3>3
    <2> QED BY <2>2, <2>3
<1>4. ASSUME NEW l \in LoanIds, ReturnBook(l) \/ RenewBook(l)
      PROVE  ActiveLoans(k)' \subseteq ActiveLoans(k)
    <2>1. OnLoan(l) /\ loans[l] \in Loan
        BY <1>4 DEF ReturnBook, RenewBook, OnLoan, TypeOK, NoRow
    <2>2. \A j \in LoanIds \ {l} : loans'[j] = loans[j]
        BY <1>4 DEF ReturnBook, RenewBook, TypeOK
    <2>3. CASE ReturnBook(l)
        <3>1. loans'[l] = [loans[l] EXCEPT !.status = "RETURNED"]
            BY <2>3 DEF ReturnBook, TypeOK
        <3> QED BY <2>1, <2>2, <3>1 DEF ActiveLoans, OnLoan, Loan
    <2>4. CASE RenewBook(l)
        <3>1. loans'[l] = Extended(loans[l])
            BY <2>4 DEF RenewBook, TypeOK
        <3>2. loans'[l].member = loans[l].member
            BY <2>1, <3>1, ExtendedLoan
        <3> QED BY <2>1, <2>2, <3>2 DEF ActiveLoans, OnLoan
    <2> QED BY <1>4, <2>3, <2>4
<1> QED BY <1>1, <1>2, <1>3, <1>4, LoanSteps

\* Of the operations, place_reservation alone adds a reservation.
LEMMA PlacedInNext ==
    ASSUME TypeOK, [Next]_vars, NEW n \in Members, NEW c \in Books, NEW r \in ReservationIds,
           Enqueue(n, c, r)
    PROVE  \E m \in Members, b \in Books, q \in ReservationIds : PlaceReservation(m, b, q)
<1>1. /\ reservations[r].status = "NONE" /\ reservations'[r].status = "PENDING"
      /\ loans' = loans
    BY DEF Enqueue, NewReservation, NoRow, TypeOK
<1>2. ASSUME NEW R \in SUBSET ReservationIds, NEW s \in ClosedStatus, NEW k \in Released,
             Releases(k, R, s)
      PROVE  FALSE
    BY <1>1, <1>2, ReleasedRows, PromotedRow DEF ClosedStatus
<1>3. ASSUME NEW m \in Members, NEW b \in Books, NEW l \in LoanIds, BorrowBook(m, b, l)
      PROVE  FALSE
    BY <1>1, <1>3 DEF BorrowBook, NewLoan, NoRow, TypeOK
<1>4. ASSUME NEW q \in ReservationIds, CancelPending(q) PROVE FALSE
    BY <1>1, <1>4 DEF CancelPending, Closed
<1> QED BY <1>1, <1>2, <1>3, <1>4, ReleasingSteps, RacyReturn
        DEF Next, vars, SomeRelease, CreateBook, UpdateBook, DeleteBook, RenewBook, SetMembership, Tick

LEMMA ReservationLimitStep == TypeOK /\ ReservationLimit /\ [Next]_vars => ReservationLimit'
<1> SUFFICES ASSUME TypeOK, ReservationLimit, [Next]_vars, NEW k \in Members
             PROVE  Cardinality(ActiveReservations(k)') <= MaxActiveReservations
    BY DEF ReservationLimit
<1>0. /\ IsFiniteSet(ActiveReservations(k)) /\ Cardinality(ActiveReservations(k)) \in Nat
      /\ ActiveReservations(k)' \in SUBSET ReservationIds
      /\ Cardinality(ActiveReservations(k)') \in Nat
      /\ Cardinality(ActiveReservations(k)) <= MaxActiveReservations
      /\ MaxActiveReservations \in Nat
    BY RowSetsFinite, LimitsAssumption DEF ActiveReservations, ReservationLimit
<1>1. ASSUME ActiveReservations(k)' \subseteq ActiveReservations(k)
      PROVE  Cardinality(ActiveReservations(k)') <= MaxActiveReservations
    <2>1. Cardinality(ActiveReservations(k)') <= Cardinality(ActiveReservations(k))
        BY <1>0, <1>1, FS_Subset
    <2> QED BY <1>0, <2>1
<1>2. CASE ActiveKept
    BY <1>1, <1>2 DEF ActiveKept, ActiveReservations, ActiveStatus
<1>3. ASSUME NEW m \in Members, NEW b \in Books, NEW r \in ReservationIds,
             PlaceReservation(m, b, r)
      PROVE  Cardinality(ActiveReservations(k)') <= MaxActiveReservations
    <2>1. reservations'[r].member = m
          /\ \A q \in ReservationIds \ {r} : reservations'[q] = reservations[q]
        BY <1>3 DEF PlaceReservation, NewReservation, TypeOK
    <2>2. CASE k # m
        BY <1>1, <2>1, <2>2 DEF ActiveReservations
    <2>3. CASE k = m
        <3>1. ActiveReservations(k)' \subseteq ActiveReservations(k) \cup {r}
            BY <2>1 DEF ActiveReservations
        <3>2. Cardinality(ActiveReservations(k)') <= Cardinality(ActiveReservations(k)) + 1
            BY <1>0, <3>1, OneMore
        <3>3. Cardinality(ActiveReservations(k)) < MaxActiveReservations
            BY <1>3, <2>3 DEF PlaceReservation, NewReservation, MayReserve
        <3> QED BY <1>0, <3>2, <3>3
    <2> QED BY <2>2, <2>3
<1> QED BY <1>2, <1>3, PlacedInNext, OnlyPlacingActivates, WiderSteps, NextIsFree

LEMMA LimitsInit == Init => LoanLimit /\ ReservationLimit
<1> SUFFICES ASSUME Init, NEW m \in Members
             PROVE  ActiveLoans(m) = {} /\ ActiveReservations(m) = {}
    BY FS_EmptySet, LimitsAssumption DEF LoanLimit, ReservationLimit
<1> QED BY DEF Init, NoRow, ActiveLoans, OnLoan, ActiveReservations

\* No member has more active loans or active reservations than the limits allow.
THEOREM LimitsKept == Spec => []LimitsRespected
<1>1. LoanLimit /\ ReservationLimit => LimitsRespected
    BY DEF LoanLimit, ReservationLimit, LimitsRespected
<1>2. TypeOK /\ LoanLimit /\ [Next]_vars => LoanLimit'
    BY LoanLimitStep, NextIsFree
<1> QED BY <1>1, <1>2, LimitsInit, TypeCorrect, ReservationLimitStep, PTL DEF Spec

-----------------------------------------------------------------------------
(* Deadlines, due dates and settled rows.                                  *)

LEMMA DeadlineStep == TypeOK /\ DeadlineOfHolds /\ [RacyNext]_vars => DeadlineOfHolds'
<1> SUFFICES ASSUME TypeOK, DeadlineOfHolds, [RacyNext]_vars,
                    NEW r \in ReservationIds, reservations'[r] # NoRow
             PROVE  reservations'[r].status = "HOLD" <=> reservations'[r].expires_at # NoTime
    BY DEF DeadlineOfHolds
<1>1. CASE reservations'[r] = reservations[r]
    BY <1>1 DEF DeadlineOfHolds
<1>2. CASE reservations'[r].status \in ClosedStatus /\ reservations'[r].expires_at = NoTime
    BY <1>2 DEF ClosedStatus
<1>3. CASE /\ reservations[r] \in Reservation /\ reservations'[r] = Promoted(reservations[r])
    <2>1. now + HoldDuration # NoTime
        BY PeriodsAssumption DEF TypeOK, Times, NoTime
    <2> QED BY <1>3, <2>1, PromotedRow
<1>4. ASSUME NEW m \in Members, NEW b \in Books, NEW q \in ReservationIds,
             Enqueue(m, b, q), reservations'[r] # reservations[r]
      PROVE  reservations'[r].status = "PENDING" /\ reservations'[r].expires_at = NoTime
    BY <1>4 DEF Enqueue, NewReservation, TypeOK
<1>5. ASSUME NEW R \in SUBSET ReservationIds, NEW s \in ClosedStatus, Closes(R, s)
      PROVE  \/ reservations'[r] = reservations[r]
             \/ reservations'[r].status \in ClosedStatus /\ reservations'[r].expires_at = NoTime
    BY <1>5, ClosedRows DEF Closes
<1>6. ASSUME NEW R \in SUBSET ReservationIds, NEW s \in ClosedStatus, NEW n \in Released,
             Releases(n, R, s)
      PROVE  \/ reservations'[r] = reservations[r]
             \/ reservations'[r].status \in ClosedStatus /\ reservations'[r].expires_at = NoTime
             \/ reservations[r] \in Reservation /\ reservations'[r] = Promoted(reservations[r])
    BY <1>6, ReleasedRows
<1> QED BY <1>1, <1>2, <1>3, <1>4, <1>5, <1>6, ReservationSteps DEF SomeRelease

\* Every hold, and only a hold, has a deadline the sweep can find it by.
THEOREM HoldsHaveDeadlines == Spec => []DeadlineOfHolds
<1>1. Init => DeadlineOfHolds
    BY DEF Init, DeadlineOfHolds
<1>2. TypeOK /\ DeadlineOfHolds /\ [Next]_vars => DeadlineOfHolds'
    BY DeadlineStep, WiderSteps, NextIsFree
<1> QED BY <1>1, <1>2, TypeCorrect, PTL DEF Spec

LEMMA DueDateStep ==
    TypeOK /\ DueDateAccountsForRenewals /\ [FreeNext]_vars => DueDateAccountsForRenewals'
<1> SUFFICES ASSUME TypeOK, DueDateAccountsForRenewals, [FreeNext]_vars,
                    NEW l \in LoanIds, loans'[l] # NoRow
             PROVE  /\ loans'[l].renewal_count <= MaxRenewals
                    /\ loans'[l].due_date = loans'[l].borrow_date + BorrowPeriod
                                              + loans'[l].renewal_count * RenewalPeriod
    BY DEF DueDateAccountsForRenewals
<1>1. CASE loans'[l] = loans[l]
    BY <1>1 DEF DueDateAccountsForRenewals
<1>2. ASSUME NEW m \in Members, NEW b \in Books, NEW j \in LoanIds, BorrowBook(m, b, j),
             loans'[l] # loans[l]
      PROVE  /\ loans'[l].renewal_count = 0 /\ loans'[l].borrow_date = now
             /\ loans'[l].due_date = now + BorrowPeriod
    BY <1>2 DEF BorrowBook, NewLoan, TypeOK
<1>3. ASSUME NEW j \in LoanIds, ReturnBook(j), loans'[l] # loans[l]
      PROVE  /\ loans[l] # NoRow /\ loans'[l].renewal_count = loans[l].renewal_count
             /\ loans'[l].borrow_date = loans[l].borrow_date
             /\ loans'[l].due_date = loans[l].due_date
    <2>1. j = l /\ loans[l] \in Loan /\ loans'[l] = [loans[l] EXCEPT !.status = "RETURNED"]
        BY <1>3 DEF ReturnBook, OnLoan, TypeOK, NoRow
    <2> QED BY <2>1 DEF Loan, NoRow
<1>4. ASSUME NEW j \in LoanIds, RenewBook(j), loans'[l] # loans[l]
      PROVE  /\ loans[l] \in Loan /\ loans[l] # NoRow
             /\ loans[l].renewal_count < MaxRenewals
             /\ loans'[l].renewal_count = loans[l].renewal_count + 1
             /\ loans'[l].borrow_date = loans[l].borrow_date
             /\ loans'[l].due_date = loans[l].due_date + RenewalPeriod
    <2>1. /\ j = l /\ loans[l] \in Loan /\ loans[l].renewal_count < MaxRenewals
          /\ loans'[l] = Extended(loans[l])
        BY <1>4 DEF RenewBook, OnLoan, TypeOK, NoRow
    <2>2. loans[l] # NoRow
        BY <1>4, <2>1 DEF RenewBook, OnLoan, NoRow
    <2> QED BY <2>1, <2>2, ExtendedLoan
<1>5. 0 * RenewalPeriod = 0 /\ now \in Nat /\ BorrowPeriod \in Nat /\ MaxRenewals \in Nat
    BY PeriodsAssumption, LimitsAssumption DEF TypeOK, Times
<1>6. \A k \in Nat : (k + 1) * RenewalPeriod = k * RenewalPeriod + RenewalPeriod
    BY PeriodsAssumption
<1>7. ASSUME loans[l] \in Loan, loans[l].renewal_count < MaxRenewals,
             loans'[l].renewal_count = loans[l].renewal_count + 1,
             loans'[l].borrow_date = loans[l].borrow_date,
             loans'[l].due_date = loans[l].due_date + RenewalPeriod,
             loans[l].due_date = loans[l].borrow_date + BorrowPeriod
                                   + loans[l].renewal_count * RenewalPeriod
      PROVE  /\ loans'[l].renewal_count <= MaxRenewals
             /\ loans'[l].due_date = loans'[l].borrow_date + BorrowPeriod
                                       + loans'[l].renewal_count * RenewalPeriod
    <2> DEFINE k == loans[l].renewal_count
               granted == k * RenewalPeriod
    <2>1. /\ k \in Nat /\ granted \in Nat /\ loans[l].borrow_date \in Nat /\ RenewalPeriod \in Nat
          /\ (k + 1) * RenewalPeriod = granted + RenewalPeriod
        BY <1>6, <1>7, PeriodsAssumption DEF Loan, Times
    <2> HIDE DEF granted
    <2> QED BY <1>5, <1>7, <2>1 DEF granted
<1> QED BY <1>1, <1>2, <1>3, <1>4, <1>5, <1>7, LoanSteps DEF DueDateAccountsForRenewals

\* A due date is what the loan and its renewals granted, nothing more or less.
THEOREM DueDatesExact == Spec => []DueDateAccountsForRenewals
<1>1. Init => DueDateAccountsForRenewals
    BY DEF Init, DueDateAccountsForRenewals
<1>2. TypeOK /\ DueDateAccountsForRenewals /\ [Next]_vars => DueDateAccountsForRenewals'
    BY DueDateStep, NextIsFree
<1> QED BY <1>1, <1>2, TypeCorrect, PTL DEF Spec

LEMMA ReturnedStays ==
    ASSUME TypeOK, [FreeNext]_vars, NEW l \in LoanIds, loans[l].status = "RETURNED"
    PROVE  loans'[l] = loans[l]
<1>1. ASSUME NEW m \in Members, NEW b \in Books, NEW j \in LoanIds, BorrowBook(m, b, j)
      PROVE  loans'[l] = loans[l]
    BY <1>1 DEF BorrowBook, NewLoan, NoRow, TypeOK
<1>2. ASSUME NEW j \in LoanIds, ReturnBook(j) \/ RenewBook(j)
      PROVE  loans'[l] = loans[l]
    BY <1>2 DEF ReturnBook, RenewBook, OnLoan, TypeOK
<1> QED BY <1>1, <1>2, LoanSteps

LEMMA ClosedStays ==
    ASSUME TypeOK, [RacyNext]_vars, NEW r \in ReservationIds, reservations[r].status \in ClosedStatus
    PROVE  reservations'[r] = reservations[r]
<1>1. ASSUME NEW m \in Members, NEW b \in Books, NEW q \in ReservationIds, Enqueue(m, b, q)
      PROVE  reservations'[r] = reservations[r]
    BY <1>1 DEF Enqueue, NewReservation, NoRow, TypeOK, ClosedStatus
<1>2. ASSUME NEW R \in SUBSET ReservationIds, NEW s \in ClosedStatus, Closes(R, s)
      PROVE  reservations'[r] = reservations[r]
    BY <1>2, ClosedRows DEF Closes, ActiveStatus, ClosedStatus
<1>3. ASSUME NEW R \in SUBSET ReservationIds, NEW s \in ClosedStatus, NEW n \in Released,
             Releases(n, R, s)
      PROVE  reservations'[r] = reservations[r]
    <2>1. r \notin R
        BY <1>3 DEF Releases, ClosedStatus
    <2> QED BY <1>3, <2>1, ReleasedRows DEF ClosedStatus
<1> QED BY <1>1, <1>2, <1>3, ReservationSteps DEF SomeRelease

\* Whatever happens to other rows, a returned loan and a closed reservation
\* are never touched again.
THEOREM SettledRowsStay == Spec => Settled
<1>1. TypeOK /\ [Next]_vars =>
         [/\ \A l \in LoanIds : loans[l].status = "RETURNED" => loans'[l] = loans[l]
          /\ \A r \in ReservationIds :
                reservations[r].status \in {"COMPLETED", "CANCELLED", "EXPIRED"}
                    => reservations'[r] = reservations[r]]_vars
    BY ReturnedStays, ClosedStays, WiderSteps, NextIsFree DEF ClosedStatus
<1> QED BY <1>1, TypeCorrect, PTL DEF Spec, Settled

-----------------------------------------------------------------------------
(* Late loans.                                                             *)

LEMMA ClockForward ==
    ASSUME TypeOK, [FreeNext]_vars
    PROVE  now \in Nat /\ now' \in Nat /\ now <= now'
<1>1. now' = now \/ now' = now + 1
    BY DEF FreeNext, Next, vars, Enqueue, CreateBook, UpdateBook, DeleteBook, BorrowBook, ReturnBook,
       RenewBook, PlaceReservation, CancelPending, CancelHold, SweepExpiredHolds, SetMembership, Tick
<1> QED BY <1>1 DEF TypeOK, Times

LEMMA LateStep ==
    ASSUME TypeOK, [FreeNext]_vars, NEW m \in Members, NEW l \in OverdueLoans(m)
    PROVE  /\ l \in OverdueLoans(m)' \/ loans'[l].status = "RETURNED"
           /\ ActiveLoans(m)' \subseteq ActiveLoans(m)
<1>1. /\ l \in LoanIds /\ OnLoan(l) /\ loans[l].member = m /\ loans[l].due_date < now
      /\ loans[l] \in Loan
    BY DEF OverdueLoans, ActiveLoans, OnLoan, TypeOK, NoRow
<1>2. loans[l].due_date < now'
    BY <1>1, ClockForward DEF Loan, Times
<1>3. ASSUME loans'[l] = loans[l] PROVE l \in OverdueLoans(m)'
    BY <1>1, <1>2, <1>3 DEF OverdueLoans, ActiveLoans, OnLoan
<1>4. CASE loans' = loans
    BY <1>3, <1>4 DEF ActiveLoans, OnLoan
<1>5. ASSUME NEW n \in Members, NEW b \in Books, NEW k \in LoanIds, BorrowBook(n, b, k)
      PROVE  l \in OverdueLoans(m)' /\ ActiveLoans(m)' \subseteq ActiveLoans(m)
    <2>1. n # m
        BY <1>5 DEF BorrowBook, MayBorrow
    <2>2. k # l
        BY <1>1, <1>5 DEF BorrowBook, OnLoan, NoRow
    <2>3. loans'[k].member = n /\ \A j \in LoanIds \ {k} : loans'[j] = loans[j]
        BY <1>5 DEF BorrowBook, NewLoan, TypeOK
    <2> QED BY <1>1, <1>3, <2>1, <2>2, <2>3 DEF ActiveLoans, OnLoan
<1>6. ASSUME NEW k \in LoanIds, ReturnBook(k)
      PROVE  /\ l \in OverdueLoans(m)' \/ loans'[l].status = "RETURNED"
             /\ ActiveLoans(m)' \subseteq ActiveLoans(m)
    <2>1. /\ loans[k] \in Loan /\ loans'[k] = [loans[k] EXCEPT !.status = "RETURNED"]
          /\ \A j \in LoanIds \ {k} : loans'[j] = loans[j]
        BY <1>6 DEF ReturnBook, OnLoan, TypeOK, NoRow
    <2>2. loans'[k].status = "RETURNED"
        BY <2>1 DEF Loan
    <2> QED BY <1>1, <1>3, <2>1, <2>2 DEF ActiveLoans, OnLoan
<1>7. ASSUME NEW k \in LoanIds, RenewBook(k)
      PROVE  l \in OverdueLoans(m)' /\ ActiveLoans(m)' \subseteq ActiveLoans(m)
    <2>1. /\ OnLoan(k) /\ loans[k] \in Loan /\ now <= loans[k].due_date
          /\ loans'[k] = Extended(loans[k]) /\ \A j \in LoanIds \ {k} : loans'[j] = loans[j]
        BY <1>7 DEF RenewBook, OnLoan, TypeOK, NoRow
    <2>2. k # l
        BY <1>1, <2>1, ClockForward DEF Loan, Times
    <2>3. loans'[k].member = loans[k].member
        BY <2>1, ExtendedLoan
    <2> QED BY <1>1, <1>3, <2>1, <2>2, <2>3 DEF ActiveLoans, OnLoan
<1> QED BY <1>4, <1>5, <1>6, <1>7, LoanSteps

\* Late loans come back before anything else changes for their borrower,
\* whatever is renewed, lent or put into the calendar meanwhile.
THEOREM LateLoansComeBack == Spec => LateUntilReturned
<1>1. TypeOK /\ [Next]_vars =>
         [\A m \in Members : \A l \in OverdueLoans(m) :
             /\ l \in OverdueLoans(m)' \/ loans'[l].status = "RETURNED"
             /\ ActiveLoans(m)' \subseteq ActiveLoans(m)]_vars
    BY LateStep, NextIsFree
<1> QED BY <1>1, TypeCorrect, PTL DEF Spec, LateUntilReturned

-----------------------------------------------------------------------------
(* Books a member has on loan.                                             *)

LEMMA RowsArePlaced ==
    ASSUME TypeOK, [Next]_vars, NEW r \in ReservationIds, reservations[r] = NoRow,
           reservations'[r] # NoRow
    PROVE  \E m \in Members, b \in Books : PlaceReservation(m, b, r)
<1>1. [RacyNext]_vars
    BY WiderSteps, NextIsFree
<1>2. ASSUME NEW R \in SUBSET ReservationIds, NEW s \in ClosedStatus, Closes(R, s)
      PROVE  FALSE
    <2>1. r \notin R
        BY <1>2 DEF Closes, ActiveStatus, NoRow
    <2> QED BY <1>2, <2>1 DEF Closes, Closed
<1>3. ASSUME NEW R \in SUBSET ReservationIds, NEW s \in ClosedStatus, NEW n \in Released,
             Releases(n, R, s)
      PROVE  FALSE
    <2>1. r \notin R
        BY <1>3 DEF Releases, NoRow
    <2> QED BY <1>3, <2>1, ReleasedRows DEF NoRow
<1>4. PICK m \in Members, b \in Books, k \in ReservationIds : Enqueue(m, b, k)
    BY <1>1, <1>2, <1>3, ReservationSteps DEF SomeRelease
<1>5. PICK n \in Members, c \in Books, q \in ReservationIds : PlaceReservation(n, c, q)
    BY <1>4, PlacedInNext
<1>6. q = r
    BY <1>5 DEF PlaceReservation, TypeOK
<1> QED BY <1>5, <1>6

\* A row of S that is not on a page of the newest K rows has K others as new.
LEMMA PastThePage ==
    ASSUME NEW S, IsFiniteSet(S), NEW K \in Nat, NEW page \in SUBSET S,
           Cardinality(page) = MinOf(K, Cardinality(S)), NEW l \in S \ page,
           NEW T \in SUBSET S, page \subseteq T
    PROVE  K <= Cardinality(T)
<1>1. /\ IsFiniteSet(page) /\ IsFiniteSet(T) /\ Cardinality(S) \in Nat
      /\ Cardinality(page) \in Nat /\ Cardinality(T) \in Nat
    BY FS_Subset, FS_CardinalityType
<1>2. Cardinality(page) # Cardinality(S)
    BY FS_Subset
<1>3. Cardinality(page) = K
    BY <1>1, <1>2 DEF MinOf
<1>4. Cardinality(page) <= Cardinality(T)
    BY <1>1, FS_Subset
<1> QED BY <1>3, <1>4

\* Whatever the history of the member, only a full page of other loans hides one.
THEOREM OwnLoansHidePastThePage == Spec => OwnLoanPastThePage
<1> DEFINE Hidden(r) ==
              LET m == reservations'[r].member
              IN  \A l \in ActiveLoans(m) \cap CopiesOut(reservations'[r].book) :
                      HistoryPage <= Cardinality({k \in LoansOfMember(m) \ {l} :
                                        loans[k].borrow_date >= loans[l].borrow_date})
<1>1. ASSUME TypeOK, [Next]_vars, NEW r \in ReservationIds, reservations[r] = NoRow,
             reservations'[r] # NoRow
      PROVE  Hidden(r)
    <2>1. PICK m \in Members, b \in Books : PlaceReservation(m, b, r)
        BY <1>1, RowsArePlaced
    <2>2. reservations'[r].member = m /\ reservations'[r].book = b
        BY <1>1, <2>1 DEF PlaceReservation, NewReservation, TypeOK
    <2>3. PICK page \in NewestLoans(m) : \A l \in page : ~(OnLoan(l) /\ loans[l].book = b)
        BY <2>1 DEF PlaceReservation, MayReserve
    <2>4. /\ page \in SUBSET LoansOfMember(m)
          /\ Cardinality(page) = MinOf(HistoryPage, Cardinality(LoansOfMember(m)))
          /\ \A l \in page, k \in LoansOfMember(m) \ page :
                loans[l].borrow_date >= loans[k].borrow_date
        BY <2>3 DEF NewestLoans
    <2>5. IsFiniteSet(LoansOfMember(m)) /\ HistoryPage \in Nat
        BY RowSetsFinite, LimitsAssumption DEF LoansOfMember
    <2>6. ASSUME NEW l \in ActiveLoans(m) \cap CopiesOut(b)
          PROVE  HistoryPage <= Cardinality({k \in LoansOfMember(m) \ {l} :
                                    loans[k].borrow_date >= loans[l].borrow_date})
        <3> DEFINE newer == {k \in LoansOfMember(m) \ {l} :
                                loans[k].borrow_date >= loans[l].borrow_date}
        <3>1. l \in LoansOfMember(m) \ page
            BY <2>3 DEF ActiveLoans, CopiesOut, LoansOfMember, OnLoan, NoRow
        <3>2. page \subseteq newer /\ newer \in SUBSET LoansOfMember(m)
            BY <2>4, <3>1
        <3> HIDE DEF newer
        <3>3. HistoryPage <= Cardinality(newer)
            BY <2>4, <2>5, <3>1, <3>2, PastThePage
        <3> QED BY <3>3 DEF newer
    <2> QED BY <2>2, <2>6
<1>2. TypeOK /\ [Next]_vars =>
         [\A r \in ReservationIds :
             (reservations[r] = NoRow /\ reservations'[r] # NoRow) => Hidden(r)]_vars
    BY <1>1
<1> QED BY <1>2, TypeCorrect, PTL DEF Spec, OwnLoanPastThePage

=============================================================================
