---------------------------- MODULE QueueProofs ----------------------------
(***************************************************************************)
(* Every book of Circulation implements HoldQueue, for every value of the  *)
(* constants.  A step of the services is seen from one book: it changes    *)
(* the copies and the reservations of that book in one of the ways of      *)
(* HoldQueue, and those of every other book not at all.                    *)
(***************************************************************************)
EXTENDS CirculationQueues, ReservationProofs

\* No reservation is dated in the future.
DatedSoFar ==
    \A r \in ReservationIds : reservations[r] # NoRow => reservations[r].reserved_at <= now

QueueInv == TypeOK /\ CopiesConserved /\ DatedSoFar

-----------------------------------------------------------------------------
(* The rows of one book.                                                   *)

Active(r, b) == reservations[r].status \in ActiveStatus /\ reservations[r].book = b

LEMMA ActiveRows ==
    ASSUME TypeOK, NEW b \in Books, NEW r \in ReservationIds, Active(r, b)
    PROVE  reservations[r] \in Reservation /\ reservations[r] # NoRow
           /\ reservations[r].reserved_at \in Nat
BY DEF TypeOK, NoRow, Active, ActiveStatus, Reservation, Times

LEMMA Ahead ==
    ASSUME NEW b \in Books, NEW s, NEW t
    PROVE  <<s, t>> \in ArrivedBefore(b) <=>
              /\ s \in Waiting(b) /\ t \in Waiting(b)
              /\ reservations[s].reserved_at < reservations[t].reserved_at
BY DEF ArrivedBefore

LEMMA AheadPairs ==
    ASSUME NEW b \in Books
    PROVE  ArrivedBefore(b) \subseteq Waiting(b) \X Waiting(b)
BY DEF ArrivedBefore

\* The rows of a book that stay as they are keep their places.
LEMMA AheadKept ==
    ASSUME NEW b \in Books, Waiting(b)' \subseteq Waiting(b),
           \A r \in Waiting(b)' : reservations'[r].reserved_at = reservations[r].reserved_at
    PROVE  ArrivedBefore(b)' = ArrivedBefore(b) \cap (Waiting(b)' \X Waiting(b)')
BY DEF ArrivedBefore

\* HoldQueue counts as Circulation does.
LEMMA QueueCardinality ==
    ASSUME NEW b \in Books, NEW S
    PROVE  Queue(b)!Cardinality(S) = Cardinality(S)
BY Zenon DEF Queue!Cardinality, Cardinality

-----------------------------------------------------------------------------
(* A step that does not concern a book.                                    *)

Untouched(b) ==
    /\ books'[b].state = books[b].state /\ books'[b].available = books[b].available
    /\ CopiesOut(b)' = CopiesOut(b)
    /\ \A r \in ReservationIds :
          reservations'[r] = reservations[r] \/ (~Active(r, b) /\ ~Active(r, b)')
    /\ now' = now

LEMMA UntouchedStutters ==
    ASSUME NEW b \in Books, Untouched(b)
    PROVE  UNCHANGED Queue(b)!vars
<1>1. Waiting(b)' = Waiting(b) /\ Held(b, reservations') = Held(b, reservations)
    BY DEF Untouched, Active, ActiveStatus, Waiting, Pending, Held
<1>2. \A r \in Waiting(b) : reservations'[r] = reservations[r]
    BY DEF Untouched, Active, ActiveStatus, Waiting, Pending
<1>3. Recent(b)' = Recent(b)
    BY <1>1, <1>2 DEF Recent, Untouched
<1>4. ArrivedBefore(b)' = ArrivedBefore(b)
    BY <1>1, <1>2, AheadKept, AheadPairs
<1>5. Fresh(b)' = Fresh(b) /\ Late(b)' = Late(b)
    BY <1>1 DEF Fresh, Late, Held, ExpiredHolds, Untouched, Active, ActiveStatus
<1> QED BY <1>1, <1>3, <1>4, <1>5 DEF Queue!vars, Untouched

-----------------------------------------------------------------------------
(* Steps that release copies.                                              *)

\* The rows a releasing step promotes, seen in the table before the step.
Served(P, n, R, s) ==
    /\ \A r \in P : /\ r \notin R /\ reservations[r] \in Reservation
                    /\ reservations[r].status = "PENDING"
                    /\ reservations'[r] = Promoted(reservations[r])
    /\ \A r \in R \ P : reservations'[r].status = s
    /\ \A r \in ReservationIds \ (P \cup R) : reservations'[r] = reservations[r]
    /\ \A b \in Books :
          LET k == Cardinality(P \cap Waiting(b))
          IN  /\ k \in Nat /\ k <= n[b]
              /\ books'[b] = Shelved(books[b], n[b], k)
              /\ P \cap Waiting(b) \in Promotable(b, n[b], reservations)

LEMMA ReleaseServes ==
    ASSUME TypeOK, NEW R \in SUBSET ReservationIds, NEW s \in ClosedStatus,
           NEW n \in Released, Releases(n, R, s)
    PROVE  \E P \in SUBSET ReservationIds : Served(P, n, R, s)
<1> DEFINE rs == Closed(reservations, R, s)
<1>1. rs \in ReservationTable
    BY ClosedType DEF Releases, ClosedStatus
<1>2. PICK P \in SUBSET ReservationIds : Chosen(P, n, rs)
    BY <1>1, PromotionEffect DEF Releases
<1>3. \A r \in ReservationIds : /\ r \notin R => rs[r] = reservations[r]
                                /\ r \in R => rs[r].status = s
    BY ClosedRows DEF Releases, ActiveStatus
<1>4. \A r \in P : r \notin R
    BY <1>2, <1>3 DEF Chosen, ClosedStatus
<1>5. \A b \in Books : Pending(b, rs) = Waiting(b)
    <2>1. \A r \in R : rs[r].status # "PENDING" /\ reservations[r].status # "PENDING"
        BY <1>3 DEF Releases, ClosedStatus
    <2> QED BY <1>3, <2>1 DEF Pending, Waiting
<1>6. ASSUME NEW b \in Books
      PROVE  LET k == Cardinality(P \cap Waiting(b))
             IN  /\ k \in Nat /\ k <= n[b]
                 /\ books'[b] = Shelved(books[b], n[b], k)
                 /\ P \cap Waiting(b) \in Promotable(b, n[b], reservations)
    <2>1. P \cap Waiting(b) \in Promotable(b, n[b], rs)
        BY <1>2, <1>5 DEF Chosen
    <2>2. \A r \in Waiting(b) : rs[r] = reservations[r]
        BY <1>3 DEF Releases, Waiting, Pending
    <2>3. P \cap Waiting(b) \in Promotable(b, n[b], reservations)
        BY <1>5, <2>1, <2>2 DEF Promotable, Waiting
    <2> QED BY <1>2, <1>5, <2>3 DEF Chosen
<1>7. Served(P, n, R, s)
    BY <1>2, <1>3, <1>4, <1>6 DEF Served, Chosen
<1> QED BY <1>7

\* Seen from one book, a release serves the first of its queue.
LEMMA ReleaseOfQueue ==
    ASSUME TypeOK, NEW R \in SUBSET ReservationIds, NEW s \in ClosedStatus,
           NEW n \in Released, Releases(n, R, s), now' = now, NEW b \in Books
    PROVE  Queue(b)!Release(n[b], Held(b, reservations) \cap R)
<1>1. PICK P \in SUBSET ReservationIds : Served(P, n, R, s)
    BY ReleaseServes
<1> DEFINE Q == P \cap Waiting(b)
<1>2. Q \in Queue(b)!FirstOfQueue(n[b])
    <2>1. Q \in Promotable(b, n[b], reservations)
        BY <1>1 DEF Served
    <2>2. \A p \in Q, q \in Waiting(b) \ Q : <<q, p>> \notin ArrivedBefore(b)
        <3>1. \A p \in Q, q \in Waiting(b) \ Q :
                 reservations[p].reserved_at <= reservations[q].reserved_at
            BY <2>1 DEF Promotable, Waiting
        <3>2. \A p \in Waiting(b) : reservations[p].reserved_at \in Nat
            BY ActiveRows DEF Waiting, Pending, Active, ActiveStatus
        <3> QED BY <3>1, <3>2, Ahead
    <2> QED BY <2>1, <2>2, QueueCardinality DEF Queue!FirstOfQueue, Promotable, Waiting, MinOf
<1>3. \A r \in Q : /\ reservations'[r].status = "HOLD" /\ reservations'[r].book = b
                   /\ reservations'[r].expires_at = now + HoldDuration
    BY <1>1, PromotedRow DEF Served, Waiting, Pending
<1>4. \A r \in R \ P : reservations[r].status = "HOLD" /\ reservations'[r].status = s
    BY <1>1 DEF Served, Releases
<1>5. \A r \in P \ Q : reservations'[r].status = "HOLD" /\ reservations'[r].book # b
                       /\ reservations[r].status = "PENDING" /\ reservations[r].book # b
    BY <1>1, PromotedRow DEF Served, Waiting, Pending
<1>6. \A r \in ReservationIds \ (P \cup R) : reservations'[r] = reservations[r]
    BY <1>1 DEF Served
<1>7. Waiting(b)' = Waiting(b) \ Q
    BY <1>3, <1>4, <1>5, <1>6 DEF Waiting, Pending, ClosedStatus
<1>8. \A r \in Waiting(b)' : reservations'[r] = reservations[r]
    BY <1>3, <1>4, <1>5, <1>6 DEF Waiting, Pending, ClosedStatus
<1>9. Recent(b)' = Recent(b) \ Q
    BY <1>7, <1>8 DEF Recent
<1>10. ArrivedBefore(b)' = ArrivedBefore(b) \cap (Waiting(b)' \X Waiting(b)')
    BY <1>7, <1>8, AheadKept
<1>11. /\ Fresh(b)' = (Fresh(b) \ (Held(b, reservations) \cap R)) \cup Q
       /\ Late(b)' = Late(b) \ (Held(b, reservations) \cap R)
    <2>1. ~(now + HoldDuration < now)
        BY PeriodsAssumption DEF TypeOK, Times
    <2>2. \A r \in Q : r \in Held(b, reservations)' /\ r \notin ExpiredHolds'
        BY <1>3, <2>1 DEF Held, ExpiredHolds
    <2>3. \A r \in R \ P : r \notin Held(b, reservations)'
        BY <1>4 DEF Held, ClosedStatus
    <2>4. \A r \in P \ Q : r \notin Held(b, reservations)' /\ r \notin Held(b, reservations)
        BY <1>5 DEF Held
    <2>5. \A r \in ReservationIds \ (P \cup R) :
             /\ r \in Held(b, reservations)' <=> r \in Held(b, reservations)
             /\ r \in ExpiredHolds' <=> r \in ExpiredHolds
        BY <1>6 DEF Held, ExpiredHolds
    <2>6. \A r \in P : r \notin R
        BY <1>1 DEF Served
    <2>7. Q \cap Held(b, reservations) = {}
        BY DEF Waiting, Pending, Held
    <2>8. Held(b, reservations) \subseteq ReservationIds /\ Held(b, reservations)' \subseteq ReservationIds
        BY DEF Held
    <2> QED BY <2>2, <2>3, <2>4, <2>5, <2>6, <2>7, <2>8 DEF Fresh, Late
<1>12. books'[b].available =
          IF books[b].state = "LIVE" THEN books[b].available + n[b] - Cardinality(Q)
                                     ELSE books[b].available
    <2>1. books[b] \in Book /\ books'[b] = Shelved(books[b], n[b], Cardinality(Q))
        BY <1>1 DEF TypeOK, Served
    <2> HIDE DEF Q
    <2> QED BY <2>1 DEF Shelved, Book
<1> QED BY <1>2, <1>7, <1>9, <1>10, <1>11, <1>12, QueueCardinality DEF Queue!Release, Queue!Dequeue

\* Nothing is released of a book none of whose holds close: it does not see the step.
LEMMA ReleaseElsewhere ==
    ASSUME TypeOK, NEW R \in SUBSET ReservationIds, NEW s \in ClosedStatus,
           NEW n \in Released, Releases(n, R, s), now' = now, NEW b \in Books,
           n[b] = 0, Held(b, reservations) \cap R = {}, CopiesOut(b)' = CopiesOut(b)
    PROVE  Untouched(b)
<1>1. PICK P \in SUBSET ReservationIds : Served(P, n, R, s)
    BY ReleaseServes
<1>2. Cardinality(P \cap Waiting(b)) = 0 /\ books'[b] = Shelved(books[b], 0, 0)
    BY <1>1 DEF Served
<1>3. P \cap Waiting(b) = {}
    <2>1. P \cap Waiting(b) \in SUBSET ReservationIds
        OBVIOUS
    <2> QED BY <1>2, <2>1, RowSetsFinite, FS_EmptySet
<1>4. books'[b].state = books[b].state /\ books'[b].available = books[b].available
    BY <1>2 DEF Shelved, TypeOK, Book
<1>5. ASSUME NEW r \in ReservationIds
      PROVE  reservations'[r] = reservations[r] \/ (~Active(r, b) /\ ~Active(r, b)')
    <2>1. CASE r \in P
        BY <1>1, <1>3, <2>1, PromotedRow DEF Served, Active, Waiting, Pending
    <2>2. CASE r \in R \ P
        <3>1. reservations[r].status = "HOLD" /\ reservations[r].book # b
            BY <2>2 DEF Releases, Held
        <3>2. reservations'[r].status = s
            BY <1>1, <2>2 DEF Served
        <3> QED BY <3>1, <3>2 DEF Active, ActiveStatus, ClosedStatus
    <2>3. CASE r \notin P \cup R
        BY <1>1, <2>3 DEF Served
    <2> QED BY <2>1, <2>2, <2>3
<1> QED BY <1>4, <1>5 DEF Untouched

LEMMA ReleaseKeepsState ==
    ASSUME TypeOK, NEW R \in SUBSET ReservationIds, NEW s \in ClosedStatus,
           NEW n \in Released, Releases(n, R, s), NEW b \in Books
    PROVE  books'[b].state = books[b].state
<1>1. PICK P \in SUBSET ReservationIds : Served(P, n, R, s)
    BY ReleaseServes
<1>2. books'[b] = Shelved(books[b], n[b], Cardinality(P \cap Waiting(b)))
    BY <1>1 DEF Served
<1> QED BY <1>2 DEF Shelved, TypeOK, Book

-----------------------------------------------------------------------------
(* Dates.                                                                  *)

LEMMA ClockSteps == [RacyNext]_vars => now' = now \/ now' = now + 1
BY DEF RacyNext, vars, CreateBook, UpdateBook, DeleteBook, Lend, NewLoan, GiveBack, Rewrite,
       Enqueue, NewReservation, CancelPending, CancelHold, SweepExpiredHolds,
       SetMembership, Tick

LEMMA DatedStep == TypeOK /\ DatedSoFar /\ [RacyNext]_vars => DatedSoFar'
<1> SUFFICES ASSUME TypeOK, DatedSoFar, [RacyNext]_vars,
                    NEW r \in ReservationIds, reservations'[r] # NoRow
             PROVE  reservations'[r].reserved_at <= now'
    BY DEF DatedSoFar
<1>1. now \in Nat /\ now <= now'
    BY ClockSteps DEF TypeOK, Times
<1>2. ASSUME reservations[r] # NoRow, reservations'[r].reserved_at = reservations[r].reserved_at
      PROVE  reservations'[r].reserved_at <= now'
    <2>1. reservations[r].reserved_at \in Nat /\ reservations[r].reserved_at <= now
        BY <1>2 DEF DatedSoFar, TypeOK, Reservation, Times
    <2> QED BY <1>1, <1>2, <2>1, TypeStep DEF TypeOK, Times
<1>3. ASSUME NEW m \in Members, NEW b \in Books, NEW q \in ReservationIds,
             Enqueue(m, b, q), reservations'[r] # reservations[r]
      PROVE  reservations'[r].reserved_at = now
    BY <1>3 DEF Enqueue, NewReservation, TypeOK
<1>4. ASSUME NEW R \in SUBSET ReservationIds, NEW s \in ClosedStatus, Closes(R, s),
             reservations'[r] # reservations[r]
      PROVE  reservations[r] # NoRow /\ reservations'[r].reserved_at = reservations[r].reserved_at
    <2>1. r \in R /\ reservations[r].status \in ActiveStatus
          /\ reservations'[r] = [reservations[r] EXCEPT !.status = s, !.expires_at = NoTime]
        BY <1>4 DEF Closes, Closed
    <2>2. reservations[r] \in Reservation /\ reservations[r] # NoRow
        BY <2>1 DEF TypeOK, NoRow, ActiveStatus
    <2> QED BY <2>1, <2>2 DEF Reservation
<1>5. ASSUME NEW R \in SUBSET ReservationIds, NEW s \in ClosedStatus, NEW n \in Released,
             Releases(n, R, s), reservations'[r] # reservations[r]
      PROVE  reservations[r] # NoRow /\ reservations'[r].reserved_at = reservations[r].reserved_at
    <2> DEFINE rs == Closed(reservations, R, s)
    <2>1. rs \in ReservationTable
        BY <1>5, ClosedType DEF Releases, ClosedStatus
    <2>2. PICK P \in SUBSET ReservationIds : Chosen(P, n, rs)
        BY <1>5, <2>1, PromotionEffect DEF Releases
    <2>3. r \in R => rs[r] = [reservations[r] EXCEPT !.status = s, !.expires_at = NoTime]
        BY DEF Closed
    <2>4. r \notin R => rs[r] = reservations[r]
        BY DEF Closed
    <2>5. CASE r \in R
        <3>1. reservations[r] \in Reservation /\ reservations[r] # NoRow
            BY <1>5, <2>5 DEF Releases, TypeOK, NoRow
        <3>2. rs[r].status = s /\ rs[r].reserved_at = reservations[r].reserved_at
            BY <2>3, <2>5, <3>1 DEF Reservation
        <3>3. r \notin P
            BY <2>2, <3>2 DEF Chosen, ClosedStatus
        <3>4. reservations'[r] = rs[r]
            BY <2>2, <3>3 DEF Chosen
        <3> QED BY <3>1, <3>2, <3>4
    <2>6. CASE r \notin R
        <3>1. r \in P /\ reservations'[r] = Promoted(reservations[r])
            BY <1>5, <2>2, <2>4, <2>6 DEF Chosen
        <3>2. reservations[r] \in Reservation /\ reservations[r].status = "PENDING"
            BY <2>2, <2>4, <2>6, <3>1 DEF Chosen
        <3> QED BY <3>1, <3>2, PromotedRow DEF NoRow
    <2> QED BY <2>5, <2>6
<1>6. reservations'[r] = reservations[r] => reservations[r] # NoRow
    OBVIOUS
<1> QED BY <1>1, <1>2, <1>3, <1>4, <1>5, <1>6, ReservationSteps DEF SomeRelease

-----------------------------------------------------------------------------
(* The steps of HoldQueue, one operation after the other.                  *)

QueueStep(b) == [Queue(b)!Next]_(Queue(b)!vars)

\* A release of copies of one book, no copy of any other.
OnlyOf(n, b) == \A c \in Books \ {b} : n[c] = 0

LEMMA CreateIsCreate ==
    ASSUME TypeOK, NEW b \in Books, NEW n \in 0..MaxCopies, CreateBook(b, n)
    PROVE  \A c \in Books : QueueStep(c)
<1>1. Queue(b)!Create(n)
    <2>1. UNCHANGED <<CopiesOut(b), Waiting(b), Recent(b), ArrivedBefore(b), Fresh(b), Late(b)>>
        BY DEF CreateBook, CopiesOut, OnLoan, Waiting, Pending, Recent, ArrivedBefore, Fresh,
               Late, Held, ExpiredHolds
    <2> QED BY <2>1 DEF CreateBook, TypeOK, Queue!Create
<1>2. ASSUME NEW c \in Books \ {b} PROVE Untouched(c)
    BY DEF CreateBook, TypeOK, Untouched, CopiesOut, OnLoan
<1> QED BY <1>1, <1>2, UntouchedStutters DEF QueueStep, Queue!Next

LEMMA UpdateIsStock ==
    ASSUME TypeOK, CopiesConserved, NEW b \in Books, NEW n \in 0..MaxCopies, UpdateBook(b, n)
    PROVE  \A c \in Books : QueueStep(c)
<1> DEFINE onShelf == books[b].available + n - books[b].total
           out == Cardinality(CopiesOut(b))
           held == Cardinality(Held(b, reservations))
<1>1. onShelf \in 0..MaxCopies /\ onShelf + out <= MaxCopies
    <2>1. out \in Nat /\ held \in Nat
        BY RowSetsFinite DEF CopiesOut, Held
    <2>2. books[b].total = books[b].available + (out + held) /\ onShelf >= 0
        BY DEF CopiesConserved, UpdateBook
    <2>3. books[b].total \in Nat /\ books[b].available \in Nat /\ n \in Nat /\ n <= MaxCopies
          /\ MaxCopies \in Nat
        BY BoundsAssumption DEF TypeOK, Book
    <2> HIDE DEF out, held
    <2> QED BY <2>1, <2>2, <2>3
<1>2. Queue(b)!Stock(onShelf)
    <2>1. UNCHANGED <<CopiesOut(b), Waiting(b), Recent(b), ArrivedBefore(b), Fresh(b), Late(b)>>
        BY DEF UpdateBook, CopiesOut, OnLoan, Waiting, Pending, Recent, ArrivedBefore, Fresh,
               Late, Held, ExpiredHolds
    <2>2. books[b].state = "LIVE" /\ books'[b].state = "LIVE" /\ books'[b].available = onShelf
        BY DEF UpdateBook, TypeOK
    <2> HIDE DEF onShelf
    <2> QED BY <1>1, <2>1, <2>2 DEF Queue!Stock
<1>3. ASSUME NEW c \in Books \ {b} PROVE Untouched(c)
    BY DEF UpdateBook, TypeOK, Untouched, CopiesOut, OnLoan
<1> QED BY <1>1, <1>2, <1>3, UntouchedStutters DEF QueueStep, Queue!Next

LEMMA DeleteIsDelete ==
    ASSUME TypeOK, NEW b \in Books, DeleteBook(b)
    PROVE  \A c \in Books : QueueStep(c)
<1>1. Queue(b)!Delete
    <2>1. UNCHANGED <<CopiesOut(b), Waiting(b), Recent(b), ArrivedBefore(b), Fresh(b), Late(b)>>
        BY DEF DeleteBook, CopiesOut, OnLoan, Waiting, Pending, Recent, ArrivedBefore, Fresh,
               Late, Held, ExpiredHolds
    <2>2. books[b].state = "LIVE" /\ books'[b].state = "DELETED"
          /\ books'[b].available = books[b].available
        BY DEF DeleteBook, TypeOK, Book
    <2> QED BY <2>1, <2>2 DEF Queue!Delete
<1>2. ASSUME NEW c \in Books \ {b} PROVE Untouched(c)
    BY DEF DeleteBook, TypeOK, Untouched, CopiesOut, OnLoan
<1> QED BY <1>1, <1>2, UntouchedStutters DEF QueueStep, Queue!Next

LEMMA RenewIsNothing ==
    ASSUME TypeOK, NEW l \in LoanIds, RenewBook(l)
    PROVE  \A c \in Books : QueueStep(c)
<1>1. loans[l] \in Loan /\ loans' = [loans EXCEPT ![l] = Extended(loans[l])]
    BY DEF RenewBook, OnLoan, TypeOK, NoRow
<1>2. loans'[l] = Extended(loans[l]) /\ \A j \in LoanIds \ {l} : loans'[j] = loans[j]
    BY <1>1 DEF TypeOK
<1>3. \A c \in Books : CopiesOut(c)' = CopiesOut(c)
    BY <1>1, <1>2, ExtendedLoan DEF CopiesOut, OnLoan, RenewBook
<1>4. \A c \in Books : Untouched(c)
    BY <1>3 DEF RenewBook, Untouched
<1> QED BY <1>4, UntouchedStutters DEF QueueStep

LEMMA MembershipIsNothing ==
    ASSUME NEW m \in Members, NEW s \in MembershipStatus, SetMembership(m, s)
    PROVE  \A c \in Books : QueueStep(c)
<1>1. \A c \in Books : Untouched(c)
    BY DEF SetMembership, Untouched, CopiesOut, OnLoan
<1> QED BY <1>1, UntouchedStutters DEF QueueStep

\* One more copy of b is on loan, of other books as many as before.
LEMMA LoanGiven ==
    ASSUME TypeOK, NEW m \in Members, NEW b \in Books, NEW l \in LoanIds, BorrowBook(m, b, l)
    PROVE  /\ Cardinality(CopiesOut(b)') = Cardinality(CopiesOut(b)) + 1
           /\ \A c \in Books \ {b} : CopiesOut(c)' = CopiesOut(c)
<1>1. /\ loans'[l].status = "BORROWED" /\ loans'[l].book = b
      /\ loans[l].status = "NONE"
      /\ \A j \in LoanIds \ {l} : loans'[j] = loans[j]
    BY DEF BorrowBook, NewLoan, NoRow, TypeOK
<1>2. CopiesOut(b)' = CopiesOut(b) \cup {l} /\ l \notin CopiesOut(b)
    BY <1>1 DEF CopiesOut, OnLoan
<1>3. IsFiniteSet(CopiesOut(b))
    BY RowSetsFinite DEF CopiesOut
<1>4. Cardinality(CopiesOut(b) \cup {l}) = Cardinality(CopiesOut(b)) + 1
    BY <1>2, <1>3, FS_AddElement
<1>5. \A c \in Books \ {b} : CopiesOut(c)' = CopiesOut(c)
    BY <1>1 DEF CopiesOut, OnLoan
<1> QED BY <1>2, <1>4, <1>5

LEMMA BorrowIsBorrow ==
    ASSUME TypeOK, NEW m \in Members, NEW b \in Books, NEW l \in LoanIds, BorrowBook(m, b, l)
    PROVE  \A c \in Books : QueueStep(c)
<1>1. books[b].state = "LIVE" /\ TakeCopy(m, b) /\ now' = now
    BY DEF BorrowBook, NewLoan
<1>2. CASE SoleHolder(m, b) /\ books' = books
           /\ reservations' = Closed(reservations, Held(b, reservations), "COMPLETED")
    <2>1. PICK r \in ReservationIds : Held(b, reservations) = {r}
        BY <1>2 DEF SoleHolder
    <2>2. /\ reservations[r].status = "HOLD" /\ reservations[r].book = b
          /\ reservations'[r].status = "COMPLETED"
          /\ \A q \in ReservationIds \ {r} : reservations'[q] = reservations[q]
        <3>1. reservations[r].status = "HOLD" /\ reservations[r].book = b
            BY <2>1 DEF Held
        <3>2. reservations[r] \in Reservation
            BY <3>1 DEF TypeOK, NoRow
        <3>3. reservations'[r] = [reservations[r] EXCEPT !.status = "COMPLETED", !.expires_at = NoTime]
            BY <1>2, <2>1 DEF Closed
        <3>4. reservations'[r].status = "COMPLETED"
            BY <3>2, <3>3 DEF Reservation
        <3> QED BY <1>2, <2>1, <3>1, <3>4 DEF Closed
    <2>3. Waiting(b)' = Waiting(b) /\ Held(b, reservations)' = {}
          /\ \A q \in Waiting(b) : reservations'[q] = reservations[q]
        BY <2>1, <2>2 DEF Waiting, Pending, Held
    <2>4. Recent(b)' = Recent(b) /\ ArrivedBefore(b)' = ArrivedBefore(b)
        BY <1>1, <2>3, AheadKept, AheadPairs DEF Recent
    <2>5. Fresh(b) \cup Late(b) = {r} /\ Fresh(b)' = {} /\ Late(b)' = {}
        BY <2>1, <2>3 DEF Fresh, Late
    <2>6. Queue(b)!BorrowHeld(r)
        BY <1>1, <1>2, <2>3, <2>4, <2>5, LoanGiven DEF Queue!BorrowHeld, Queue!Holders
    <2>7. ASSUME NEW c \in Books \ {b} PROVE Untouched(c)
        BY <1>1, <1>2, <2>2, LoanGiven DEF Untouched, Active, ActiveStatus
    <2> QED BY <2>6, <2>7, UntouchedStutters DEF QueueStep, Queue!Next
<1>3. CASE OnShelf(b) /\ books' = [books EXCEPT ![b].available = @ - 1]
           /\ reservations' = reservations
    <2>1. /\ books'[b].state = "LIVE" /\ books'[b].available = books[b].available - 1
          /\ \A c \in Books \ {b} : books'[c] = books[c]
        <3>1. books[b] \in Book
            BY DEF TypeOK
        <3>2. books'[b] = [books[b] EXCEPT !.available = @ - 1]
            BY <1>3 DEF TypeOK
        <3> QED BY <1>1, <1>3, <3>1, <3>2 DEF TypeOK, Book
    <2>2. UNCHANGED <<Waiting(b), Recent(b), ArrivedBefore(b), Fresh(b), Late(b)>>
        BY <1>1, <1>3 DEF Waiting, Pending, Recent, ArrivedBefore, Fresh, Late, Held, ExpiredHolds
    <2>3. Fresh(b) \cup Late(b) = {} /\ books[b].available > 0
        BY <1>3 DEF OnShelf, Fresh, Late
    <2>4. Queue(b)!BorrowShelved
        BY <1>1, <2>1, <2>2, <2>3, LoanGiven DEF Queue!BorrowShelved, Queue!Holders
    <2>5. ASSUME NEW c \in Books \ {b} PROVE Untouched(c)
        BY <1>1, <1>3, <2>1, LoanGiven DEF Untouched
    <2> QED BY <2>4, <2>5, UntouchedStutters DEF QueueStep, Queue!Next
<1> QED BY <1>1, <1>2, <1>3 DEF TakeCopy

LEMMA ReturnIsReturn ==
    ASSUME TypeOK, NEW l \in LoanIds, ReturnBook(l)
    PROVE  \A c \in Books : QueueStep(c)
<1>0. loans[l] \in Loan /\ OnLoan(l)
    BY DEF ReturnBook, OnLoan, TypeOK, NoRow
<1>1. PICK b \in Books : b = loans[l].book
    BY <1>0 DEF Loan
<1>2. loans'[l].status = "RETURNED" /\ \A j \in LoanIds \ {l} : loans'[j] = loans[j]
    BY <1>0 DEF ReturnBook, TypeOK, Loan
<1>3. CopiesOut(b)' = CopiesOut(b) \ {l} /\ l \in CopiesOut(b)
    BY <1>0, <1>1, <1>2 DEF CopiesOut, OnLoan
<1>4. \A c \in Books \ {b} : CopiesOut(c)' = CopiesOut(c)
    BY <1>1, <1>2 DEF CopiesOut, OnLoan
<1>5. Cardinality(CopiesOut(b)) > 0 /\ Cardinality(CopiesOut(b)') = Cardinality(CopiesOut(b)) - 1
    <2>1. IsFiniteSet(CopiesOut(b)) /\ Cardinality(CopiesOut(b)) \in Nat
          /\ Cardinality(CopiesOut(b) \ {l}) \in Nat
        BY RowSetsFinite DEF CopiesOut
    <2>2. Cardinality(CopiesOut(b) \ {l}) = Cardinality(CopiesOut(b)) - 1
        BY <1>3, <2>1, FS_RemoveElement
    <2> QED BY <1>3, <2>1, <2>2
<1>6. Releases(OneCopyOf(b), {}, "CANCELLED") /\ now' = now
    <2>1. Closed(reservations, {}, "CANCELLED") = reservations
        BY DEF Closed, TypeOK
    <2> QED BY <1>1, <2>1 DEF ReturnBook, Releases
<1>7. OneCopyOf(b) \in Released /\ OneCopyOf(b)[b] = 1 /\ OnlyOf(OneCopyOf(b), b)
    BY OneCopyReleased DEF OneCopyOf, OnlyOf
<1>8. "CANCELLED" \in ClosedStatus /\ {} \in SUBSET ReservationIds
    BY DEF ClosedStatus
<1>9. Queue(b)!Return
    <2>1. Queue(b)!Release(OneCopyOf(b)[b], Held(b, reservations) \cap {})
        BY <1>6, <1>7, <1>8, ReleaseOfQueue
    <2>2. Held(b, reservations) \cap {} = {}
        OBVIOUS
    <2>3. books'[b].state = books[b].state
        BY <1>6, <1>7, <1>8, ReleaseKeepsState
    <2> QED BY <1>5, <1>7, <2>1, <2>2, <2>3 DEF Queue!Return
<1>10. ASSUME NEW c \in Books \ {b} PROVE Untouched(c)
    BY <1>4, <1>6, <1>7, <1>8, ReleaseElsewhere DEF OnlyOf
<1> QED BY <1>9, <1>10, UntouchedStutters DEF QueueStep, Queue!Next

-----------------------------------------------------------------------------
LEMMA PlaceIsJoin ==
    ASSUME TypeOK, DatedSoFar, NEW m \in Members, NEW b \in Books, NEW r \in ReservationIds,
           Enqueue(m, b, r)
    PROVE  \A c \in Books : QueueStep(c)
<1>1. /\ reservations[r].status = "NONE"
      /\ reservations'[r].status = "PENDING" /\ reservations'[r].book = b
      /\ reservations'[r].reserved_at = now
      /\ \A q \in ReservationIds \ {r} : reservations'[q] = reservations[q]
      /\ UNCHANGED <<now, books, loans>>
    BY DEF Enqueue, NewReservation, NoRow, TypeOK
<1>2. books[b].state = "LIVE" /\ books[b].available = 0
    BY DEF Enqueue, NewReservation, TypeOK, Book
<1>3. r \notin Waiting(b) \cup Held(b, reservations)
    BY <1>1 DEF Waiting, Pending, Held
<1>4. Waiting(b)' = Waiting(b) \cup {r} /\ Held(b, reservations)' = Held(b, reservations)
    BY <1>1 DEF Waiting, Pending, Held
<1>5. Recent(b)' = Recent(b) \cup {r}
    BY <1>1, <1>3, <1>4 DEF Recent, Waiting, Pending
<1>6. \A q \in Waiting(b) : /\ reservations'[q] = reservations[q]
                            /\ reservations[q].reserved_at \in Nat
                            /\ reservations[q].reserved_at <= now
                            /\ q \in Recent(b) <=> reservations[q].reserved_at = now
    BY <1>1, <1>3, ActiveRows DEF Recent, Waiting, Pending, Active, ActiveStatus, DatedSoFar
<1>7. now \in Nat
    BY DEF TypeOK, Times
<1>8. ArrivedBefore(b)' = ArrivedBefore(b) \cup ((Waiting(b) \ Recent(b)) \X {r})
    <2>1. \A s, t : <<s, t>> \in ArrivedBefore(b)' <=>
              /\ s \in Waiting(b)' /\ t \in Waiting(b)'
              /\ reservations'[s].reserved_at < reservations'[t].reserved_at
        BY DEF ArrivedBefore
    <2>2. \A s, t : <<s, t>> \in ArrivedBefore(b)' <=>
              <<s, t>> \in ArrivedBefore(b) \cup ((Waiting(b) \ Recent(b)) \X {r})
        <3>1. ASSUME NEW s, NEW t, t # r
              PROVE  <<s, t>> \in ArrivedBefore(b)' <=> <<s, t>> \in ArrivedBefore(b)
            <4>1. s = r => ~(reservations'[s].reserved_at < reservations'[t].reserved_at)
                           \/ t \notin Waiting(b)
                BY <1>1, <1>6, <1>7, <3>1
            <4>2. s = r => <<s, t>> \notin ArrivedBefore(b)
                BY <1>3, Ahead
            <4> QED BY <1>4, <1>6, <2>1, <3>1, <4>1, <4>2, Ahead
        <3>2. ASSUME NEW s
              PROVE  <<s, r>> \in ArrivedBefore(b)' <=> s \in Waiting(b) \ Recent(b)
            BY <1>1, <1>3, <1>4, <1>6, <1>7, <2>1
        <3>3. \A s : <<s, r>> \notin ArrivedBefore(b)
            BY <1>3, Ahead
        <3> QED BY <3>1, <3>2, <3>3
    <2>3. /\ ArrivedBefore(b)' \subseteq Waiting(b)' \X Waiting(b)'
          /\ ArrivedBefore(b) \subseteq Waiting(b) \X Waiting(b)
        BY DEF ArrivedBefore
    <2> QED BY <1>4, <2>2, <2>3
<1>9. Fresh(b)' = Fresh(b) /\ Late(b)' = Late(b) /\ Fresh(b) \cup Late(b) = Held(b, reservations)
    <2>1. \A q \in Held(b, reservations) : reservations'[q] = reservations[q]
        BY <1>1 DEF Held
    <2> QED BY <1>1, <1>4, <2>1 DEF Fresh, Late, Held, ExpiredHolds
<1>10. Queue(b)!Join(r)
    <2>1. CopiesOut(b)' = CopiesOut(b)
        BY <1>1 DEF CopiesOut, OnLoan
    <2> QED BY <1>1, <1>2, <1>3, <1>4, <1>5, <1>8, <1>9, <2>1 DEF Queue!Join, Queue!Holders
<1>11. ASSUME NEW c \in Books \ {b} PROVE Untouched(c)
    BY <1>1 DEF Untouched, Active, ActiveStatus, CopiesOut, OnLoan
<1> QED BY <1>10, <1>11, UntouchedStutters DEF QueueStep, Queue!Next

LEMMA CancelIsLeave ==
    ASSUME TypeOK, NEW r \in ReservationIds, CancelPending(r)
    PROVE  \A c \in Books : QueueStep(c)
<1>1. reservations[r] \in Reservation /\ reservations[r].status = "PENDING"
    BY DEF CancelPending, TypeOK, NoRow
<1>2. PICK b \in Books : b = reservations[r].book
    BY <1>1 DEF Reservation
<1>3. /\ reservations'[r].status = "CANCELLED"
      /\ \A q \in ReservationIds \ {r} : reservations'[q] = reservations[q]
      /\ UNCHANGED <<now, books, loans>>
    <2>1. reservations'[r] = [reservations[r] EXCEPT !.status = "CANCELLED", !.expires_at = NoTime]
        BY DEF CancelPending, Closed
    <2> QED BY <1>1, <2>1 DEF CancelPending, Closed, Reservation
<1>4. r \in Waiting(b) /\ Waiting(b)' = Waiting(b) \ {r}
      /\ Held(b, reservations)' = Held(b, reservations)
    BY <1>1, <1>2, <1>3 DEF Waiting, Pending, Held
<1>5. \A q \in Waiting(b)' : reservations'[q] = reservations[q]
    BY <1>3, <1>4 DEF Waiting, Pending
<1>6. Recent(b)' = Recent(b) \ {r}
    BY <1>3, <1>4, <1>5 DEF Recent
<1>7. ArrivedBefore(b)' = ArrivedBefore(b) \cap (Waiting(b)' \X Waiting(b)')
    BY <1>4, <1>5, AheadKept
<1>8. Fresh(b)' = Fresh(b) /\ Late(b)' = Late(b)
    <2>1. \A q \in Held(b, reservations) : reservations'[q] = reservations[q]
        BY <1>1, <1>3 DEF Held
    <2> QED BY <1>3, <1>4, <2>1 DEF Fresh, Late, Held, ExpiredHolds
<1>9. Queue(b)!Leave(r)
    <2>1. CopiesOut(b)' = CopiesOut(b)
        BY <1>3 DEF CopiesOut, OnLoan
    <2> QED BY <1>3, <1>4, <1>6, <1>7, <1>8, <2>1 DEF Queue!Leave, Queue!Dequeue
<1>10. ASSUME NEW c \in Books \ {b} PROVE Untouched(c)
    BY <1>2, <1>3 DEF Untouched, Active, ActiveStatus, CopiesOut, OnLoan
<1> QED BY <1>9, <1>10, UntouchedStutters DEF QueueStep, Queue!Next

LEMMA CancelIsCancel ==
    ASSUME TypeOK, NEW r \in ReservationIds, CancelHold(r)
    PROVE  \A c \in Books : QueueStep(c)
<1>1. reservations[r] \in Reservation /\ reservations[r].status = "HOLD"
    BY DEF CancelHold, TypeOK, NoRow
<1>2. PICK b \in Books : b = reservations[r].book
    BY <1>1 DEF Reservation
<1>3. Releases(OneCopyOf(b), {r}, "CANCELLED") /\ UNCHANGED <<now, loans>>
    BY <1>2 DEF CancelHold, Releases
<1>4. OneCopyOf(b) \in Released /\ OneCopyOf(b)[b] = 1 /\ OnlyOf(OneCopyOf(b), b)
    BY OneCopyReleased DEF OneCopyOf, OnlyOf
<1>5. "CANCELLED" \in ClosedStatus /\ {r} \in SUBSET ReservationIds
    BY DEF ClosedStatus
<1>6. Held(b, reservations) \cap {r} = {r}
      /\ \A c \in Books \ {b} : Held(c, reservations) \cap {r} = {}
    BY <1>1, <1>2 DEF Held
<1>7. \A c \in Books : CopiesOut(c)' = CopiesOut(c)
    BY <1>3 DEF CopiesOut, OnLoan
<1>8. Queue(b)!CancelHold(r)
    <2>1. Queue(b)!Release(OneCopyOf(b)[b], Held(b, reservations) \cap {r})
        BY <1>3, <1>4, <1>5, ReleaseOfQueue
    <2>2. books'[b].state = books[b].state
        BY <1>3, <1>4, <1>5, ReleaseKeepsState
    <2>3. r \in Fresh(b) \cup Late(b)
        BY <1>6 DEF Fresh, Late
    <2> QED BY <1>4, <1>6, <1>7, <2>1, <2>2, <2>3 DEF Queue!CancelHold, Queue!Holders
<1>9. ASSUME NEW c \in Books \ {b} PROVE Untouched(c)
    BY <1>3, <1>4, <1>5, <1>6, <1>7, ReleaseElsewhere DEF OnlyOf
<1> QED BY <1>8, <1>9, UntouchedStutters DEF QueueStep, Queue!Next

LEMMA SweepIsSweep ==
    ASSUME TypeOK, SweepExpiredHolds
    PROVE  \A c \in Books : QueueStep(c)
<1>1. /\ Releases(SweptCopies, ExpiredHolds, "EXPIRED") /\ UNCHANGED <<now, loans>>
      /\ SweptCopies \in Released
      /\ ExpiredHolds \in SUBSET ReservationIds /\ "EXPIRED" \in ClosedStatus
    BY SweptCopiesReleased
       DEF SweepExpiredHolds, SweptCopies, Releases, ExpiredHolds, ClosedStatus
<1>2. SUFFICES ASSUME NEW b \in Books PROVE QueueStep(b)
    OBVIOUS
<1>3. SweptCopies[b] = Cardinality(Late(b)) /\ Held(b, reservations) \cap ExpiredHolds = Late(b)
    BY DEF SweptCopies, Late
<1>4. CopiesOut(b)' = CopiesOut(b)
    BY <1>1 DEF CopiesOut, OnLoan
<1>5. CASE Late(b) # {}
    <2>1. Queue(b)!Release(SweptCopies[b], Held(b, reservations) \cap ExpiredHolds)
        BY <1>1, ReleaseOfQueue
    <2>2. books'[b].state = books[b].state
        BY <1>1, ReleaseKeepsState
    <2>3. Queue(b)!Cardinality(Late(b)) = Cardinality(Late(b))
        BY QueueCardinality
    <2>4. Queue(b)!Release(Queue(b)!Cardinality(Late(b)), Late(b))
        BY <1>3, <2>1, <2>3
    <2>5. Queue(b)!Sweep
        BY <1>4, <1>5, <2>2, <2>4 DEF Queue!Sweep
    <2> QED BY <2>5 DEF QueueStep, Queue!Next
<1>6. CASE Late(b) = {}
    <2>1. SweptCopies[b] = 0
        BY <1>3, <1>6, FS_EmptySet
    <2>2. Untouched(b)
        BY <1>1, <1>3, <1>4, <1>6, <2>1, ReleaseElsewhere
    <2> QED BY <2>2, UntouchedStutters DEF QueueStep
<1> QED BY <1>5, <1>6

LEMMA TickIsPass ==
    ASSUME TypeOK, DatedSoFar, Tick
    PROVE  \A c \in Books : QueueStep(c)
<1>1. now \in Nat /\ now' = now + 1 /\ UNCHANGED <<books, loans, reservations>>
    BY DEF Tick, TypeOK, Times
<1>2. SUFFICES ASSUME NEW b \in Books PROVE QueueStep(b)
    OBVIOUS
<1>3. UNCHANGED <<Waiting(b), ArrivedBefore(b), CopiesOut(b), Held(b, reservations)>>
    BY <1>1 DEF Waiting, Pending, ArrivedBefore, CopiesOut, OnLoan, Held
<1>4. Recent(b)' = {}
    <2>1. \A r \in Waiting(b) : reservations[r].reserved_at \in Nat
                               /\ reservations[r].reserved_at <= now
        BY ActiveRows DEF Waiting, Pending, Active, ActiveStatus, DatedSoFar
    <2> QED BY <1>1, <1>3, <2>1 DEF Recent
<1>5. ExpiredHolds \subseteq ExpiredHolds'
    <2>1. \A r \in ExpiredHolds : reservations[r].expires_at \in Nat
        BY DEF ExpiredHolds, TypeOK, NoRow, Reservation, Times
    <2> QED BY <1>1, <2>1 DEF ExpiredHolds
<1>6. PICK L \in SUBSET Fresh(b) : L = {r \in Fresh(b) : r \in ExpiredHolds'}
    OBVIOUS
<1>7. Fresh(b)' = Fresh(b) \ L /\ Late(b)' = Late(b) \cup L
    BY <1>3, <1>5, <1>6 DEF Fresh, Late
<1>8. Queue(b)!Pass(L)
    BY <1>1, <1>3, <1>4, <1>7 DEF Queue!Pass
<1> QED BY <1>6, <1>8 DEF QueueStep, Queue!Next

-----------------------------------------------------------------------------
LEMMA QueueInit == Init => \A b \in Books : Queue(b)!Init
<1> SUFFICES ASSUME Init, NEW b \in Books PROVE Queue(b)!Init
    OBVIOUS
<1>1. Waiting(b) = {} /\ Held(b, reservations) = {} /\ CopiesOut(b) = {}
    BY DEF Init, NoRow, Waiting, Pending, Held, CopiesOut, OnLoan
<1>2. Cardinality(CopiesOut(b)) = 0
    BY <1>1, FS_EmptySet
<1> QED BY <1>1, <1>2 DEF Init, Queue!Init, Recent, ArrivedBefore, Fresh, Late

LEMMA QueueNext ==
    ASSUME QueueInv, [FreeNext]_vars
    PROVE  \A b \in Books : QueueStep(b)
<1> USE DEF QueueInv
<1>1. CASE UNCHANGED vars
    <2>1. \A b \in Books : Untouched(b)
        BY <1>1 DEF vars, Untouched, CopiesOut, OnLoan
    <2> QED BY <2>1, UntouchedStutters DEF QueueStep
<1>2. ASSUME NEW b \in Books, NEW n \in 0..MaxCopies, CreateBook(b, n) \/ UpdateBook(b, n)
      PROVE  \A c \in Books : QueueStep(c)
    BY <1>2, CreateIsCreate, UpdateIsStock
<1>3. ASSUME NEW r \in ReservationIds, CancelPending(r) \/ CancelHold(r)
      PROVE  \A c \in Books : QueueStep(c)
    BY <1>3, CancelIsLeave, CancelIsCancel
<1>4. ASSUME NEW l \in LoanIds, ReturnBook(l) \/ RenewBook(l)
      PROVE  \A c \in Books : QueueStep(c)
    BY <1>4, ReturnIsReturn, RenewIsNothing
<1> QED BY <1>1, <1>2, <1>3, <1>4, DeleteIsDelete, BorrowIsBorrow, PlaceIsJoin, SweepIsSweep,
           MembershipIsNothing, TickIsPass, PlacingEnqueues DEF FreeNext, Next

LEMMA QueueInvStep == QueueInv /\ [FreeNext]_vars => QueueInv'
BY TypeStep, CopiesStep, DatedStep, WiderSteps DEF QueueInv

\* Whatever the services do, each book is at every moment a queue of HoldQueue.
THEOREM BooksAreQueues == Spec => EveryBookIsAQueue
<1>1. Init => QueueInv
    BY TypeInit, CopiesInit DEF QueueInv, DatedSoFar, Init
<1>2. QueueInv /\ [Next]_vars => QueueInv'
    BY QueueInvStep, NextIsFree DEF QueueInv
<1>3. QueueInv /\ [Next]_vars => [\A b \in Books : [Queue(b)!Next]_(Queue(b)!vars)]_vars
    BY QueueNext, NextIsFree DEF QueueStep
<1> QED BY <1>1, <1>2, <1>3, QueueInit, PTL DEF Spec, EveryBookIsAQueue

=============================================================================
