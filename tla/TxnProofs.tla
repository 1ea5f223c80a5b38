----------------------------- MODULE TxnProofs -----------------------------
(***************************************************************************)
(* What the locks of CirculationTxn achieve, for any number of sessions    *)
(* and any tables.  Two kinds of requests still race: about one loan       *)
(* (LoanOverlap; the runs double_return and renew_over_return) and for the *)
(* reservations of one member (~ReservesInTurn; reservation_limit).        *)
(*                                                                         *)
(* Without either, every transaction is one operation of Circulation       *)
(* (TxnInv, Counted).  With the second only, everything but the limit of   *)
(* reservations holds (TxnInv and FreeNext).  With both, what RaceInv and  *)
(* RacyNext give holds.                                                    *)
(***************************************************************************)
EXTENDS CirculationTxn, QueueProofs, WellFoundedInduction

Reserves(q) == q.pc \in {"place_member", "place_insert"}

\* No two requests in flight reserve for the same member.
ReservesInTurn ==
    \A p, q \in Requests :
        p # q /\ Reserves(req[p]) /\ Reserves(req[q]) => req[p].member # req[q].member

-----------------------------------------------------------------------------
(* The inductive invariant.                                                *)

\* q has read the loan l, or has written it.
About(q, l) == (q.pc \in {"return_loan", "renew_loan"} /\ q.loan = l) \/ LocksLoan(q, l)
Cancels(q, r) == q.pc \in {"promote", "shelve"} /\ q.cause = <<"cancel", r>>

\* MayReserve but for the number of reservations: others of the member may join.
MayQueue(m, b) ==
    /\ membership[m] = "ACTIVE"
    /\ \A r \in ActiveReservations(m) : reservations[r].book # b
    /\ \E page \in NewestLoans(m) : \A l \in page : ~(OnLoan(l) /\ loans[l].book = b)

\* What q has checked still holds: ChecksLast for one request.
Checked(q) ==
    /\ q.pc \in {"borrow_book", "borrow_hold"} => MayBorrow(q.member)
    /\ q.pc = "borrow_hold" =>
          books[q.book].state = "LIVE" /\ books[q.book].available = q.available
    /\ q.pc \in {"place_member", "place_insert"} =>
          /\ books[q.book].state = "LIVE" /\ books[q.book].available <= 0
          /\ MayQueue(q.member, q.book)
    /\ q.pc = "shelve" => Pending(q.book, reservations) = {}
    /\ q.pc = "sweep" => ExpiredHolds # {}

\* What q has read still is so.
Current(q) ==
    /\ \A l \in LoanIds : About(q, l) => OnLoan(l)
    /\ \A l \in LoanIds : LocksLoan(q, l) => loans[l].book = q.book
    /\ q.pc = "renew_loan" =>
          /\ loans[q.loan] = q.read
          /\ q.read.renewal_count < MaxRenewals /\ now <= q.read.due_date
    /\ \A r \in ReservationIds : Cancels(q, r) =>
          reservations[r].status = "HOLD" /\ reservations[r].book = q.book

\* Two transactions never hold the same lock, or have read the same loan.
Apart(p, q) ==
    /\ \A m \in Members : ~(LocksMember(p, m) /\ LocksMember(q, m))
    /\ \A b \in Books : ~(LocksBook(p, b) /\ LocksBook(q, b))
    /\ \A l \in LoanIds : ~(About(p, l) /\ About(q, l))
    /\ \A r \in ReservationIds : ~(LocksReservation(p, r) /\ LocksReservation(q, r))

\* No loan is dated in the future.
DatedLoans == \A l \in LoanIds : loans[l] # NoRow => loans[l].borrow_date <= now

TxnInv ==
    /\ TxnTypeOK
    /\ DatedLoans
    /\ \A p \in Requests : Checked(req[p]) /\ Current(req[p])
    /\ \A p, q \in Requests : p # q => Apart(req[p], req[q])

-----------------------------------------------------------------------------
(* Requests.                                                               *)

\* The fields of a request, by what it does next.
LEMMA Fields ==
    ASSUME NEW q \in Request
    PROVE  /\ q.pc \in {"borrow_book", "borrow_hold", "place_member", "place_insert"} =>
                  q.member \in Members /\ q.book \in Books
           /\ q.pc = "borrow_hold" => q.available \in Nat
           /\ q.pc \in {"return_loan", "renew_loan"} => q.loan \in LoanIds
           /\ q.pc = "renew_loan" => q.read \in Loan
           /\ q.pc \in {"promote", "shelve"} => q.book \in Books /\ q.cause \in Causes
BY DEF Request, Idle

LEMMA CauseKinds ==
    ASSUME NEW q \in Request, q.pc \in {"promote", "shelve"}
    PROVE  \/ \E l \in LoanIds : q.cause = <<"return", l>>
           \/ \E r \in ReservationIds : q.cause = <<"cancel", r>>
BY Fields DEF Causes

LEMMA IdleFacts ==
    /\ Idle \in Request /\ Idle.pc = "idle"
    /\ Checked(Idle) /\ Current(Idle)
    /\ \A q \in Request : Apart(Idle, q) /\ Apart(q, Idle)
BY DEF Idle, Request, Checked, Current, Apart, About, Cancels, LocksMember, LocksBook, LocksLoan,
       LocksReservation

LEMMA ApartSymmetric == \A p, q \in Request : Apart(p, q) => Apart(q, p)
BY DEF Apart

\* A step of one session that writes nothing yet.
LEMMA SessionStep ==
    ASSUME TxnInv, NEW p \in Requests, NEW next \in Request, Continue(p, next), UNCHANGED tables,
           Checked(next), Current(next), \A q \in Others(p) : Apart(next, req[q])
    PROVE  TxnInv'
<1>1. /\ req'[p] = next /\ \A q \in Others(p) : req'[q] = req[q]
      /\ req' \in [Requests -> Request]
    BY DEF Continue, TxnInv, TxnTypeOK, Others
<1>2. UNCHANGED <<now, books, loans, reservations, membership>>
    BY DEF tables
<1>3. TypeOK' /\ DatedLoans'
    BY <1>2 DEF TxnInv, TxnTypeOK, TypeOK, DatedLoans
<1>4. \A q \in Request : Checked(q)' = Checked(q) /\ Current(q)' = Current(q)
    BY <1>2 DEF Checked, Current, MayBorrow, MayQueue, OverdueLoans, ActiveLoans, OnLoan,
        ActiveReservations, NewestLoans, LoansOfMember, Pending, ExpiredHolds, About
<1>5. ASSUME NEW q \in Requests PROVE (Checked(req[q]) /\ Current(req[q]))'
    <2>1. PICK x \in Request : x = req'[q]
        BY <1>1
    <2>2. Checked(x) /\ Current(x)
        BY <1>1, <2>1 DEF TxnInv, Others
    <2>3. Checked(x)' /\ Current(x)'
        BY <1>4, <2>2
    <2> QED BY <2>1, <2>3
<1>6. ASSUME NEW q \in Requests, NEW s \in Requests, q # s PROVE Apart(req'[q], req'[s])
    BY <1>1, <1>6, ApartSymmetric DEF TxnInv, TxnTypeOK, Others
<1>7. \A q, s \in Requests : q # s => Apart(req[q], req[s])'
    BY <1>6 DEF Apart
<1> QED BY <1>1, <1>3, <1>5, <1>7 DEF TxnInv, TxnTypeOK

-----------------------------------------------------------------------------
(* First statements and further locks.                                     *)

LEMMA ReqTyped == ASSUME TxnInv PROVE TypeOK /\ \A p \in Requests : req[p] \in Request
BY DEF TxnInv, TxnTypeOK

LEMMA BorrowStarts ==
    ASSUME TxnInv, NEW p \in Requests, NEW m \in Members, NEW b \in Books, StartBorrow(p, m, b)
    PROVE  TxnInv'
<1>1. PICK x : x = [pc |-> "borrow_book", member |-> m, book |-> b]
    OBVIOUS
<1>2. x \in Request /\ x.pc = "borrow_book" /\ x.member = m
    BY <1>1 DEF Request
<1>3. Continue(p, x) /\ UNCHANGED tables /\ MayBorrow(m)
    BY <1>1 DEF StartBorrow
<1>4. Checked(x) /\ Current(x)
    BY <1>2, <1>3 DEF Checked, Current, About, Cancels, LocksLoan
<1>5. ASSUME NEW q \in Others(p) PROVE Apart(x, req[q])
    <2>1. ~LocksMember(req[q], m)
        BY DEF StartBorrow
    <2> QED BY <1>2, <2>1 DEF Apart, About, LocksMember, LocksBook, LocksLoan, LocksReservation
<1> QED BY <1>2, <1>3, <1>4, <1>5, SessionStep

LEMMA BorrowLocksBook ==
    ASSUME TxnInv, NEW p \in Requests, LockBorrowedBook(p)
    PROVE  TxnInv'
<1>1. req[p] \in Request /\ req[p].pc = "borrow_book"
    BY ReqTyped DEF LockBorrowedBook, Runs
<1>2. PICK m \in Members, b \in Books : m = req[p].member /\ b = req[p].book
    BY <1>1, Fields
<1>3. PICK x : x = [pc |-> "borrow_hold", member |-> m, book |-> b,
                    available |-> books[b].available]
    OBVIOUS
<1>4. x \in Request /\ x.pc = "borrow_hold" /\ x.member = m /\ x.book = b
      /\ x.available = books[b].available
    BY <1>3, ReqTyped DEF Request, TypeOK, Book
<1>5. Continue(p, x) /\ UNCHANGED tables /\ books[b].state = "LIVE"
    BY <1>2, <1>3 DEF LockBorrowedBook
<1>6. MayBorrow(m)
    BY <1>1, <1>2 DEF TxnInv, Checked
<1>7. Checked(x) /\ Current(x)
    BY <1>4, <1>5, <1>6 DEF Checked, Current, About, Cancels, LocksLoan
<1>8. ASSUME NEW q \in Others(p) PROVE Apart(x, req[q])
    <2>1. ~LocksBook(req[q], b)
        BY <1>1, <1>2 DEF LockBorrowedBook, Runs, Blocks
    <2>2. ~LocksMember(req[q], m)
        BY <1>1, <1>2 DEF TxnInv, Apart, LocksMember, Others
    <2> QED BY <1>4, <2>1, <2>2 DEF Apart, About, LocksMember, LocksBook, LocksLoan, LocksReservation
<1> QED BY <1>4, <1>5, <1>7, <1>8, SessionStep

LEMMA PlaceStarts ==
    ASSUME TxnInv, NEW p \in Requests, NEW m \in Members, NEW b \in Books, StartPlace(p, m, b)
    PROVE  TxnInv'
<1>1. PICK x : x = [pc |-> "place_member", member |-> m, book |-> b]
    OBVIOUS
<1>2. x \in Request /\ x.pc = "place_member" /\ x.member = m /\ x.book = b
    BY <1>1 DEF Request
<1>3. Continue(p, x) /\ UNCHANGED tables
    BY <1>1 DEF StartPlace
<1>4. Checked(x) /\ Current(x)
    BY <1>2 DEF StartPlace, MayReserve, MayQueue, Checked, Current, About, Cancels, LocksLoan
<1>5. ASSUME NEW q \in Others(p) PROVE Apart(x, req[q])
    <2>1. ~LocksBook(req[q], b)
        BY DEF StartPlace
    <2> QED BY <1>2, <2>1 DEF Apart, About, LocksMember, LocksBook, LocksLoan, LocksReservation
<1> QED BY <1>2, <1>3, <1>4, <1>5, SessionStep

LEMMA PlaceLocksMember ==
    ASSUME TxnInv, NEW p \in Requests, LockReservingMember(p)
    PROVE  TxnInv'
<1>1. req[p] \in Request /\ req[p].pc = "place_member"
    BY ReqTyped DEF LockReservingMember, Runs
<1>2. PICK m \in Members, b \in Books : m = req[p].member /\ b = req[p].book
    BY <1>1, Fields
<1>3. PICK x : x = [req[p] EXCEPT !.pc = "place_insert"]
    OBVIOUS
<1>4. x \in Request /\ x.pc = "place_insert" /\ x.member = m /\ x.book = b
    BY <1>1, <1>2, <1>3 DEF Request, Idle
<1>5. Continue(p, x) /\ UNCHANGED tables
    BY <1>3 DEF LockReservingMember
<1>6. Checked(x) /\ Current(x)
    <2>1. Checked(req[p])
        BY DEF TxnInv
    <2> QED BY <1>1, <1>2, <1>4, <2>1 DEF Checked, Current, About, Cancels, LocksLoan
<1>7. ASSUME NEW q \in Others(p) PROVE Apart(x, req[q])
    <2>1. ~LocksMember(req[q], m)
        BY <1>1, <1>2 DEF LockReservingMember, Runs, Blocks
    <2>2. ~LocksBook(req[q], b)
        BY <1>1, <1>2 DEF TxnInv, Apart, LocksBook, Others
    <2> QED BY <1>4, <2>1, <2>2 DEF Apart, About, LocksMember, LocksBook, LocksLoan, LocksReservation
<1> QED BY <1>4, <1>5, <1>6, <1>7, SessionStep

LEMMA ReturnStarts ==
    ASSUME TxnInv, LoanOverlap = FALSE, NEW p \in Requests, NEW l \in LoanIds, StartReturn(p, l)
    PROVE  TxnInv'
<1>1. PICK x : x = [pc |-> "return_loan", loan |-> l]
    OBVIOUS
<1>2. x \in Request /\ x.pc = "return_loan" /\ x.loan = l
    BY <1>1 DEF Request
<1>3. Continue(p, x) /\ UNCHANGED tables /\ OnLoan(l)
    BY <1>1 DEF StartReturn
<1>4. Checked(x) /\ Current(x)
    BY <1>2, <1>3 DEF Checked, Current, About, Cancels, LocksLoan
<1>5. ASSUME NEW q \in Others(p) PROVE Apart(x, req[q])
    <2>1. ~About(req[q], l)
        BY DEF StartReturn, MayStartOn, About, Others
    <2> QED BY <1>2, <2>1 DEF Apart, About, LocksMember, LocksBook, LocksLoan, LocksReservation
<1> QED BY <1>2, <1>3, <1>4, <1>5, SessionStep

LEMMA RenewStarts ==
    ASSUME TxnInv, LoanOverlap = FALSE, NEW p \in Requests, NEW l \in LoanIds, StartRenew(p, l)
    PROVE  TxnInv'
<1>1. PICK x : x = [pc |-> "renew_loan", loan |-> l, read |-> loans[l]]
    OBVIOUS
<1>2. OnLoan(l) /\ loans[l] \in Loan
    BY ReqTyped DEF StartRenew, OnLoan, TypeOK, NoRow
<1>3. x \in Request /\ x.pc = "renew_loan" /\ x.loan = l /\ x.read = loans[l]
    BY <1>1, <1>2 DEF Request
<1>4. Continue(p, x) /\ UNCHANGED tables
    BY <1>1 DEF StartRenew
<1>5. Checked(x) /\ Current(x)
    BY <1>2, <1>3 DEF StartRenew, Checked, Current, About, Cancels, LocksLoan
<1>6. ASSUME NEW q \in Others(p) PROVE Apart(x, req[q])
    <2>1. ~About(req[q], l)
        BY DEF StartRenew, MayStartOn, About, Others
    <2> QED BY <1>3, <2>1 DEF Apart, About, LocksMember, LocksBook, LocksLoan, LocksReservation
<1> QED BY <1>3, <1>4, <1>5, <1>6, SessionStep

LEMMA ReturnLocksLoan ==
    ASSUME TxnInv, NEW p \in Requests, WriteReturn(p)
    PROVE  TxnInv'
<1>1. req[p] \in Request /\ req[p].pc = "return_loan" /\ Checked(req[p]) /\ Current(req[p])
    BY ReqTyped DEF WriteReturn, Runs, TxnInv
<1>2. PICK l \in LoanIds : l = req[p].loan
    BY <1>1, Fields
<1>3. OnLoan(l) /\ loans[l] \in Loan
    BY <1>1, <1>2, ReqTyped DEF Current, About, OnLoan, TypeOK, NoRow
<1>4. PICK x : x = [pc |-> "promote", book |-> loans[l].book, cause |-> <<"return", l>>]
    OBVIOUS
<1>5. x \in Request /\ x.pc = "promote" /\ x.book = loans[l].book /\ x.cause = <<"return", l>>
    BY <1>3, <1>4 DEF Request, Causes, Loan
<1>6. \A r \in ReservationIds : x.cause # <<"cancel", r>>
    BY <1>5
<1>7. \A k \in LoanIds : x.cause = <<"return", k>> => k = l
    BY <1>5
<1>8. Continue(p, x) /\ UNCHANGED tables
    BY <1>2, <1>4 DEF WriteReturn
<1>9. Checked(x) /\ Current(x)
    BY <1>3, <1>5, <1>6, <1>7 DEF Checked, Current, About, Cancels, LocksLoan
<1>10. ASSUME NEW q \in Others(p) PROVE Apart(x, req[q])
    <2>1. ~About(req[q], l)
        BY <1>1, <1>2 DEF TxnInv, Apart, About, Others
    <2> QED BY <1>5, <1>6, <1>7, <2>1
            DEF Apart, About, LocksMember, LocksBook, LocksLoan, LocksReservation
<1> QED BY <1>5, <1>8, <1>9, <1>10, SessionStep

LEMMA CancelStarts ==
    ASSUME TxnInv, NEW p \in Requests, NEW r \in ReservationIds, StartCancelHold(p, r)
    PROVE  TxnInv'
<1>1. reservations[r].status = "HOLD" /\ reservations[r] \in Reservation
    BY ReqTyped DEF StartCancelHold, TypeOK, NoRow
<1>2. PICK x : x = [pc |-> "promote", book |-> reservations[r].book, cause |-> <<"cancel", r>>]
    OBVIOUS
<1>3. x \in Request /\ x.pc = "promote" /\ x.book = reservations[r].book
      /\ x.cause = <<"cancel", r>>
    BY <1>1, <1>2 DEF Request, Causes, Reservation
<1>4. \A l \in LoanIds : x.cause # <<"return", l>>
    BY <1>3
<1>5. \A s \in ReservationIds : x.cause = <<"cancel", s>> => s = r
    BY <1>3
<1>6. Continue(p, x) /\ UNCHANGED tables
    BY <1>2 DEF StartCancelHold
<1>7. Checked(x) /\ Current(x)
    BY <1>1, <1>3, <1>4, <1>5 DEF Checked, Current, About, Cancels, LocksLoan
<1>8. ASSUME NEW q \in Others(p) PROVE Apart(x, req[q])
    <2>1. ~LocksReservation(req[q], r)
        BY DEF StartCancelHold
    <2> QED BY <1>3, <1>4, <1>5, <2>1
            DEF Apart, About, LocksMember, LocksBook, LocksLoan, LocksReservation
<1> QED BY <1>3, <1>6, <1>7, <1>8, SessionStep

LEMMA PromotionFindsNobody ==
    ASSUME TxnInv, NEW p \in Requests, FindNobody(p)
    PROVE  TxnInv'
<1>1. req[p] \in Request /\ req[p].pc = "promote" /\ Checked(req[p]) /\ Current(req[p])
    BY ReqTyped DEF FindNobody, Runs, TxnInv
<1>2. PICK x : x = [req[p] EXCEPT !.pc = "shelve"]
    OBVIOUS
<1>3. x \in Request /\ x.pc = "shelve" /\ x.book = req[p].book /\ x.cause = req[p].cause
    BY <1>1, <1>2 DEF Request, Idle
<1>4. Continue(p, x) /\ UNCHANGED tables /\ Pending(x.book, reservations) = {}
    BY <1>2, <1>3 DEF FindNobody
<1>5. Checked(x) /\ Current(x)
    BY <1>1, <1>3, <1>4 DEF Checked, Current, About, Cancels, LocksLoan
<1>6. ASSUME NEW q \in Others(p) PROVE Apart(x, req[q])
    <2>1. Apart(req[p], req[q])
        BY DEF TxnInv, Others
    <2> QED BY <1>1, <1>3, <2>1
            DEF Apart, About, LocksMember, LocksBook, LocksLoan, LocksReservation
<1> QED BY <1>3, <1>4, <1>5, <1>6, SessionStep

LEMMA SweepStarts ==
    ASSUME TxnInv, NEW p \in Requests, StartSweep(p)
    PROVE  TxnInv'
<1>1. PICK r \in ReservationIds : Continue(p, [pc |-> "scan", locked |-> {}, next |-> r])
    BY DEF StartSweep
<1>2. PICK x : x = [pc |-> "scan", locked |-> {}, next |-> r]
    OBVIOUS
<1>3. x \in Request /\ x.pc = "scan" /\ x.locked = {}
    BY <1>2 DEF Request
<1>4. Continue(p, x) /\ UNCHANGED tables
    BY <1>1, <1>2 DEF StartSweep
<1>5. Checked(x) /\ Current(x)
    BY <1>3 DEF Checked, Current, About, Cancels, LocksLoan
<1>6. ASSUME NEW q \in Others(p) PROVE Apart(x, req[q])
    BY <1>3 DEF Apart, About, LocksMember, LocksBook, LocksLoan, LocksReservation
<1> QED BY <1>3, <1>4, <1>5, <1>6, SessionStep

\* The scan of p goes on to x: with one more row locked, or with the whole table.
GoesOn(p, x) ==
    /\ x \in Request /\ x.pc \in {"scan", "sweep"}
    /\ Continue(p, x) /\ UNCHANGED tables
    /\ x.pc = "sweep" => ExpiredHolds # {}
    /\ \A r \in ReservationIds :
          LocksReservation(x, r) => LocksReservation(req[p], r) \/ r = req[p].next

LEMMA ScanGoesOn ==
    ASSUME TxnTypeOK, NEW p \in Requests, ScanRow(p)
    PROVE  /\ \E x : GoesOn(p, x)
           /\ \A q \in Others(p) : ~LocksReservation(req[q], req[p].next)
<1> DEFINE locked == req[p].locked \cup {req[p].next}
<1>1. req[p] \in Request /\ req[p].pc = "scan"
    BY DEF ScanRow, Runs, TxnTypeOK
<1>2. locked \in SUBSET ReservationIds
    BY <1>1 DEF Request, Idle
<1>3. \A q \in Others(p) : ~LocksReservation(req[q], req[p].next)
    BY <1>1 DEF ScanRow, Runs, Blocks
<1>4. ASSUME NEW r \in ReservationIds \ locked,
             Continue(p, [pc |-> "scan", locked |-> locked, next |-> r])
      PROVE  \E x : GoesOn(p, x)
    <2>1. PICK x : x = [pc |-> "scan", locked |-> locked, next |-> r]
        OBVIOUS
    <2>2. x \in Request /\ x.pc = "scan" /\ x.locked = locked
        BY <1>2, <2>1 DEF Request
    <2> QED BY <1>1, <1>4, <2>1, <2>2 DEF GoesOn, LocksReservation, ScanRow
<1>5. ASSUME locked = ReservationIds, ExpiredHolds # {}, Continue(p, [pc |-> "sweep"])
      PROVE  \E x : GoesOn(p, x)
    <2>1. PICK x : x = [pc |-> "sweep"]
        OBVIOUS
    <2>2. x \in Request /\ x.pc = "sweep"
        BY <2>1 DEF Request
    <2> QED BY <1>1, <1>5, <2>1, <2>2 DEF GoesOn, LocksReservation, ScanRow
<1> QED BY <1>3, <1>4, <1>5 DEF ScanRow

LEMMA SweepScans ==
    ASSUME TxnInv, NEW p \in Requests, ScanRow(p)
    PROVE  TxnInv'
<1>1. PICK x : GoesOn(p, x)
    BY ScanGoesOn DEF TxnInv
<1>2. \A q \in Others(p) : ~LocksReservation(req[q], req[p].next)
    BY ScanGoesOn DEF TxnInv
<1>3. Checked(x) /\ Current(x)
    BY <1>1 DEF GoesOn, Checked, Current, About, Cancels, LocksLoan
<1>4. ASSUME NEW q \in Others(p) PROVE Apart(x, req[q])
    <2>1. \A r \in ReservationIds : ~(LocksReservation(req[p], r) /\ LocksReservation(req[q], r))
        BY DEF TxnInv, Apart, Others
    <2>2. \A r \in ReservationIds : ~(LocksReservation(x, r) /\ LocksReservation(req[q], r))
        BY <1>1, <1>2, <2>1 DEF GoesOn
    <2> QED BY <1>1, <2>2 DEF GoesOn, Apart, About, LocksMember, LocksBook, LocksLoan
<1> QED BY <1>1, <1>3, <1>4, SessionStep DEF GoesOn

LEMMA RollbackStep ==
    ASSUME TxnInv, NEW p \in Requests, Rollback(p)
    PROVE  TxnInv'
<1>1. Continue(p, Idle) /\ UNCHANGED tables
    BY DEF Rollback, Commit
<1>2. \A q \in Others(p) : Apart(Idle, req[q])
    BY IdleFacts, ReqTyped DEF Others
<1> QED BY <1>1, <1>2, IdleFacts, SessionStep

-----------------------------------------------------------------------------
(* The newest loans of a member.                                           *)

LEMMA EarliestRow ==
    ASSUME NEW S, S # {}, NEW date, \A x \in S : date[x] \in Nat
    PROVE  \E x \in S : \A y \in S : date[x] <= date[y]
<1> DEFINE T == {date[x] : x \in S}
<1>1. IsWellFoundedOn(OpToRel(<, Nat), Nat)
    BY NatLessThanWellFounded, Zenon
<1>2. T \subseteq Nat /\ T # {}
    OBVIOUS
<1> HIDE DEF T
<1>3. PICK d \in T : \A e \in T : ~(<<e, d>> \in OpToRel(<, Nat))
    BY <1>1, <1>2, WFMin, Zenon
<1>4. \A e \in T : ~(e < d)
    <2>1. \A e \in T : e \in Nat /\ d \in Nat
        BY <1>2
    <2> QED BY <1>3, <2>1, Zenon DEF OpToRel
<1>5. PICK x \in S : date[x] = d
    BY DEF T
<1>6. ASSUME NEW y \in S PROVE date[x] <= date[y]
    <2>1. date[y] \in T
        BY DEF T
    <2>2. ~(date[y] < d)
        BY <1>4, <2>1
    <2> QED BY <1>5, <2>2
<1> QED BY <1>6

\* A page of the newest K rows of S, when the newest row of all joins S: it
\* takes a place left on the page, or that of the oldest row.
LEMMA PageTurns ==
    ASSUME NEW S, IsFiniteSet(S), NEW l, l \notin S, NEW K \in Nat,
           NEW date, \A x \in S \cup {l} : date[x] \in Nat, \A x \in S : date[x] <= date[l],
           NEW page \in SUBSET S, Cardinality(page) = MinOf(K, Cardinality(S)),
           \A x \in page, k \in S \ page : date[x] >= date[k]
    PROVE  \E turned \in SUBSET (page \cup {l}) :
              /\ Cardinality(turned) = MinOf(K, Cardinality(S \cup {l}))
              /\ \A x \in turned, k \in (S \cup {l}) \ turned : date[x] >= date[k]
<1>1. IsFiniteSet(page) /\ Cardinality(S) \in Nat /\ Cardinality(page) \in Nat
    BY FS_Subset, FS_CardinalityType
<1>2. Cardinality(S \cup {l}) = Cardinality(S) + 1
    BY FS_AddElement
<1>3. CASE K = 0
    <2>1. Cardinality({}) = MinOf(K, Cardinality(S \cup {l}))
        BY <1>1, <1>2, <1>3, FS_EmptySet DEF MinOf
    <2> QED BY <2>1
<1>4. CASE Cardinality(S) < K
    <2>1. page = S
        BY <1>1, <1>4, FS_Subset DEF MinOf
    <2>2. Cardinality(S \cup {l}) = MinOf(K, Cardinality(S \cup {l}))
        BY <1>1, <1>2, <1>4 DEF MinOf
    <2> QED BY <2>1, <2>2
<1>5. CASE K # 0 /\ K <= Cardinality(S)
    <2>1. Cardinality(page) = K
        BY <1>1, <1>5 DEF MinOf
    <2>2. page # {}
        BY <1>5, <2>1, FS_EmptySet
    <2>3. PICK o \in page : \A x \in page : date[o] <= date[x]
        BY <2>2, EarliestRow
    <2>4. PICK turned : turned = (page \ {o}) \cup {l}
        OBVIOUS
    <2>5. Cardinality(turned) = K
        <3>1. IsFiniteSet(page \ {o}) /\ Cardinality(page \ {o}) = K - 1
            BY <1>1, <2>1, FS_RemoveElement
        <3>2. Cardinality(turned) = Cardinality(page \ {o}) + 1
            BY <2>4, <3>1, FS_AddElement
        <3> QED BY <3>1, <3>2
    <2>6. Cardinality(turned) = MinOf(K, Cardinality(S \cup {l}))
        BY <1>1, <1>2, <1>5, <2>5 DEF MinOf
    <2>7. ASSUME NEW x \in turned, NEW k \in (S \cup {l}) \ turned PROVE date[x] >= date[k]
        <3>1. k \in S /\ (k = o \/ k \in S \ page)
            BY <2>4
        <3>2. CASE x = l
            BY <3>1, <3>2
        <3>3. CASE x \in page
            <4>1. CASE k = o
                BY <2>3, <3>3, <4>1
            <4>2. CASE k \in S \ page
                BY <3>3, <4>2
            <4> QED BY <3>1, <4>1, <4>2
        <3> QED BY <2>4, <3>2, <3>3
    <2> QED BY <2>4, <2>6, <2>7
<1> QED BY <1>1, <1>3, <1>4, <1>5

-----------------------------------------------------------------------------
(* Commits.                                                                *)

\* What the step of somebody else leaves as the request q has checked and read it.
Spares(q) ==
    /\ now' = now /\ membership' = membership
    /\ q.pc \in {"borrow_book", "borrow_hold"} =>
          /\ ActiveLoans(q.member)' \subseteq ActiveLoans(q.member)
          /\ OverdueLoans(q.member)' \subseteq OverdueLoans(q.member)
    /\ \A b \in Books : LocksBook(q, b) => books'[b] = books[b]
    /\ Reserves(q) /\ MayQueue(q.member, q.book) => MayQueue(q.member, q.book)'
    /\ q.pc = "shelve" => Pending(q.book, reservations)' \subseteq Pending(q.book, reservations)
    /\ \A l \in LoanIds : About(q, l) => loans'[l] = loans[l]
    /\ \A r \in ReservationIds :
          reservations[r] # NoRow /\ LocksReservation(q, r) => reservations'[r] = reservations[r]

LEMMA SparedStays ==
    ASSUME TypeOK, NEW q \in Request, Checked(q), Current(q), Spares(q)
    PROVE  (Checked(q) /\ Current(q))'
<1>1. (q.pc \in {"borrow_book", "borrow_hold"} => MayBorrow(q.member))'
    <2> SUFFICES ASSUME q.pc \in {"borrow_book", "borrow_hold"} PROVE MayBorrow(q.member)'
        OBVIOUS
    <2>1. PICK S, T : /\ S = ActiveLoans(q.member) /\ T = ActiveLoans(q.member)'
                      /\ IsFiniteSet(S) /\ T \subseteq S
        BY RowSetsFinite DEF Spares, ActiveLoans
    <2>2. Cardinality(T) \in Nat /\ Cardinality(S) \in Nat /\ Cardinality(T) <= Cardinality(S)
        BY <2>1, FS_Subset, FS_CardinalityType
    <2>3. MayBorrow(q.member)
        BY DEF Checked
    <2>4. OverdueLoans(q.member)' = {} /\ membership' = membership
        BY <2>3 DEF Spares, MayBorrow
    <2>5. Cardinality(S) < BorrowLimit
        BY <2>1, <2>3 DEF MayBorrow
    <2>6. Cardinality(T) < BorrowLimit
        BY <2>2, <2>5, LimitsAssumption
    <2> QED BY <2>1, <2>3, <2>4, <2>6 DEF MayBorrow
<1>2. \A b \in Books : LocksBook(q, b) => books'[b] = books[b]
    BY DEF Spares
<1>3. q.pc \in {"borrow_hold", "place_member", "place_insert"} => books'[q.book] = books[q.book]
    BY <1>2, Fields DEF LocksBook
<1>4. q.pc \in {"place_member", "place_insert"} => MayQueue(q.member, q.book)'
    BY DEF Spares, Checked, Reserves
<1>5. q.pc = "shelve" => Pending(q.book, reservations)' = {}
    BY DEF Spares, Checked
<1>6. q.pc = "sweep" => ExpiredHolds' # {}
    <2> SUFFICES ASSUME q.pc = "sweep" PROVE ExpiredHolds' # {}
        OBVIOUS
    <2>1. PICK r \in ReservationIds : r \in ExpiredHolds
        BY DEF Checked, ExpiredHolds
    <2>2. reservations'[r] = reservations[r] /\ now' = now
        BY <2>1 DEF ExpiredHolds, NoRow, Spares, LocksReservation
    <2>3. r \in ExpiredHolds'
        BY <2>1, <2>2 DEF ExpiredHolds
    <2> QED BY <2>3
<1>7. \A l \in LoanIds : About(q, l) => OnLoan(l)' /\ loans'[l] = loans[l]
    BY DEF Spares, Current, OnLoan
<1>8. \A l \in LoanIds : LocksLoan(q, l) => loans'[l].book = q.book
    BY <1>7 DEF Current, About
<1>9. q.pc = "renew_loan" =>
          /\ loans'[q.loan] = q.read
          /\ q.read.renewal_count < MaxRenewals /\ now' <= q.read.due_date
    <2> SUFFICES ASSUME q.pc = "renew_loan" PROVE loans'[q.loan] = q.read /\ now' = now
        BY DEF Current
    <2>1. q.loan \in LoanIds /\ About(q, q.loan)
        BY Fields DEF About
    <2> QED BY <1>7, <2>1 DEF Current, Spares
<1>10. ASSUME NEW r \in ReservationIds, Cancels(q, r)
      PROVE  reservations'[r].status = "HOLD" /\ reservations'[r].book = q.book
    <2>1. reservations[r].status = "HOLD" /\ reservations[r].book = q.book
        BY <1>10 DEF Current
    <2>2. LocksReservation(q, r) /\ reservations[r] # NoRow
        BY <1>10, <2>1 DEF Cancels, LocksReservation, NoRow
    <2> QED BY <2>1, <2>2 DEF Spares
<1>11. Checked(q)'
    BY <1>1, <1>3, <1>4, <1>5, <1>6 DEF Checked
<1>12. Current(q)'
    BY <1>7, <1>8, <1>9, <1>10 DEF Current, About, Cancels, LocksLoan
<1> QED BY <1>11, <1>12

\* The commit of p.
LEMMA CommitStep ==
    ASSUME TxnInv, NEW p \in Requests, Commit(p), TypeOK', DatedLoans',
           \A q \in Others(p) : \A x \in Request : x = req[q] => Spares(x)
    PROVE  TxnInv'
<1>1. /\ req'[p] = Idle /\ \A q \in Others(p) : req'[q] = req[q]
      /\ req' \in [Requests -> Request]
    BY IdleFacts DEF Commit, Continue, TxnInv, TxnTypeOK, Others
<1>2. ASSUME NEW q \in Requests PROVE (Checked(req[q]) /\ Current(req[q]))'
    <2>1. PICK x \in Request : x = req'[q]
        BY <1>1
    <2>2. (Checked(x) /\ Current(x))'
        <3>1. CASE q = p
            <4>1. x = Idle
                BY <1>1, <2>1, <3>1
            <4>2. Checked(Idle)' /\ Current(Idle)'
                BY DEF Idle, Checked, Current, About, Cancels, LocksLoan
            <4> QED BY <4>1, <4>2
        <3>2. CASE q \in Others(p)
            <4>1. x = req[q]
                BY <1>1, <2>1, <3>2
            <4>2. Checked(x) /\ Current(x) /\ Spares(x)
                BY <3>2, <4>1 DEF TxnInv, Others
            <4> QED BY <4>2, ReqTyped, SparedStays
        <3> QED BY <3>1, <3>2 DEF Others
    <2> QED BY <2>1, <2>2
<1>3. ASSUME NEW q \in Requests, NEW s \in Requests, q # s PROVE Apart(req'[q], req'[s])
    BY <1>1, <1>3, IdleFacts DEF TxnInv, TxnTypeOK, Others
<1>4. \A q, s \in Requests : q # s => Apart(req[q], req[s])'
    BY <1>3 DEF Apart
<1> QED BY <1>1, <1>2, <1>4 DEF TxnInv, TxnTypeOK

\* A step of no session.
LEMMA OutsideStep ==
    ASSUME TxnInv, UNCHANGED req, TypeOK', DatedLoans',
           \A q \in Requests : \A x \in Request : x = req[q] => Spares(x)
    PROVE  TxnInv'
<1>1. ASSUME NEW q \in Requests PROVE (Checked(req[q]) /\ Current(req[q]))'
    <2>1. PICK x \in Request : x = req[q] /\ x = req'[q]
        BY DEF TxnInv, TxnTypeOK
    <2>2. Checked(x) /\ Current(x) /\ Spares(x)
        BY <2>1 DEF TxnInv
    <2>3. (Checked(x) /\ Current(x))'
        BY <2>2, ReqTyped, SparedStays
    <2> QED BY <2>1, <2>3
<1>2. \A q, s \in Requests : q # s => Apart(req[q], req[s])'
    BY DEF TxnInv, Apart
<1> QED BY <1>1, <1>2 DEF TxnInv, TxnTypeOK

-----------------------------------------------------------------------------
(* What spares a request.                                                  *)

LEMMA LoanDatesStep == TypeOK /\ DatedLoans /\ [FreeNext]_vars => DatedLoans'
<1> SUFFICES ASSUME TypeOK, DatedLoans, [FreeNext]_vars, NEW k \in LoanIds, loans'[k] # NoRow
             PROVE  loans'[k].borrow_date <= now'
    BY DEF DatedLoans
<1>1. now \in Nat /\ now' \in Nat /\ now <= now'
    <2>1. now' = now \/ now' = now + 1
        BY ClockSteps, WiderSteps
    <2>2. now \in Nat
        BY DEF TypeOK, Times
    <2> QED BY <2>1, <2>2
<1>2. loans[k] # NoRow => loans[k] \in Loan /\ loans[k].borrow_date \in Nat
                          /\ loans[k].borrow_date <= now
    BY DEF TypeOK, Loan, Times, DatedLoans
<1>3. CASE loans'[k] = loans[k]
    BY <1>1, <1>2, <1>3
<1>4. ASSUME NEW m \in Members, NEW b \in Books, NEW l \in LoanIds, BorrowBook(m, b, l),
             loans'[k] # loans[k]
      PROVE  loans'[k].borrow_date = now
    BY <1>4 DEF BorrowBook, NewLoan, TypeOK
<1>5. ASSUME NEW l \in LoanIds, ReturnBook(l) \/ RenewBook(l), loans'[k] # loans[k]
      PROVE  loans[k] # NoRow /\ loans'[k].borrow_date = loans[k].borrow_date
    <2>1. k = l /\ OnLoan(l)
        BY <1>5 DEF ReturnBook, RenewBook, TypeOK
    <2>2. loans[k] \in Loan /\ loans[k] # NoRow
        BY <2>1 DEF OnLoan, NoRow, TypeOK
    <2>3. loans'[k] = [loans[k] EXCEPT !.status = "RETURNED"] \/ loans'[k] = Extended(loans[k])
        BY <1>5, <2>1 DEF ReturnBook, RenewBook, TypeOK
    <2>4. [loans[k] EXCEPT !.status = "RETURNED"].borrow_date = loans[k].borrow_date
        BY <2>2 DEF Loan
    <2> QED BY <2>2, <2>3, <2>4, ExtendedLoan
<1> QED BY <1>1, <1>2, <1>3, <1>4, <1>5, LoanSteps

\* What holds of the tables when one operation is applied to them.
LEMMA Applied ==
    ASSUME TxnInv, FreeNext
    PROVE  TypeOK /\ TypeOK' /\ DatedLoans /\ DatedLoans'
BY TypeStep, LoanDatesStep, WiderSteps, ReqTyped DEF TxnInv

\* Loans that are returned or renewed, but not made.
LoansKept ==
    \A l \in LoanIds :
        /\ loans'[l] # NoRow <=> loans[l] # NoRow
        /\ loans[l] # NoRow =>
              /\ loans'[l].member = loans[l].member /\ loans'[l].book = loans[l].book
              /\ loans'[l].borrow_date = loans[l].borrow_date
              /\ loans'[l].due_date >= loans[l].due_date
        /\ OnLoan(l)' => OnLoan(l)

LEMMA SameLoansKept == TypeOK /\ loans' = loans => LoansKept
<1> SUFFICES ASSUME TypeOK, loans' = loans, NEW l \in LoanIds, loans[l] # NoRow
             PROVE  loans[l].due_date >= loans[l].due_date
    BY DEF LoansKept, OnLoan
<1> QED BY DEF TypeOK, Loan, Times

LEMMA KeptLoans ==
    ASSUME TypeOK, TypeOK', LoansKept, now' = now, NEW m \in Members
    PROVE  /\ ActiveLoans(m)' \subseteq ActiveLoans(m)
           /\ OverdueLoans(m)' \subseteq OverdueLoans(m)
           /\ LoansOfMember(m)' = LoansOfMember(m)
           /\ NewestLoans(m)' = NewestLoans(m)
<1>1. ActiveLoans(m)' \subseteq ActiveLoans(m)
    BY DEF ActiveLoans, LoansKept, OnLoan, NoRow
<1>2. ASSUME NEW l \in OverdueLoans(m)' PROVE l \in OverdueLoans(m)
    <2>1. l \in ActiveLoans(m)' /\ loans'[l].due_date < now
        BY DEF OverdueLoans
    <2>2. l \in ActiveLoans(m) /\ l \in LoanIds /\ loans[l] # NoRow /\ loans'[l] # NoRow
        BY <1>1, <2>1 DEF ActiveLoans, OnLoan, NoRow, LoansKept
    <2>3. /\ loans[l].due_date \in Nat /\ loans'[l].due_date \in Nat /\ now \in Nat
          /\ loans'[l].due_date >= loans[l].due_date
        BY <2>2 DEF TypeOK, Loan, Times, LoansKept
    <2>4. loans[l].due_date < now
        BY <2>1, <2>3
    <2> QED BY <2>2, <2>4 DEF OverdueLoans
<1>3. LoansOfMember(m)' = LoansOfMember(m)
    BY DEF LoansOfMember, LoansKept
<1>4. \A l \in LoansOfMember(m) : loans'[l].borrow_date = loans[l].borrow_date
    BY DEF LoansOfMember, LoansKept
<1>5. NewestLoans(m)' = NewestLoans(m)
    BY <1>3, <1>4 DEF NewestLoans
<1> QED BY <1>1, <1>2, <1>3, <1>5

\* A member who may queue still may, when reservations only close and the
\* newest loans hold the book no more than before.
LEMMA MayStillQueue ==
    ASSUME TypeOK, NEW m \in Members, NEW b \in Books, MayQueue(m, b),
           membership' = membership, ActiveKept,
           \A page \in NewestLoans(m) :
              (\A l \in page : ~(OnLoan(l) /\ loans[l].book = b)) =>
                  \E turned \in NewestLoans(m)' :
                      \A l \in turned : ~(OnLoan(l)' /\ loans'[l].book = b)
    PROVE  MayQueue(m, b)'
<1>1. \A r \in ActiveReservations(m)' :
         r \in ActiveReservations(m) /\ reservations'[r].book = reservations[r].book
    BY DEF ActiveReservations, ActiveKept, ActiveStatus
<1>2. \A r \in ActiveReservations(m)' : reservations'[r].book # b
    BY <1>1 DEF MayQueue
<1>3. PICK page \in NewestLoans(m) : \A l \in page : ~(OnLoan(l) /\ loans[l].book = b)
    BY DEF MayQueue
<1>4. \E turned \in NewestLoans(m)' : \A l \in turned : ~(OnLoan(l)' /\ loans'[l].book = b)
    BY <1>3
<1>5. membership'[m] = "ACTIVE"
    BY DEF MayQueue
<1> QED BY <1>2, <1>4, <1>5 DEF MayQueue

LEMMA ReservingSpared ==
    ASSUME TypeOK, TypeOK', LoansKept, now' = now, membership' = membership, ActiveKept,
           NEW m \in Members, NEW b \in Books, MayQueue(m, b)
    PROVE  MayQueue(m, b)'
<1>1. NewestLoans(m)' = NewestLoans(m)
    BY KeptLoans
<1>2. ASSUME NEW page \in NewestLoans(m), NEW l \in page, OnLoan(l)', loans'[l].book = b
      PROVE  OnLoan(l) /\ loans[l].book = b
    <2>1. l \in LoanIds /\ loans[l] # NoRow
        BY <1>2 DEF NewestLoans, LoansOfMember
    <2> QED BY <1>2, <2>1 DEF LoansKept
<1> QED BY <1>1, <1>2, MayStillQueue

\* Reservations are placed by place_reservation only.
LEMMA NobodyJoins ==
    ASSUME TypeOK, [RacyNext]_vars,
           \A r \in ReservationIds : reservations[r] = NoRow => reservations'[r] = NoRow
    PROVE  /\ ActiveKept
           /\ \A b \in Books : Pending(b, reservations)' \subseteq Pending(b, reservations)
<1>1. ASSUME NEW m \in Members, NEW b \in Books, NEW r \in ReservationIds,
             Enqueue(m, b, r)
      PROVE  FALSE
    BY <1>1 DEF Enqueue, NewReservation, NoRow, TypeOK
<1>2. ASSUME NEW r \in ReservationIds, reservations'[r].status = "PENDING"
      PROVE  reservations'[r] = reservations[r]
    <2>1. ASSUME NEW R \in SUBSET ReservationIds, NEW s \in ClosedStatus, Closes(R, s)
          PROVE  reservations'[r] = reservations[r]
        BY <1>2, <2>1, ClosedRows DEF Closes, ClosedStatus
    <2>2. ASSUME NEW R \in SUBSET ReservationIds, NEW s \in ClosedStatus, NEW n \in Released,
                 Releases(n, R, s)
          PROVE  reservations'[r] = reservations[r]
        BY <1>2, <2>2, ReleasedRows, PromotedRow DEF ClosedStatus
    <2> QED BY <1>1, <2>1, <2>2, ReservationSteps DEF SomeRelease
<1>3. ActiveKept
    BY <1>1, OnlyPlacingActivates
<1> QED BY <1>2, <1>3 DEF Pending

-----------------------------------------------------------------------------
(* borrow_book.                                                            *)

LEMMA BorrowIsAtomic ==
    ASSUME TxnInv, NEW p \in Requests, NEW l \in LoanIds, FinishBorrow(p, l),
           NEW m \in Members, NEW b \in Books, m = req[p].member, b = req[p].book
    PROVE  BorrowBook(m, b, l)
<1>1. req[p].pc = "borrow_hold" /\ Checked(req[p])
    BY DEF FinishBorrow, Runs, TxnInv
<1>2. MayBorrow(m) /\ books[b].state = "LIVE" /\ books[b].available = req[p].available
    BY <1>1 DEF Checked
<1>3. TakeReadCopy(m, b, books[b].available)
    BY <1>2 DEF FinishBorrow
<1>4. TakeCopy(m, b)
    BY <1>3 DEF TakeReadCopy, TakeCopy, OnShelf
<1> QED BY <1>2, <1>4 DEF FinishBorrow, BorrowBook

\* Who reserves another book for the borrowing member still may.
LEMMA BorrowSparesReserving ==
    ASSUME TypeOK, DatedLoans, ActiveKept, NEW m \in Members, NEW b \in Books, NEW l \in LoanIds,
           BorrowBook(m, b, l), NEW n \in Members, NEW c \in Books, c # b, MayQueue(n, c)
    PROVE  MayQueue(n, c)'
<1>1. /\ loans[l] = NoRow /\ loans'[l] = NewLoan(m, b)
      /\ \A k \in LoanIds : k # l => loans'[k] = loans[k]
    BY DEF BorrowBook, TypeOK
<1>2. /\ NewLoan(m, b).member = m /\ NewLoan(m, b).book = b /\ NewLoan(m, b) # NoRow
      /\ NewLoan(m, b).borrow_date = now
    BY DEF NewLoan, NoRow
<1>3. \A k \in LoansOfMember(n) : k \in LoanIds /\ k # l /\ loans'[k] = loans[k]
    BY <1>1 DEF LoansOfMember
<1>4. ASSUME NEW page \in NewestLoans(n), \A k \in page : ~(OnLoan(k) /\ loans[k].book = c)
      PROVE  \E turned \in NewestLoans(n)' : \A k \in turned : ~(OnLoan(k)' /\ loans'[k].book = c)
    <2>1. \A k \in page : k # l /\ loans'[k] = loans[k] /\ ~(OnLoan(k)' /\ loans'[k].book = c)
        BY <1>3, <1>4 DEF NewestLoans, OnLoan
    <2>2. CASE n # m
        <3>1. LoansOfMember(n)' = LoansOfMember(n)
            BY <1>1, <1>2, <2>2 DEF LoansOfMember
        <3>2. NewestLoans(n)' = NewestLoans(n)
            BY <1>3, <3>1 DEF NewestLoans
        <3> QED BY <2>1, <3>2
    <2>3. CASE n = m
        <3>1. PICK S : S = LoansOfMember(n)
            OBVIOUS
        <3>2. LoansOfMember(n)' = S \cup {l} /\ l \notin S
            BY <1>1, <1>2, <2>3, <3>1 DEF LoansOfMember
        <3>3. PICK date : date = [k \in LoanIds |-> loans'[k].borrow_date]
            OBVIOUS
        <3>4. /\ \A k \in S : date[k] = loans[k].borrow_date /\ date[k] \in Nat /\ date[k] <= now
              /\ date[l] = now /\ now \in Nat /\ S \subseteq LoanIds /\ IsFiniteSet(S)
            <4>1. S \in SUBSET LoanIds
                BY <3>1 DEF LoansOfMember
            <4>2. \A k \in S : loans[k] \in Loan /\ loans[k].borrow_date <= now
                BY <3>1 DEF LoansOfMember, TypeOK, DatedLoans
            <4>3. \A k \in S : date[k] = loans[k].borrow_date
                BY <1>3, <3>1, <3>3, <4>1
            <4> QED BY <1>1, <1>2, <3>3, <4>1, <4>2, <4>3, RowSetsFinite DEF Loan, Times, TypeOK
        <3>5. /\ page \in SUBSET S /\ Cardinality(page) = MinOf(HistoryPage, Cardinality(S))
              /\ \A x \in page, k \in S \ page : date[x] >= date[k]
            BY <3>1, <3>4 DEF NewestLoans
        <3>6. PICK turned \in SUBSET (page \cup {l}) :
                  /\ Cardinality(turned) = MinOf(HistoryPage, Cardinality(S \cup {l}))
                  /\ \A x \in turned, k \in (S \cup {l}) \ turned : date[x] >= date[k]
            <4>1. HistoryPage \in Nat /\ \A x \in S \cup {l} : date[x] \in Nat
                BY <3>4, LimitsAssumption
            <4>2. \A x \in S : date[x] <= date[l]
                BY <3>4
            <4> QED BY <3>2, <3>4, <3>5, <4>1, <4>2, PageTurns
        <3>7. \A x \in S \cup {l} : date[x] = loans'[x].borrow_date
            BY <3>3, <3>4
        <3>8. turned \in NewestLoans(n)'
            BY <3>2, <3>5, <3>6, <3>7 DEF NewestLoans
        <3>9. \A k \in turned : ~(OnLoan(k)' /\ loans'[k].book = c)
            BY <1>1, <1>2, <2>1, <3>6
        <3> QED BY <3>8, <3>9
    <2> QED BY <2>2, <2>3
<1>5. membership' = membership
    BY DEF BorrowBook
<1> QED BY <1>4, <1>5, MayStillQueue

LEMMA BorrowCommits ==
    ASSUME TxnInv, NEW p \in Requests, NEW l \in LoanIds, FinishBorrow(p, l)
    PROVE  TxnInv' /\ Next /\ ActiveKept
<1>1. req[p] \in Request /\ req[p].pc = "borrow_hold"
    BY ReqTyped DEF FinishBorrow, Runs
<1>2. PICK m \in Members, b \in Books : m = req[p].member /\ b = req[p].book
    BY <1>1, Fields
<1>3. BorrowBook(m, b, l)
    BY <1>2, BorrowIsAtomic
<1>4. Next
    BY <1>3 DEF Next
<1>5. TypeOK /\ DatedLoans /\ TypeOK' /\ DatedLoans'
    BY <1>4, Applied DEF FreeNext
<1>6. \/ reservations' = reservations /\ \A c \in Books : c # b => books'[c] = books[c]
      \/ reservations' = Closed(reservations, Held(b, reservations), "COMPLETED") /\ books' = books
    BY <1>3, <1>5 DEF BorrowBook, TakeCopy, TypeOK
<1>7. \A r \in ReservationIds : r \notin Held(b, reservations) => reservations'[r] = reservations[r]
    BY <1>6 DEF Closed
<1>8. /\ ActiveKept
      /\ \A c \in Books : Pending(c, reservations)' \subseteq Pending(c, reservations)
    <2>1. \A r \in ReservationIds : reservations[r] = NoRow => reservations'[r] = NoRow
        BY <1>7 DEF Held, NoRow
    <2> QED BY <1>4, <1>5, <2>1, NobodyJoins, WiderSteps, NextIsFree
<1>9. /\ loans[l] = NoRow /\ loans'[l] = NewLoan(m, b) /\ NewLoan(m, b).member = m
      /\ \A k \in LoanIds : k # l => loans'[k] = loans[k]
    BY <1>3, <1>5 DEF BorrowBook, TypeOK, NewLoan
<1>10. ASSUME NEW q \in Others(p), NEW x \in Request, x = req[q] PROVE Spares(x)
    <2>1. Apart(req[p], x) /\ Current(x) /\ ~Blocks(q, p)
        BY <1>10 DEF TxnInv, Others, FinishBorrow, Runs
    <2>2. now' = now /\ membership' = membership
        BY <1>3 DEF BorrowBook
    <2>3. ASSUME x.pc \in {"borrow_book", "borrow_hold"}
          PROVE  /\ ActiveLoans(x.member)' \subseteq ActiveLoans(x.member)
                 /\ OverdueLoans(x.member)' \subseteq OverdueLoans(x.member)
        <3>1. x.member # m
            BY <1>1, <1>2, <2>1, <2>3 DEF Apart, LocksMember
        <3>2. ActiveLoans(x.member)' \subseteq ActiveLoans(x.member)
            BY <1>9, <3>1 DEF ActiveLoans, OnLoan
        <3>3. l \notin ActiveLoans(x.member)'
            BY <1>9, <3>1 DEF ActiveLoans
        <3> QED BY <1>9, <2>2, <3>2, <3>3 DEF OverdueLoans, ActiveLoans
    <2>4. \A c \in Books : LocksBook(x, c) => c # b /\ books'[c] = books[c]
        BY <1>1, <1>2, <1>6, <2>1 DEF Apart, LocksBook
    <2>5. ASSUME Reserves(x), MayQueue(x.member, x.book) PROVE MayQueue(x.member, x.book)'
        <3>1. x.member \in Members /\ x.book \in Books /\ x.book # b
            BY <2>4, <2>5, Fields DEF Reserves, LocksBook
        <3> QED BY <1>3, <1>5, <1>8, <2>5, <3>1, BorrowSparesReserving
    <2>6. x.pc = "shelve" => Pending(x.book, reservations)' \subseteq Pending(x.book, reservations)
        BY <1>8, Fields
    <2>7. \A k \in LoanIds : About(x, k) => loans'[k] = loans[k]
        BY <1>9, <2>1 DEF Current, OnLoan, NoRow
    <2>8. \A r \in ReservationIds : LocksReservation(x, r) => reservations'[r] = reservations[r]
        BY <1>1, <1>2, <1>7, <1>10, <2>1 DEF Blocks, Held
    <2> QED BY <2>2, <2>3, <2>4, <2>5, <2>6, <2>7, <2>8 DEF Spares
<1>11. Commit(p)
    BY DEF FinishBorrow
<1> QED BY <1>4, <1>5, <1>8, <1>10, <1>11, CommitStep

-----------------------------------------------------------------------------
(* place_reservation.                                                      *)

LEMMA PlaceCommits ==
    ASSUME TxnInv, NEW p \in Requests, NEW r \in ReservationIds, FinishPlace(p, r)
    PROVE  TxnInv' /\ FreeNext
<1>1. req[p] \in Request /\ req[p].pc = "place_insert" /\ Checked(req[p])
    BY ReqTyped DEF FinishPlace, Runs, TxnInv
<1>2. PICK m \in Members, b \in Books : m = req[p].member /\ b = req[p].book
    BY <1>1, Fields
<1>3. Enqueue(m, b, r)
    BY <1>1, <1>2 DEF Checked, MayQueue, FinishPlace, Enqueue
<1>4. FreeNext
    BY <1>3 DEF FreeNext
<1>5. TypeOK /\ TypeOK' /\ DatedLoans'
    BY <1>4, Applied
<1>6. UNCHANGED <<now, books, loans, membership>>
    BY <1>3 DEF Enqueue
<1>7. /\ reservations[r] = NoRow /\ reservations'[r].member = m /\ reservations'[r].book = b
      /\ \A k \in ReservationIds : k # r => reservations'[k] = reservations[k]
    BY <1>3, <1>5 DEF Enqueue, TypeOK, NewReservation
<1>8. ASSUME NEW q \in Others(p), NEW x \in Request, x = req[q] PROVE Spares(x)
    <2>1. Apart(req[p], x) /\ ~Blocks(q, p)
        BY <1>8 DEF TxnInv, Others, FinishPlace, Runs
    <2>2. x.pc \in {"borrow_book", "borrow_hold"} =>
             /\ ActiveLoans(x.member)' \subseteq ActiveLoans(x.member)
             /\ OverdueLoans(x.member)' \subseteq OverdueLoans(x.member)
        BY <1>6 DEF ActiveLoans, OverdueLoans, OnLoan
    <2>3. ASSUME Reserves(x), MayQueue(x.member, x.book) PROVE MayQueue(x.member, x.book)'
        <3>1. x.book # b
            BY <1>1, <1>2, <2>1, <2>3 DEF Reserves, Apart, LocksBook
        <3>2. \A k \in ActiveReservations(x.member)' : reservations'[k].book # x.book
            BY <1>7, <2>3, <3>1 DEF ActiveReservations, MayQueue
        <3>3. NewestLoans(x.member)' = NewestLoans(x.member)
            BY <1>6 DEF NewestLoans, LoansOfMember
        <3> QED BY <1>6, <2>3, <3>2, <3>3 DEF MayQueue, OnLoan
    <2>4. ASSUME x.pc = "shelve"
          PROVE  Pending(x.book, reservations)' \subseteq Pending(x.book, reservations)
        <3>1. x.book # b
            BY <1>1, <1>2, <1>8, <2>1, <2>4 DEF Blocks, LocksQueue
        <3> QED BY <1>7, <3>1 DEF Pending
    <2>5. \A k \in ReservationIds : reservations[k] # NoRow => reservations'[k] = reservations[k]
        BY <1>7
    <2> QED BY <1>6, <2>2, <2>3, <2>4, <2>5 DEF Spares
<1>9. Commit(p)
    BY DEF FinishPlace
<1> QED BY <1>4, <1>5, <1>8, <1>9, CommitStep

-----------------------------------------------------------------------------
(* renew_book.                                                             *)

LEMMA RenewCommits ==
    ASSUME TxnInv, NEW p \in Requests, FinishRenew(p)
    PROVE  TxnInv' /\ Next /\ ActiveKept
<1>1. req[p] \in Request /\ req[p].pc = "renew_loan" /\ Current(req[p])
    BY ReqTyped DEF FinishRenew, Runs, TxnInv
<1>2. PICK l \in LoanIds : l = req[p].loan
    BY <1>1, Fields
<1>3. /\ loans[l] = req[p].read /\ OnLoan(l) /\ loans[l] \in Loan
      /\ loans[l].renewal_count < MaxRenewals /\ now <= loans[l].due_date
    <2>1. loans[l] = req[p].read /\ OnLoan(l)
        BY <1>1, <1>2 DEF Current, About
    <2> QED BY <1>1, <1>2, <2>1, ReqTyped DEF Current, TypeOK, OnLoan, NoRow
<1>4. PICK row : row = loans[l]
    OBVIOUS
<1>5. [Extended(row) EXCEPT
         !.status = IF row.status = "RENEWED" THEN row.status ELSE @] = Extended(row)
    BY <1>3, <1>4 DEF Extended, Loan
<1>6. loans' = [loans EXCEPT ![l] = Extended(row)]
    BY <1>2, <1>3, <1>4, <1>5 DEF FinishRenew
<1>7. UNCHANGED <<now, books, reservations, membership>>
    BY DEF FinishRenew
<1>8. RenewBook(l)
    BY <1>3, <1>4, <1>6, <1>7 DEF RenewBook
<1>9. Next
    BY <1>8 DEF Next
<1>10. TypeOK /\ TypeOK' /\ DatedLoans'
    BY <1>9, Applied DEF FreeNext
<1>11. loans'[l] = Extended(row) /\ \A k \in LoanIds : k # l => loans'[k] = loans[k]
    BY <1>6, <1>10 DEF TypeOK
<1>12. LoansKept
    <2> SUFFICES ASSUME NEW k \in LoanIds
                 PROVE  /\ loans'[k] # NoRow <=> loans[k] # NoRow
                        /\ loans[k] # NoRow =>
                              /\ loans'[k].member = loans[k].member /\ loans'[k].book = loans[k].book
                              /\ loans'[k].borrow_date = loans[k].borrow_date
                              /\ loans'[k].due_date >= loans[k].due_date
                        /\ OnLoan(k)' => OnLoan(k)
        BY DEF LoansKept
    <2>1. CASE k # l
        BY <1>10, <1>11, <2>1 DEF OnLoan, TypeOK, Loan, Times
    <2>2. CASE k = l
        <3>1. row \in Loan /\ row.due_date \in Nat /\ RenewalPeriod \in Nat
            BY <1>3, <1>4, PeriodsAssumption DEF Loan, Times
        <3> QED BY <1>3, <1>4, <1>11, <2>2, <3>1, ExtendedLoan DEF NoRow, OnLoan
    <2> QED BY <2>1, <2>2
<1>13. ActiveKept
    BY <1>7 DEF ActiveKept
<1>14. ASSUME NEW q \in Others(p), NEW x \in Request, x = req[q] PROVE Spares(x)
    <2>1. Apart(req[p], x)
        BY <1>14 DEF TxnInv, Others
    <2>2. x.pc \in {"borrow_book", "borrow_hold"} =>
             /\ ActiveLoans(x.member)' \subseteq ActiveLoans(x.member)
             /\ OverdueLoans(x.member)' \subseteq OverdueLoans(x.member)
        BY <1>7, <1>10, <1>12, KeptLoans, Fields
    <2>3. Reserves(x) /\ MayQueue(x.member, x.book) => MayQueue(x.member, x.book)'
        BY <1>7, <1>10, <1>12, <1>13, ReservingSpared, Fields DEF Reserves
    <2>4. \A k \in LoanIds : About(x, k) => loans'[k] = loans[k]
        BY <1>1, <1>2, <1>11, <2>1 DEF Apart, About
    <2> QED BY <1>7, <2>2, <2>3, <2>4 DEF Spares, Pending
<1>15. Commit(p)
    BY DEF FinishRenew
<1> QED BY <1>9, <1>10, <1>13, <1>14, <1>15, CommitStep

-----------------------------------------------------------------------------
(* promote_next_reservation, for return_book and cancel_reservation.       *)

\* A step that makes no loan, places no reservation and keeps the rows that
\* x has locked or read.
LEMMA KeptIsSpared ==
    ASSUME TypeOK, TypeOK', LoansKept, ActiveKept, now' = now, membership' = membership,
           \A b \in Books : Pending(b, reservations)' \subseteq Pending(b, reservations),
           NEW x \in Request,
           \A b \in Books : LocksBook(x, b) => books'[b] = books[b],
           \A l \in LoanIds : About(x, l) => loans'[l] = loans[l],
           \A r \in ReservationIds :
              reservations[r] # NoRow /\ LocksReservation(x, r) => reservations'[r] = reservations[r]
    PROVE  Spares(x)
<1>1. x.pc \in {"borrow_book", "borrow_hold"} =>
         /\ ActiveLoans(x.member)' \subseteq ActiveLoans(x.member)
         /\ OverdueLoans(x.member)' \subseteq OverdueLoans(x.member)
    BY KeptLoans, Fields
<1>2. Reserves(x) /\ MayQueue(x.member, x.book) => MayQueue(x.member, x.book)'
    BY ReservingSpared, Fields DEF Reserves
<1>3. x.pc = "shelve" => Pending(x.book, reservations)' \subseteq Pending(x.book, reservations)
    BY Fields
<1> QED BY <1>1, <1>2, <1>3 DEF Spares

LEMMA NothingMore ==
    ASSUME TypeOK, NEW rs \in ReservationTable, NEW b \in Books
    PROVE  {} \in Promotable(b, 0, rs) /\ Shelved(books[b], 0, 0) = books[b]
<1>1. IsFiniteSet(Pending(b, rs)) /\ Cardinality(Pending(b, rs)) \in Nat
    BY RowSetsFinite DEF Pending
<1>2. Cardinality({}) = MinOf(0, Cardinality(Pending(b, rs)))
    BY <1>1, FS_EmptySet DEF MinOf
<1>3. books[b] \in Book
    BY DEF TypeOK
<1>4. Shelved(books[b], 0, 0) = books[b]
    BY <1>3 DEF Shelved, Book
<1> QED BY <1>2, <1>4 DEF Promotable

LEMMA OnePromoted ==
    ASSUME TypeOK, NEW rs \in ReservationTable, NEW b \in Books, NEW r \in ReservationIds,
           {r} \in Promotable(b, 1, rs), reservations' = [rs EXCEPT ![r] = Promoted(@)],
           books' = books
    PROVE  PromoteNext(OneCopyOf(b), rs)
<1>1. r \in Pending(b, rs)
    BY DEF Promotable
<1>2. Cardinality({r}) = 1 /\ Cardinality({}) = 0
    BY FS_Singleton, FS_EmptySet
<1>3. ASSUME NEW c \in Books
      PROVE  /\ {r} \cap Pending(c, rs) \in Promotable(c, OneCopyOf(b)[c], rs)
             /\ books'[c] = Shelved(books[c], OneCopyOf(b)[c], Cardinality({r} \cap Pending(c, rs)))
    <2>1. CASE c = b
        <3>1. {r} \cap Pending(c, rs) = {r} /\ OneCopyOf(b)[c] = 1
            BY <1>1, <2>1 DEF OneCopyOf
        <3>2. Shelved(books[c], 1, 1) = books[c]
            BY DEF Shelved, TypeOK, Book
        <3> QED BY <1>2, <2>1, <3>1, <3>2
    <2>2. CASE c # b
        <3>1. {r} \cap Pending(c, rs) = {} /\ OneCopyOf(b)[c] = 0
            BY <1>1, <2>2 DEF OneCopyOf, Pending
        <3> QED BY <1>2, <3>1, NothingMore
    <2> QED BY <2>1, <2>2
<1>4. reservations' = [k \in ReservationIds |-> IF k \in {r} THEN Promoted(rs[k]) ELSE rs[k]]
    BY DEF ReservationTable
<1>5. books' = [c \in Books |->
                   Shelved(books[c], OneCopyOf(b)[c], Cardinality({r} \cap Pending(c, rs)))]
    BY <1>3 DEF TypeOK
<1>6. {r} \in SUBSET UNION {Pending(c, rs) : c \in Books}
    BY <1>1
<1> QED BY <1>3, <1>4, <1>5, <1>6 DEF PromoteNext, MayPromote, WithPromoted, WithShelved

LEMMA OneShelved ==
    ASSUME TypeOK, NEW rs \in ReservationTable, NEW b \in Books, Pending(b, rs) = {},
           reservations' = rs, books' = [books EXCEPT ![b] = Shelved(@, 1, 0)]
    PROVE  PromoteNext(OneCopyOf(b), rs)
<1>1. Cardinality({}) = 0
    BY FS_EmptySet
<1>2. {} \in Promotable(b, 1, rs)
    BY <1>1 DEF Promotable, MinOf
<1>3. ASSUME NEW c \in Books
      PROVE  /\ {} \cap Pending(c, rs) \in Promotable(c, OneCopyOf(b)[c], rs)
             /\ books'[c] = Shelved(books[c], OneCopyOf(b)[c], Cardinality({} \cap Pending(c, rs)))
    <2>1. {} \cap Pending(c, rs) = {}
        OBVIOUS
    <2>2. CASE c = b
        BY <1>1, <1>2, <2>1, <2>2 DEF OneCopyOf, TypeOK
    <2>3. CASE c # b
        BY <1>1, <2>1, <2>3, NothingMore DEF OneCopyOf, TypeOK
    <2> QED BY <2>2, <2>3
<1>4. reservations' = [k \in ReservationIds |-> IF k \in {} THEN Promoted(rs[k]) ELSE rs[k]]
    BY DEF ReservationTable
<1>5. books' = [c \in Books |->
                   Shelved(books[c], OneCopyOf(b)[c], Cardinality({} \cap Pending(c, rs)))]
    BY <1>3 DEF TypeOK
<1> QED BY <1>3, <1>4, <1>5 DEF PromoteNext, MayPromote, WithPromoted, WithShelved

\* The hold that q cancels is one until q commits.
StillHeld(q) ==
    \A r \in ReservationIds : Cancels(q, r) =>
        reservations[r].status = "HOLD" /\ reservations[r].book = q.book

LEMMA CurrentIsHeld == \A q : Current(q) => StillHeld(q)
BY DEF Current, StillHeld

\* The reservations as the transaction of q has left them.
LEMMA WrittenReservations ==
    ASSUME TypeOK, NEW q \in Request, q.pc \in {"promote", "shelve"}, StillHeld(q)
    PROVE  /\ ReservationsOf(q) \in ReservationTable
           /\ \A b \in Books : Pending(b, ReservationsOf(q)) = Pending(b, reservations)
           /\ \A r \in ReservationIds : ~Cancels(q, r) => ReservationsOf(q)[r] = reservations[r]
           /\ \A l \in LoanIds : q.cause = <<"return", l>> => ReservationsOf(q) = reservations
           /\ \A r \in ReservationIds : q.cause = <<"cancel", r>> =>
                 ReservationsOf(q) = Closed(reservations, {r}, "CANCELLED")
<1> DEFINE R == {r \in ReservationIds : q.cause = <<"cancel", r>>}
<1>1. \A r \in R : reservations[r].status = "HOLD"
    BY DEF StillHeld, Cancels
<1>2. ReservationsOf(q) \in ReservationTable
    BY <1>1, ClosedType DEF ReservationsOf
<1>3. \A r \in ReservationIds : r \notin R => ReservationsOf(q)[r] = reservations[r]
    BY DEF ReservationsOf, Closed
<1>4. \A r \in R : ReservationsOf(q)[r].status = "CANCELLED"
    BY <1>1, ClosedRows DEF ReservationsOf, ActiveStatus, ClosedStatus
<1>5. \A b \in Books : Pending(b, ReservationsOf(q)) = Pending(b, reservations)
    BY <1>1, <1>3, <1>4 DEF Pending
<1>6. ASSUME NEW l \in LoanIds, q.cause = <<"return", l>> PROVE ReservationsOf(q) = reservations
    <2>1. R = {}
        BY <1>6
    <2> QED BY <1>3, <2>1 DEF ReservationsOf, Closed, TypeOK
<1>7. ASSUME NEW r \in ReservationIds, q.cause = <<"cancel", r>>
      PROVE  ReservationsOf(q) = Closed(reservations, {r}, "CANCELLED")
    <2>1. R = {r}
        BY <1>7
    <2> QED BY <2>1 DEF ReservationsOf
<1> QED BY <1>2, <1>3, <1>5, <1>6, <1>7 DEF Cancels

\* The commit of a transaction that released one copy of b.
LEMMA ReleasedByCause ==
    ASSUME TxnInv, NEW q \in Request, q.pc \in {"promote", "shelve"}, Current(q),
           PromoteNext(OneCopyOf(q.book), ReservationsOf(q)), loans' = LoansOf(q),
           UNCHANGED <<now, membership>>
    PROVE  /\ Next /\ LoansKept
           /\ \A l \in LoanIds : ~About(q, l) => loans'[l] = loans[l]
<1>0. TypeOK
    BY ReqTyped
<1>1. ASSUME NEW l \in LoanIds, q.cause = <<"return", l>>
      PROVE  Next /\ LoansKept /\ \A k \in LoanIds : ~About(q, k) => loans'[k] = loans[k]
    <2>1. LocksLoan(q, l) /\ OnLoan(l) /\ loans[l].book = q.book
        BY <1>1 DEF LocksLoan, Current, About
    <2>2. \A k \in LoanIds : q.cause = <<"return", k>> => k = l
        BY <1>1
    <2>3. loans' = [loans EXCEPT ![l].status = "RETURNED"]
        BY <1>0, <1>1, <2>2 DEF LoansOf, TypeOK
    <2>4. ReservationsOf(q) = reservations
        BY <1>0, <1>1, CurrentIsHeld, WrittenReservations
    <2>5. ReturnBook(l)
        BY <2>1, <2>3, <2>4 DEF ReturnBook
    <2>6. PICK row \in Loan : row = loans[l]
        BY <1>0, <2>1 DEF TypeOK, OnLoan, NoRow
    <2>7. loans'[l] = [row EXCEPT !.status = "RETURNED"] /\ row # NoRow
        BY <1>0, <2>1, <2>3, <2>6 DEF TypeOK, OnLoan, NoRow
    <2>8. \A k \in LoanIds : k # l => loans'[k] = loans[k]
        BY <1>0, <2>3 DEF TypeOK
    <2>9. /\ loans'[l] # NoRow /\ loans'[l].member = row.member /\ loans'[l].book = row.book
          /\ loans'[l].borrow_date = row.borrow_date /\ loans'[l].due_date = row.due_date
          /\ row.due_date \in Nat
        BY <2>6, <2>7 DEF Loan, NoRow, Times
    <2>10. \A k \in LoanIds : loans[k] # NoRow => loans[k].due_date \in Nat
        BY <1>0 DEF TypeOK, Loan, Times
    <2>11. LoansKept
        <3> SUFFICES ASSUME NEW k \in LoanIds
                     PROVE  /\ loans'[k] # NoRow <=> loans[k] # NoRow
                            /\ loans[k] # NoRow =>
                                 /\ loans'[k].member = loans[k].member /\ loans'[k].book = loans[k].book
                                 /\ loans'[k].borrow_date = loans[k].borrow_date
                                 /\ loans'[k].due_date >= loans[k].due_date
                            /\ OnLoan(k)' => OnLoan(k)
            BY DEF LoansKept
        <3>1. CASE k # l
            BY <2>8, <2>10, <3>1 DEF OnLoan
        <3>2. CASE k = l
            <4>1. loans[k] = row /\ loans[k] # NoRow /\ loans'[k] # NoRow /\ OnLoan(k)
                BY <2>1, <2>6, <2>7, <2>9, <3>2
            <4>2. loans'[k].due_date = row.due_date /\ loans'[k].due_date >= row.due_date
                BY <2>9, <3>2
            <4> QED BY <2>9, <3>2, <4>1, <4>2
        <3> QED BY <3>1, <3>2
    <2> QED BY <2>1, <2>5, <2>8, <2>11 DEF Next, About
<1>2. ASSUME NEW r \in ReservationIds, q.cause = <<"cancel", r>>
      PROVE  Next /\ LoansKept /\ \A k \in LoanIds : ~About(q, k) => loans'[k] = loans[k]
    <2>1. reservations[r].status = "HOLD" /\ reservations[r].book = q.book
        BY <1>2 DEF Cancels, Current
    <2>2. \A k \in LoanIds : q.cause # <<"return", k>>
        BY <1>2
    <2>3. loans' = loans
        BY <1>0, <2>2 DEF LoansOf, TypeOK
    <2>4. ReservationsOf(q) = Closed(reservations, {r}, "CANCELLED")
        BY <1>0, <1>2, CurrentIsHeld, WrittenReservations
    <2>5. CancelHold(r)
        BY <2>1, <2>3, <2>4 DEF CancelHold
    <2> QED BY <1>0, <2>3, <2>5, SameLoansKept DEF Next
<1> QED BY <1>1, <1>2, CauseKinds

LEMMA PromotionCommits ==
    ASSUME TxnInv, NEW p \in Requests, PromoteOldest(p)
    PROVE  TxnInv' /\ Next /\ ActiveKept
<1>1. PICK y \in Request : y = req[p]
    BY ReqTyped
<1>2. y.pc = "promote" /\ Current(y) /\ TypeOK /\ y.book \in Books
    BY <1>1, Fields, ReqTyped DEF PromoteOldest, Runs, TxnInv
<1>3. PICK r \in ReservationIds :
          /\ {r} \in Promotable(y.book, 1, reservations)
          /\ \A q \in Others(p) : ~LocksReservation(req[q], r)
          /\ reservations' = [ReservationsOf(y) EXCEPT ![r] = Promoted(@)]
    BY <1>1 DEF PromoteOldest, Oldest
<1>4. loans' = LoansOf(y) /\ UNCHANGED <<now, books, membership>> /\ Commit(p)
    BY <1>1 DEF PromoteOldest
<1>5. PICK rs \in ReservationTable :
          /\ rs = ReservationsOf(y)
          /\ \A b \in Books : Pending(b, rs) = Pending(b, reservations)
          /\ \A k \in ReservationIds : ~Cancels(y, k) => rs[k] = reservations[k]
    BY <1>2, CurrentIsHeld, WrittenReservations
<1>6. {r} \in Promotable(y.book, 1, rs)
    <2>1. \A k \in Pending(y.book, rs) : rs[k] = reservations[k]
        BY <1>2, <1>5 DEF Pending, Current
    <2> QED BY <1>2, <1>3, <1>5, <2>1 DEF Promotable
<1>7. PromoteNext(OneCopyOf(y.book), rs)
    BY <1>2, <1>3, <1>4, <1>5, <1>6, OnePromoted
<1>8. Next /\ LoansKept /\ \A l \in LoanIds : ~About(y, l) => loans'[l] = loans[l]
    BY <1>2, <1>4, <1>5, <1>7, ReleasedByCause
<1>9. TypeOK' /\ DatedLoans'
    BY <1>8, Applied DEF FreeNext
<1>10. \A k \in ReservationIds : k # r /\ ~Cancels(y, k) => reservations'[k] = reservations[k]
    BY <1>3, <1>5 DEF ReservationTable
<1>11. /\ ActiveKept
       /\ \A b \in Books : Pending(b, reservations)' \subseteq Pending(b, reservations)
    <2>1. reservations[r] # NoRow
        BY <1>3 DEF Promotable, Pending, NoRow
    <2>2. \A k \in ReservationIds : Cancels(y, k) => reservations[k] # NoRow
        BY <1>2 DEF Current, NoRow
    <2> QED BY <1>2, <1>8, <1>10, <2>1, <2>2, NobodyJoins, WiderSteps, NextIsFree
<1>12. ASSUME NEW q \in Others(p), NEW x \in Request, x = req[q] PROVE Spares(x)
    <2>1. Apart(y, x) /\ ~LocksReservation(x, r)
        BY <1>1, <1>3, <1>12 DEF TxnInv, Others
    <2>2. \A l \in LoanIds : About(x, l) => loans'[l] = loans[l]
        BY <1>8, <2>1 DEF Apart
    <2>3. \A k \in ReservationIds : LocksReservation(x, k) => reservations'[k] = reservations[k]
        BY <1>10, <2>1 DEF Apart, Cancels, LocksReservation
    <2> QED BY <1>2, <1>4, <1>8, <1>9, <1>11, <2>2, <2>3, KeptIsSpared
<1> QED BY <1>4, <1>8, <1>9, <1>11, <1>12, CommitStep

LEMMA ShelvingCommits ==
    ASSUME TxnInv, NEW p \in Requests, ShelveCopy(p)
    PROVE  TxnInv' /\ Next /\ ActiveKept
<1>1. PICK y \in Request : y = req[p]
    BY ReqTyped
<1>2. /\ y.pc = "shelve" /\ Current(y) /\ TypeOK /\ y.book \in Books
      /\ Pending(y.book, reservations) = {}
    BY <1>1, Fields, ReqTyped DEF ShelveCopy, Runs, TxnInv, Checked
<1>3. /\ books' = [books EXCEPT ![y.book] = Shelved(@, 1, 0)]
      /\ loans' = LoansOf(y) /\ reservations' = ReservationsOf(y)
      /\ UNCHANGED <<now, membership>> /\ Commit(p)
    BY <1>1 DEF ShelveCopy
<1>4. PICK rs \in ReservationTable :
          /\ rs = ReservationsOf(y)
          /\ \A b \in Books : Pending(b, rs) = Pending(b, reservations)
          /\ \A k \in ReservationIds : ~Cancels(y, k) => rs[k] = reservations[k]
    BY <1>2, CurrentIsHeld, WrittenReservations
<1>5. PromoteNext(OneCopyOf(y.book), rs)
    BY <1>2, <1>3, <1>4, OneShelved
<1>6. Next /\ LoansKept /\ \A l \in LoanIds : ~About(y, l) => loans'[l] = loans[l]
    BY <1>2, <1>3, <1>4, <1>5, ReleasedByCause
<1>7. TypeOK' /\ DatedLoans'
    BY <1>6, Applied DEF FreeNext
<1>8. \A k \in ReservationIds : ~Cancels(y, k) => reservations'[k] = reservations[k]
    BY <1>3, <1>4
<1>9. /\ ActiveKept
      /\ \A b \in Books : Pending(b, reservations)' \subseteq Pending(b, reservations)
    <2>1. \A k \in ReservationIds : Cancels(y, k) => reservations[k] # NoRow
        BY <1>2 DEF Current, NoRow
    <2> QED BY <1>2, <1>6, <1>8, <2>1, NobodyJoins, WiderSteps, NextIsFree
<1>10. ASSUME NEW q \in Others(p), NEW x \in Request, x = req[q] PROVE Spares(x)
    <2>1. Apart(y, x) /\ ~Blocks(q, p)
        BY <1>1, <1>10 DEF TxnInv, Others, ShelveCopy, Runs
    <2>2. ~LocksBook(x, y.book)
        BY <1>1, <1>2, <1>10, <2>1 DEF Blocks
    <2>3. \A b \in Books : LocksBook(x, b) => books'[b] = books[b]
        BY <1>2, <1>3, <2>2 DEF TypeOK
    <2>4. \A l \in LoanIds : About(x, l) => loans'[l] = loans[l]
        BY <1>6, <2>1 DEF Apart
    <2>5. \A k \in ReservationIds : LocksReservation(x, k) => reservations'[k] = reservations[k]
        BY <1>8, <2>1 DEF Apart, Cancels, LocksReservation
    <2> QED BY <1>2, <1>3, <1>6, <1>7, <1>9, <2>3, <2>4, <2>5, KeptIsSpared
<1> QED BY <1>3, <1>6, <1>7, <1>9, <1>10, CommitStep

-----------------------------------------------------------------------------
(* process_expired_holds.                                                  *)

\* The sweep writes the books it has copies left of, and no others.
LEMMA SweepShelves ==
    ASSUME TypeOK, SweepExpiredHolds, NEW b \in Books, ~ShelvedBySweep(b)
    PROVE  books'[b] = books[b]
<1>1. PICK rs : rs = Closed(reservations, ExpiredHolds, "EXPIRED")
    OBVIOUS
<1>2. PICK P \in SUBSET UNION {Pending(c, rs) : c \in Books} :
          /\ \A c \in Books : P \cap Pending(c, rs) \in Promotable(c, SweptCopies[c], rs)
          /\ books' = [c \in Books |->
                          Shelved(books[c], SweptCopies[c], Cardinality(P \cap Pending(c, rs)))]
    <2>1. PromoteNext(SweptCopies, rs)
        BY <1>1 DEF SweepExpiredHolds, SweptCopies
    <2> QED BY <2>1 DEF PromoteNext, MayPromote, WithPromoted, WithShelved
<1>3. Pending(b, rs) = Pending(b, reservations)
    <2>1. \A r \in ExpiredHolds : r \in ReservationIds /\ reservations[r].status = "HOLD"
        BY DEF ExpiredHolds
    <2>2. \A r \in ReservationIds : r \notin ExpiredHolds => rs[r] = reservations[r]
        BY <1>1 DEF Closed
    <2>3. \A r \in ExpiredHolds : rs[r].status = "EXPIRED"
        <3>1. ExpiredHolds \in SUBSET ReservationIds
            BY DEF ExpiredHolds
        <3> QED BY <1>1, <2>1, <3>1, ClosedRows DEF ActiveStatus, ClosedStatus
    <2> QED BY <2>1, <2>2, <2>3 DEF Pending
<1>4. PICK n, k : n = SweptCopies[b] /\ k = Cardinality(Pending(b, rs))
    OBVIOUS
<1>5. n \in Nat /\ k \in Nat /\ n <= k
    <2>1. n = Cardinality(Held(b, reservations) \cap ExpiredHolds)
        BY <1>4 DEF SweptCopies
    <2>2. Held(b, reservations) \cap ExpiredHolds \in SUBSET ReservationIds
          /\ Pending(b, rs) \in SUBSET ReservationIds
        BY DEF Held, Pending
    <2>3. n \in Nat /\ k \in Nat
        BY <1>4, <2>1, <2>2, RowSetsFinite
    <2> QED BY <1>3, <1>4, <2>1, <2>3 DEF ShelvedBySweep
<1>6. Cardinality(P \cap Pending(b, rs)) = n
    BY <1>2, <1>4, <1>5 DEF Promotable, MinOf
<1>7. Shelved(books[b], n, n) = books[b]
    BY <1>5 DEF Shelved, TypeOK, Book
<1> QED BY <1>2, <1>4, <1>6, <1>7

LEMMA SweepCommits ==
    ASSUME TxnInv, NEW p \in Requests, FinishSweep(p)
    PROVE  TxnInv' /\ Next /\ ActiveKept
<1>1. SweepExpiredHolds /\ Commit(p) /\ req[p].pc = "sweep"
    BY DEF FinishSweep, Runs
<1>2. Next
    BY <1>1 DEF Next
<1>3. TypeOK /\ TypeOK' /\ DatedLoans'
    BY <1>2, Applied DEF FreeNext
<1>4. UNCHANGED <<now, loans, membership>>
    BY <1>1 DEF SweepExpiredHolds
<1>5. LoansKept
    BY <1>3, <1>4, SameLoansKept
<1>6. /\ ActiveKept
      /\ \A b \in Books : Pending(b, reservations)' \subseteq Pending(b, reservations)
    <2>1. ExpiredHolds \in SUBSET ReservationIds /\ \A r \in ExpiredHolds : reservations[r].status = "HOLD"
        BY DEF ExpiredHolds
    <2>2. Releases(SweptCopies, ExpiredHolds, "EXPIRED") /\ "EXPIRED" \in ClosedStatus
        BY <1>1, <2>1 DEF SweepExpiredHolds, Releases, SweptCopies, ClosedStatus
    <2>3. ASSUME NEW r \in ReservationIds, reservations[r] = NoRow
          PROVE  reservations'[r] = NoRow
        <3>1. r \notin ExpiredHolds /\ reservations[r].status # "PENDING"
            BY <2>1, <2>3 DEF NoRow
        <3> QED BY <1>3, <2>1, <2>2, <2>3, <3>1, ReleasedRows, SweptCopiesReleased
    <2> QED BY <1>2, <1>3, <2>3, NobodyJoins, WiderSteps, NextIsFree
<1>7. ASSUME NEW q \in Others(p), NEW x \in Request, x = req[q] PROVE Spares(x)
    <2>1. Apart(req[p], x) /\ ~Blocks(q, p)
        BY <1>7 DEF TxnInv, Others, FinishSweep, Runs
    <2>2. \A b \in Books : LocksBook(x, b) => ~ShelvedBySweep(b)
        BY <1>1, <1>7, <2>1 DEF Blocks
    <2>3. \A b \in Books : LocksBook(x, b) => books'[b] = books[b]
        BY <1>1, <1>3, <2>2, SweepShelves
    <2>4. \A r \in ReservationIds : ~LocksReservation(x, r)
        BY <1>1, <2>1 DEF Apart, LocksReservation
    <2> QED BY <1>3, <1>4, <1>5, <1>6, <2>3, <2>4, KeptIsSpared
<1> QED BY <1>1, <1>2, <1>3, <1>6, <1>7, CommitStep

-----------------------------------------------------------------------------
(* Operations on one row, and the clock.                                   *)

LEMMA CancelCommits ==
    ASSUME TxnInv, NEW r \in ReservationIds, CancelWaiting(r)
    PROVE  TxnInv' /\ Next /\ ActiveKept
<1>1. CancelPending(r) /\ UNCHANGED req
    BY DEF CancelWaiting
<1>2. Next
    BY <1>1 DEF Next
<1>3. TypeOK /\ TypeOK' /\ DatedLoans'
    BY <1>2, Applied DEF FreeNext
<1>4. UNCHANGED <<now, books, loans, membership>>
    BY <1>1 DEF CancelPending
<1>5. \A k \in ReservationIds : k # r => reservations'[k] = reservations[k]
    BY <1>1 DEF CancelPending, Closed
<1>6. /\ ActiveKept
      /\ \A b \in Books : Pending(b, reservations)' \subseteq Pending(b, reservations)
    <2>1. reservations[r] # NoRow
        BY <1>1 DEF CancelPending, NoRow
    <2> QED BY <1>2, <1>3, <1>5, <2>1, NobodyJoins, WiderSteps, NextIsFree
<1>7. LoansKept
    BY <1>3, <1>4, SameLoansKept
<1>8. ASSUME NEW q \in Requests, NEW x \in Request, x = req[q] PROVE Spares(x)
    <2>1. \A k \in ReservationIds : LocksReservation(x, k) => reservations'[k] = reservations[k]
        BY <1>5, <1>8 DEF CancelWaiting
    <2> QED BY <1>3, <1>4, <1>6, <1>7, <2>1, KeptIsSpared
<1> QED BY <1>1, <1>2, <1>3, <1>6, <1>8, OutsideStep

LEMMA BookCommits ==
    ASSUME TxnInv, NEW b \in Books, WriteBook(b)
    PROVE  TxnInv' /\ Next /\ ActiveKept
<1>1. /\ (\E n \in 0..MaxCopies : CreateBook(b, n) \/ UpdateBook(b, n)) \/ DeleteBook(b)
      /\ UNCHANGED req
    BY DEF WriteBook
<1>2. Next
    BY <1>1 DEF Next
<1>3. TypeOK /\ TypeOK' /\ DatedLoans'
    BY <1>2, Applied DEF FreeNext
<1>4. /\ UNCHANGED <<now, loans, reservations, membership>>
      /\ \A c \in Books : c # b => books'[c] = books[c]
    BY <1>1, <1>3 DEF CreateBook, UpdateBook, DeleteBook, TypeOK
<1>5. ActiveKept /\ \A c \in Books : Pending(c, reservations)' \subseteq Pending(c, reservations)
    BY <1>4 DEF ActiveKept, Pending
<1>6. LoansKept
    BY <1>3, <1>4, SameLoansKept
<1>7. ASSUME NEW q \in Requests, NEW x \in Request, x = req[q] PROVE Spares(x)
    <2>1. \A c \in Books : LocksBook(x, c) => books'[c] = books[c]
        BY <1>4, <1>7 DEF WriteBook
    <2> QED BY <1>3, <1>4, <1>5, <1>6, <2>1, KeptIsSpared
<1> QED BY <1>1, <1>2, <1>3, <1>5, <1>7, OutsideStep

LEMMA ClockCommits ==
    ASSUME TxnInv, QuietTick
    PROVE  TxnInv' /\ Next /\ ActiveKept
<1>1. Next
    BY DEF QuietTick, Next
<1>2. TypeOK' /\ DatedLoans'
    BY <1>1, Applied DEF FreeNext
<1>3. \A q \in Requests : req[q] = Idle /\ req'[q] = Idle
    BY DEF QuietTick, Quiet
<1>4. Checked(Idle)' /\ Current(Idle)'
    BY DEF Idle, Checked, Current, About, Cancels, LocksLoan
<1>5. ASSUME NEW q \in Requests PROVE (Checked(req[q]) /\ Current(req[q]))'
    <2>1. PICK x : x = Idle /\ x = req'[q]
        BY <1>3
    <2>2. Checked(x)' /\ Current(x)'
        BY <1>4, <2>1
    <2> QED BY <2>1, <2>2
<1>6. req' = req
    BY DEF QuietTick
<1>7. \A q, s \in Requests : q # s => Apart(req[q], req[s])'
    BY <1>6 DEF TxnInv, Apart
<1>8. TxnTypeOK'
    BY <1>2, <1>6 DEF TxnInv, TxnTypeOK
<1>9. ActiveKept
    BY DEF QuietTick, Tick, ActiveKept
<1> QED BY <1>1, <1>2, <1>5, <1>7, <1>8, <1>9 DEF TxnInv

-----------------------------------------------------------------------------
(* Every step.                                                             *)

LEMMA TxnStart == TxnInit => TxnInv
<1> SUFFICES ASSUME TxnInit PROVE TxnInv
    OBVIOUS
<1>1. TypeOK
    BY TypeInit DEF TxnInit
<1>2. req \in [Requests -> Request] /\ \A p \in Requests : req[p] = Idle
    BY IdleFacts DEF TxnInit
<1>3. DatedLoans
    BY DEF TxnInit, Init, DatedLoans, NoRow
<1> QED BY <1>1, <1>2, <1>3, IdleFacts DEF TxnInv, TxnTypeOK

\* The invariant lasts, and the tables change as by one operation or not at all.
LEMMA TxnStep ==
    ASSUME LoanOverlap = FALSE, TxnInv, [TxnNext]_txnVars
    PROVE  /\ TxnInv'
           /\ \/ UNCHANGED tables
              \/ Next /\ ActiveKept
              \/ FreeNext /\ \E p \in Requests, r \in ReservationIds : FinishPlace(p, r)
<1>1. ASSUME NEW p \in Requests, NEW m \in Members, NEW b \in Books,
             StartBorrow(p, m, b) \/ StartPlace(p, m, b)
      PROVE  TxnInv' /\ UNCHANGED tables
    BY <1>1, BorrowStarts, PlaceStarts DEF StartBorrow, StartPlace
<1>2. ASSUME NEW p \in Requests, NEW l \in LoanIds, StartReturn(p, l) \/ StartRenew(p, l)
      PROVE  TxnInv' /\ UNCHANGED tables
    BY <1>2, ReturnStarts, RenewStarts DEF StartReturn, StartRenew
<1>3. ASSUME NEW p \in Requests, NEW r \in ReservationIds, StartCancelHold(p, r)
      PROVE  TxnInv' /\ UNCHANGED tables
    BY <1>3, CancelStarts DEF StartCancelHold
<1>4. ASSUME NEW p \in Requests,
             \/ LockBorrowedBook(p) \/ LockReservingMember(p) \/ WriteReturn(p)
             \/ FindNobody(p) \/ StartSweep(p) \/ ScanRow(p) \/ Rollback(p)
      PROVE  TxnInv' /\ UNCHANGED tables
    BY <1>4, BorrowLocksBook, PlaceLocksMember, ReturnLocksLoan, PromotionFindsNobody, SweepStarts,
       SweepScans, RollbackStep
       DEF LockBorrowedBook, LockReservingMember, WriteReturn, FindNobody, StartSweep, ScanRow,
           Rollback
<1>5. ASSUME NEW p \in Requests,
             \/ \E l \in LoanIds : FinishBorrow(p, l)
             \/ FinishRenew(p) \/ PromoteOldest(p) \/ ShelveCopy(p) \/ FinishSweep(p)
      PROVE  TxnInv' /\ Next /\ ActiveKept
    BY <1>5, BorrowCommits, RenewCommits, PromotionCommits, ShelvingCommits, SweepCommits
<1>6. ASSUME NEW p \in Requests, NEW r \in ReservationIds, FinishPlace(p, r)
      PROVE  TxnInv' /\ FreeNext
    BY <1>6, PlaceCommits
<1>7. ASSUME \/ \E r \in ReservationIds : CancelWaiting(r)
             \/ \E b \in Books : WriteBook(b)
             \/ QuietTick
      PROVE  TxnInv' /\ Next /\ ActiveKept
    BY <1>7, CancelCommits, BookCommits, ClockCommits
<1>8. CASE UNCHANGED txnVars
    <2>1. UNCHANGED <<now, books, loans, reservations, membership, req>>
        BY <1>8 DEF txnVars, tables
    <2>2. TypeOK' /\ DatedLoans' /\ LoansKept /\ ActiveKept
        BY <2>1, ReqTyped, SameLoansKept DEF TxnInv, TypeOK, DatedLoans, ActiveKept
    <2>3. ASSUME NEW q \in Requests, NEW x \in Request, x = req[q] PROVE Spares(x)
        BY <2>1, <2>2, ReqTyped, KeptIsSpared DEF Pending
    <2> QED BY <1>8, <2>1, <2>2, <2>3, OutsideStep DEF txnVars
<1> QED BY <1>1, <1>2, <1>3, <1>4, <1>5, <1>6, <1>7, <1>8 DEF TxnNext

LEMMA TxnIsFree ==
    ASSUME LoanOverlap = FALSE, TxnInv, [TxnNext]_txnVars
    PROVE  TxnInv' /\ [FreeNext]_vars
BY TxnStep, NextIsFree DEF tables, vars

-----------------------------------------------------------------------------
(* The limit of reservations.                                              *)

\* What a reserving request has counted still holds.
Counted ==
    \A p \in Requests : Reserves(req[p]) =>
        Cardinality(ActiveReservations(req[p].member)) < MaxActiveReservations

\* A request that reserves did so before, or has just counted.
LEMMA WhoReserves ==
    ASSUME TxnTypeOK, [TxnNext]_txnVars, NEW q \in Requests, Reserves(req'[q])
    PROVE  \/ Reserves(req[q]) /\ req'[q].member = req[q].member
           \/ /\ UNCHANGED tables
              /\ Cardinality(ActiveReservations(req'[q].member)) < MaxActiveReservations
<1>1. ASSUME NEW p \in Requests, NEW x, Continue(p, x)
      PROVE  req'[q] = IF q = p THEN x ELSE req[q]
    BY <1>1 DEF Continue, TxnTypeOK
<1>2. CASE req'[q] = req[q]
    BY <1>2
<1>3. ASSUME NEW p \in Requests, Commit(p)
      PROVE  req'[q] = req[q]
    BY <1>1, <1>3 DEF Commit, Idle, Reserves
<1>4. ASSUME NEW p \in Requests, NEW m \in Members, NEW b \in Books, StartPlace(p, m, b),
             req'[q] # req[q]
      PROVE  /\ UNCHANGED tables
             /\ Cardinality(ActiveReservations(req'[q].member)) < MaxActiveReservations
    <2>1. req'[q].member = m
        BY <1>1, <1>4 DEF StartPlace
    <2> QED BY <1>4, <2>1 DEF StartPlace, MayReserve
<1>5. ASSUME NEW p \in Requests, LockReservingMember(p), req'[q] # req[q]
      PROVE  Reserves(req[q]) /\ req'[q].member = req[q].member
    <2>1. q = p /\ req'[q] = [req[q] EXCEPT !.pc = "place_insert"]
        BY <1>1, <1>5 DEF LockReservingMember
    <2>2. req[q].pc = "place_member" /\ req[q] \in Request
        BY <1>5, <2>1 DEF LockReservingMember, Runs, TxnTypeOK
    <2> QED BY <2>1, <2>2 DEF Reserves, Request, Idle
<1>6. ASSUME NEW p \in Requests,
             \/ \E m \in Members, b \in Books : StartBorrow(p, m, b)
             \/ \E l \in LoanIds : StartReturn(p, l) \/ StartRenew(p, l)
             \/ \E r \in ReservationIds : StartCancelHold(p, r)
             \/ LockBorrowedBook(p) \/ WriteReturn(p) \/ StartSweep(p) \/ ScanRow(p)
      PROVE  req'[q] = req[q]
    <2> DEFINE Moves == \E x : Continue(p, x) /\ x.pc \notin {"place_member", "place_insert"}
    <2>1. ASSUME NEW m \in Members, NEW b \in Books, StartBorrow(p, m, b) PROVE Moves
        BY <2>1 DEF StartBorrow
    <2>2. ASSUME NEW l \in LoanIds, StartReturn(p, l) PROVE Moves
        BY <2>2 DEF StartReturn
    <2>3. ASSUME NEW l \in LoanIds, StartRenew(p, l) PROVE Moves
        BY <2>3 DEF StartRenew
    <2>4. ASSUME NEW r \in ReservationIds, StartCancelHold(p, r) PROVE Moves
        BY <2>4 DEF StartCancelHold
    <2>5. ASSUME LockBorrowedBook(p) PROVE Moves
        BY <2>5 DEF LockBorrowedBook
    <2>6. ASSUME WriteReturn(p) PROVE Moves
        BY <2>6 DEF WriteReturn
    <2>7. ASSUME StartSweep(p) PROVE Moves
        BY <2>7 DEF StartSweep
    <2>8. ASSUME ScanRow(p) PROVE Moves
        BY <2>8, ScanGoesOn DEF GoesOn
    <2>9. PICK x : Continue(p, x) /\ x.pc \notin {"place_member", "place_insert"}
        BY <1>6, <2>1, <2>2, <2>3, <2>4, <2>5, <2>6, <2>7, <2>8
    <2> QED BY <1>1, <2>9 DEF Reserves
<1>7. ASSUME NEW p \in Requests, FindNobody(p) PROVE req'[q] = req[q]
    <2>1. req[p].pc = "promote" /\ req[p] \in Request
        BY <1>7 DEF FindNobody, Runs, TxnTypeOK
    <2>2. q = p => req'[q].pc = "shelve"
        BY <1>1, <1>7, <2>1 DEF FindNobody, Request, Idle
    <2> QED BY <1>1, <1>7, <2>2 DEF FindNobody, Reserves
<1>8. ASSUME NEW p \in Requests,
             \/ \E l \in LoanIds : FinishBorrow(p, l)
             \/ \E r \in ReservationIds : FinishPlace(p, r)
             \/ FinishRenew(p) \/ PromoteOldest(p) \/ ShelveCopy(p) \/ FinishSweep(p) \/ Rollback(p)
      PROVE  req'[q] = req[q]
    BY <1>3, <1>8 DEF FinishBorrow, FinishPlace, FinishRenew, PromoteOldest, ShelveCopy, FinishSweep,
       Rollback
<1>9. ASSUME \/ \E r \in ReservationIds : CancelWaiting(r)
             \/ \E b \in Books : WriteBook(b)
             \/ QuietTick \/ UNCHANGED txnVars
      PROVE  req'[q] = req[q]
    BY <1>9 DEF CancelWaiting, WriteBook, QuietTick, txnVars
<1> QED BY <1>2, <1>4, <1>5, <1>6, <1>7, <1>8, <1>9 DEF TxnNext

LEMMA ActiveFewer ==
    ASSUME ActiveKept, NEW m \in Members
    PROVE  /\ Cardinality(ActiveReservations(m)) \in Nat
           /\ Cardinality(ActiveReservations(m))' \in Nat
           /\ Cardinality(ActiveReservations(m))' <= Cardinality(ActiveReservations(m))
<1>0. ActiveReservations(m)' \subseteq ActiveReservations(m)
    BY DEF ActiveReservations, ActiveKept, ActiveStatus
<1>1. PICK S, T : /\ S = ActiveReservations(m) /\ T = ActiveReservations(m)'
                  /\ S \in SUBSET ReservationIds /\ T \in SUBSET S
    BY <1>0 DEF ActiveReservations
<1>2. IsFiniteSet(S)
    BY <1>1, RowSetsFinite
<1>3. Cardinality(T) <= Cardinality(S) /\ Cardinality(T) \in Nat /\ Cardinality(S) \in Nat
    BY <1>1, <1>2, FS_Subset, FS_CardinalityType
<1> QED BY <1>1, <1>3

\* The row that joins is another member's.
LEMMA JoinedElsewhere ==
    ASSUME TypeOK, NEW p \in Requests, NEW r \in ReservationIds, FinishPlace(p, r),
           NEW m \in Members, m # req[p].member
    PROVE  ActiveReservations(m)' = ActiveReservations(m)
<1>1. /\ reservations[r] = NoRow /\ reservations'[r].member = req[p].member
      /\ \A k \in ReservationIds : k # r => reservations'[k] = reservations[k]
    BY DEF FinishPlace, NewReservation, TypeOK
<1> QED BY <1>1 DEF ActiveReservations, NoRow

LEMMA CountedStep ==
    ASSUME LoanOverlap = FALSE, TxnInv, ReservesInTurn, Counted, [TxnNext]_txnVars
    PROVE  Counted' /\ [Next]_vars
<1>0. \A q \in Requests : Reserves(req'[q]) => req'[q].member \in Members
    BY TxnStep, Fields DEF TxnInv, TxnTypeOK, Reserves
<1>1. ASSUME NEW q \in Requests, Reserves(req'[q]), NEW m \in Members, m = req'[q].member
      PROVE  Cardinality(ActiveReservations(m)') < MaxActiveReservations
    <2>2. CASE UNCHANGED tables
        <3>1. ActiveReservations(m)' = ActiveReservations(m)
            BY <2>2 DEF ActiveReservations, tables
        <3>2. Cardinality(ActiveReservations(m)) < MaxActiveReservations
            BY <1>1, WhoReserves DEF TxnInv, Counted
        <3> QED BY <3>1, <3>2
    <2>3. CASE ~UNCHANGED tables
        <3>1. Reserves(req[q]) /\ m = req[q].member
            BY <1>1, <2>3, WhoReserves DEF TxnInv
        <3>2. Cardinality(ActiveReservations(m)) < MaxActiveReservations
            BY <3>1 DEF Counted
        <3>3. CASE ActiveKept
            <4>1. /\ Cardinality(ActiveReservations(m)) \in Nat
                  /\ Cardinality(ActiveReservations(m)') \in Nat
                  /\ Cardinality(ActiveReservations(m)') <= Cardinality(ActiveReservations(m))
                BY <3>3, ActiveFewer
            <4> QED BY <3>2, <4>1, LimitsAssumption
        <3>4. ASSUME NEW p \in Requests, NEW r \in ReservationIds, FinishPlace(p, r)
              PROVE  ActiveReservations(m)' = ActiveReservations(m)
            <4>1. req[p].pc = "place_insert" /\ req'[p].pc = "idle"
                BY <3>4 DEF FinishPlace, Runs, Commit, Continue, Idle, TxnInv, TxnTypeOK
            <4>2. q # p
                BY <1>1, <4>1 DEF Reserves
            <4>3. m # req[p].member
                BY <3>1, <4>1, <4>2 DEF ReservesInTurn, Reserves
            <4> QED BY <3>4, <4>3, ReqTyped, JoinedElsewhere
        <3> QED BY <2>3, <3>2, <3>3, <3>4, TxnStep
    <2> QED BY <2>2, <2>3
<1>2. ASSUME NEW p \in Requests, NEW r \in ReservationIds, FinishPlace(p, r) PROVE Next
    <2>1. req[p] \in Request /\ req[p].pc = "place_insert" /\ Checked(req[p])
        BY <1>2, ReqTyped DEF FinishPlace, Runs, TxnInv
    <2>2. PICK m \in Members, b \in Books : m = req[p].member /\ b = req[p].book
        BY <2>1, Fields
    <2>3. MayReserve(m, b)
        BY <2>1, <2>2 DEF Checked, MayQueue, MayReserve, Counted, Reserves
    <2>4. PlaceReservation(m, b, r)
        BY <1>2, <2>1, <2>2, <2>3 DEF Checked, FinishPlace, PlaceReservation
    <2> QED BY <2>4 DEF Next
<1>3. [Next]_vars
    BY <1>2, TxnStep DEF tables, vars
<1>4. Counted'
    <2> SUFFICES ASSUME NEW q \in Requests, Reserves(req'[q])
                 PROVE  Cardinality(ActiveReservations(req[q].member))' < MaxActiveReservations
        BY DEF Counted, Reserves
    <2>1. PICK m \in Members : m = req'[q].member
        BY <1>0
    <2>2. ActiveReservations(req[q].member)' = ActiveReservations(m)'
        BY <2>1 DEF ActiveReservations
    <2> QED BY <1>1, <2>1, <2>2
<1> QED BY <1>3, <1>4

-----------------------------------------------------------------------------
(* The theorems.                                                           *)

\* The locks of borrow_book, place_reservation, promote_next_reservation and
\* process_expired_holds keep what each of them has checked until it commits.
THEOREM ChecksAlwaysLast ==
    ASSUME LoanOverlap = FALSE PROVE TxnSpec /\ []ReservesInTurn => []ChecksLast
<1>1. TxnInv /\ Counted => ChecksLast
    BY DEF TxnInv, Checked, Counted, Reserves, MayQueue, MayReserve, ChecksLast
<1>2. TxnInit => TxnInv /\ Counted
    BY TxnStart DEF TxnInit, Counted, Idle, Reserves
<1>3. (TxnInv /\ Counted) /\ ReservesInTurn /\ [TxnNext]_txnVars => (TxnInv /\ Counted)'
    BY TxnStep, CountedStep
<1> QED BY <1>1, <1>2, <1>3, PTL DEF TxnSpec

\* The services, statement by statement, implement Circulation, so that all
\* that is proved of Circulation holds of them.
THEOREM TransactionsAreAtomic ==
    ASSUME LoanOverlap = FALSE PROVE TxnSpec /\ []ReservesInTurn => AtomicOperations
<1>1. TxnInit => Init /\ TxnInv /\ Counted
    BY TxnStart DEF TxnInit, Counted, Idle, Reserves
<1>2. (TxnInv /\ Counted) /\ ReservesInTurn /\ [TxnNext]_txnVars =>
         (TxnInv /\ Counted)' /\ [Next]_vars
    BY TxnStep, CountedStep
<1> QED BY <1>1, <1>2, PTL DEF TxnSpec, AtomicOperations, Spec

\* Requests about one book reserve in turn: the lock on the book, which
\* place_reservation takes first, sees to it.
THEOREM OneBookInTurn ==
    ASSUME LoanOverlap = FALSE, \A b, c \in Books : b = c
    PROVE  TxnSpec => []ReservesInTurn
<1>1. TxnInv => ReservesInTurn
    <2> SUFFICES ASSUME TxnInv, NEW p \in Requests, NEW q \in Requests, p # q,
                        Reserves(req[p]), Reserves(req[q])
                 PROVE  FALSE
        BY DEF ReservesInTurn
    <2>1. req[p].book \in Books /\ req[q].book \in Books /\ req[p].book = req[q].book
        BY ReqTyped, Fields DEF Reserves
    <2>2. LocksBook(req[p], req[p].book) /\ LocksBook(req[q], req[p].book)
        BY <2>1 DEF Reserves, LocksBook
    <2> QED BY <2>1, <2>2 DEF TxnInv, Apart
<1>2. TxnInv /\ [TxnNext]_txnVars => TxnInv'
    BY TxnStep
<1> QED BY <1>1, <1>2, TxnStart, PTL DEF TxnSpec

-----------------------------------------------------------------------------
(* Requests about one loan that overlap.  The loan they read changes under *)
(* them; the locks keep the rest of what they rely on.                     *)

\* What a renewal has read is an earlier state of the loan that could be renewed.
Renewable(read, loan) ==
    /\ read.member = loan.member /\ read.book = loan.book /\ read.borrow_date = loan.borrow_date
    /\ read.renewal_count < MaxRenewals
    /\ read.due_date = read.borrow_date + BorrowPeriod + read.renewal_count * RenewalPeriod

\* What q relies on and nobody changes.
Secured(q) ==
    /\ q.pc = "borrow_hold" =>
          books[q.book].state = "LIVE" /\ books[q.book].available = q.available
    /\ Reserves(q) =>
          /\ books[q.book].state = "LIVE" /\ books[q.book].available <= 0
          /\ \A r \in ActiveReservations(q.member) : reservations[r].book # q.book
    /\ q.pc = "shelve" => Pending(q.book, reservations) = {}
    /\ q.pc \in {"return_loan", "renew_loan"} => loans[q.loan] # NoRow
    /\ q.pc = "renew_loan" => Renewable(q.read, loans[q.loan])
    /\ \A l \in LoanIds : LocksLoan(q, l) => loans[l] # NoRow /\ loans[l].book = q.book
    /\ StillHeld(q)

\* Two transactions never hold the same lock on a book or a reservation.
Disjoint(p, q) ==
    /\ \A b \in Books : ~(LocksBook(p, b) /\ LocksBook(q, b))
    /\ \A r \in ReservationIds : ~(LocksReservation(p, r) /\ LocksReservation(q, r))

RaceInv ==
    /\ TxnTypeOK
    /\ UnusedBooks /\ DueDateAccountsForRenewals
    /\ \A p \in Requests : Secured(req[p])
    /\ \A p, q \in Requests : p # q => Disjoint(req[p], req[q])

LEMMA RaceTyped == ASSUME RaceInv PROVE TypeOK /\ \A p \in Requests : req[p] \in Request
BY DEF RaceInv, TxnTypeOK

LEMMA NoLocks ==
    ASSUME NEW x, x.pc \in {"idle", "borrow_book", "return_loan", "renew_loan"}
    PROVE  \A q : Disjoint(x, q) /\ Disjoint(q, x)
BY DEF Disjoint, LocksBook, LocksReservation

LEMMA NothingSecured ==
    ASSUME NEW x, x.pc \in {"idle", "borrow_book", "scan", "sweep"}
    PROVE  Secured(x)
BY DEF Secured, Reserves, LocksLoan, StillHeld, Cancels

LEMMA IdleSecured == Idle \in Request /\ Secured(Idle) /\ Secured(Idle)'
<1>1. Idle.pc = "idle" /\ Idle \in Request
    BY DEF Idle, Request
<1>2. Secured(Idle)'
    BY <1>1 DEF Secured, Reserves, LocksLoan, StillHeld, Cancels, Idle
<1> QED BY <1>1, <1>2, NothingSecured

\* A step of one session that writes nothing yet.
LEMMA RaceSession ==
    ASSUME RaceInv, NEW p \in Requests, NEW next \in Request, Continue(p, next), UNCHANGED tables,
           Secured(next), \A q \in Others(p) : Disjoint(next, req[q])
    PROVE  RaceInv'
<1>1. /\ req'[p] = next /\ \A q \in Others(p) : req'[q] = req[q]
      /\ req' \in [Requests -> Request]
    BY DEF Continue, RaceInv, TxnTypeOK, Others
<1>2. UNCHANGED <<now, books, loans, reservations, membership>>
    BY DEF tables
<1>3. TypeOK' /\ UnusedBooks' /\ DueDateAccountsForRenewals'
    BY <1>2 DEF RaceInv, TxnTypeOK, TypeOK, UnusedBooks, DueDateAccountsForRenewals
<1>4. \A q \in Request : Secured(q)' = Secured(q)
    BY <1>2 DEF Secured, Pending, ActiveReservations, StillHeld
<1>5. ASSUME NEW q \in Requests PROVE Secured(req[q])'
    <2>1. PICK x \in Request : x = req'[q]
        BY <1>1
    <2>2. Secured(x)
        BY <1>1, <2>1 DEF RaceInv, Others
    <2>3. Secured(x)'
        BY <1>4, <2>2
    <2> QED BY <2>1, <2>3
<1>6. ASSUME NEW q \in Requests, NEW s \in Requests, q # s PROVE Disjoint(req'[q], req'[s])
    BY <1>1, <1>6 DEF RaceInv, Others, Disjoint
<1>7. \A q, s \in Requests : q # s => Disjoint(req[q], req[s])'
    BY <1>6 DEF Disjoint
<1> QED BY <1>1, <1>3, <1>5, <1>7 DEF RaceInv, TxnTypeOK

-----------------------------------------------------------------------------
(* Statements that only lock.                                              *)

LEMMA RaceReads ==
    ASSUME RaceInv, NEW p \in Requests, NEW l \in LoanIds, StartReturn(p, l) \/ StartRenew(p, l)
    PROVE  RaceInv'
<1>1. OnLoan(l) /\ loans[l] \in Loan /\ loans[l] # NoRow
    BY RaceTyped DEF StartReturn, StartRenew, OnLoan, TypeOK, NoRow
<1>2. CASE StartReturn(p, l)
    <2>1. PICK x : x = [pc |-> "return_loan", loan |-> l]
        OBVIOUS
    <2>2. x \in Request /\ x.pc = "return_loan" /\ x.loan = l
        BY <2>1 DEF Request
    <2>3. Continue(p, x) /\ UNCHANGED tables
        BY <1>2, <2>1 DEF StartReturn
    <2>4. Secured(x)
        BY <1>1, <2>2 DEF Secured, Reserves, LocksLoan, StillHeld, Cancels
    <2> QED BY <2>2, <2>3, <2>4, NoLocks, RaceSession
<1>3. CASE StartRenew(p, l)
    <2>1. PICK x : x = [pc |-> "renew_loan", loan |-> l, read |-> loans[l]]
        OBVIOUS
    <2>2. x \in Request /\ x.pc = "renew_loan" /\ x.loan = l /\ x.read = loans[l]
        BY <1>1, <2>1 DEF Request
    <2>3. Continue(p, x) /\ UNCHANGED tables
        BY <1>3, <2>1 DEF StartRenew
    <2>4. Renewable(loans[l], loans[l])
        BY <1>1, <1>3 DEF StartRenew, RaceInv, DueDateAccountsForRenewals, Renewable
    <2>5. Secured(x)
        BY <1>1, <2>2, <2>4 DEF Secured, Reserves, LocksLoan, StillHeld, Cancels
    <2> QED BY <2>2, <2>3, <2>5, NoLocks, RaceSession
<1> QED BY <1>2, <1>3

LEMMA RaceBorrows ==
    ASSUME RaceInv, NEW p \in Requests,
           LockBorrowedBook(p) \/ \E m \in Members, b \in Books : StartBorrow(p, m, b)
    PROVE  RaceInv'
<1>1. ASSUME NEW m \in Members, NEW b \in Books, StartBorrow(p, m, b) PROVE RaceInv'
    <2>1. PICK x : x = [pc |-> "borrow_book", member |-> m, book |-> b]
        OBVIOUS
    <2>2. x \in Request /\ x.pc = "borrow_book"
        BY <2>1 DEF Request
    <2>3. Continue(p, x) /\ UNCHANGED tables
        BY <1>1, <2>1 DEF StartBorrow
    <2> QED BY <2>2, <2>3, NoLocks, NothingSecured, RaceSession
<1>2. ASSUME LockBorrowedBook(p) PROVE RaceInv'
    <2>1. req[p] \in Request /\ req[p].pc = "borrow_book"
        BY <1>2, RaceTyped DEF LockBorrowedBook, Runs
    <2>2. PICK m \in Members, b \in Books : m = req[p].member /\ b = req[p].book
        BY <2>1, Fields
    <2>3. PICK x : x = [pc |-> "borrow_hold", member |-> m, book |-> b,
                        available |-> books[b].available]
        OBVIOUS
    <2>4. x \in Request /\ x.pc = "borrow_hold" /\ x.book = b /\ x.available = books[b].available
        BY <2>3, RaceTyped DEF Request, TypeOK, Book
    <2>5. Continue(p, x) /\ UNCHANGED tables /\ books[b].state = "LIVE"
        BY <1>2, <2>2, <2>3 DEF LockBorrowedBook
    <2>6. Secured(x)
        BY <2>4, <2>5 DEF Secured, Reserves, LocksLoan, StillHeld, Cancels
    <2>7. ASSUME NEW q \in Others(p) PROVE Disjoint(x, req[q])
        <3>1. ~LocksBook(req[q], b)
            BY <1>2, <2>1, <2>2 DEF LockBorrowedBook, Runs, Blocks
        <3> QED BY <2>4, <3>1 DEF Disjoint, LocksBook, LocksReservation
    <2> QED BY <2>4, <2>5, <2>6, <2>7, RaceSession
<1> QED BY <1>1, <1>2

LEMMA RaceReserves ==
    ASSUME RaceInv, NEW p \in Requests,
           LockReservingMember(p) \/ \E m \in Members, b \in Books : StartPlace(p, m, b)
    PROVE  RaceInv'
<1>1. ASSUME NEW m \in Members, NEW b \in Books, StartPlace(p, m, b) PROVE RaceInv'
    <2>1. PICK x : x = [pc |-> "place_member", member |-> m, book |-> b]
        OBVIOUS
    <2>2. x \in Request /\ x.pc = "place_member" /\ x.member = m /\ x.book = b
        BY <2>1 DEF Request
    <2>3. Continue(p, x) /\ UNCHANGED tables
        BY <1>1, <2>1 DEF StartPlace
    <2>4. Secured(x)
        BY <1>1, <2>2 DEF StartPlace, MayReserve, Secured, Reserves, LocksLoan, StillHeld, Cancels
    <2>5. ASSUME NEW q \in Others(p) PROVE Disjoint(x, req[q])
        <3>1. ~LocksBook(req[q], b)
            BY <1>1 DEF StartPlace
        <3> QED BY <2>2, <3>1 DEF Disjoint, LocksBook, LocksReservation
    <2> QED BY <2>2, <2>3, <2>4, <2>5, RaceSession
<1>2. ASSUME LockReservingMember(p) PROVE RaceInv'
    <2>1. req[p] \in Request /\ req[p].pc = "place_member" /\ Secured(req[p])
        BY <1>2, RaceTyped DEF LockReservingMember, Runs, RaceInv
    <2>2. PICK x : x = [req[p] EXCEPT !.pc = "place_insert"]
        OBVIOUS
    <2>3. /\ x \in Request /\ x.pc = "place_insert"
          /\ x.member = req[p].member /\ x.book = req[p].book
        BY <2>1, <2>2 DEF Request, Idle
    <2>4. Continue(p, x) /\ UNCHANGED tables
        BY <1>2, <2>2 DEF LockReservingMember
    <2>5. Secured(x)
        BY <2>1, <2>3 DEF Secured, Reserves, LocksLoan, StillHeld, Cancels
    <2>6. ASSUME NEW q \in Others(p) PROVE Disjoint(x, req[q])
        <3>1. Disjoint(req[p], req[q])
            BY DEF RaceInv, Others
        <3> QED BY <2>1, <2>3, <3>1 DEF Disjoint, LocksBook, LocksReservation
    <2> QED BY <2>3, <2>4, <2>5, <2>6, RaceSession
<1> QED BY <1>1, <1>2

LEMMA RaceReleases ==
    ASSUME RaceInv, NEW p \in Requests, WriteReturn(p) \/ FindNobody(p)
    PROVE  RaceInv'
<1>1. ASSUME WriteReturn(p) PROVE RaceInv'
    <2>1. req[p] \in Request /\ req[p].pc = "return_loan" /\ Secured(req[p])
        BY <1>1, RaceTyped DEF WriteReturn, Runs, RaceInv
    <2>2. PICK l \in LoanIds : l = req[p].loan
        BY <2>1, Fields
    <2>3. loans[l] # NoRow /\ loans[l] \in Loan
        BY <2>1, <2>2, RaceTyped DEF Secured, TypeOK
    <2>4. PICK x : x = [pc |-> "promote", book |-> loans[l].book, cause |-> <<"return", l>>]
        OBVIOUS
    <2>5. x \in Request /\ x.pc = "promote" /\ x.book = loans[l].book /\ x.cause = <<"return", l>>
        BY <2>3, <2>4 DEF Request, Causes, Loan
    <2>6. \A r \in ReservationIds : x.cause # <<"cancel", r>>
        BY <2>5
    <2>7. \A k \in LoanIds : x.cause = <<"return", k>> => k = l
        BY <2>5
    <2>8. Continue(p, x) /\ UNCHANGED tables
        BY <1>1, <2>2, <2>4 DEF WriteReturn
    <2>9. Secured(x)
        BY <2>3, <2>5, <2>6, <2>7 DEF Secured, Reserves, LocksLoan, StillHeld, Cancels
    <2>10. \A q : Disjoint(x, q)
        BY <2>5, <2>6 DEF Disjoint, LocksBook, LocksReservation
    <2> QED BY <2>5, <2>8, <2>9, <2>10, RaceSession
<1>2. ASSUME FindNobody(p) PROVE RaceInv'
    <2>1. req[p] \in Request /\ req[p].pc = "promote" /\ Secured(req[p])
        BY <1>2, RaceTyped DEF FindNobody, Runs, RaceInv
    <2>2. PICK x : x = [req[p] EXCEPT !.pc = "shelve"]
        OBVIOUS
    <2>3. x \in Request /\ x.pc = "shelve" /\ x.book = req[p].book /\ x.cause = req[p].cause
        BY <2>1, <2>2 DEF Request, Idle
    <2>4. Continue(p, x) /\ UNCHANGED tables /\ Pending(x.book, reservations) = {}
        BY <1>2, <2>2, <2>3 DEF FindNobody
    <2>5. Secured(x)
        BY <2>1, <2>3, <2>4 DEF Secured, Reserves, LocksLoan, StillHeld, Cancels
    <2>6. ASSUME NEW q \in Others(p) PROVE Disjoint(x, req[q])
        <3>1. Disjoint(req[p], req[q])
            BY DEF RaceInv, Others
        <3> QED BY <2>1, <2>3, <3>1 DEF Disjoint, LocksBook, LocksReservation
    <2> QED BY <2>3, <2>4, <2>5, <2>6, RaceSession
<1> QED BY <1>1, <1>2

LEMMA RaceCancels ==
    ASSUME RaceInv, NEW p \in Requests, NEW r \in ReservationIds, StartCancelHold(p, r)
    PROVE  RaceInv'
<1>1. reservations[r].status = "HOLD" /\ reservations[r] \in Reservation
    BY RaceTyped DEF StartCancelHold, TypeOK, NoRow
<1>2. PICK x : x = [pc |-> "promote", book |-> reservations[r].book, cause |-> <<"cancel", r>>]
    OBVIOUS
<1>3. x \in Request /\ x.pc = "promote" /\ x.book = reservations[r].book
      /\ x.cause = <<"cancel", r>>
    BY <1>1, <1>2 DEF Request, Causes, Reservation
<1>4. \A l \in LoanIds : x.cause # <<"return", l>>
    BY <1>3
<1>5. \A s \in ReservationIds : x.cause = <<"cancel", s>> => s = r
    BY <1>3
<1>6. Continue(p, x) /\ UNCHANGED tables
    BY <1>2 DEF StartCancelHold
<1>7. Secured(x)
    BY <1>1, <1>3, <1>4, <1>5 DEF Secured, Reserves, LocksLoan, StillHeld, Cancels
<1>8. ASSUME NEW q \in Others(p) PROVE Disjoint(x, req[q])
    <2>1. ~LocksReservation(req[q], r)
        BY DEF StartCancelHold
    <2> QED BY <1>3, <1>5, <2>1 DEF Disjoint, LocksBook, LocksReservation
<1> QED BY <1>3, <1>6, <1>7, <1>8, RaceSession

LEMMA RaceSweeps ==
    ASSUME RaceInv, NEW p \in Requests, StartSweep(p)
    PROVE  RaceInv'
<1>1. PICK r \in ReservationIds : Continue(p, [pc |-> "scan", locked |-> {}, next |-> r])
    BY DEF StartSweep
<1>2. PICK x : x = [pc |-> "scan", locked |-> {}, next |-> r]
    OBVIOUS
<1>3. x \in Request /\ x.pc = "scan" /\ x.locked = {}
    BY <1>2 DEF Request
<1>4. Continue(p, x) /\ UNCHANGED tables
    BY <1>1, <1>2 DEF StartSweep
<1>5. ASSUME NEW q \in Others(p) PROVE Disjoint(x, req[q])
    BY <1>3 DEF Disjoint, LocksBook, LocksReservation
<1> QED BY <1>3, <1>4, <1>5, NothingSecured, RaceSession

LEMMA RaceScans ==
    ASSUME RaceInv, NEW p \in Requests, ScanRow(p)
    PROVE  RaceInv'
<1>1. PICK x : GoesOn(p, x)
    BY ScanGoesOn DEF RaceInv
<1>2. \A q \in Others(p) : ~LocksReservation(req[q], req[p].next)
    BY ScanGoesOn DEF RaceInv
<1>3. ASSUME NEW q \in Others(p) PROVE Disjoint(x, req[q])
    <2>1. \A r \in ReservationIds : ~(LocksReservation(req[p], r) /\ LocksReservation(req[q], r))
        BY DEF RaceInv, Disjoint, Others
    <2>2. \A r \in ReservationIds : ~(LocksReservation(x, r) /\ LocksReservation(req[q], r))
        BY <1>1, <1>2, <2>1 DEF GoesOn
    <2> QED BY <1>1, <2>2 DEF GoesOn, Disjoint, LocksBook
<1> QED BY <1>1, <1>3, NothingSecured, RaceSession DEF GoesOn

LEMMA RaceRollback ==
    ASSUME RaceInv, NEW p \in Requests, Rollback(p)
    PROVE  RaceInv'
<1>1. Continue(p, Idle) /\ UNCHANGED tables
    BY DEF Rollback, Commit
<1>2. Idle.pc = "idle"
    BY DEF Idle
<1> QED BY <1>1, <1>2, IdleSecured, NoLocks, RaceSession

-----------------------------------------------------------------------------
(* Commits of overlapping requests.                                        *)

\* Loans stay whose they are.
LoansStay ==
    \A l \in LoanIds : loans[l] # NoRow =>
        /\ loans'[l] # NoRow
        /\ loans'[l].member = loans[l].member /\ loans'[l].book = loans[l].book
        /\ loans'[l].borrow_date = loans[l].borrow_date

\* What the step of somebody else leaves as q relies on it.
Leaves(q) ==
    /\ \A b \in Books : LocksBook(q, b) => books'[b] = books[b]
    /\ Reserves(q) => \A r \in ActiveReservations(q.member)' : reservations'[r].book # q.book
    /\ q.pc = "shelve" => Pending(q.book, reservations)' \subseteq Pending(q.book, reservations)
    /\ \A r \in ReservationIds : Cancels(q, r) => reservations'[r] = reservations[r]

LEMMA LeftSecured ==
    ASSUME NEW q \in Request, Secured(q), Leaves(q), LoansStay
    PROVE  Secured(q)'
<1>1. q.pc = "borrow_hold" \/ Reserves(q) => books'[q.book] = books[q.book]
    <2>1. q.pc = "borrow_hold" \/ Reserves(q) => q.book \in Books /\ LocksBook(q, q.book)
        BY Fields DEF Reserves, LocksBook
    <2> QED BY <2>1 DEF Leaves
<1>2. Reserves(q) => \A r \in ActiveReservations(q.member)' : reservations'[r].book # q.book
    BY DEF Leaves
<1>3. q.pc = "shelve" => Pending(q.book, reservations)' = {}
    BY DEF Leaves, Secured
<1>4. q.pc \in {"return_loan", "renew_loan"} => loans'[q.loan] # NoRow
    BY Fields DEF Secured, LoansStay
<1>5. q.pc = "renew_loan" => Renewable(q.read, loans'[q.loan])
    <2> SUFFICES ASSUME q.pc = "renew_loan" PROVE Renewable(q.read, loans'[q.loan])
        OBVIOUS
    <2>1. q.loan \in LoanIds /\ loans[q.loan] # NoRow /\ Renewable(q.read, loans[q.loan])
        BY Fields DEF Secured
    <2> QED BY <2>1 DEF LoansStay, Renewable
<1>6. \A l \in LoanIds : LocksLoan(q, l) => loans'[l] # NoRow /\ loans'[l].book = q.book
    BY DEF Secured, LoansStay
<1>7. \A r \in ReservationIds : Cancels(q, r) =>
         reservations'[r].status = "HOLD" /\ reservations'[r].book = q.book
    BY DEF Leaves, Secured, StillHeld
<1>8. StillHeld(q)'
    BY <1>7 DEF StillHeld, Cancels
<1>9. Renewable(q.read, loans[q.loan])' = Renewable(q.read, loans'[q.loan])
    BY DEF Renewable
<1> QED BY <1>1, <1>2, <1>3, <1>4, <1>5, <1>6, <1>8, <1>9 DEF Secured, Reserves, LocksLoan

\* The commit of p.
LEMMA RaceCommit ==
    ASSUME RaceInv, NEW p \in Requests, Commit(p),
           TypeOK', UnusedBooks', DueDateAccountsForRenewals', LoansStay,
           \A q \in Others(p) : \A x \in Request : x = req[q] => Leaves(x)
    PROVE  RaceInv'
<1>1. /\ req'[p] = Idle /\ \A q \in Others(p) : req'[q] = req[q]
      /\ req' \in [Requests -> Request]
    BY IdleFacts DEF Commit, Continue, RaceInv, TxnTypeOK, Others
<1>2. ASSUME NEW q \in Requests PROVE Secured(req[q])'
    <2>1. PICK x \in Request : x = req'[q]
        BY <1>1
    <2>2. Secured(x)'
        <3>1. CASE q = p
            <4>1. x = Idle
                BY <1>1, <2>1, <3>1
            <4> QED BY <4>1, IdleSecured
        <3>2. CASE q \in Others(p)
            <4>1. x = req[q]
                BY <1>1, <2>1, <3>2
            <4>2. Secured(x) /\ Leaves(x)
                BY <3>2, <4>1 DEF RaceInv, Others
            <4> QED BY <4>2, LeftSecured
        <3> QED BY <3>1, <3>2 DEF Others
    <2> QED BY <2>1, <2>2
<1>3. \A q : Disjoint(Idle, q) /\ Disjoint(q, Idle)
    BY NoLocks DEF Idle
<1>4. ASSUME NEW q \in Requests, NEW s \in Requests, q # s PROVE Disjoint(req'[q], req'[s])
    BY <1>1, <1>3, <1>4 DEF RaceInv, Others
<1>5. \A q, s \in Requests : q # s => Disjoint(req[q], req[s])'
    BY <1>4 DEF Disjoint
<1> QED BY <1>1, <1>2, <1>5 DEF RaceInv, TxnTypeOK

\* A step of no session.
LEMMA RaceOutside ==
    ASSUME RaceInv, UNCHANGED req,
           TypeOK', UnusedBooks', DueDateAccountsForRenewals', LoansStay,
           \A q \in Requests : \A x \in Request : x = req[q] => Leaves(x)
    PROVE  RaceInv'
<1>1. ASSUME NEW q \in Requests PROVE Secured(req[q])'
    <2>1. PICK x \in Request : x = req[q] /\ x = req'[q]
        BY DEF RaceInv, TxnTypeOK
    <2>2. Secured(x) /\ Leaves(x)
        BY <2>1 DEF RaceInv
    <2>3. Secured(x)'
        BY <2>2, LeftSecured
    <2> QED BY <2>1, <2>3
<1>2. \A q, s \in Requests : q # s => Disjoint(req[q], req[s])'
    BY DEF RaceInv, Disjoint
<1> QED BY <1>1, <1>2 DEF RaceInv, TxnTypeOK

\* A step that places no reservation and keeps the rows that x has locked.
LEMMA ClosingLeaves ==
    ASSUME NEW x \in Request, Secured(x), ActiveKept,
           \A b \in Books : Pending(b, reservations)' \subseteq Pending(b, reservations),
           \A b \in Books : LocksBook(x, b) => books'[b] = books[b],
           \A r \in ReservationIds : Cancels(x, r) => reservations'[r] = reservations[r]
    PROVE  Leaves(x)
<1>1. ASSUME Reserves(x), NEW r \in ActiveReservations(x.member)'
      PROVE  reservations'[r].book # x.book
    <2>1. r \in ActiveReservations(x.member) /\ reservations'[r].book = reservations[r].book
        BY DEF ActiveReservations, ActiveKept, ActiveStatus
    <2> QED BY <1>1, <2>1 DEF Secured
<1>2. x.pc = "shelve" => Pending(x.book, reservations)' \subseteq Pending(x.book, reservations)
    BY Fields
<1> QED BY <1>1, <1>2 DEF Leaves

\* What holds of the tables when one operation is applied to them.
LEMMA RacyApplied ==
    ASSUME RaceInv, RacyNext
    PROVE  TypeOK /\ TypeOK' /\ UnusedBooks'
BY TypeStep, UnusedStep, RaceTyped DEF RaceInv

LEMMA SameLoansStay ==
    ASSUME RaceInv, loans' = loans
    PROVE  LoansStay /\ DueDateAccountsForRenewals'
BY DEF LoansStay, RaceInv, DueDateAccountsForRenewals


\* One loan changes, and stays whose it is.
LEMMA OneLoanChanges ==
    ASSUME RaceInv, NEW l \in LoanIds,
           \A k \in LoanIds : k # l => loans'[k] = loans[k],
           loans'[l] \in Loan,
           loans[l] # NoRow =>
              /\ loans'[l].member = loans[l].member /\ loans'[l].book = loans[l].book
              /\ loans'[l].borrow_date = loans[l].borrow_date,
           loans'[l].renewal_count <= MaxRenewals,
           loans'[l].due_date = loans'[l].borrow_date + BorrowPeriod
                                  + loans'[l].renewal_count * RenewalPeriod
    PROVE  LoansStay /\ DueDateAccountsForRenewals'
<1>1. loans'[l] # NoRow
    BY DEF Loan, NoRow
<1>2. LoansStay
    BY <1>1 DEF LoansStay
<1>3. DueDateAccountsForRenewals'
    <2> SUFFICES ASSUME NEW k \in LoanIds, loans'[k] # NoRow
                 PROVE  /\ loans'[k].renewal_count <= MaxRenewals
                        /\ loans'[k].due_date = loans'[k].borrow_date + BorrowPeriod
                                                  + loans'[k].renewal_count * RenewalPeriod
        BY DEF DueDateAccountsForRenewals
    <2>1. CASE k = l
        BY <2>1
    <2>2. CASE k # l
        BY <2>2 DEF RaceInv, DueDateAccountsForRenewals
    <2> QED BY <2>1, <2>2
<1> QED BY <1>2, <1>3

LEMMA RaceBorrowCommits ==
    ASSUME RaceInv, NEW p \in Requests, NEW l \in LoanIds, FinishBorrow(p, l)
    PROVE  RaceInv' /\ RacyNext /\ ActiveKept
<1>1. PICK y \in Request : y = req[p]
    BY RaceTyped
<1>2. y.pc = "borrow_hold" /\ Secured(y)
    BY <1>1 DEF FinishBorrow, Runs, RaceInv
<1>3. PICK m \in Members, b \in Books : m = y.member /\ b = y.book
    BY <1>2, Fields
<1>4. Lend(m, b, l)
    <2>1. books[b].state = "LIVE" /\ books[b].available = y.available
        BY <1>2, <1>3 DEF Secured
    <2>2. TakeReadCopy(m, b, books[b].available)
        BY <1>1, <1>3, <2>1 DEF FinishBorrow
    <2>3. TakeCopy(m, b)
        BY <2>2 DEF TakeReadCopy, TakeCopy, OnShelf
    <2> QED BY <1>1, <1>3, <2>1, <2>3 DEF FinishBorrow, Lend
<1>5. RacyNext
    BY <1>4 DEF RacyNext
<1>6. TypeOK /\ TypeOK' /\ UnusedBooks'
    BY <1>5, RacyApplied
<1>7. \/ reservations' = reservations /\ \A c \in Books : c # b => books'[c] = books[c]
      \/ reservations' = Closed(reservations, Held(b, reservations), "COMPLETED") /\ books' = books
    BY <1>4, <1>6 DEF Lend, TakeCopy, TypeOK
<1>8. \A r \in ReservationIds : r \notin Held(b, reservations) => reservations'[r] = reservations[r]
    BY <1>7 DEF Closed
<1>9. /\ ActiveKept
      /\ \A c \in Books : Pending(c, reservations)' \subseteq Pending(c, reservations)
    <2>1. \A r \in ReservationIds : reservations[r] = NoRow => reservations'[r] = NoRow
        BY <1>8 DEF Held, NoRow
    <2> QED BY <1>5, <1>6, <2>1, NobodyJoins
<1>10. LoansStay /\ DueDateAccountsForRenewals'
    <2>1. /\ loans[l] = NoRow /\ loans'[l] = NewLoan(m, b)
          /\ \A k \in LoanIds : k # l => loans'[k] = loans[k]
        BY <1>4, <1>6 DEF Lend, TypeOK
    <2>2. NewLoan(m, b) # NoRow
        BY DEF NewLoan, NoRow
    <2>3. loans'[l] \in Loan
        BY <1>6, <2>1, <2>2 DEF TypeOK
    <2>4. /\ loans'[l].renewal_count = 0 /\ loans'[l].borrow_date = now
          /\ loans'[l].due_date = now + BorrowPeriod
        BY <2>1 DEF NewLoan
    <2>5. 0 <= MaxRenewals /\ now + BorrowPeriod = now + BorrowPeriod + 0 * RenewalPeriod
        BY <1>6, PeriodsAssumption, LimitsAssumption DEF TypeOK, Times
    <2> QED BY <2>1, <2>3, <2>4, <2>5, OneLoanChanges
<1>11. ASSUME NEW q \in Others(p), NEW x \in Request, x = req[q] PROVE Leaves(x)
    <2>1. Secured(x) /\ Disjoint(y, x) /\ ~Blocks(q, p)
        BY <1>1, <1>11 DEF RaceInv, Others, FinishBorrow, Runs
    <2>2. \A c \in Books : LocksBook(x, c) => books'[c] = books[c]
        BY <1>2, <1>3, <1>7, <2>1 DEF Disjoint, LocksBook
    <2>3. \A r \in ReservationIds : Cancels(x, r) => reservations'[r] = reservations[r]
        BY <1>1, <1>2, <1>3, <1>8, <1>11, <2>1 DEF Blocks, Cancels, LocksReservation
    <2> QED BY <1>9, <2>1, <2>2, <2>3, ClosingLeaves
<1>12. Commit(p)
    BY DEF FinishBorrow
<1> QED BY <1>5, <1>6, <1>9, <1>10, <1>11, <1>12, RaceCommit

LEMMA RacePlaceCommits ==
    ASSUME RaceInv, NEW p \in Requests, NEW r \in ReservationIds, FinishPlace(p, r)
    PROVE  RaceInv' /\ RacyNext
<1>1. PICK y \in Request : y = req[p]
    BY RaceTyped
<1>2. y.pc = "place_insert" /\ Secured(y)
    BY <1>1 DEF FinishPlace, Runs, RaceInv
<1>3. PICK m \in Members, b \in Books : m = y.member /\ b = y.book
    BY <1>2, Fields
<1>4. Enqueue(m, b, r)
    BY <1>1, <1>2, <1>3 DEF Secured, Reserves, FinishPlace, Enqueue
<1>5. RacyNext
    BY <1>4 DEF RacyNext
<1>6. TypeOK /\ TypeOK' /\ UnusedBooks'
    BY <1>5, RacyApplied
<1>7. UNCHANGED <<now, books, loans, membership>>
    BY <1>4 DEF Enqueue
<1>8. /\ reservations[r] = NoRow /\ reservations'[r].member = m /\ reservations'[r].book = b
      /\ \A k \in ReservationIds : k # r => reservations'[k] = reservations[k]
    BY <1>4, <1>6 DEF Enqueue, TypeOK, NewReservation
<1>9. ASSUME NEW q \in Others(p), NEW x \in Request, x = req[q] PROVE Leaves(x)
    <2>1. Secured(x) /\ Disjoint(y, x) /\ ~Blocks(q, p)
        BY <1>1, <1>9 DEF RaceInv, Others, FinishPlace, Runs
    <2>2. ASSUME Reserves(x)
          PROVE  \A k \in ActiveReservations(x.member)' : reservations'[k].book # x.book
        <3>1. x.book # b
            BY <1>2, <1>3, <2>1, <2>2 DEF Reserves, Disjoint, LocksBook
        <3> QED BY <1>8, <2>1, <2>2, <3>1 DEF ActiveReservations, Secured
    <2>3. ASSUME x.pc = "shelve"
          PROVE  Pending(x.book, reservations)' \subseteq Pending(x.book, reservations)
        <3>1. x.book # b
            BY <1>1, <1>2, <1>3, <1>9, <2>1, <2>3 DEF Blocks, LocksQueue
        <3> QED BY <1>8, <3>1 DEF Pending
    <2>4. \A k \in ReservationIds : Cancels(x, k) => reservations'[k] = reservations[k]
        BY <1>8, <2>1 DEF Secured, StillHeld, NoRow
    <2> QED BY <1>7, <2>2, <2>3, <2>4 DEF Leaves
<1>10. LoansStay /\ DueDateAccountsForRenewals'
    BY <1>7, SameLoansStay
<1>11. Commit(p)
    BY DEF FinishPlace
<1> QED BY <1>5, <1>6, <1>9, <1>10, <1>11, RaceCommit

LEMMA RaceRenewCommits ==
    ASSUME RaceInv, NEW p \in Requests, FinishRenew(p)
    PROVE  RaceInv' /\ RacyNext /\ ActiveKept
<1>1. PICK y \in Request : y = req[p]
    BY RaceTyped
<1>2. y.pc = "renew_loan" /\ Secured(y)
    BY <1>1 DEF FinishRenew, Runs, RaceInv
<1>3. PICK l \in LoanIds, read \in Loan : l = y.loan /\ read = y.read
    BY <1>2, Fields
<1>4. loans[l] # NoRow /\ loans[l] \in Loan /\ Renewable(read, loans[l])
    BY <1>2, <1>3, RaceTyped DEF Secured, TypeOK
<1>5. PICK status \in {"BORROWED", "RENEWED", "RETURNED"} :
          status = IF read.status = "RENEWED" THEN loans[l].status ELSE "RENEWED"
    BY <1>4 DEF Loan
<1>6. PICK row : row = [Extended(read) EXCEPT !.status = status]
    OBVIOUS
<1>7. /\ row \in Loan
      /\ row.member = read.member /\ row.book = read.book /\ row.borrow_date = read.borrow_date
      /\ row.renewal_count = read.renewal_count + 1
      /\ row.due_date = read.due_date + RenewalPeriod
    <2>1. /\ Extended(read) \in Loan
          /\ Extended(read).member = read.member /\ Extended(read).book = read.book
          /\ Extended(read).borrow_date = read.borrow_date
          /\ Extended(read).renewal_count = read.renewal_count + 1
          /\ Extended(read).due_date = read.due_date + RenewalPeriod
        BY ExtendedLoan
    <2> QED BY <1>6, <2>1 DEF Loan
<1>8. loans' = [loans EXCEPT ![l] = row]
    <2>1. Extended(read).status = "RENEWED"
        BY ExtendedLoan
    <2>2. row = [Extended(read) EXCEPT
                    !.status = IF read.status = "RENEWED" THEN loans[l].status ELSE @]
        BY <1>5, <1>6, <2>1
    <2> QED BY <1>1, <1>3, <2>2 DEF FinishRenew
<1>9. UNCHANGED <<now, books, reservations, membership>>
    BY DEF FinishRenew
<1>10. Rewrite(l, row)
    <2>1. row.status = status
        BY <1>6, ExtendedLoan DEF Loan
    <2>2. OnLoan(l) => status # "RETURNED"
        BY <1>5 DEF OnLoan
    <2> QED BY <1>4, <1>7, <1>8, <1>9, <2>1, <2>2 DEF Rewrite, Renewable
<1>11. RacyNext
    BY <1>7, <1>10 DEF RacyNext
<1>12. TypeOK /\ TypeOK' /\ UnusedBooks'
    BY <1>11, RacyApplied
<1>13. LoansStay /\ DueDateAccountsForRenewals'
    <2>1. loans'[l] = row /\ \A k \in LoanIds : k # l => loans'[k] = loans[k]
        BY <1>8, <1>12 DEF TypeOK
    <2>2. row.renewal_count <= MaxRenewals
        BY <1>4, <1>7, LimitsAssumption DEF Renewable, Loan
    <2>3. row.due_date = row.borrow_date + BorrowPeriod + row.renewal_count * RenewalPeriod
        <3>1. PICK k \in Nat, d \in Nat : k = read.renewal_count /\ d = read.borrow_date
            BY DEF Loan, Times
        <3>2. PICK granted \in Nat : granted = k * RenewalPeriod
            BY <3>1, PeriodsAssumption
        <3>3. (k + 1) * RenewalPeriod = granted + RenewalPeriod
            BY <3>1, <3>2, PeriodsAssumption
        <3>4. read.due_date = d + BorrowPeriod + granted
            BY <1>4, <3>1, <3>2 DEF Renewable
        <3>5. row.due_date = d + BorrowPeriod + (granted + RenewalPeriod)
            BY <1>7, <3>1, <3>2, <3>4, PeriodsAssumption
        <3>6. row.borrow_date = d /\ row.renewal_count = k + 1
            BY <1>7, <3>1
        <3> QED BY <3>3, <3>5, <3>6
    <2>4. row.member = loans[l].member /\ row.book = loans[l].book
          /\ row.borrow_date = loans[l].borrow_date
        BY <1>4, <1>7 DEF Renewable
    <2> QED BY <1>7, <2>1, <2>2, <2>3, <2>4, OneLoanChanges
<1>14. ActiveKept /\ \A b \in Books : Pending(b, reservations)' \subseteq Pending(b, reservations)
    BY <1>9 DEF ActiveKept, Pending
<1>15. ASSUME NEW q \in Others(p), NEW x \in Request, x = req[q] PROVE Leaves(x)
    <2>1. Secured(x)
        BY <1>15 DEF RaceInv, Others
    <2> QED BY <1>9, <1>14, <2>1, ClosingLeaves
<1>16. Commit(p)
    BY DEF FinishRenew
<1> QED BY <1>11, <1>12, <1>13, <1>14, <1>15, <1>16, RaceCommit

\* The commit of a transaction that released one copy of b, of a loan that may
\* have been returned in the meantime.
LEMMA RaceReleased ==
    ASSUME RaceInv, NEW q \in Request, q.pc \in {"promote", "shelve"}, Secured(q),
           PromoteNext(OneCopyOf(q.book), ReservationsOf(q)), loans' = LoansOf(q),
           UNCHANGED <<now, membership>>
    PROVE  RacyNext /\ LoansStay /\ DueDateAccountsForRenewals'
<1>0. TypeOK /\ StillHeld(q)
    BY RaceTyped DEF Secured
<1>1. ASSUME NEW l \in LoanIds, q.cause = <<"return", l>>
      PROVE  RacyNext /\ LoansStay /\ DueDateAccountsForRenewals'
    <2>1. loans[l] # NoRow /\ loans[l].book = q.book
        BY <1>1 DEF LocksLoan, Secured
    <2>2. \A k \in LoanIds : q.cause = <<"return", k>> => k = l
        BY <1>1
    <2>3. loans' = [loans EXCEPT ![l].status = "RETURNED"]
        BY <1>0, <1>1, <2>2 DEF LoansOf, TypeOK
    <2>4. ReservationsOf(q) = reservations
        BY <1>0, <1>1, WrittenReservations
    <2>5. GiveBack(l)
        BY <2>1, <2>3, <2>4 DEF GiveBack
    <2>6. PICK row \in Loan : row = loans[l]
        BY <1>0, <2>1 DEF TypeOK
    <2>7. loans'[l] = [row EXCEPT !.status = "RETURNED"]
        BY <1>0, <2>3, <2>6 DEF TypeOK
    <2>8. \A k \in LoanIds : k # l => loans'[k] = loans[k]
        BY <1>0, <2>3 DEF TypeOK
    <2>9. /\ loans'[l] \in Loan
          /\ loans'[l].member = row.member /\ loans'[l].book = row.book
          /\ loans'[l].borrow_date = row.borrow_date /\ loans'[l].due_date = row.due_date
          /\ loans'[l].renewal_count = row.renewal_count
        BY <2>7 DEF Loan
    <2>10. /\ row.renewal_count <= MaxRenewals
           /\ row.due_date = row.borrow_date + BorrowPeriod + row.renewal_count * RenewalPeriod
        BY <2>1, <2>6 DEF RaceInv, DueDateAccountsForRenewals
    <2>11. LoansStay /\ DueDateAccountsForRenewals'
        BY <2>6, <2>8, <2>9, <2>10, OneLoanChanges
    <2> QED BY <2>5, <2>11 DEF RacyNext
<1>2. ASSUME NEW r \in ReservationIds, q.cause = <<"cancel", r>>
      PROVE  RacyNext /\ LoansStay /\ DueDateAccountsForRenewals'
    <2>1. reservations[r].status = "HOLD" /\ reservations[r].book = q.book
        BY <1>0, <1>2 DEF Cancels, StillHeld
    <2>2. \A k \in LoanIds : q.cause # <<"return", k>>
        BY <1>2
    <2>3. loans' = loans
        BY <1>0, <2>2 DEF LoansOf, TypeOK
    <2>4. ReservationsOf(q) = Closed(reservations, {r}, "CANCELLED")
        BY <1>0, <1>2, WrittenReservations
    <2>5. CancelHold(r)
        BY <2>1, <2>3, <2>4 DEF CancelHold
    <2> QED BY <2>3, <2>5, SameLoansStay DEF RacyNext
<1> QED BY <1>1, <1>2, CauseKinds

LEMMA RacePromotionCommits ==
    ASSUME RaceInv, NEW p \in Requests, PromoteOldest(p)
    PROVE  RaceInv' /\ RacyNext /\ ActiveKept
<1>1. PICK y \in Request : y = req[p]
    BY RaceTyped
<1>2. /\ y.pc = "promote" /\ Secured(y) /\ StillHeld(y) /\ TypeOK /\ y.book \in Books
    BY <1>1, Fields, RaceTyped DEF PromoteOldest, Runs, RaceInv, Secured
<1>3. PICK r \in ReservationIds :
          /\ {r} \in Promotable(y.book, 1, reservations)
          /\ \A q \in Others(p) : ~LocksReservation(req[q], r)
          /\ reservations' = [ReservationsOf(y) EXCEPT ![r] = Promoted(@)]
    BY <1>1 DEF PromoteOldest, Oldest
<1>4. loans' = LoansOf(y) /\ UNCHANGED <<now, books, membership>> /\ Commit(p)
    BY <1>1 DEF PromoteOldest
<1>5. PICK rs \in ReservationTable :
          /\ rs = ReservationsOf(y)
          /\ \A b \in Books : Pending(b, rs) = Pending(b, reservations)
          /\ \A k \in ReservationIds : ~Cancels(y, k) => rs[k] = reservations[k]
    BY <1>2, WrittenReservations
<1>6. {r} \in Promotable(y.book, 1, rs)
    <2>1. \A k \in Pending(y.book, rs) : rs[k] = reservations[k]
        BY <1>2, <1>5 DEF Pending, StillHeld
    <2> QED BY <1>2, <1>3, <1>5, <2>1 DEF Promotable
<1>7. PromoteNext(OneCopyOf(y.book), rs)
    BY <1>2, <1>3, <1>4, <1>5, <1>6, OnePromoted
<1>8. RacyNext /\ LoansStay /\ DueDateAccountsForRenewals'
    BY <1>2, <1>4, <1>5, <1>7, RaceReleased
<1>9. TypeOK' /\ UnusedBooks'
    BY <1>8, RacyApplied
<1>10. \A k \in ReservationIds : k # r /\ ~Cancels(y, k) => reservations'[k] = reservations[k]
    BY <1>3, <1>5 DEF ReservationTable
<1>11. /\ ActiveKept
       /\ \A b \in Books : Pending(b, reservations)' \subseteq Pending(b, reservations)
    <2>1. reservations[r] # NoRow
        BY <1>3 DEF Promotable, Pending, NoRow
    <2>2. \A k \in ReservationIds : Cancels(y, k) => reservations[k] # NoRow
        BY <1>2 DEF StillHeld, NoRow
    <2> QED BY <1>2, <1>8, <1>10, <2>1, <2>2, NobodyJoins
<1>12. ASSUME NEW q \in Others(p), NEW x \in Request, x = req[q] PROVE Leaves(x)
    <2>1. Secured(x) /\ Disjoint(y, x) /\ ~LocksReservation(x, r)
        BY <1>1, <1>3, <1>12 DEF RaceInv, Others
    <2>2. \A k \in ReservationIds : Cancels(x, k) => reservations'[k] = reservations[k]
        BY <1>10, <2>1 DEF Disjoint, Cancels, LocksReservation
    <2> QED BY <1>4, <1>11, <2>1, <2>2, ClosingLeaves
<1> QED BY <1>4, <1>8, <1>9, <1>11, <1>12, RaceCommit

LEMMA RaceShelvingCommits ==
    ASSUME RaceInv, NEW p \in Requests, ShelveCopy(p)
    PROVE  RaceInv' /\ RacyNext /\ ActiveKept
<1>1. PICK y \in Request : y = req[p]
    BY RaceTyped
<1>2. /\ y.pc = "shelve" /\ Secured(y) /\ StillHeld(y) /\ TypeOK /\ y.book \in Books
      /\ Pending(y.book, reservations) = {}
    BY <1>1, Fields, RaceTyped DEF ShelveCopy, Runs, RaceInv, Secured
<1>3. /\ books' = [books EXCEPT ![y.book] = Shelved(@, 1, 0)]
      /\ loans' = LoansOf(y) /\ reservations' = ReservationsOf(y)
      /\ UNCHANGED <<now, membership>> /\ Commit(p)
    BY <1>1 DEF ShelveCopy
<1>4. PICK rs \in ReservationTable :
          /\ rs = ReservationsOf(y)
          /\ \A b \in Books : Pending(b, rs) = Pending(b, reservations)
          /\ \A k \in ReservationIds : ~Cancels(y, k) => rs[k] = reservations[k]
    BY <1>2, WrittenReservations
<1>5. PromoteNext(OneCopyOf(y.book), rs)
    BY <1>2, <1>3, <1>4, OneShelved
<1>6. RacyNext /\ LoansStay /\ DueDateAccountsForRenewals'
    BY <1>2, <1>3, <1>4, <1>5, RaceReleased
<1>7. TypeOK' /\ UnusedBooks'
    BY <1>6, RacyApplied
<1>8. \A k \in ReservationIds : ~Cancels(y, k) => reservations'[k] = reservations[k]
    BY <1>3, <1>4
<1>9. /\ ActiveKept
      /\ \A b \in Books : Pending(b, reservations)' \subseteq Pending(b, reservations)
    <2>1. \A k \in ReservationIds : Cancels(y, k) => reservations[k] # NoRow
        BY <1>2 DEF StillHeld, NoRow
    <2> QED BY <1>2, <1>6, <1>8, <2>1, NobodyJoins
<1>10. ASSUME NEW q \in Others(p), NEW x \in Request, x = req[q] PROVE Leaves(x)
    <2>1. Secured(x) /\ Disjoint(y, x) /\ ~Blocks(q, p)
        BY <1>1, <1>10 DEF RaceInv, Others, ShelveCopy, Runs
    <2>2. ~LocksBook(x, y.book)
        BY <1>1, <1>2, <1>10, <2>1 DEF Blocks
    <2>3. \A b \in Books : LocksBook(x, b) => books'[b] = books[b]
        BY <1>2, <1>3, <2>2 DEF TypeOK
    <2>4. \A k \in ReservationIds : Cancels(x, k) => reservations'[k] = reservations[k]
        BY <1>8, <2>1 DEF Disjoint, Cancels, LocksReservation
    <2> QED BY <1>9, <2>1, <2>3, <2>4, ClosingLeaves
<1> QED BY <1>3, <1>6, <1>7, <1>9, <1>10, RaceCommit

LEMMA RaceSweepCommits ==
    ASSUME RaceInv, NEW p \in Requests, FinishSweep(p)
    PROVE  RaceInv' /\ RacyNext /\ ActiveKept
<1>1. SweepExpiredHolds /\ Commit(p) /\ req[p].pc = "sweep"
    BY DEF FinishSweep, Runs
<1>2. RacyNext
    BY <1>1 DEF RacyNext
<1>3. TypeOK /\ TypeOK' /\ UnusedBooks'
    BY <1>2, RacyApplied
<1>4. LoansStay /\ DueDateAccountsForRenewals'
    BY <1>1, SameLoansStay DEF SweepExpiredHolds
<1>5. /\ ActiveKept
      /\ \A b \in Books : Pending(b, reservations)' \subseteq Pending(b, reservations)
    <2>1. ExpiredHolds \in SUBSET ReservationIds /\ \A r \in ExpiredHolds : reservations[r].status = "HOLD"
        BY DEF ExpiredHolds
    <2>2. Releases(SweptCopies, ExpiredHolds, "EXPIRED") /\ "EXPIRED" \in ClosedStatus
        BY <1>1, <2>1 DEF SweepExpiredHolds, Releases, SweptCopies, ClosedStatus
    <2>3. ASSUME NEW r \in ReservationIds, reservations[r] = NoRow
          PROVE  reservations'[r] = NoRow
        <3>1. r \notin ExpiredHolds /\ reservations[r].status # "PENDING"
            BY <2>1, <2>3 DEF NoRow
        <3> QED BY <1>3, <2>1, <2>2, <2>3, <3>1, ReleasedRows, SweptCopiesReleased
    <2> QED BY <1>2, <1>3, <2>3, NobodyJoins
<1>6. ASSUME NEW q \in Others(p), NEW x \in Request, x = req[q] PROVE Leaves(x)
    <2>1. Secured(x) /\ Disjoint(req[p], x) /\ ~Blocks(q, p)
        BY <1>6 DEF RaceInv, Others, FinishSweep, Runs
    <2>2. \A b \in Books : LocksBook(x, b) => ~ShelvedBySweep(b)
        BY <1>1, <1>6, <2>1 DEF Blocks
    <2>3. \A b \in Books : LocksBook(x, b) => books'[b] = books[b]
        BY <1>1, <1>3, <2>2, SweepShelves
    <2>4. \A r \in ReservationIds : ~Cancels(x, r)
        BY <1>1, <2>1 DEF Disjoint, Cancels, LocksReservation
    <2> QED BY <1>5, <2>1, <2>3, <2>4, ClosingLeaves
<1> QED BY <1>1, <1>2, <1>3, <1>4, <1>5, <1>6, RaceCommit

LEMMA RaceRowCommits ==
    ASSUME RaceInv,
           (\E r \in ReservationIds : CancelWaiting(r)) \/ (\E b \in Books : WriteBook(b))
    PROVE  RaceInv' /\ RacyNext /\ ActiveKept
<1>1. ASSUME NEW r \in ReservationIds, CancelWaiting(r) PROVE RaceInv' /\ RacyNext /\ ActiveKept
    <2>1. CancelPending(r) /\ UNCHANGED req
        BY <1>1 DEF CancelWaiting
    <2>2. RacyNext
        BY <2>1 DEF RacyNext
    <2>3. TypeOK /\ TypeOK' /\ UnusedBooks'
        BY <2>2, RacyApplied
    <2>4. books' = books /\ LoansStay /\ DueDateAccountsForRenewals'
        BY <2>1, SameLoansStay DEF CancelPending
    <2>5. \A k \in ReservationIds : k # r => reservations'[k] = reservations[k]
        BY <2>1 DEF CancelPending, Closed
    <2>6. /\ ActiveKept
          /\ \A b \in Books : Pending(b, reservations)' \subseteq Pending(b, reservations)
        <3>1. reservations[r] # NoRow
            BY <2>1 DEF CancelPending, NoRow
        <3> QED BY <2>2, <2>3, <2>5, <3>1, NobodyJoins
    <2>7. ASSUME NEW q \in Requests, NEW x \in Request, x = req[q] PROVE Leaves(x)
        <3>1. Secured(x) /\ ~LocksReservation(x, r)
            BY <1>1, <2>7 DEF RaceInv, CancelWaiting
        <3>2. \A k \in ReservationIds : Cancels(x, k) => reservations'[k] = reservations[k]
            BY <2>5, <3>1 DEF Cancels, LocksReservation
        <3> QED BY <2>4, <2>6, <3>1, <3>2, ClosingLeaves
    <2> QED BY <2>1, <2>2, <2>3, <2>4, <2>6, <2>7, RaceOutside
<1>2. ASSUME NEW b \in Books, WriteBook(b) PROVE RaceInv' /\ RacyNext /\ ActiveKept
    <2>1. /\ (\E n \in 0..MaxCopies : CreateBook(b, n) \/ UpdateBook(b, n)) \/ DeleteBook(b)
          /\ UNCHANGED req
        BY <1>2 DEF WriteBook
    <2>2. RacyNext
        BY <2>1 DEF RacyNext
    <2>3. TypeOK /\ TypeOK' /\ UnusedBooks'
        BY <2>2, RacyApplied
    <2>4. /\ loans' = loans /\ reservations' = reservations
          /\ \A c \in Books : c # b => books'[c] = books[c]
        BY <2>1, <2>3 DEF CreateBook, UpdateBook, DeleteBook, TypeOK
    <2>5. ActiveKept /\ \A c \in Books : Pending(c, reservations)' \subseteq Pending(c, reservations)
        BY <2>4 DEF ActiveKept, Pending
    <2>6. ASSUME NEW q \in Requests, NEW x \in Request, x = req[q] PROVE Leaves(x)
        <3>1. Secured(x) /\ ~LocksBook(x, b)
            BY <1>2, <2>6 DEF RaceInv, WriteBook
        <3> QED BY <2>4, <2>5, <3>1, ClosingLeaves
    <2> QED BY <2>1, <2>2, <2>3, <2>4, <2>5, <2>6, RaceOutside, SameLoansStay
<1> QED BY <1>1, <1>2

\* Nobody's rows change: the clock passes, or nothing happens at all.
LEMMA RaceStands ==
    ASSUME RaceInv, QuietTick \/ UNCHANGED txnVars
    PROVE  RaceInv' /\ ((RacyNext /\ ActiveKept) \/ UNCHANGED tables)
<1>1. UNCHANGED <<books, loans, reservations, membership, req>>
    BY DEF QuietTick, Tick, txnVars, tables
<1>2. RacyNext \/ UNCHANGED tables
    BY DEF QuietTick, RacyNext, txnVars
<1>3. TypeOK' /\ UnusedBooks'
    <2>1. CASE RacyNext
        BY <2>1, RacyApplied
    <2>2. CASE UNCHANGED tables
        BY <2>2 DEF tables, RaceInv, TxnTypeOK, TypeOK, UnusedBooks
    <2> QED BY <1>2, <2>1, <2>2
<1>4. ActiveKept /\ \A b \in Books : Pending(b, reservations)' \subseteq Pending(b, reservations)
    BY <1>1 DEF ActiveKept, Pending
<1>5. ASSUME NEW q \in Requests, NEW x \in Request, x = req[q] PROVE Leaves(x)
    <2>1. Secured(x)
        BY <1>5 DEF RaceInv
    <2> QED BY <1>1, <1>4, <2>1, ClosingLeaves
<1> QED BY <1>1, <1>2, <1>3, <1>4, <1>5, RaceOutside, SameLoansStay

-----------------------------------------------------------------------------
(* Every step of overlapping requests.                                     *)

LEMMA RaceStart == TxnInit => RaceInv
<1> SUFFICES ASSUME TxnInit PROVE RaceInv
    OBVIOUS
<1>1. TypeOK
    BY TypeInit DEF TxnInit
<1>2. req \in [Requests -> Request] /\ \A p \in Requests : req[p] = Idle
    BY IdleFacts DEF TxnInit
<1>3. UnusedBooks /\ DueDateAccountsForRenewals
    BY DEF TxnInit, Init, UnusedBooks, DueDateAccountsForRenewals
<1>4. \A q : Disjoint(Idle, q)
    BY NoLocks DEF Idle
<1> QED BY <1>1, <1>2, <1>3, <1>4, IdleSecured DEF RaceInv, TxnTypeOK

\* Whatever the requests read, their locks leave no more than the wider steps.
LEMMA RaceStep ==
    ASSUME RaceInv, [TxnNext]_txnVars
    PROVE  /\ RaceInv'
           /\ \/ UNCHANGED tables
              \/ RacyNext /\ ActiveKept
              \/ RacyNext /\ \E p \in Requests, r \in ReservationIds : FinishPlace(p, r)
<1>1. ASSUME NEW p \in Requests, NEW m \in Members, NEW b \in Books,
             StartBorrow(p, m, b) \/ StartPlace(p, m, b)
      PROVE  RaceInv' /\ UNCHANGED tables
    BY <1>1, RaceBorrows, RaceReserves DEF StartBorrow, StartPlace
<1>2. ASSUME NEW p \in Requests, NEW l \in LoanIds, StartReturn(p, l) \/ StartRenew(p, l)
      PROVE  RaceInv' /\ UNCHANGED tables
    BY <1>2, RaceReads DEF StartReturn, StartRenew
<1>3. ASSUME NEW p \in Requests, NEW r \in ReservationIds, StartCancelHold(p, r)
      PROVE  RaceInv' /\ UNCHANGED tables
    BY <1>3, RaceCancels DEF StartCancelHold
<1>4. ASSUME NEW p \in Requests,
             \/ LockBorrowedBook(p) \/ LockReservingMember(p) \/ WriteReturn(p)
             \/ FindNobody(p) \/ StartSweep(p) \/ ScanRow(p) \/ Rollback(p)
      PROVE  RaceInv' /\ UNCHANGED tables
    BY <1>4, RaceBorrows, RaceReserves, RaceReleases, RaceSweeps, RaceScans, RaceRollback
       DEF LockBorrowedBook, LockReservingMember, WriteReturn, FindNobody, StartSweep, ScanRow,
           Rollback
<1>5. ASSUME NEW p \in Requests,
             \/ \E l \in LoanIds : FinishBorrow(p, l)
             \/ FinishRenew(p) \/ PromoteOldest(p) \/ ShelveCopy(p) \/ FinishSweep(p)
      PROVE  RaceInv' /\ RacyNext /\ ActiveKept
    BY <1>5, RaceBorrowCommits, RaceRenewCommits, RacePromotionCommits, RaceShelvingCommits,
       RaceSweepCommits
<1>6. ASSUME NEW p \in Requests, NEW r \in ReservationIds, FinishPlace(p, r)
      PROVE  RaceInv' /\ RacyNext
    BY <1>6, RacePlaceCommits
<1>7. ASSUME (\E r \in ReservationIds : CancelWaiting(r)) \/ (\E b \in Books : WriteBook(b))
      PROVE  RaceInv' /\ RacyNext /\ ActiveKept
    BY <1>7, RaceRowCommits
<1>8. ASSUME QuietTick \/ UNCHANGED txnVars
      PROVE  RaceInv' /\ ((RacyNext /\ ActiveKept) \/ UNCHANGED tables)
    BY <1>8, RaceStands
<1> QED BY <1>1, <1>2, <1>3, <1>4, <1>5, <1>6, <1>7, <1>8 DEF TxnNext

LEMMA TxnIsRacy ==
    ASSUME RaceInv, [TxnNext]_txnVars
    PROVE  RaceInv' /\ TypeOK /\ TypeOK' /\ [RacyNext]_vars
BY RaceStep, RaceTyped DEF tables, vars, RaceInv, TxnTypeOK

-----------------------------------------------------------------------------
(* Overlapping returns and renewals of one loan make copies that do not    *)
(* exist, and lose none.                                                   *)

NoCopyLost ==
    \A b \in Books : books[b].state = "LIVE" =>
        books[b].total <= books[b].available + Cardinality(CopiesOut(b))
                            + Cardinality(Held(b, reservations))

LEMMA NoCopyLostStep == TypeOK /\ NoCopyLost /\ [RacyNext]_vars => NoCopyLost'
<1> SUFFICES ASSUME TypeOK, NoCopyLost, [RacyNext]_vars, NEW b \in Books, books'[b].state = "LIVE"
             PROVE  books'[b].total <= books'[b].available + Cardinality(CopiesOut(b)')
                                         + Cardinality(Held(b, reservations'))
    BY DEF NoCopyLost
<1>1. PICK out \in Nat, held \in Nat :
          out = Cardinality(CopiesOut(b)) /\ held = Cardinality(Held(b, reservations))
    BY RowSetsFinite DEF CopiesOut, Held
<1>2. PICK outThen \in Nat, heldThen \in Nat :
          outThen = Cardinality(CopiesOut(b)') /\ heldThen = Cardinality(Held(b, reservations'))
    BY RowSetsFinite DEF CopiesOut, Held
<1>3. TypeOK' /\ books[b] \in Book /\ books'[b] \in Book
    BY TypeStep DEF TypeOK
<1> DEFINE Kept == books'[b].total <= books'[b].available + outThen + heldThen
<1>4. ASSUME books[b].state = "LIVE", books'[b].total = books[b].total,
             books'[b].available + outThen + heldThen >= books[b].available + out + held
      PROVE  Kept
    BY <1>1, <1>3, <1>4 DEF NoCopyLost, Book
<1>5. ASSUME books'[b] = books[b], outThen + heldThen >= out + held PROVE Kept
    BY <1>3, <1>4, <1>5 DEF Book
<1>6. loans' = loans => outThen = out
    BY <1>1, <1>2 DEF CopiesOut, OnLoan
<1>7. reservations' = reservations => heldThen = held
    BY <1>1, <1>2
<1>8. ASSUME NEW c \in Books, NEW n \in 0..MaxCopies, CreateBook(c, n) \/ UpdateBook(c, n)
      PROVE  Kept
    <2>1. outThen = out /\ heldThen = held
        BY <1>6, <1>7, <1>8 DEF CreateBook, UpdateBook
    <2>2. CASE b # c
        BY <1>5, <1>8, <2>1, <2>2 DEF CreateBook, UpdateBook, TypeOK
    <2>3. CASE b = c /\ CreateBook(c, n)
        <3>1. books'[b].total = n /\ books'[b].available = n /\ n \in Nat
            BY <2>3, BoundsAssumption DEF CreateBook, TypeOK
        <3> QED BY <3>1
    <2>4. CASE b = c /\ UpdateBook(c, n)
        <3>1. /\ books'[b].total = n /\ n \in Nat /\ books[b].state = "LIVE"
              /\ books'[b].available = books[b].available + n - books[b].total
            BY <2>4, BoundsAssumption DEF UpdateBook, TypeOK
        <3>2. books[b].total <= books[b].available + out + held
            BY <1>1, <3>1 DEF NoCopyLost
        <3>3. books[b].total \in Nat /\ books[b].available \in Nat
            BY <1>3 DEF Book
        <3> QED BY <2>1, <3>1, <3>2, <3>3
    <2> QED BY <1>8, <2>2, <2>3, <2>4
<1>9. ASSUME NEW c \in Books, DeleteBook(c) PROVE Kept
    <2>1. books'[b] = books[b]
        BY <1>9 DEF DeleteBook, TypeOK, Book
    <2> QED BY <1>5, <1>6, <1>7, <1>9, <2>1 DEF DeleteBook
<1>10. ASSUME NEW m \in Members, NEW c \in Books, NEW l \in LoanIds, Lend(m, c, l) PROVE Kept
    <2>1. /\ l \notin CopiesOut(b)
          /\ CopiesOut(b)' = IF b = c THEN CopiesOut(b) \cup {l} ELSE CopiesOut(b)
        BY <1>10 DEF Lend, NewLoan, NoRow, CopiesOut, OnLoan, TypeOK
    <2>2. outThen = IF b = c THEN out + 1 ELSE out
        BY <1>1, <1>2, <2>1, RowSetsFinite, FS_AddElement DEF CopiesOut
    <2>3. CASE SoleHolder(m, c) /\ books' = books
                 /\ reservations' = Closed(reservations, Held(c, reservations), "COMPLETED")
        <3>1. heldThen = held - Cardinality(Held(b, reservations) \cap Held(c, reservations))
            BY <1>1, <1>2, <2>3, ClosingHolds DEF Held
        <3>2. Held(b, reservations) \cap Held(c, reservations) = {} \/ b = c
            BY DEF Held
        <3>3. Cardinality({}) = 0 /\ (b = c => held = 1)
            BY <1>1, <2>3, FS_EmptySet, FS_Singleton DEF SoleHolder
        <3>4. outThen + heldThen >= out + held
            BY <2>2, <3>1, <3>2, <3>3
        <3> QED BY <1>5, <2>3, <3>4
    <2>4. CASE reservations' = reservations /\ books' = [books EXCEPT ![c].available = @ - 1]
        <3>1. CASE b # c
            BY <1>5, <1>7, <2>2, <2>4, <3>1 DEF TypeOK
        <3>2. CASE b = c
            <4>1. /\ books'[b].total = books[b].total
                  /\ books'[b].available = books[b].available - 1
                BY <1>3, <2>4, <3>2 DEF TypeOK, Book
            <4>2. books[b].state = "LIVE"
                BY <1>10, <3>2 DEF Lend
            <4>3. books[b].available \in Nat
                BY <1>3 DEF Book
            <4> QED BY <1>4, <1>7, <2>2, <2>4, <3>2, <4>1, <4>2, <4>3
        <3> QED BY <3>1, <3>2
    <2> QED BY <1>10, <2>3, <2>4 DEF Lend, TakeCopy
<1>11. ASSUME NEW released \in Released, NEW rs \in ReservationTable, PromoteNext(released, rs),
              outThen + Cardinality(Held(b, rs)) + released[b] >= out + held
       PROVE  Kept
    <2>1. PICK n \in Nat :
              /\ n <= released[b] /\ books'[b] = Shelved(books[b], released[b], n)
              /\ heldThen = Cardinality(Held(b, rs)) + n
        BY <1>2, <1>11, PromotionHolds
    <2>2. released[b] \in Nat /\ Cardinality(Held(b, rs)) \in Nat
        BY RowSetsFinite DEF Released, Held
    <2>3. /\ books[b].state = "LIVE" /\ books'[b].total = books[b].total
          /\ books'[b].available = books[b].available + released[b] - n
        BY <1>3, <2>1 DEF Shelved, Book
    <2>4. books[b].available \in Nat
        BY <1>3 DEF Book
    <2> QED BY <1>4, <1>11, <2>1, <2>2, <2>3, <2>4
<1>12. ASSUME NEW l \in LoanIds, GiveBack(l) PROVE Kept
    <2>1. loans[l] \in Loan /\ loans[l].book \in Books
        BY <1>12 DEF GiveBack, TypeOK, Loan
    <2>2. PICK c \in Books : c = loans[l].book
        BY <2>1
    <2>3. \A k \in LoanIds : k # l => loans'[k] = loans[k]
        BY <1>12 DEF GiveBack, TypeOK
    <2>4. CopiesOut(b) \subseteq CopiesOut(b)' \cup {l} /\ (b # c => CopiesOut(b) \subseteq CopiesOut(b)')
        BY <2>2, <2>3 DEF CopiesOut, OnLoan
    <2>5. out <= outThen + OneCopyOf(c)[b]
        <3>1. IsFiniteSet(CopiesOut(b)')
            BY RowSetsFinite DEF CopiesOut
        <3>2. out <= outThen + 1
            BY <1>1, <1>2, <2>4, <3>1, OneMore
        <3>3. b # c => out <= outThen
            BY <1>1, <1>2, <2>4, <3>1, FS_Subset
        <3> QED BY <3>2, <3>3 DEF OneCopyOf
    <2>6. reservations \in ReservationTable /\ OneCopyOf(c) \in Released /\ OneCopyOf(c)[b] \in Nat
        BY OneCopyReleased DEF TypeOK, ReservationTable, OneCopyOf
    <2> QED BY <1>1, <1>11, <1>12, <2>2, <2>5, <2>6 DEF GiveBack
<1>13. ASSUME NEW l \in LoanIds, NEW row \in Loan, Rewrite(l, row) PROVE Kept
    <2>1. loans'[l] = row /\ \A k \in LoanIds : k # l => loans'[k] = loans[k]
        BY <1>13 DEF Rewrite, TypeOK
    <2>2. row.book = loans[l].book /\ (OnLoan(l) => OnLoan(l)')
        BY <1>13, <2>1 DEF Rewrite, OnLoan, Loan
    <2>3. CopiesOut(b) \subseteq CopiesOut(b)'
        BY <2>1, <2>2 DEF CopiesOut, OnLoan
    <2>4. IsFiniteSet(CopiesOut(b)')
        BY RowSetsFinite DEF CopiesOut
    <2>5. outThen >= out
        BY <1>1, <1>2, <2>3, <2>4, FS_Subset
    <2> QED BY <1>5, <1>7, <1>13, <2>5 DEF Rewrite
<1>14. ASSUME NEW m \in Members, NEW c \in Books, NEW r \in ReservationIds, Enqueue(m, c, r)
       PROVE  Kept
    <2>1. Held(b, reservations') = Held(b, reservations)
        BY <1>14 DEF Enqueue, NewReservation, Held, NoRow, TypeOK
    <2> QED BY <1>1, <1>2, <1>5, <1>6, <1>14, <2>1 DEF Enqueue
<1>15. ASSUME NEW r \in ReservationIds, CancelPending(r) PROVE Kept
    <2>1. reservations[r] \in Reservation /\ reservations[r].status = "PENDING"
        BY <1>15 DEF CancelPending, TypeOK, NoRow
    <2>2. [reservations[r] EXCEPT !.status = "CANCELLED", !.expires_at = NoTime].status # "HOLD"
        BY <2>1 DEF Reservation
    <2>3. Held(b, reservations') = Held(b, reservations)
        BY <1>15, <2>1, <2>2 DEF CancelPending, Closed, Held
    <2> QED BY <1>1, <1>2, <1>5, <1>6, <1>15, <2>3 DEF CancelPending
<1>16. ASSUME NEW r \in ReservationIds, CancelHold(r) PROVE Kept
    <2>1. reservations[r].status = "HOLD" /\ reservations[r].book \in Books /\ outThen = out
        BY <1>6, <1>16 DEF CancelHold, TypeOK, NoRow, Reservation
    <2>2. PICK released \in Released, rs \in ReservationTable :
              /\ released = OneCopyOf(reservations[r].book)
              /\ rs = Closed(reservations, {r}, "CANCELLED")
        BY <2>1, OneCopyReleased, ClosedType
    <2>3. Cardinality(Held(b, rs)) + released[b] = held
        BY <1>1, <2>1, <2>2, CancelledHold
    <2>4. Cardinality(Held(b, rs)) \in Nat /\ released[b] \in Nat
        BY RowSetsFinite DEF Held, Released
    <2> QED BY <1>11, <1>16, <2>1, <2>2, <2>3, <2>4 DEF CancelHold
<1>17. ASSUME SweepExpiredHolds PROVE Kept
    <2>1. PICK rs \in ReservationTable : rs = Closed(reservations, ExpiredHolds, "EXPIRED")
        BY ClosedType DEF ExpiredHolds
    <2>2. Cardinality(Held(b, rs)) + SweptCopies[b] = held /\ outThen = out
        BY <1>1, <1>6, <1>17, <2>1, SweptHolds DEF SweepExpiredHolds
    <2>3. PromoteNext(SweptCopies, rs)
        BY <1>17, <2>1 DEF SweepExpiredHolds, SweptCopies
    <2>4. Cardinality(Held(b, rs)) \in Nat /\ SweptCopies[b] \in Nat
        BY RowSetsFinite, SweptCopiesReleased DEF Held, Released
    <2> QED BY <1>11, <2>2, <2>3, <2>4, SweptCopiesReleased
<1>18. ASSUME \/ \E m \in Members, s \in MembershipStatus : SetMembership(m, s)
              \/ Tick \/ UNCHANGED vars
       PROVE  Kept
    BY <1>5, <1>6, <1>7, <1>18 DEF SetMembership, Tick, vars
<1>19. Kept
    BY <1>8, <1>9, <1>10, <1>12, <1>13, <1>14, <1>15, <1>16, <1>17, <1>18 DEF RacyNext
<1> QED BY <1>2, <1>19

-----------------------------------------------------------------------------
(* How far overlapping requests miss the limit of reservations.            *)

\* The requests that reserve for m and have counted, and not inserted yet.
Queueing(m) == {p \in Requests : Reserves(req[p]) /\ req[p].member = m}

\* Everyone who reserves has counted before somebody else inserted: with the
\* last to count, at most the other sessions have a reservation in hand.
Overshoot ==
    \A m \in Members :
        Cardinality(ActiveReservations(m)) + Cardinality(Queueing(m))
            < MaxActiveReservations + Cardinality(Requests)

LEMMA OvershootStep ==
    ASSUME IsFiniteSet(Requests), RaceInv, Overshoot, [TxnNext]_txnVars
    PROVE  Overshoot'
<1> SUFFICES ASSUME NEW m \in Members
             PROVE  Cardinality(ActiveReservations(m)') + Cardinality(Queueing(m)')
                        < MaxActiveReservations + Cardinality(Requests)
    BY DEF Overshoot
<1>1. PICK S \in SUBSET ReservationIds, T \in SUBSET ReservationIds :
          S = ActiveReservations(m) /\ T = ActiveReservations(m)'
    BY DEF ActiveReservations
<1>2. PICK Q \in SUBSET Requests, R \in SUBSET Requests :
          Q = Queueing(m) /\ R = Queueing(m)'
    BY DEF Queueing
<1>3. /\ Cardinality(S) \in Nat /\ Cardinality(T) \in Nat /\ IsFiniteSet(S)
      /\ Cardinality(Q) \in Nat /\ Cardinality(R) \in Nat /\ IsFiniteSet(Q)
      /\ Cardinality(Requests) \in Nat /\ Cardinality(R) <= Cardinality(Requests)
    BY <1>1, <1>2, RowSetsFinite, FS_Subset, FS_CardinalityType
<1>4. Cardinality(S) + Cardinality(Q) < MaxActiveReservations + Cardinality(Requests)
    BY <1>1, <1>2 DEF Overshoot
<1>5. TxnTypeOK
    BY DEF RaceInv
<1>6. ASSUME R \subseteq Q, Cardinality(T) <= Cardinality(S)
      PROVE  Cardinality(T) + Cardinality(R) < MaxActiveReservations + Cardinality(Requests)
    <2>1. Cardinality(R) <= Cardinality(Q)
        BY <1>3, <1>6, FS_Subset
    <2> QED BY <1>3, <1>4, <1>6, <2>1, LimitsAssumption
<1>7. \A q \in R : \/ q \in Q
                   \/ UNCHANGED tables /\ Cardinality(S) < MaxActiveReservations
    <2> SUFFICES ASSUME NEW q \in R
                 PROVE  \/ q \in Q
                        \/ UNCHANGED tables /\ Cardinality(S) < MaxActiveReservations
        OBVIOUS
    <2>1. q \in Requests /\ Reserves(req'[q]) /\ req'[q].member = m
        BY <1>2 DEF Queueing, Reserves
    <2>2. \/ Reserves(req[q]) /\ req'[q].member = req[q].member
          \/ UNCHANGED tables /\ Cardinality(ActiveReservations(req'[q].member)) < MaxActiveReservations
        BY <1>5, <2>1, WhoReserves
    <2> QED BY <1>1, <1>2, <2>1, <2>2 DEF Queueing
<1>8. CASE UNCHANGED tables
    <2>1. T = S
        BY <1>1, <1>8 DEF ActiveReservations, tables
    <2>2. CASE R \subseteq Q
        BY <1>1, <1>2, <1>3, <1>6, <2>1, <2>2
    <2>3. CASE Cardinality(S) < MaxActiveReservations
        BY <1>1, <1>2, <1>3, <2>1, <2>3, LimitsAssumption
    <2> QED BY <1>7, <2>2, <2>3
<1>9. CASE ~UNCHANGED tables /\ ActiveKept
    <2>1. R \subseteq Q
        BY <1>7, <1>9
    <2>2. Cardinality(T) <= Cardinality(S)
        BY <1>1, <1>9, ActiveFewer
    <2> QED BY <1>1, <1>2, <1>6, <2>1, <2>2
<1>10. ASSUME ~UNCHANGED tables,
              NEW p \in Requests, NEW r \in ReservationIds, FinishPlace(p, r)
       PROVE  Cardinality(T) + Cardinality(R) < MaxActiveReservations + Cardinality(Requests)
    <2>1. R \subseteq Q
        BY <1>7, <1>10
    <2>2. CASE m # req[p].member
        <3>1. T = S
            BY <1>1, <1>5, <1>10, <2>2, JoinedElsewhere DEF TxnTypeOK
        <3> QED BY <1>3, <1>6, <2>1, <3>1
    <2>3. CASE m = req[p].member
        <3>1. p \in Q /\ p \notin R
            <4>1. req[p].pc = "place_insert" /\ req'[p].pc = "idle"
                BY <1>5, <1>10 DEF FinishPlace, Runs, Commit, Continue, Idle, TxnTypeOK
            <4> QED BY <1>2, <2>3, <4>1 DEF Queueing, Reserves
        <3>2. Cardinality(Q \ {p}) = Cardinality(Q) - 1 /\ IsFiniteSet(Q \ {p})
            BY <1>3, <3>1, FS_RemoveElement
        <3>3. Cardinality(R) <= Cardinality(Q) - 1
            BY <2>1, <3>1, <3>2, FS_Subset
        <3>4. T \subseteq S \cup {r}
            <4>1. \A k \in ReservationIds : k # r => reservations'[k] = reservations[k]
                BY <1>5, <1>10 DEF FinishPlace, TxnTypeOK, TypeOK
            <4> QED BY <1>1, <4>1 DEF ActiveReservations
        <3>5. Cardinality(T) <= Cardinality(S) + 1
            BY <1>3, <3>4, OneMore
        <3> QED BY <1>3, <1>4, <3>3, <3>5, LimitsAssumption
    <2> QED BY <2>2, <2>3
<1> QED BY <1>1, <1>2, <1>8, <1>9, <1>10, RaceStep

-----------------------------------------------------------------------------
(* The theorems that hold of all requests, however they overlap.           *)

\* The tables and the transactions in flight hold values of their types.
THEOREM TxnTypeCorrect == TxnSpec => []TxnTypeOK
<1>1. RaceInv => TxnTypeOK
    BY DEF RaceInv
<1> QED BY <1>1, RaceStart, TxnIsRacy, PTL DEF TxnSpec

\* No interleaving of statements gives a member two active reservations of a
\* book, leaves a hold without a deadline, or gains or loses days of a loan:
\* neither two returns of a loan, nor a renewal that overlaps a return.
THEOREM RacesKeepRows ==
    TxnSpec => []NoDuplicateReservation /\ []DeadlineOfHolds /\ []DueDateAccountsForRenewals
<1>1. TxnInit => NoDuplicateReservation /\ DeadlineOfHolds
    BY DEF TxnInit, Init, NoDuplicateReservation, ActiveReservations, DeadlineOfHolds, NoRow
<1>2. RaceInv /\ NoDuplicateReservation /\ [TxnNext]_txnVars => NoDuplicateReservation'
    BY TxnIsRacy, UniqueStep
<1>3. RaceInv /\ DeadlineOfHolds /\ [TxnNext]_txnVars => DeadlineOfHolds'
    BY TxnIsRacy, DeadlineStep
<1>4. RaceInv => DueDateAccountsForRenewals
    BY DEF RaceInv
<1> QED BY <1>1, <1>2, <1>3, <1>4, RaceStart, TxnIsRacy, PTL DEF TxnSpec

\* However statements interleave, promotion takes the oldest waiting
\* reservation and copies go on the shelf past no waiting member: the row lock
\* on the oldest and the gap lock of the empty queue see to it.
THEOREM RacesKeepOrder == TxnSpec => FifoPromotion /\ ShelvedOnlyWithoutQueue
<1>1. RaceInv /\ [TxnNext]_txnVars =>
         [\A r, q \in ReservationIds :
             (Promotes(r) /\ q \in Pending(reservations[r].book, reservations'))
                => reservations[r].reserved_at <= reservations'[q].reserved_at]_vars
    BY TxnIsRacy, FifoStep
<1>2. RaceInv /\ [TxnNext]_txnVars =>
         [\A b \in Books :
             (books'[b].available > books[b].available /\ books'[b].total = books[b].total)
                => Pending(b, reservations') = {}]_vars
    BY TxnIsRacy, ShelvedStep DEF RaceInv
<1> QED BY <1>1, <1>2, RaceStart, TxnIsRacy, PTL DEF TxnSpec, FifoPromotion, ShelvedOnlyWithoutQueue

\* Nobody writes over a reservation that is closed: unlike a loan, it is read
\* with the lock that its writer needs.
THEOREM ClosedReservationsStay ==
    TxnSpec => [][\A r \in ReservationIds :
                     reservations[r].status \in {"COMPLETED", "CANCELLED", "EXPIRED"}
                         => reservations'[r] = reservations[r]]_vars
<1>1. RaceInv /\ [TxnNext]_txnVars =>
         [\A r \in ReservationIds :
             reservations[r].status \in {"COMPLETED", "CANCELLED", "EXPIRED"}
                 => reservations'[r] = reservations[r]]_vars
    BY TxnIsRacy, ClosedStays DEF ClosedStatus
<1> QED BY <1>1, RaceStart, TxnIsRacy, PTL DEF TxnSpec

\* A copy of a book in the catalogue that two requests about one loan quarrel
\* over is on the shelf, on loan or held afterwards: it may be counted twice
\* (NoCopyReleasedTwice), it is never gone.
THEOREM RacesLoseNoCopy == TxnSpec => []NoCopyLost
<1>1. TxnInit => NoCopyLost
    BY DEF TxnInit, Init, NoCopyLost
<1>2. RaceInv /\ NoCopyLost /\ [TxnNext]_txnVars => NoCopyLost'
    BY TxnIsRacy, NoCopyLostStep
<1> QED BY <1>1, <1>2, RaceStart, TxnIsRacy, PTL DEF TxnSpec

\* The reservation limit is missed by fewer than there are sessions: with one
\* session it is never missed.
THEOREM LimitMissedByFewer ==
    ASSUME IsFiniteSet(Requests), Requests # {}
    PROVE  TxnSpec => [](\A m \in Members : Cardinality(ActiveReservations(m))
                                               < MaxActiveReservations + Cardinality(Requests))
<1> DEFINE Missed == \A m \in Members : Cardinality(ActiveReservations(m))
                                           < MaxActiveReservations + Cardinality(Requests)
<1>0. Cardinality(Requests) \in Nat \ {0}
    BY FS_CardinalityType, FS_EmptySet
<1>1. ASSUME TxnInit PROVE Overshoot
    <2> SUFFICES ASSUME NEW m \in Members
                 PROVE  Cardinality(ActiveReservations(m)) + Cardinality(Queueing(m))
                            < MaxActiveReservations + Cardinality(Requests)
        BY DEF Overshoot
    <2>1. ActiveReservations(m) = {} /\ Queueing(m) = {}
        BY <1>1 DEF TxnInit, Init, ActiveReservations, NoRow, Queueing, Idle, Reserves
    <2>2. Cardinality({}) = 0
        BY FS_EmptySet
    <2> QED BY <1>0, <2>1, <2>2, LimitsAssumption
<1>2. RaceInv /\ Overshoot /\ [TxnNext]_txnVars => Overshoot'
    BY OvershootStep
<1>3. Overshoot => Missed
    <2> SUFFICES ASSUME Overshoot, NEW m \in Members
                 PROVE  Cardinality(ActiveReservations(m))
                            < MaxActiveReservations + Cardinality(Requests)
        OBVIOUS
    <2>1. PICK S \in SUBSET ReservationIds, Q \in SUBSET Requests :
              S = ActiveReservations(m) /\ Q = Queueing(m)
        BY DEF ActiveReservations, Queueing
    <2>2. Cardinality(S) \in Nat /\ Cardinality(Q) \in Nat
        BY RowSetsFinite, FS_Subset, FS_CardinalityType
    <2>3. Cardinality(S) + Cardinality(Q) < MaxActiveReservations + Cardinality(Requests)
        BY <2>1 DEF Overshoot
    <2>4. Cardinality(S) < MaxActiveReservations + Cardinality(Requests)
        BY <1>0, <2>2, <2>3, LimitsAssumption
    <2> QED BY <2>1, <2>4
<1> QED BY <1>1, <1>2, <1>3, RaceStart, TxnIsRacy, PTL DEF TxnSpec

\* Two reservations of one member that overlap may exceed the limit, and
\* nothing else: the copies of a book are conserved and it stays a queue.
THEOREM StatementsKeepQueues ==
    ASSUME LoanOverlap = FALSE PROVE TxnSpec => []CopiesConserved /\ EveryBookIsAQueue
<1>1. TxnInit => TxnInv /\ QueueInv
    BY TxnStart, TypeInit, CopiesInit DEF TxnInit, QueueInv, DatedSoFar, Init
<1>2. TxnInv /\ QueueInv /\ [TxnNext]_txnVars =>
         /\ (TxnInv /\ QueueInv)'
         /\ [\A b \in Books : [Queue(b)!Next]_(Queue(b)!vars)]_vars
    BY TxnIsFree, QueueInvStep, QueueNext DEF QueueStep
<1>3. TxnInit => \A b \in Books : Queue(b)!Init
    BY QueueInit DEF TxnInit
<1>4. QueueInv => CopiesConserved
    BY DEF QueueInv
<1> QED BY <1>1, <1>2, <1>3, <1>4, PTL DEF TxnSpec, EveryBookIsAQueue

\* Nor does it touch the limit of loans; what is closed stays closed, and what
\* is late stays late until it comes back.
THEOREM StatementsKeepLoans ==
    ASSUME LoanOverlap = FALSE PROVE TxnSpec => []LoanLimit /\ Settled /\ LateUntilReturned
<1>1. TxnInit => TxnInv /\ LoanLimit
    BY TxnStart, LimitsInit DEF TxnInit
<1>2. TxnInv /\ LoanLimit /\ [TxnNext]_txnVars =>
         /\ (TxnInv /\ LoanLimit)'
         /\ [/\ \A l \in LoanIds : loans[l].status = "RETURNED" => loans'[l] = loans[l]
             /\ \A r \in ReservationIds :
                   reservations[r].status \in {"COMPLETED", "CANCELLED", "EXPIRED"}
                       => reservations'[r] = reservations[r]]_vars
         /\ [\A m \in Members : \A l \in OverdueLoans(m) :
                /\ l \in OverdueLoans(m)' \/ loans'[l].status = "RETURNED"
                /\ ActiveLoans(m)' \subseteq ActiveLoans(m)]_vars
    BY ReqTyped, TxnIsFree, LoanLimitStep, ReturnedStays, ClosedStays, LateStep, WiderSteps
       DEF ClosedStatus
<1> QED BY <1>1, <1>2, PTL DEF TxnSpec, Settled, LateUntilReturned
=============================================================================
