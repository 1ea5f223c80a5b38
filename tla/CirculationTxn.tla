--------------------------- MODULE CirculationTxn ---------------------------
(***************************************************************************)
(* The operations of Circulation with the interleaving of their SQL        *)
(* statements: several requests run transactions of InnoDB, REPEATABLE     *)
(* READ, at the same time.                                                 *)
(*                                                                         *)
(* A request takes its locks one statement after another and keeps them to *)
(* the end of its transaction.  What it writes is X-locked until then, so  *)
(* nobody else sees it: the writes are applied when it commits.  A step    *)
(* that needs one more lock, and after it only writes and commits, is one  *)
(* action; so is a lock followed by the first plain read, which is when    *)
(* InnoDB takes the snapshot that all plain reads of the transaction see.  *)
(*                                                                         *)
(* Locks are a function of how far each request has come: Locks... say     *)
(* what a request holds, Blocks says whose lock its next statement needs.  *)
(***************************************************************************)
EXTENDS Circulation

CONSTANTS
    Requests,       \* concurrent sessions, each runs one request at a time
    LoanOverlap     \* whether two requests about the same loan may overlap

ASSUME OverlapAssumption == LoanOverlap \in BOOLEAN

VARIABLE req        \* the transaction each session is in

tables == <<now, books, loans, reservations, membership>>
txnVars == <<tables, req>>

-----------------------------------------------------------------------------
(* Requests in flight.  The comments say what the request does next.       *)

Idle == [pc |-> "idle"]

\* Why a transaction promotes: it returns a loan, or it cancels a hold.
Causes == ({"return"} \X LoanIds) \cup ({"cancel"} \X ReservationIds)

Request ==
    {Idle}
    \cup [pc : {"borrow_hold"},     \* locks the holds, takes a copy, commits
          member : Members, book : Books, available : Nat]
    \cup [pc : {"borrow_book",      \* locks the book
                "place_member",     \* locks the member
                "place_insert"},    \* inserts the reservation, commits
          member : Members, book : Books]
    \cup [pc : {"return_loan"}, loan : LoanIds]             \* writes the loan
    \cup [pc : {"renew_loan"}, loan : LoanIds, read : Loan] \* writes the loan, commits
    \cup [pc : {"promote",          \* locks the oldest waiting reservation
                "shelve"},          \* locks the book, restores the copy, commits
          book : Books, cause : Causes]
    \cup [pc : {"scan"}, locked : SUBSET ReservationIds, next : ReservationIds]   \* locks next
    \cup [pc : {"sweep"}]           \* promotes or locks the books, commits

TxnTypeOK == TypeOK /\ req \in [Requests -> Request]

Others(p) == Requests \ {p}
Quiet == \A p \in Requests : req[p] = Idle

-----------------------------------------------------------------------------
(* Locks.                                                                  *)

\* Variant: borrow_book reads the member without FOR UPDATE.
LocksMemberToReserve(q, m) == q.pc = "place_insert" /\ q.member = m

LocksMember(q, m) == q.pc \in {"borrow_book", "borrow_hold", "place_insert"} /\ q.member = m

\* Variant: borrow_book reads the book without FOR UPDATE.
LocksBookToReserve(q, b) == q.pc \in {"place_member", "place_insert"} /\ q.book = b

LocksBook(q, b) == q.pc \in {"borrow_hold", "place_member", "place_insert"} /\ q.book = b
LocksLoan(q, l) == q.pc \in {"promote", "shelve"} /\ q.cause = <<"return", l>>

\* The sweep's query has no usable index: it locks every row and gap of the
\* table, one after another.
LocksReservation(q, r) ==
    \/ q.pc \in {"promote", "shelve"} /\ q.cause = <<"cancel", r>>
    \/ q.pc = "scan" /\ r \in q.locked
    \/ q.pc = "sweep"

\* Variant: the oldest waiting reservation is read without FOR UPDATE.
LocksQueueInSweep(q, b) == q.pc = "sweep"

\* Gap locks.  Who has found the queue of b empty keeps it empty, and a sweep
\* that has scanned the table has locked every gap.
LocksQueue(q, b) == (q.pc = "shelve" /\ q.book = b) \/ q.pc = "sweep"

\* The books a sweep restores copies of, with more expired holds than waiting members.
ShelvedBySweep(b) ==
    Cardinality(Held(b, reservations) \cap ExpiredHolds) > Cardinality(Pending(b, reservations))

Oldest(b) == {r \in ReservationIds : {r} \in Promotable(b, 1, reservations)}
Unused == {r \in ReservationIds : reservations[r] = NoRow}

\* Whether q holds a lock that the next statement of p needs, whichever of
\* the rows it may take.
Blocks(q, p) ==
    LET pc == req[p].pc
    IN  \/ pc \in {"borrow_book", "shelve"} /\ LocksBook(req[q], req[p].book)
        \/ pc = "borrow_hold"
             /\ \E r \in Held(req[p].book, reservations) : LocksReservation(req[q], r)
        \/ pc = "place_member" /\ LocksMember(req[q], req[p].member)
        \/ pc = "place_insert"
             /\ \/ LocksQueue(req[q], req[p].book)
                \/ Unused # {} /\ \A r \in Unused : LocksReservation(req[q], r)
        \/ pc \in {"return_loan", "renew_loan"} /\ LocksLoan(req[q], req[p].loan)
        \/ pc = "promote"
             /\ Oldest(req[p].book) # {}
             /\ \A r \in Oldest(req[p].book) : LocksReservation(req[q], r)
        \/ pc = "scan" /\ LocksReservation(req[q], req[p].next)
        \/ pc = "sweep" /\ \E b \in Books : ShelvedBySweep(b) /\ LocksBook(req[q], b)

\* p is at pc and its next statement gets its locks.
Runs(p, pc) == req[p].pc = pc /\ \A q \in Others(p) : ~Blocks(q, p)

Continue(p, next) == req' = [req EXCEPT ![p] = next]
Commit(p) == Continue(p, Idle)

-----------------------------------------------------------------------------
TxnInit == Init /\ req = [p \in Requests |-> Idle]

-----------------------------------------------------------------------------
(* borrow_book: Member, then Book, then the holds of the book.             *)

StartBorrow(p, m, b) ==
    /\ req[p] = Idle
    /\ \A q \in Others(p) : ~LocksMember(req[q], m)
    /\ MayBorrow(m)
    /\ Continue(p, [pc |-> "borrow_book", member |-> m, book |-> b])
    /\ UNCHANGED tables

LockBorrowedBook(p) ==
    /\ Runs(p, "borrow_book")
    /\ books[req[p].book].state = "LIVE"
    /\ Continue(p, [pc |-> "borrow_hold", member |-> req[p].member, book |-> req[p].book,
                    available |-> books[req[p].book].available])
    /\ UNCHANGED tables

\* The new stock is computed from what was read with the lock on the book.
TakeReadCopy(m, b, available) ==
    \/ /\ SoleHolder(m, b)
       /\ reservations' = Closed(reservations, Held(b, reservations), "COMPLETED")
       /\ UNCHANGED books
    \/ /\ Held(b, reservations) = {}
       /\ available > 0
       /\ books' = [books EXCEPT ![b].available = available - 1]
       /\ UNCHANGED reservations

FinishBorrow(p, l) ==
    /\ Runs(p, "borrow_hold")
    /\ loans[l] = NoRow
    /\ TakeReadCopy(req[p].member, req[p].book, req[p].available)
    /\ loans' = [loans EXCEPT ![l] = NewLoan(req[p].member, req[p].book)]
    /\ Commit(p)
    /\ UNCHANGED <<now, membership>>

-----------------------------------------------------------------------------
(* place_reservation: Book, then Member; all its checks but the member's   *)
(* lock come from the Book row and the snapshot taken right after it.      *)

StartPlace(p, m, b) ==
    /\ req[p] = Idle
    /\ \A q \in Others(p) : ~LocksBook(req[q], b)
    /\ books[b].state = "LIVE"
    /\ books[b].available <= 0
    /\ MayReserve(m, b)
    /\ Continue(p, [pc |-> "place_member", member |-> m, book |-> b])
    /\ UNCHANGED tables

LockReservingMember(p) ==
    /\ Runs(p, "place_member")
    /\ Continue(p, [req[p] EXCEPT !.pc = "place_insert"])
    /\ UNCHANGED tables

\* An id of the model is also the gap of the table that its row goes into.
FinishPlace(p, r) ==
    /\ Runs(p, "place_insert")
    /\ reservations[r] = NoRow
    /\ \A q \in Others(p) : ~LocksReservation(req[q], r)
    /\ reservations' = [reservations EXCEPT ![r] = NewReservation(req[p].member, req[p].book)]
    /\ Commit(p)
    /\ UNCHANGED <<now, books, loans, membership>>

-----------------------------------------------------------------------------
(* return_book and renew_book read the loan without a lock.                *)

\* With LoanOverlap FALSE, no other request in flight is about the loan.
MayStartOn(l) ==
    LoanOverlap \/ \A q \in Requests :
        /\ req[q].pc \in {"return_loan", "renew_loan"} => req[q].loan # l
        /\ ~LocksLoan(req[q], l)

StartReturn(p, l) ==
    /\ req[p] = Idle
    /\ OnLoan(l) /\ MayStartOn(l)
    /\ Continue(p, [pc |-> "return_loan", loan |-> l])
    /\ UNCHANGED tables

WriteReturn(p) ==
    /\ Runs(p, "return_loan")
    /\ Continue(p, [pc |-> "promote", book |-> loans[req[p].loan].book,
                    cause |-> <<"return", req[p].loan>>])
    /\ UNCHANGED tables

StartRenew(p, l) ==
    /\ req[p] = Idle
    /\ OnLoan(l) /\ MayStartOn(l)
    /\ loans[l].renewal_count < MaxRenewals
    /\ now <= loans[l].due_date
    /\ Continue(p, [pc |-> "renew_loan", loan |-> l, read |-> loans[l]])
    /\ UNCHANGED tables

\* The ORM writes the columns that differ from what was read: the status only
\* when the loan was not RENEWED already.
FinishRenew(p) ==
    /\ Runs(p, "renew_loan")
    /\ LET read == req[p].read
       IN  loans' = [loans EXCEPT ![req[p].loan] =
               [Extended(read) EXCEPT
                   !.status = IF read.status = "RENEWED" THEN loans[req[p].loan].status ELSE @]]
    /\ Commit(p)
    /\ UNCHANGED <<now, books, reservations, membership>>

-----------------------------------------------------------------------------
(* cancel_reservation, and promote_next_reservation for it and return_book. *)

CancelWaiting(r) ==
    /\ \A q \in Requests : ~LocksReservation(req[q], r)
    /\ CancelPending(r)
    /\ UNCHANGED req

StartCancelHold(p, r) ==
    /\ req[p] = Idle
    /\ \A q \in Others(p) : ~LocksReservation(req[q], r)
    /\ reservations[r].status = "HOLD"
    /\ Continue(p, [pc |-> "promote", book |-> reservations[r].book, cause |-> <<"cancel", r>>])
    /\ UNCHANGED tables

\* What the transaction of request q wrote before it promotes.
LoansOf(q) ==
    [l \in LoanIds |-> IF q.cause = <<"return", l>> THEN [loans[l] EXCEPT !.status = "RETURNED"]
                                                    ELSE loans[l]]
ReservationsOf(q) ==
    Closed(reservations, {r \in ReservationIds : q.cause = <<"cancel", r>>}, "CANCELLED")

\* The query for the oldest waiting reservation reads what is committed and
\* waits for whoever has the row locked.
PromoteOldest(p) ==
    /\ Runs(p, "promote")
    /\ \E r \in Oldest(req[p].book) :
          /\ \A q \in Others(p) : ~LocksReservation(req[q], r)
          /\ reservations' = [ReservationsOf(req[p]) EXCEPT ![r] = Promoted(@)]
    /\ loans' = LoansOf(req[p])
    /\ Commit(p)
    /\ UNCHANGED <<now, books, membership>>

FindNobody(p) ==
    /\ Runs(p, "promote")
    /\ Pending(req[p].book, reservations) = {}
    /\ Continue(p, [req[p] EXCEPT !.pc = "shelve"])
    /\ UNCHANGED tables

\* CHECK chk_books_available_copies_lte_total: the transaction fails otherwise.
ChecksHold == \A b \in Books : books'[b].available <= books'[b].total

ShelveCopy(p) ==
    /\ Runs(p, "shelve")
    /\ books' = [books EXCEPT ![req[p].book] = Shelved(@, 1, 0)]
    /\ ChecksHold
    /\ loans' = LoansOf(req[p])
    /\ reservations' = ReservationsOf(req[p])
    /\ Commit(p)
    /\ UNCHANGED <<now, membership>>

-----------------------------------------------------------------------------
(* process_expired_holds.                                                  *)

\* All scans go in the order of the ids, which is any order: a second sweep
\* waits for the first at the row both begin with.
StartSweep(p) ==
    /\ req[p] = Idle
    /\ \A q \in Others(p) : req[q].pc \notin {"scan", "sweep"}
    /\ \E r \in ReservationIds : Continue(p, [pc |-> "scan", locked |-> {}, next |-> r])
    /\ UNCHANGED tables

ScanRow(p) ==
    /\ Runs(p, "scan")
    /\ LET locked == req[p].locked \cup {req[p].next}
       IN  \/ \E r \in ReservationIds \ locked :
                 Continue(p, [pc |-> "scan", locked |-> locked, next |-> r])
           \/ /\ locked = ReservationIds
              /\ ExpiredHolds # {}
              /\ Continue(p, [pc |-> "sweep"])
    /\ UNCHANGED tables

FinishSweep(p) ==
    /\ Runs(p, "sweep")
    /\ SweepExpiredHolds
    /\ ChecksHold
    /\ Commit(p)

-----------------------------------------------------------------------------
(* Operations on one row, and the world outside.                           *)

WriteBook(b) ==
    /\ \A q \in Requests : ~LocksBook(req[q], b)
    /\ (\E n \in 0..MaxCopies : CreateBook(b, n) \/ UpdateBook(b, n)) \/ DeleteBook(b)
    /\ UNCHANGED req

\* The transaction ends without effect: a check fails, the request is
\* chosen as deadlock victim or waits too long for a lock, or the process dies.
Rollback(p) == req[p] # Idle /\ Commit(p) /\ UNCHANGED tables

\* Abstraction: transactions are short beside the periods of the library, so
\* the clock stands while one is in flight.
QuietTick == Quiet /\ Tick /\ UNCHANGED req

TxnNext ==
    \/ \E p \in Requests, m \in Members, b \in Books : StartBorrow(p, m, b) \/ StartPlace(p, m, b)
    \/ \E p \in Requests : LockBorrowedBook(p) \/ LockReservingMember(p)
    \/ \E p \in Requests, l \in LoanIds : FinishBorrow(p, l) \/ StartReturn(p, l) \/ StartRenew(p, l)
    \/ \E p \in Requests, r \in ReservationIds : FinishPlace(p, r) \/ StartCancelHold(p, r)
    \/ \E p \in Requests : WriteReturn(p) \/ FinishRenew(p)
    \/ \E p \in Requests : PromoteOldest(p) \/ FindNobody(p) \/ ShelveCopy(p)
    \/ \E p \in Requests : StartSweep(p) \/ ScanRow(p) \/ FinishSweep(p) \/ Rollback(p)
    \/ \E r \in ReservationIds : CancelWaiting(r)
    \/ \E b \in Books : WriteBook(b)
    \/ QuietTick

TxnSpec == TxnInit /\ [][TxnNext]_txnVars
-----------------------------------------------------------------------------
(* Properties.                                                             *)

\* Each transaction takes effect as one operation of Circulation, or not at
\* all: whatever the requests interleave, the tables change as if they had run
\* one after the other.
AtomicOperations == Spec

\* What a request has checked still holds while it waits for its next lock:
\* the locks taken so far keep others from changing it before the commit.
ChecksLast ==
    \A p \in Requests :
        /\ req[p].pc \in {"borrow_book", "borrow_hold"} => MayBorrow(req[p].member)
        /\ req[p].pc = "borrow_hold" =>
              /\ books[req[p].book].state = "LIVE"
              /\ books[req[p].book].available = req[p].available
        /\ req[p].pc \in {"place_member", "place_insert"} =>
              /\ books[req[p].book].state = "LIVE" /\ books[req[p].book].available <= 0
              /\ MayReserve(req[p].member, req[p].book)
        /\ req[p].pc = "shelve" => Pending(req[p].book, reservations) = {}
        /\ req[p].pc = "sweep" => ExpiredHolds # {}

\* Requests that wait for each other in a circle: InnoDB has to abort one.
Circle(S) == S # {} /\ \A p \in S : \E q \in S \ {p} : Blocks(q, p)

-----------------------------------------------------------------------------
(* What the documents promise and the code does not do.                    *)

\* borrow_service.py, line 275: return_book is idempotent.  Two returns of one
\* loan that overlap both read it as on loan, and each releases a copy.
NoCopyReleasedTwice ==
    \A b \in Books : books[b].state = "LIVE" =>
        books[b].available + Cardinality(CopiesOut(b)) + Cardinality(Held(b, reservations))
            <= books[b].total

\* app/domain/enums.py, lines 41 to 46: no transition leaves RETURNED.  A
\* renewal that read the loan before it was returned writes RENEWED over it.
ReturnedIsFinal ==
    [][\A l \in LoanIds : loans[l].status = "RETURNED" => loans'[l].status = "RETURNED"]_txnVars

\* core/exceptions.py, line 152: a member has at most MaxActiveReservations.
\* Two requests of a member for two books lock two different books, count the
\* reservations before either inserts, and meet at the member's lock only then.
ReservationLimitKept ==
    \A m \in Members : Cardinality(ActiveReservations(m)) <= MaxActiveReservations

\* ADR-0017, line 26: no two transactions wait for each other in a circle.
\* borrow_book locks the member before the book, place_reservation the book
\* before the member; and borrow_book locks the book before its holds, the
\* cancellation of a hold and the sweep lock the holds before the book.
NoCircularWait == \A S \in SUBSET Requests : ~Circle(S)

=============================================================================
