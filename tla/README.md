# Verification of the library management platform

TLA+ models of the lending core, the request layer, the reports and the login sessions of the
platform (FastAPI, SQLAlchemy, MySQL/InnoDB), their TLC runs, and TLAPS proofs. Paths are
relative to the repository root.

- [1. The system](#1-the-system)
- [2. The modules](#2-the-modules)
- [3. Runs, bounds, fairness](#3-runs-bounds-fairness)
- [4. What the runs refute](#4-what-the-runs-refute)
- [5. Proofs](#5-proofs)
- [6. Not modelled](#6-not-modelled)
- [7. Plan](#7-plan)

## 1. The system

Each HTTP request runs on an SQLAlchemy session of its own. A service method is wrapped by
`@transactional` (`app/db/transaction.py`): the outermost call opens one database transaction,
nested calls join it, an exception rolls everything back. All state is in MySQL, at InnoDB's
default isolation, REPEATABLE READ; the components meet only there and in direct calls between
services of one request.

| component | state | operations | interacts with | makes it correct |
|---|---|---|---|---|
| Loans, `borrow_service.py` | `borrow_records` | borrow, return, renew, history | locks members and books; completes holds; return calls the reservation service's promotion | limits respected; due dates exact; a returned loan stays returned; a copy is released once |
| Reservations, `reservation_service.py` | `reservations` | place, cancel, promote, sweep expired holds, list | locks books, reservations, members; restores copies to the shelf | queue served in order; one active reservation per member and book; a hold has a deadline; a copy goes to the shelf only past an empty queue |
| Stock, `book_service.py` | `books` | create, change copies, soft delete, search | its `available_copies` is written by the two services above as well | shelf + loans + holds = copies |
| Members | `members` | read by the services | nothing in the application changes the membership status | only active members borrow and reserve |
| Requests: `api/v1`, `dependencies/auth.py`, `app/db`, `main.py` | one session per request, its connection from the pool, its depth of `@transactional` | check the token's user, run the operation in one transaction, answer, close the session | every service method; the unique indexes and the locks of MySQL | an answer tells the truth about the tables; all of an operation or nothing; a connection is always given back; every request ends |
| Authentication, `auth_service.py` | `users`, `refresh_tokens` | register, login, refresh, logout | the requests' token check | a session has one live refresh token; a session that is over stays over; an account has its member |
| Dashboard, `dashboard_service.py` | none | aggregates in one snapshot | reads all tables | figures from unrelated queries agree |

Hard behaviours, each listed with its line in `PROJECT.json` under `hazards`: plain reads before
locks (return, renew, refresh), three different lock orders, gap locks that alone separate
"the queue is empty" from "a reservation is being inserted", counters kept by hand in three
methods, a sweep that handles many holds in one transaction and that nothing schedules, holds
past their deadline, a soft delete that looks at nothing, look-ups that a unique index
contradicts later, a route that reads again after its commit, answers that are lost, a pool of
connections shared by requests that also wait for each other's locks.

## 2. The modules

**`Circulation`** is the abstract specification: loans, reservations and stock with one atomic
action per service method. Its variables are the tables: `books`, `loans` (`borrow_records`),
`reservations`, `membership` (the status column of `members`), and the clock `now`. A row is a
record with the columns the decisions read; a row not inserted yet is `NoRow`.

| action | code |
|---|---|
| `CreateBook`, `UpdateBook`, `DeleteBook` | `book_service.py`, same names |
| `BorrowBook` = `MayBorrow`, `TakeCopy`, `NewLoan` | `borrow_book` with `_validate_member_for_borrow` |
| `ReturnBook`, `RenewBook` | `return_book`, `renew_book` |
| `PlaceReservation` = stock check, `MayReserve`, `NewReservation` | `place_reservation` |
| `CancelPending`, `CancelHold` | the two paths of `cancel_reservation` |
| `SweepExpiredHolds` | `process_expired_holds`, all expired holds of all books in one step |
| `PromoteNext` (operator of the three above and of `ReturnBook`) | `promote_next_reservation` |
| `SetMembership`, `Tick` | outside the application: a librarian's SQL, the clock |

A rejected request raises and rolls back, so it is no step. `PromoteNext` stands for all the
promotions of a transaction together: a sweep calls `promote_next_reservation` once per expired
hold, each call takes the oldest waiting row left or restores one copy, and the calls for
different books touch different rows, so the outcome is "the oldest n of each queue, the rest of
the copies to the shelf". That this is what the loop leaves is checked, not assumed: `LoopOutcomes`
runs `process_expired_holds` hold by hold, in every order in which its query may find them, with a
fresh query for each promotion (`PromoteOne`), and `SweepIsItsLoop` compares the two in every state
of the run `queue`. Equal timestamps come in any order, as in SQL. Two traits of the code
are kept on purpose: promotion does not look at the book, so the queue of a deleted book is
served and its copies disappear (`Shelved`); and a hold of anybody blocks the whole book for
everybody else, while two holds block it for all (`SoleHolder`, `OnShelf`).

**`HoldQueue`** is the abstract specification of one book: what ADR-0019 and ADR-0020 promise about
its copies and the members who wait. Rows and dates are gone. A ticket stands for an active
reservation and can be used again when the reservation closes, the order of the queue is the
relation `ahead`, and the clock is what divides holds into `fresh` and `late` ones; so behaviours
never end and liveness can be asked without a bound on time.

| action | what happens to the book |
|---|---|
| `Create`, `Stock`, `Delete` | entered, number of copies changed, deleted |
| `Join`, `Leave` | a reservation is placed, a waiting one is cancelled |
| `BorrowHeld`, `BorrowShelved`, `Return` | a copy is borrowed by its holder or from the shelf, comes back |
| `CancelHold`, `Sweep` | a hold, or all late holds, are closed and their copies released |
| `Pass(L)` | time passes, and the deadlines of the holds `L` with it |

**`CirculationQueues`** instantiates `HoldQueue` once per book with a refinement mapping (tickets are
reservation ids, `ahead` compares `reserved_at`, `late` is what the sweep's query would find), and
states as `EveryBookIsAQueue` that each step of `Circulation` is for every book a step of its queue
or no step. What is shown of `HoldQueue` thus holds of every book.

**`Reports`** has what people are told about the state of `Circulation`, as operators: the position
in the queue (`compute_queue_position`), the fine (`FlatDailyFineStrategy`) and the dashboard's
aggregates. Its properties compare figures computed in different places.

**`CirculationTxn`** is the detailed specification: the same tables, and several sessions that
run the statements of those methods one at a time. `req[p]` is the transaction of session p: what
it does next and what it has read. Which row locks and gap locks a transaction holds follows from
how far it has come (`LocksMember`, `LocksBook`, `LocksLoan`, `LocksReservation`, `LocksQueue`),
and `Blocks` says whose lock the next statement needs. InnoDB is external code, modelled by these
rules:

- `SELECT ... FOR UPDATE` and `UPDATE` read what is committed now and lock it to the end of the
  transaction; a plain `SELECT` reads the snapshot taken by the first plain `SELECT` of the
  transaction and locks nothing.
- A locking query that finds nothing locks the gap: nobody else can insert there. Gap locks do
  not exclude each other. The sweep's query has no usable index and locks every row and gap of
  `reservations`, one after another: it may wait in the middle of its scan, with some rows locked
  (`ScanRow`).
- What a transaction wrote is locked until it commits, so the model applies it at the commit. A
  statement that takes the last lock, the writes after it and the commit are one action; the
  first lock and the snapshot right after it are one action.
- `return_book` and `renew_book` read the loan without a lock, then write it: two actions. The
  ORM writes only changed columns (`FinishRenew` leaves `status` alone if it read RENEWED).
- The CHECK constraint on `available_copies` fails the transaction (`ChecksHold`).
- Deadlock victims, lock wait timeouts, failed checks and crashes all end in `Rollback`, which
  any transaction in flight may take at any time.

| actions | code |
|---|---|
| `StartBorrow`, `LockBorrowedBook`, `FinishBorrow` | `borrow_book`: Member, Book, holds |
| `StartPlace`, `LockReservingMember`, `FinishPlace` | `place_reservation`: Book, Member, insert |
| `StartReturn`, `WriteReturn`, then promotion | `return_book` |
| `StartRenew`, `FinishRenew` | `renew_book` |
| `CancelWaiting`; `StartCancelHold`, then promotion | `cancel_reservation` |
| promotion: `PromoteOldest`, or `FindNobody` and `ShelveCopy` | `promote_next_reservation` |
| `StartSweep`, `ScanRow`, `FinishSweep` | `process_expired_holds`: the scan of its query, then the loop |
| `WriteBook` | `book_service.py`, one row lock each |

`AtomicOperations` says that `CirculationTxn` implements `Circulation`; the refinement mapping is
the identity on the tables, and the steps of a transaction before its commit are stuttering
steps. `FinishBorrow`, `FinishPlace`, `ShelveCopy` and `FinishRenew` do not test again what the
code does not test again: `Circulation`'s guards hold at the commit only if the locks kept them
true, which is also what the invariant `ChecksLast` states.

**`Requests`** follows a request from the route to its answer: the session of `get_db`, the
connections of the pool, the read of the token's user (which opens an implicit transaction that
`@transactional` commits first), the transaction with its nesting, the statements of the operation
and the exception handlers. It has the operations that meet a unique index (`create_book`,
`update_book` with a new ISBN, `delete_book`, `register`), `return_book`, which nests a second
`@transactional` method, and `place_reservation`, whose route reads the queue position after the
commit. The tables hold what is committed; what a request wrote is in its record (`wrote`) and
joins them at the commit. `Claims`, `LocksBook`, `LocksLoan`, `LocksReservedBook` are the locks that
follow from it.

| actions | code |
|---|---|
| `Arrive`, `Connect`, `PoolTimeout` | the route, `get_db`, the pool of `db/session.py` |
| `Refuse`, `Authorise` | `get_current_user` and `RoleRequirement` |
| `LookUpIsbn`, `InsertBook` | `create_book` |
| `FindBook`, `RenameBook`; `FindBook`, `MarkDeleted` | `update_book`; `delete_book` |
| `LookUpEmail`, `InsertUser`, `InsertMember` | `register` |
| `ReadLoan`, `WriteLoan`, `Promote` | `return_book` and the nested promotion |
| `CheckReservation`, `InsertReservation`, `ReadPosition` | `place_reservation` and its route |
| `Commit`, `CommitUnheard` | leaving `session.begin()`; the connection breaks before the answer of the database |
| `Break`, `Crash` | a failing statement (connection, deadlock, lock time-out); the process dies |
| `Close` | the answer is out, `get_db` closes the session |
| `ReaderConnects`, `ReaderEnds` | requests that only read: they occupy connections |

A duplicate ISBN found by the look-up is a `ValueError`, which nothing translates, and answered with
500; the same duplicate met at the index, because the look-up came too early or the row is deleted,
is an `IntegrityError`, answered with 400. The model keeps this.

**`AtomicRequests`** is the abstract specification of it: what a client may conclude from an answer.
Success means the effect has happened, once and at a moment when it was allowed; 400 and 404 that at
some moment of the request the key was taken or the row was not there; 401, 403 and 409 that
nothing changed; 500 and silence that all of it happened or nothing. `PromisesKept` is the
refinement: locks, connections and half-done transactions disappear, and each request takes effect
in one step between its arrival and its answer.

**`TokenRotation`** is independent of these: the table `refresh_tokens`, the status of users,
and the refreshes in flight (`req`). A login opens a family of tokens; a refresh revokes its token
and inserts a successor in the same family. `refresh_token` reads its token without a lock and
writes at the end, so a refresh is two actions, with the decision made on the state of the first.
The ORM writes only the columns it changed, and `revoked` only ever becomes true, so no write
undoes another one. Token strings, fingerprints, passwords and access tokens are the identity of a
row.

| actions | code |
|---|---|
| `Login` | `login`: reads the user, inserts a row with a new `family_id` |
| `StartRefresh` | `refresh_token` up to its checks (`MayRotate`, or the revoked branch) |
| `FinishRotate` = `Rotated` | the old row revoked, the successor inserted, the commit |
| `FinishRevoke` | every row of the family in the snapshot revoked, and the explicit commit |
| `Logout` | `logout`; reading `revoked` first changes nothing, one action |
| `Rollback` | `@transactional` |
| `SetStatus`, `Tick` | outside the application |

A refresh with an expired token marks it revoked and raises; `@transactional` rolls the mark back,
so it is no step. `overlapped` is a history variable: the families that ever had a request run
beside another one.

**`MCCirculation`**, **`MCCirculationTxn`**, **`MCTokenRotation`** add the symmetry sets for TLC,
**`MCRequests`** the operations of the run. **`CirculationProofs`**, **`ReservationProofs`** hold the
theorems of `Circulation`, **`QueueProofs`** that of `CirculationQueues`, **`HoldQueueProofs`**,
**`TxnProofs`**, **`ReportsProofs`**, **`RequestsProofs`**, **`TokenProofs`** those of the module in
their name.

In the models a definition marked "Variant" is a plausible bug of the definition below it
(a dropped check, a missing lock, the wrong order). It is used by no specification;
`PROJECT.json` pairs each with the property that notices it.

## 3. Runs, bounds, fairness

| run | instance | checks |
|---|---|---|
| `queue` | 1 book of up to 2 copies, 3 members, 3 reservations, 2 loans; 305,420 states | `TypeOK`, `CopiesConserved`, `DeadlineOfHolds`, `NoDuplicateReservation`, `SweepIsItsLoop`, `FifoPromotion`, `ShelvedOnlyWithoutQueue`, `PositionTellsTheTurn`, `EveryBookIsAQueue` |
| `loans` | 2 books of 1 copy, 2 members, 2 loans, 2 reservations, 2 renewals; 2,075,664 states | `CopiesConserved`, `LimitsRespected`, `DueDateAccountsForRenewals`, `FinePerStartedDay`, `FiguresAgree`, `Settled`, `LateUntilReturned`, `OwnLoanPastThePage` |
| `txn` | 3 sessions, 1 book of up to 2 copies, 2 members, 2 loans, 2 reservations; 962,038 states | `TxnTypeOK`, `ChecksLast`, `LimitsRespected`, `AtomicOperations` |
| `holdqueue` | 4 tickets, up to 2 copies; 20,433 states | `TypeOK`, `EveryHoldEnds`, `NobodyStarves`, `CopiesCirculateWhileAwaited` |
| `requests` | 2 sessions and a reader on a pool of 2 connections, 2 books, 2 ISBNs, 1 email, 1 loan; 151,730 states | `TypeOK`, `NoConnectionLeaks`, `NothingHalfDone`, `PromisesKept`, `EveryRequestEnds` |
| `tokens` | 1 user, 2 login sessions, 4 tokens, 2 concurrent requests; 59,384 states | `TypeOK`, `SingleUseInTurn`, `ClosedStaysClosed` |
| `two_holds` | as `queue` | one refuted promise each, section 4 |
| `double_return`, `renew_over_return`, `circular_wait` | 2 sessions, 1 book of 1 copy | one refuted promise each, section 4 |
| `reservation_limit` | 2 sessions, 2 books, 1 member with a limit of 1 | one refuted promise, section 4 |
| `token_reuse` | as `tokens` | one refuted promise, section 4 |

Why the bounds are enough for the cases at hand: with two copies and three members a sweep can
expire two holds while one member waits, so promotion and shelf are mixed in one transaction;
three reservations give a queue in which an order can go wrong. The limit of two active
reservations in `queue` leaves room for a second one of the same book, so that uniqueness does not
follow from the limit. In `loans` and `txn` both limits are 1 and there are two rows of each kind,
so that either limit could be exceeded; a page of one loan (`HistoryPage`) in `loans` leaves a loan
that is still out past it. Two books let one sweep release copies of both, let a member's limit span books,
and let a figure of the dashboard miss a deleted book beside a live one. A limit of 1 is met at
once, where the production values 5 and 3 would need more rows. `MaxTime = 1` with periods of 0 or
1 gives loans and holds both before and after their deadline; `BorrowPeriod = 0` makes a loan
overdue after one tick, a renewal moves it out of reach. `FinePerStartedDay` divides the instant
into a day of four units and a second of two, so that a delay falls before, at and after both
boundaries. `LoanIds` and `ReservationIds` are never reused, so they bound the length of a history;
`MaxCopies` bounds the copies a librarian may set. The proofs of section 5 need none of these
bounds but the finiteness of the tables.

`txn` has one book, which includes every pair of operations but two: transactions about different
books meet in the sweep and in the member's row. Of these, two reservations of one member for two
books break the limit, which `reservation_limit` shows; the proof of `TransactionsAreAtomic` covers
the others. `LoanOverlap = FALSE` restricts a run to histories in which no two requests about one
loan overlap. The code does not enforce it: two of the runs that refute a promise lift it.
`QuietTick` lets the clock stand while a transaction is in flight: periods are days and hours,
transactions milliseconds.

`holdqueue` needs four tickets so that behind two holders there are two who wait, in an order, and
two copies so that both holders can block each other (`two_holds`). Tickets are reused, so
behaviours are infinite.

`requests` has two books that are entered with the same ISBN, one of which can also be renamed to
it and deleted, so that look-up, index and deletion disagree in every order; a registration and a
return that can be repeated while the first is in flight; a reservation. The pool is as small as
the number of sessions, and a reader takes one of its connections, so that requests wait for
connections while they hold none and after their commit. `MaxReaders` bounds the readers at once.

`tokens` gives one session up to four tokens, three rotations in a row or two that overlap, beside
another session. `Lifetime = 1` and `MaxTime = 2` let a token expire, and a successor outlive it.

All runs check for deadlock, and find none: time, a change of a membership or user status, or the
start of one more request stays possible.

**Fairness** is assumed in two runs only.

- `HoldQueue` makes assumptions on the environment, as nothing in the application drives the queue:
  time passes (`TimePasses`: every deadline is reached), the job that calls
  `POST /reservations/sweep` is run again and again (`SweptRegularly`; the docstring of
  `process_expired_holds` assumes it), and loans come back some day (`LoansComeBack`). Nobody has to
  borrow, reserve or cancel. `NobodyStarves` has a premise besides: copies of the book are out or
  held again and again. Without it the property is false, and so is the code: a book entered with no
  copies can be reserved, and copies added by `update_book` reach the shelf past the queue.
- `Requests`: the event loop runs requests that can go on (weak fairness of the token check once it
  has its connection, of closing and of readers), and lock waits and waiters of the pool are served in order of arrival
  (strong fairness of statements and of `Connect`). No time-out, failure or crash is counted on: they
  may happen and need not. Weak fairness would not do for locks and connections, as both come and go
  while a request waits.

**Refinements**: `CirculationTxn` implements `Circulation` (`AtomicOperations`), `Circulation`
implements one `HoldQueue` per book (`EveryBookIsAQueue`), `Requests` implements `AtomicRequests`
(`PromisesKept`). The first two compose: however the statements of
requests about different loans interleave, every book behaves as its queue
(`StatementsKeepQueues`).

## 4. What the runs refute

| run | the document | the code |
|---|---|---|
| `two_holds` | ADR-0019: the member a copy is held for borrows it | two copies returned to a queue of two give two holds, and `scalar_one_or_none` at `borrow_service.py:212` raises for everybody |
| `double_return` | `borrow_service.py:275`: `return_book` is idempotent | overlapping returns both read the loan as BORROWED; one promotes a waiting member, the other restores the shelf |
| `renew_over_return` | `enums.py:41-46`: no transition leaves RETURNED | the renewal read the loan before the return committed, and writes RENEWED over it |
| `reservation_limit` | `core/exceptions.py:152`: a member has at most the maximum of active reservations | the count is read from the snapshot before the member is locked, so two reservations for two books both pass |
| `token_reuse` | `auth_service.py:162`: single use | two overlapping refreshes of one token both read it as live, and each inserts a successor |
| `circular_wait` | ADR-0017: Member first, then Book, so no circular wait | `place_reservation` locks Book, then Member; the promotion after a cancelled hold and the sweep lock reservations before Book, `borrow_book` after it |

Three more disagreements are in the models without a run of their own:

- `core/exceptions.py:166` (and a reservation test) refuse the reservation of a book the member has
  checked out; `place_reservation` looks for the loan among the newest 20 loans only.
  `OwnLoanPastThePage` states what does hold: a loan is missed only behind a full page of loans that
  are as new.
- `borrow_service.py:65` counts any partial day as a full day overdue, but drops the microseconds: a
  delay of less than a second costs nothing, while `borrow_repository.py:50`, `borrow_service.py:385`
  and `dashboard_repository.py:146` already call that loan late. `FinePerStartedDay` states the rule
  the code follows.
- ADR-0016 says that the reuse of a refresh token invalidates its whole family. A rotation that has
  read its token before the revocation commits inserts a live token after it; `ClosedStaysClosed`
  holds of families without a rotation in flight. The missing lock is that of `token_reuse`.

Two traits of the code are modelled as they are and stated as premises or comments: the
holder may borrow after the deadline until a sweep runs (`BorrowHeld` of `HoldQueue`), and copies
added to a book overtake its queue (`Stock`).

## 5. Proofs

**`Circulation`.** The theorems are `Spec => []P` (or `[][A]_vars`), for any sets of books and
members, any finite tables, and any limits and periods in the naturals (`IdsAssumption`,
`LimitsAssumption`, `PeriodsAssumption`, `BoundsAssumption`).

- `TypeCorrect`: `TypeOK` is inductive as it stands. Its hard part is `PromotionEffect`: the
  copies that `Shelved` adds are never negative, because a promotion takes at most as many
  waiting rows as copies were released.
- `CopiesAlwaysConserved`: `TypeOK /\ CopiesConserved` is inductive. The argument counts, with
  the theorems on cardinality: `PromotionConserves` shows that promoted plus shelved copies are
  the released ones, `ClosingHolds` that the closed holds are exactly the released copies, and
  each operation moves a copy between shelf, loans and holds.
- `QueueIsFifo`, `ShelvedAfterQueue`: every step that promotes is a `PromoteNext` of one of three
  operations; that the chosen rows are the oldest, and that a copy left over means that the
  whole queue was chosen, follow from `Promotable`. The second needs that a book with no row yet
  has no loans, holds or queue (`UnusedBooks`), or `CreateBook` could shelve past a queue.
- `ReservationsUnique`, `LimitsKept`: only `PlaceReservation` activates a reservation
  (`OnlyPlacingActivates`) and only `BorrowBook` a loan; all other steps shrink the counted sets
  or keep them.
- `HoldsHaveDeadlines`, `DueDatesExact`, `SettledRowsStay`: row by row, from how each operation
  may change a row.
- `LateLoansComeBack` (`LateStep`): a late loan is refused a renewal by the comparison with its due
  date and its member a new loan by the count of late loans, and the clock only moves forward.
- `OwnLoansHidePastThePage`: a loan that the page misses shows that the page is full
  (`PastThePage`), and all loans on it are as new.

**The queue of a book.** `BooksAreQueues` is the refinement `EveryBookIsAQueue`, for every book at
once. The invariant it needs (`QueueInv`) is `TypeOK`, `CopiesConserved` (a queue's copies on loan
are counted rows, and `Stock` must know them) and `DatedSoFar`, that no reservation is dated in the
future: a member who joins is behind everybody of an earlier instant. `ReleaseOfQueue` maps
`PromoteNext` to `Release`, and one lemma per operation shows which step of `HoldQueue` the book
concerned takes and that the others stutter. Of `HoldQueue` itself, `QueueTypeCorrect` shows that
`ahead` stays an order in which nobody loses a place, and `CopiesKeepCirculating` the action property
that promotion keeps copies in circulation while anybody waits.

**Wider steps.** Overlapping requests do what a request alone is refused, so the lemmas about a
step are proved of the widest steps they hold of. `FreeNext` adds to `Next` a reservation past the
limit (`Enqueue`). `RacyNext` is wider still: it lends whatever the borrower has on loan (`Lend`),
takes a loan back that may be back already (`GiveBack`) and writes over a loan that changed since it
was read (`Rewrite`). Types, uniqueness, FIFO order, deadlines and closed reservations hold of
`RacyNext`, conservation of copies, the queues and due dates of `FreeNext`, the limit of
reservations of `Next` only. `CirculationTxn` is then proved of in three layers.

**Transactions that do not race.** Section 4 shows two kinds of requests to race: two about one
loan (`double_return`, `renew_over_return`), and two reservations of one member
(`reservation_limit`). Without either, that is for `LoanOverlap = FALSE` and under the premise
`[]ReservesInTurn`, `TransactionsAreAtomic` and `ChecksAlwaysLast` say that the locks suffice for
everything else. With one book `ReservesInTurn` follows from the lock on the book
(`OneBookInTurn`), so that the run `txn` is an instance. The inductive invariant `TxnInv` has,
beside types,

- `Checked`, which is `ChecksLast` request by request but for the number of reservations, and
  `Current`: what a request has read or written is still so (the loan is on loan, the hold is a
  hold of the book it will release);
- `Apart`: no two transactions hold the same row lock or are about the same loan. This makes the
  locks usable: `Blocks` says whom a statement waits for, `Apart` that the others hold no such lock;
- `DatedLoans`: no loan is dated in the future.

A step before the commit adds a lock and passes one check (`SessionStep`); the scan of a sweep takes
many such steps, one row each (`ScanGoesOn`). A commit is an operation
of `Circulation`, because its guard is what the request has checked, and must leave every other
request as it is (`Spares`): nine lemmas, one per operation that commits and one for the clock. The
hardest case is a checkout by a member whose reservation of another book is in flight: the new loan
may push an old one off the page that `place_reservation` has searched (`PageTurns`), and the book
must still not be found on the page. `Counted`, that what a reserving request has counted is still
below the limit, is the one part that needs `ReservesInTurn` (`CountedStep`).

**Reservations that race.** `TxnInv` alone is inductive without `ReservesInTurn`: each commit is a
step of `FreeNext` (`TxnStep`). Hence two reservations of one member that overlap miss the limit
and touch nothing else: `StatementsKeepQueues` composes the layers, so that the interleaved
statements conserve the copies and implement `HoldQueue` for every book, and `StatementsKeepLoans`
keeps the limit of loans, what is closed and what is late, for `LoanOverlap = FALSE` and no other
premise.
By how much the limit is missed is `LimitMissedByFewer`, for any `LoanOverlap`: by fewer than there
are sessions. Its invariant `Overshoot` counts the requests that have counted and not inserted yet
with the reservations of their member: counting is allowed below the limit only, and an insert turns
one into the other.

**Loans that race.** With `LoanOverlap` either way and no premise at all, `RaceInv` keeps what the
locks still protect. `Secured` is what a request relies on and nobody can change: the locked book
row, the empty queue, the hold to cancel, and of a loan that it exists and whose it is; a renewal
has read a row of the same loan that could be renewed (`Renewable`). `Disjoint` is `Apart` for the
locks on books and reservations. Each commit is then a step of `RacyNext` (`RaceStep`), and so, for
all requests however they overlap,

- `TxnTypeCorrect`, `RacesKeepRows`, `ClosedReservationsStay`: types, uniqueness of active
  reservations, deadlines and due dates hold, and nobody writes over a closed reservation, because
  it is read with the lock its writer needs; a loan is not;
- `RacesKeepOrder`: promotion is FIFO and no copy is shelved past a queue. A copy released twice
  goes through the queue twice;
- `RacesLoseNoCopy`: the copies of a live book are covered by shelf, loans and holds. The double
  return of section 4 can make the sum too large; no race makes it too small, since a renewal never
  ends a loan (`Rewrite`) and a return releases what it takes back.

**`Reports`.** `PositionsKeepTheirWord`: whoever joins is dated now and nobody is dated later
(`DatedSoFar`), so the rows ahead of a reservation only become fewer; and a release that promotes a
row promotes everybody ahead of it. `FinesPerDay` follows from the types and the arithmetic of
`DaysOverdue`; it needs that the clock stops at `MaxTime`, over which its days range.

`DashboardAgrees` is `FiguresAgree` for any finite catalogue and membership
(`CatalogueAssumption`). Its sums fold over sets, and a fold is a choice of a recursive function that
must first be shown to exist: a sum of naturals is the size of a set of pairs (`SumIsUnits`), sizes
satisfy the recursive equation, hence so does the fold (`SumUnfold`). That such a function is unique and
additive is an induction over finite sets, done by a smallest counterexample (`SmallestSubset`,
from the minimal element of a well-founded relation) since the induction theorems themselves cannot be
instantiated. What remains is about the code: the rows of a figure, counted by book or by member, are
all its rows (`CountedByBook`, `SumOfSums`), which needs the invariant `LentBooks` that a row's book is
in the catalogue, deleted or not.

**Requests.** `RequestsTypeCorrect`, `NoLeak`, `AllOrNothing` and the refinement `ClientsMayRely`
hold for any operations, any finite set of sessions, and any pool (`OperationsAssumption`,
`PoolAssumption`, `SessionsAssumption`, `IsbnsAssumption`). `RequestsInv` adds to the three
invariants that every request is sound: what it wrote fits how far it has come (`Progress`), what it
checked lasts (`Checked`), nobody else claims its key or row (`Apart`), and an ISBN is in the table
once (`UniqueIsbns`). `SessionStep` gives the shape every step of a session has, `CommitEffect` that
a commit is the effect of its operation, and each step is then a step of `AtomicRequests` or a
stutter.

**`TokenRotation`**, for any users, families, sessions and lifetime and a finite set of tokens:

- `OneLiveTokenInTurn`: `SingleUseInTurn` alone is not inductive: a rotation in flight could, for
  all it says, hold a token of another family. `Remembered` adds that what a request has read is
  still in the table, in the family the request is about; with it, `InTurnStep` shows for each
  action that a family whose requests take turns keeps its one live token.
- `ClosedForGood`: `RowsStep` says where a new row can come from (a login to an unused family, a
  rotation in flight of the same family) and that a revoked row stays revoked. Neither is possible
  in a closed family, and a refresh can start rotating only with a live token.
- `TokenTypeCorrect`: with `Remembered`, because a successor copies the row it replaces.

**Model-checked only**: liveness (`EveryHoldEnds`, `NobodyStarves`, `EveryRequestEnds`), which is
beyond the prover, and `SweepIsItsLoop`, whose proof would be an induction over the expired holds.
About deadlocks nothing is proved: `NoCircularWait` is refuted, and which circles there are depends
on the order in which InnoDB scans.

## 6. Not modelled

- The bodies of answers, validation of requests, search, the history of a member, health checks.
  The fine of a repeated return is 0 because `fine_amount` is no column; it is in the body only.
- Of the dashboard: counts of members, holds that expire today, ratio and average of the overdue
  loans. The figures that relate to loans, stock and reservations are in `Reports`.
- Which role may call which route: a table without state. When and how a request is refused is in
  `Requests`.
- Passwords, access tokens and fingerprints: pure functions of cryptographic libraries.
- Configuration, metrics and logs. Metric counters are incremented before the commit and are not
  corrected by a rollback; nothing reads them back. Running the migrations is a deployment step;
  the indexes and constraints they create are in `CirculationTxn` and `Requests`.
- The stale membership status of a checkout (the router has loaded the member before the
  transaction): nothing in the application changes the status.
- The depth counter of `@transactional` as a number: nesting is one level deep, and `Promote` joins
  the transaction of the return.
- The query of `borrow_book` for the holds of a book takes its locks in one step; with one hold it
  is one row, and with two `scalar_one_or_none` raises whatever else happens. The clustered and
  secondary indexes of a table are one lock space. Both leave out waiting only: holding less while
  waiting permits more interleavings, not fewer. The order of a sweep's scan is any order, and a
  second sweep waits at the first row until the first is over.
- Two updates that exchange the ISBNs of two books wait for each other on the unique index until
  InnoDB's deadlock detection ends one. `Requests` has that step (`Break`), but nothing forces it, and
  the run has one book that changes its ISBN: `EveryRequestEnds` is not about such a pair.

## 7. Plan

Done: `Circulation` with its queues and reports; `CirculationTxn`; `HoldQueue`; `Requests` with
`AtomicRequests`; `TokenRotation`; the proofs of section 5.

Left: `borrow_book` and the sweep in `Requests`, to follow a deadlock victim from the lock wait to
its answer.
