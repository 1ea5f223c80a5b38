------------------------------ MODULE Requests ------------------------------
(***************************************************************************)
(* A request from the route to its answer: the session of get_db, the      *)
(* connections of the pool, the read of get_current_user, the transaction  *)
(* of @transactional with its nesting, the statements of the operation and *)
(* the exception handlers of main.py.  The operations are those that claim *)
(* a unique key (an ISBN, an email), return_book, which nests a second     *)
(* @transactional method, and place_reservation, whose route reads the     *)
(* database again after the commit.                                        *)
(*                                                                         *)
(* The tables hold what is committed.  What a request wrote in its open    *)
(* transaction is in its record, X-locked, and joins them at the commit.   *)
(***************************************************************************)
EXTENDS Integers, FiniteSets

CONSTANTS
    Books,          \* identities of rows of the books table
    Isbns, Emails,  \* values under a unique index; an email stands for its account
    Loans,          \* loans to return
    Sessions,       \* requests that may be in flight at once
    Operations,     \* what they may ask for
    PoolSize,       \* pool_size + max_overflow connections
    MaxReaders      \* bound: read-only requests that have a connection at once

AllOperations ==
    [kind : {"create", "rename"}, book : Books, isbn : Isbns]
    \cup [kind : {"delete"}, book : Books]
    \cup [kind : {"register", "reserve"}, email : Emails]
    \cup [kind : {"return"}, loan : Loans]

ASSUME OperationsAssumption == Operations \subseteq AllOperations
ASSUME PoolAssumption == PoolSize \in Nat \ {0} /\ MaxReaders \in Nat
ASSUME SessionsAssumption == IsFiniteSet(Sessions)
ASSUME IsbnsAssumption == "NONE" \notin Isbns

VARIABLES
    books, users, members, returned, released, reserved,  \* as in AtomicRequests
    inUse,      \* connections checked out of the pool
    readers,    \* those of them that searches, dashboards and listings have
    req         \* the request of each session

tables == <<books, users, members, returned, released, reserved>>
pool == <<inUse, readers>>
vars == <<tables, pool, req>>

-----------------------------------------------------------------------------
(* Requests in flight.                                                     *)

NoBook == [isbn |-> "NONE"]
Idle == [at |-> "idle", connected |-> FALSE]

\* HTTP status of each way a request can end: the classes of
\* core/exceptions.py and, for the others, the handlers of main.py.
StatusOf ==
    [Success |-> 200, Unauthorized |-> 401, InactiveUser |-> 403, Forbidden |-> 403,
     BookNotFound |-> 404, EmailAlreadyExists |-> 400, AlreadyReserved |-> 400,
     ConcurrentBorrow |-> 409, IntegrityError |-> 400, ValueError |-> 500, OperationalError |-> 500, TimeoutError |-> 500]

Tables == {"book", "user", "member", "loan", "copy", "reservation"}

Request ==
    {Idle}
    \cup [at : {"auth",         \* reads the user of the access token
                "first",        \* the operation's first statement
                "write",        \* inserts or updates its row
                "profile",      \* register: inserts the member
                "promote",      \* return_book: the nested promote_next_reservation
                "commit",
                "position"},    \* the route reads the queue position after the commit
          op : Operations, connected : BOOLEAN, wrote : SUBSET Tables]
    \cup [at : {"answered"}, status : {StatusOf[e] : e \in DOMAIN StatusOf}, connected : BOOLEAN]

TypeOK ==
    /\ books \in [Books -> {NoBook} \cup [isbn : Isbns, deleted : BOOLEAN]]
    /\ users \subseteq Emails /\ members \subseteq Emails /\ reserved \subseteq Emails
    /\ returned \subseteq Loans /\ released \subseteq Loans
    /\ inUse \in 0..PoolSize /\ readers \in 0..MaxReaders
    /\ req \in [Sessions -> Request]

Others(p) == Sessions \ {p}
IsLive(b) == books[b] # NoBook /\ ~books[b].deleted
HasIsbn(isbn) == {b \in Books : books[b].isbn = isbn}
Asks(p, kind) == req[p].op.kind = kind

Init ==
    /\ books = [b \in Books |-> NoBook]
    /\ users = {} /\ members = {} /\ reserved = {}
    /\ returned = {} /\ released = {}
    /\ inUse = 0 /\ readers = 0
    /\ req = [p \in Sessions |-> Idle]

-----------------------------------------------------------------------------
(* Locks of the transactions in flight.                                    *)

InTransaction(q) == req[q].at \in {"write", "profile", "promote", "commit"}

\* The entries of the unique indexes that q has inserted or is moving away.
Claims(q) ==
    IF ~InTransaction(q) THEN {}
    ELSE LET op == req[q].op
         IN  IF "user" \in req[q].wrote THEN {op.email}
             ELSE IF "book" \notin req[q].wrote THEN {}
             ELSE IF op.kind = "create" THEN {op.isbn}
             ELSE IF op.kind = "rename" THEN {op.isbn, books[op.book].isbn}
             ELSE {}

\* place_reservation begins by locking the book; the reservations are all of
\* one book, which is out of stock and none of Books.
LocksReservedBook(q) == InTransaction(q) /\ Asks(q, "reserve")

\* update_book locks the row when it reads it, delete_book when it writes it.
LocksBook(q, b) ==
    /\ InTransaction(q)
    /\ \/ Asks(q, "rename")
       \/ Asks(q, "delete") /\ "book" \in req[q].wrote
    /\ req[q].op.book = b

LocksLoan(q, l) == InTransaction(q) /\ Asks(q, "return") /\ "loan" \in req[q].wrote /\ req[q].op.loan = l

-----------------------------------------------------------------------------
(* Sessions and connections.                                               *)

\* The session takes no connection before its first statement, which is the
\* read of the token's user where the route asks for a token.
Arrive(p, op) ==
    /\ req[p] = Idle
    /\ op.kind = "create" => books[op.book] = NoBook
    /\ op.kind = "create" => \A q \in Others(p) :
          "op" \in DOMAIN req[q] => ~(Asks(q, "create") /\ req[q].op.book = op.book)
    /\ req' = [req EXCEPT ![p] =
          [at |-> IF op.kind \in {"register", "return"} THEN "first" ELSE "auth",
           op |-> op, connected |-> FALSE, wrote |-> {}]]
    /\ UNCHANGED <<tables, pool>>

Waits(p) == req[p].at \in {"auth", "first", "position"} /\ ~req[p].connected

\* The first statement of a transaction checks a connection out.
Connect(p) ==
    /\ Waits(p)
    /\ inUse < PoolSize
    /\ inUse' = inUse + 1
    /\ req' = [req EXCEPT ![p].connected = TRUE]
    /\ UNCHANGED <<tables, readers>>

\* A read-only request takes a connection for its one transaction.
ReaderConnects ==
    /\ inUse < PoolSize /\ readers < MaxReaders
    /\ inUse' = inUse + 1 /\ readers' = readers + 1
    /\ UNCHANGED <<tables, req>>

ReaderEnds ==
    /\ readers > 0
    /\ inUse' = inUse - 1 /\ readers' = readers - 1
    /\ UNCHANGED <<tables, req>>

GiveBack(p) ==
    /\ inUse' = IF req[p].connected THEN inUse - 1 ELSE inUse
    /\ UNCHANGED readers

\* Variant: a session that ends with an exception keeps its connection.
AnswerKeeping(p, answer) ==
    /\ req' = [req EXCEPT ![p] =
          [at |-> "answered", status |-> StatusOf[answer], connected |-> FALSE]]
    /\ inUse' = IF answer = "Success" /\ req[p].connected THEN inUse - 1 ELSE inUse
    /\ UNCHANGED readers

\* Leaving session.begin() commits or rolls back, and either way gives the
\* connection back.
Answer(p, answer) ==
    /\ req' = [req EXCEPT ![p] =
          [at |-> "answered", status |-> StatusOf[answer], connected |-> FALSE]]
    /\ GiveBack(p)

\* An exception before the transaction leaves the session in its implicit
\* one: get_db gives the connection back when it closes the session.
AnswerOpen(p, answer) ==
    /\ req' = [req EXCEPT ![p] =
          [at |-> "answered", status |-> StatusOf[answer], connected |-> req[p].connected]]
    /\ UNCHANGED pool

Raise(p, exception) == Answer(p, exception) /\ UNCHANGED tables

Close(p) ==
    /\ req[p].at = "answered"
    /\ req' = [req EXCEPT ![p] = Idle]
    /\ GiveBack(p)
    /\ UNCHANGED tables

\* get_current_user and RoleRequirement.  A missing or bad token is refused
\* without a connection; the route of place_reservation needs a member.
Refuse(p) ==
    /\ req[p].at = "auth"
    /\ \E exception \in {"Unauthorized"} \cup
            IF req[p].connected THEN {"InactiveUser", "Forbidden"} ELSE {} :
          AnswerOpen(p, exception)
    /\ UNCHANGED tables

\* Variant: the session forgets that it gave the connection back.
AuthoriseConnected(p) ==
    /\ req[p].at = "auth" /\ req[p].connected
    /\ Asks(p, "reserve") => req[p].op.email \in members
    /\ req' = [req EXCEPT ![p].at = "first"]
    /\ inUse' = inUse - 1
    /\ UNCHANGED <<tables, readers>>

\* The user may go on: the service's @transactional method commits the
\* implicit transaction, which gives the connection back.
Authorise(p) ==
    /\ req[p].at = "auth" /\ req[p].connected
    /\ Asks(p, "reserve") => req[p].op.email \in members
    /\ req' = [req EXCEPT ![p].at = "first", ![p].connected = FALSE]
    /\ inUse' = inUse - 1
    /\ UNCHANGED <<tables, readers>>

-----------------------------------------------------------------------------
(* The statements of the operations.                                       *)

Goes(p, at) == req[p].at = at /\ req[p].connected
Continue(p, at) ==
    /\ req' = [req EXCEPT ![p].at = at]
    /\ UNCHANGED <<tables, pool>>
Write(p, table, at) ==
    /\ req' = [req EXCEPT ![p].at = at, ![p].wrote = @ \cup {table}]
    /\ UNCHANGED <<tables, pool>>

\* get_by_isbn finds live books only; nothing translates the ValueError.
LookUpIsbn(p) ==
    /\ Goes(p, "first") /\ Asks(p, "create")
    /\ IF \E b \in HasIsbn(req[p].op.isbn) : IsLive(b)
       THEN Raise(p, "ValueError")
       ELSE Continue(p, "write")

LookUpEmail(p) ==
    /\ Goes(p, "first") /\ Asks(p, "register")
    /\ IF req[p].op.email \in users
       THEN Raise(p, "EmailAlreadyExists")
       ELSE Continue(p, "write")

\* update_book waits for the row; delete_book reads it without a lock.
FindBook(p) ==
    /\ Goes(p, "first") /\ req[p].op.kind \in {"rename", "delete"}
    /\ Asks(p, "rename") => \A q \in Others(p) : ~LocksBook(q, req[p].op.book)
    /\ IF IsLive(req[p].op.book)
       THEN Continue(p, "write")
       ELSE Raise(p, "BookNotFound")

\* Variant: the index is trusted to the look-up before it.
InsertBookUnchecked(p) ==
    /\ Goes(p, "write") /\ Asks(p, "create")
    /\ Write(p, "book", "commit")

\* An insert waits for the transaction that claims the key, and then finds it
\* in the index or not.
InsertBook(p) ==
    /\ Goes(p, "write") /\ Asks(p, "create")
    /\ \A q \in Others(p) : req[p].op.isbn \notin Claims(q)
    /\ IF HasIsbn(req[p].op.isbn) # {}
       THEN Raise(p, "IntegrityError")
       ELSE Write(p, "book", "commit")

RenameBook(p) ==
    /\ Goes(p, "write") /\ Asks(p, "rename")
    /\ \A q \in Others(p) : req[p].op.isbn \notin Claims(q)
    /\ IF HasIsbn(req[p].op.isbn) \subseteq {req[p].op.book}
       THEN Write(p, "book", "commit")
       ELSE Raise(p, "IntegrityError")

MarkDeleted(p) ==
    /\ Goes(p, "write") /\ Asks(p, "delete")
    /\ \A q \in Others(p) : ~LocksBook(q, req[p].op.book)
    /\ Write(p, "book", "commit")

InsertUser(p) ==
    /\ Goes(p, "write") /\ Asks(p, "register")
    /\ \A q \in Others(p) : req[p].op.email \notin Claims(q)
    /\ IF req[p].op.email \in users
       THEN Raise(p, "IntegrityError")
       ELSE Write(p, "user", "profile")

\* The membership number has six random digits and may be taken.
InsertMember(p) ==
    /\ Goes(p, "profile")
    /\ Write(p, "member", "commit") \/ Raise(p, "IntegrityError")

\* return_book reads the loan; one that is returned already is answered as is.
ReadLoan(p) ==
    /\ Goes(p, "first") /\ Asks(p, "return")
    /\ Continue(p, IF req[p].op.loan \in returned THEN "commit" ELSE "write")

WriteLoan(p) ==
    /\ Goes(p, "write") /\ Asks(p, "return")
    /\ \A q \in Others(p) : ~LocksLoan(q, req[p].op.loan)
    /\ Write(p, "loan", "promote")

\* Variant: an inner @transactional call begins by committing, as an outer one does.
PromoteCommitting(p) ==
    /\ Goes(p, "promote")
    /\ returned' = returned \cup {req[p].op.loan}
    /\ req' = [req EXCEPT ![p].at = "commit", ![p].wrote = {"copy"}]
    /\ UNCHANGED <<books, users, members, released, reserved, pool>>

\* The session's _transactional_depth is positive inside the outer call, so
\* the inner one joins its transaction.
Promote(p) == Goes(p, "promote") /\ Write(p, "copy", "commit")

\* The lock on the book comes before the check for an active reservation.
CheckReservation(p) ==
    /\ Goes(p, "first") /\ Asks(p, "reserve")
    /\ \A q \in Others(p) : ~LocksReservedBook(q)
    /\ IF req[p].op.email \in reserved
       THEN Raise(p, "AlreadyReserved")
       ELSE Continue(p, "write")

InsertReservation(p) ==
    /\ Goes(p, "write") /\ Asks(p, "reserve")
    /\ Write(p, "reservation", "commit")

\* compute_queue_position, in a new implicit transaction.
ReadPosition(p) == Goes(p, "position") /\ AnswerOpen(p, "Success") /\ UNCHANGED tables

\* A statement fails: the connection is lost, a lock wait times out or the
\* transaction is a deadlock victim.  return_book translates the error.
Break(p) ==
    /\ req[p].connected /\ "op" \in DOMAIN req[p]
    /\ IF req[p].at \in {"auth", "position"} THEN AnswerOpen(p, "OperationalError")
       ELSE Answer(p, IF Asks(p, "return") /\ req[p].at # "commit"
                      THEN "ConcurrentBorrow" ELSE "OperationalError")
    /\ UNCHANGED tables

\* pool_timeout.
PoolTimeout(p) ==
    /\ Waits(p)
    /\ inUse = PoolSize
    /\ Raise(p, "TimeoutError")

-----------------------------------------------------------------------------
(* Commit.                                                                 *)

CommitWrites(p) ==
    LET op == req[p].op  wrote == req[p].wrote
    IN  /\ books' = IF "book" \notin wrote THEN books
                    ELSE IF op.kind = "create"
                         THEN [books EXCEPT ![op.book] = [isbn |-> op.isbn, deleted |-> FALSE]]
                    ELSE IF op.kind = "rename" THEN [books EXCEPT ![op.book].isbn = op.isbn]
                    ELSE [books EXCEPT ![op.book].deleted = TRUE]
        /\ users' = IF "user" \in wrote THEN users \cup {op.email} ELSE users
        /\ members' = IF "member" \in wrote THEN members \cup {op.email} ELSE members
        /\ returned' = IF "loan" \in wrote THEN returned \cup {op.loan} ELSE returned
        /\ released' = IF "copy" \in wrote THEN released \cup {op.loan} ELSE released
        /\ reserved' = IF "reservation" \in wrote THEN reserved \cup {op.email} ELSE reserved

\* After the commit the route of place_reservation asks for a connection again.
Commit(p) ==
    /\ Goes(p, "commit")
    /\ CommitWrites(p)
    /\ IF Asks(p, "reserve")
       THEN /\ req' = [req EXCEPT ![p].at = "position", ![p].connected = FALSE]
            /\ GiveBack(p)
       ELSE Answer(p, "Success")

\* The connection is lost while the database commits: the client is told of
\* an error, and the writes stay.
CommitUnheard(p) ==
    /\ Goes(p, "commit")
    /\ CommitWrites(p)
    /\ Answer(p, "OperationalError")

\* The process dies; the database rolls back what was open.
Crash ==
    /\ req' = [p \in Sessions |-> Idle]
    /\ inUse' = 0 /\ readers' = 0
    /\ UNCHANGED tables

Statement(p) ==
    \/ LookUpIsbn(p) \/ LookUpEmail(p) \/ FindBook(p) \/ ReadLoan(p)
    \/ InsertBook(p) \/ RenameBook(p) \/ MarkDeleted(p)
    \/ InsertUser(p) \/ InsertMember(p)
    \/ WriteLoan(p) \/ Promote(p)
    \/ CheckReservation(p) \/ InsertReservation(p) \/ ReadPosition(p)
    \/ Commit(p)

Next ==
    \/ \E p \in Sessions, op \in Operations : Arrive(p, op)
    \/ \E p \in Sessions : Connect(p) \/ PoolTimeout(p) \/ Refuse(p) \/ Authorise(p) \/ Close(p)
    \/ \E p \in Sessions : Statement(p) \/ Break(p) \/ CommitUnheard(p)
    \/ ReaderConnects \/ ReaderEnds
    \/ Crash

Spec == Init /\ [][Next]_vars

-----------------------------------------------------------------------------
(* Fairness.  The event loop runs every request that can go on; InnoDB     *)
(* serves lock waits, and the pool its waiters, in order of arrival, so a  *)
(* request that can go on again and again is not passed over for ever.     *)
(* No time-out, no failure and no crash is counted on.                     *)

\* A request at the token check has its answer once it has a connection; a
\* token that is refused without one is a choice of the client, not counted on.
TokenIsRead(p) == req[p].connected /\ (Refuse(p) \/ Authorise(p))

RequestsRun ==
    /\ \A p \in Sessions : WF_vars(TokenIsRead(p)) /\ WF_vars(Close(p))
    /\ WF_vars(ReaderEnds)
LocksAreGranted == \A p \in Sessions : SF_vars(Statement(p))
PoolIsServed == \A p \in Sessions : SF_vars(Connect(p))

FairSpec == Spec /\ RequestsRun /\ LocksAreGranted /\ PoolIsServed

-----------------------------------------------------------------------------
(* Properties.                                                             *)

\* Every connection that is checked out belongs to a request that still needs
\* it: whichever way a request ends, in the token check, in a rolled-back
\* transaction, by a time-out or well, the pool gets its connection back.
NoConnectionLeaks == inUse = readers + Cardinality({p \in Sessions : req[p].connected})

\* What the members relation of the library rests on: an account is never
\* without its member profile, although they are two inserts, and a returned
\* loan never without its copy, although the copy is released in a nested
\* transactional call.
NothingHalfDone == users = members /\ returned = released

\* Between them the requests keep the promises of AtomicRequests.  The moment
\* a request counts is its commit, or the statement that refused it.
Outcome(r) ==
    IF r = Idle THEN [outcome |-> "none"]
    ELSE IF r.at = "position" THEN [outcome |-> "applied"]
    ELSE IF r.at # "answered" THEN [outcome |-> "pending", op |-> r.op]
    ELSE [outcome |-> CASE r.status = 200 -> "done"
                        [] r.status = 400 -> "conflict"
                        [] r.status = 404 -> "missing"
                        [] r.status \in {401, 403, 409} -> "refused"
                        [] r.status = 500 -> "failed"]

Promised == INSTANCE AtomicRequests WITH
    Requests <- Sessions,
    asked <- [p \in Sessions |-> Outcome(req[p])]

PromisesKept == Promised!Spec

\* Every request is answered, or the process dies.  Requests wait for
\* connections and for each other's locks, but whoever has a lock has a
\* connection, and these operations do not wait for each other in a circle
\* (borrow_book and place_reservation can: NoCircularWait of CirculationTxn).
\* Two updates that exchange the ISBNs of two books can, on the entries of the
\* index; InnoDB ends one of them by a Break, and no run has such a pair.
EveryRequestEnds == \A p \in Sessions : req[p] # Idle ~> req[p] = Idle

=============================================================================
