--------------------------- MODULE RequestsProofs ---------------------------
(***************************************************************************)
(* Requests implements AtomicRequests, for any books, keys, loans,         *)
(* sessions and size of the pool; no connection leaks, and nothing is done *)
(* by half.                                                                *)
(***************************************************************************)
EXTENDS Requests, FiniteSetTheorems, TLAPS

InFlight == {"auth", "first", "write", "profile", "promote", "commit", "position"}
Flying(q) == req[q].at \in InFlight
Is(q, kind) == Flying(q) /\ req[q].op.kind = kind

-----------------------------------------------------------------------------
(* The inductive invariant.                                                *)

\* How far a request is says what it has written.
ProgressOf(r) ==
    /\ r.at \in {"auth", "first", "write"} => r.wrote = {}
    /\ r.at = "profile" => r.op.kind = "register" /\ r.wrote = {"user"}
    /\ r.at = "promote" => r.op.kind = "return" /\ r.wrote = {"loan"}
    /\ r.at = "commit" =>
          \/ r.op.kind \in {"create", "rename", "delete"} /\ r.wrote = {"book"}
          \/ r.op.kind = "register" /\ r.wrote = {"user", "member"}
          \/ r.op.kind = "return" /\ r.wrote \in {{}, {"loan", "copy"}}
          \/ r.op.kind = "reserve" /\ r.wrote = {"reservation"}
    /\ r.at = "position" => r.op.kind = "reserve"
Progress == \A p \in Sessions : ProgressOf(req[p])

\* The requests that have a row, or an entry of a unique index, locked.
Writing(q) == req[q].at \in {"write", "commit"}
Locking(q, b) ==
    \/ Is(q, "rename") /\ Writing(q) /\ req[q].op.book = b
    \/ Is(q, "delete") /\ req[q].at = "commit" /\ req[q].op.book = b
Keyed(q) == req[q].at = "commit" /\ (Is(q, "create") \/ Is(q, "rename"))
Enrolling(q) == Is(q, "register") /\ req[q].at \in {"profile", "commit"}
Reserving(q) == Is(q, "reserve") /\ Writing(q)

\* What a request has found still holds when it commits.
CheckedBy(p) ==
    LET op == req[p].op
    IN  /\ Is(p, "create") => books[op.book] = NoBook
        /\ Is(p, "create") /\ Keyed(p) => HasIsbn(op.isbn) = {}
        /\ Is(p, "rename") /\ Writing(p) => IsLive(op.book)
        /\ Is(p, "rename") /\ Keyed(p) => HasIsbn(op.isbn) \subseteq {op.book}
        /\ Is(p, "delete") /\ Writing(p) => books[op.book] # NoBook
        /\ Enrolling(p) => op.email \notin users
        /\ Is(p, "reserve") /\ req[p].at \in {"first", "write", "commit"} => op.email \in members
        /\ Reserving(p) => op.email \notin reserved
        /\ Is(p, "return") /\ req[p].at = "commit" /\ req[p].wrote = {} => op.loan \in returned
Checked == \A p \in Sessions : CheckedBy(p)

\* No two requests have the same row or the same entry.
ApartFrom(p, q) ==
    /\ Is(p, "create") /\ Is(q, "create") => req[p].op.book # req[q].op.book
    /\ Keyed(p) /\ Keyed(q) => req[p].op.isbn # req[q].op.isbn
    /\ \A b \in Books : ~(Locking(p, b) /\ Locking(q, b))
    /\ Enrolling(p) /\ Enrolling(q) => req[p].op.email # req[q].op.email
    /\ ~(Reserving(p) /\ Reserving(q))
Apart == \A p \in Sessions : \A q \in Others(p) : ApartFrom(p, q)

UniqueIsbns ==
    \A b, c \in Books : books[b] # NoBook /\ books[b].isbn = books[c].isbn => b = c

Sound == Progress /\ Checked /\ Apart /\ UniqueIsbns
RequestsInv == TypeOK /\ NoConnectionLeaks /\ NothingHalfDone /\ Sound

-----------------------------------------------------------------------------
(* Shapes.                                                                 *)

Statuses == {StatusOf[e] : e \in DOMAIN StatusOf}

LEMMA OperationShapes ==
    \A op \in Operations :
        /\ op.kind \in {"create", "rename", "delete", "register", "reserve", "return"}
        /\ op.kind \in {"create", "rename"} => op.book \in Books /\ op.isbn \in Isbns
        /\ op.kind = "delete" => op.book \in Books
        /\ op.kind \in {"register", "reserve"} => op.email \in Emails
        /\ op.kind = "return" => op.loan \in Loans
BY OperationsAssumption DEF AllOperations

LEMMA RequestShapes ==
    \A r \in Request :
        /\ r.connected \in BOOLEAN
        /\ r.at \in InFlight \cup {"idle", "answered"}
        /\ r.at = "idle" <=> r = Idle
        /\ r.at \in InFlight <=> "op" \in DOMAIN r
        /\ r.at \in InFlight =>
              /\ r.op \in Operations /\ r.wrote \in SUBSET Tables
              /\ r = [at |-> r.at, op |-> r.op, connected |-> r.connected, wrote |-> r.wrote]
        /\ r.at = "answered" =>
              /\ r.status \in Statuses
              /\ r = [at |-> "answered", status |-> r.status, connected |-> r.connected]
<1> SUFFICES ASSUME NEW r \in Request
             PROVE  /\ r.connected \in BOOLEAN
                    /\ r.at \in InFlight \cup {"idle", "answered"}
                    /\ r.at = "idle" <=> r = Idle
                    /\ r.at \in InFlight <=> "op" \in DOMAIN r
                    /\ r.at \in InFlight =>
                          /\ r.op \in Operations /\ r.wrote \in SUBSET Tables
                          /\ r = [at |-> r.at, op |-> r.op, connected |-> r.connected, wrote |-> r.wrote]
                    /\ r.at = "answered" =>
                          /\ r.status \in Statuses
                          /\ r = [at |-> "answered", status |-> r.status, connected |-> r.connected]
    OBVIOUS
<1>1. CASE r = Idle
    BY <1>1 DEF Idle, InFlight
<1>2. CASE r \in [at : InFlight, op : Operations, connected : BOOLEAN, wrote : SUBSET Tables]
    BY <1>2 DEF InFlight, Idle
<1>3. CASE r \in [at : {"answered"}, status : Statuses, connected : BOOLEAN]
    BY <1>3 DEF InFlight, Idle
<1> QED BY <1>1, <1>2, <1>3 DEF Request, InFlight, Statuses

LEMMA Locks ==
    ASSUME TypeOK, Progress, NEW q \in Sessions
    PROVE  /\ InTransaction(q) => Flying(q)
           /\ \A b : LocksBook(q, b) <=> Locking(q, b)
           /\ LocksReservedBook(q) <=> Reserving(q)
           /\ Keyed(q) => req[q].op.isbn \in Claims(q)
           /\ Keyed(q) /\ Is(q, "rename") => books[req[q].op.book].isbn \in Claims(q)
           /\ Enrolling(q) => req[q].op.email \in Claims(q)
<1>1. req[q] \in Request /\ ProgressOf(req[q])
    BY DEF TypeOK, Progress
<1>2. Flying(q) => req[q].op \in Operations
    BY <1>1, RequestShapes DEF Flying
<1> QED
    BY <1>1, <1>2, OperationShapes
    DEF InTransaction, Flying, InFlight, LocksBook, Locking, LocksReservedBook, Reserving, Writing,
        Keyed, Is, Asks, Enrolling, Claims, ProgressOf

-----------------------------------------------------------------------------
(* What a step of one request does.                                        *)

\* Its connection is counted.
Counted(p) ==
    /\ readers' = readers
    /\ \/ req'[p].connected = req[p].connected /\ inUse' = inUse
       \/ ~req[p].connected /\ req'[p].connected /\ inUse < PoolSize /\ inUse' = inUse + 1
       \/ req[p].connected /\ ~req'[p].connected /\ inUse' = inUse - 1

Arrived(p) ==
    /\ req[p] = Idle
    /\ Flying(p)' /\ req'[p].at \in {"auth", "first"}
    /\ req'[p].op.kind = "reserve" => req'[p].at = "auth"
    /\ req'[p].op.kind = "create" =>
          /\ books[req'[p].op.book] = NoBook
          /\ \A q \in Others(p) : Is(q, "create") => req[q].op.book # req'[p].op.book

\* It gets its answer, and what the answer says of the tables is true; or its
\* client has read the answer.
Conflicts(op) ==
    \/ op.kind = "create" /\ HasIsbn(op.isbn) # {}
    \/ op.kind = "rename" /\ ~(HasIsbn(op.isbn) \subseteq {op.book})
    \/ op.kind = "register"
    \/ op.kind = "reserve" /\ op.email \in reserved
Told(p) ==
    LET op == req[p].op  status == req'[p].status
    IN  /\ Flying(p) /\ req'[p].at = "answered"
        /\ \/ req[p].at = "position" /\ status \in {200, 500}
           \/ /\ req[p].at # "position"
              /\ \/ status \in {401, 403, 409, 500}
                 \/ status = 400 /\ Conflicts(op)
                 \/ status = 404 /\ op.kind \in {"rename", "delete"} /\ ~IsLive(op.book)
Ended(p) == Told(p) \/ (req[p].at = "answered" /\ req'[p] = Idle)

\* From one statement to the next: what it found, and whose locks it waited for.
Passes(p, from, to) == req[p].at = from /\ req'[p].at = to
Moved(p) ==
    LET op == req[p].op
    IN  /\ Flying(p) /\ Flying(p)' /\ req'[p].op = op
        /\ \/ req'[p].at = req[p].at /\ req'[p].wrote = req[p].wrote
           \/ Passes(p, "auth", "first") /\ (op.kind = "reserve" => op.email \in members)
           \/ Passes(p, "first", "write") /\ op.kind \in {"create", "register", "return"}
           \/ /\ Passes(p, "first", "write") /\ op.kind \in {"rename", "delete"} /\ IsLive(op.book)
              /\ op.kind = "rename" => \A q \in Others(p) : ~Locking(q, op.book)
           \/ /\ Passes(p, "first", "write") /\ op.kind = "reserve" /\ op.email \notin reserved
              /\ \A q \in Others(p) : ~Reserving(q)
           \/ /\ Passes(p, "write", "commit") /\ op.kind \in {"create", "rename"}
              /\ HasIsbn(op.isbn) \subseteq IF op.kind = "create" THEN {} ELSE {op.book}
              /\ \A q \in Others(p) : op.isbn \notin Claims(q)
           \/ /\ Passes(p, "write", "commit") /\ op.kind = "delete"
              /\ \A q \in Others(p) : ~Locking(q, op.book)
           \/ Passes(p, "write", "commit") /\ op.kind = "reserve"
           \/ /\ Passes(p, "write", "profile") /\ op.kind = "register" /\ op.email \notin users
              /\ \A q \in Others(p) : op.email \notin Claims(q)
           \/ Passes(p, "profile", "commit") /\ op.kind = "register"
           \/ /\ Passes(p, "first", "commit") /\ op.kind = "return" /\ op.loan \in returned
              /\ req'[p].wrote = {}
           \/ Passes(p, "write", "promote") /\ op.kind = "return"
           \/ Passes(p, "promote", "commit") /\ op.kind = "return" /\ req'[p].wrote # {}

Committed(p) ==
    /\ req[p].at = "commit" /\ Flying(p)
    /\ CommitWrites(p)
    /\ \/ req'[p].at = "answered" /\ req'[p].status \in {200, 500}
       \/ /\ Is(p, "reserve")
          /\ req'[p].at = "position" /\ req'[p].op = req[p].op /\ req'[p].wrote = req[p].wrote

SessionStep(p) ==
    /\ req' = [req EXCEPT ![p] = req'[p]]
    /\ req'[p] \in Request /\ ProgressOf(req'[p])
    /\ Counted(p)
    /\ \/ UNCHANGED tables /\ (Arrived(p) \/ Ended(p) \/ Moved(p))
       \/ Committed(p)

LEMMA Shapes ==
    ASSUME TypeOK, NEW p \in Sessions
    PROVE  /\ req[p] \in Request /\ req[p].connected \in BOOLEAN
           /\ Flying(p) => /\ req[p].wrote \in SUBSET Tables
                           /\ req[p].op \in Operations
BY RequestShapes DEF TypeOK, Flying

\* The pool is right whether the session gives a connection back, keeps it or had none.
LEMMA Gives ==
    ASSUME TypeOK, NEW p \in Sessions,
           \/ GiveBack(p) /\ req'[p].connected = FALSE
           \/ UNCHANGED pool /\ req'[p].connected = req[p].connected
    PROVE  Counted(p)
<1>1. CASE req[p].connected = TRUE
    BY <1>1 DEF GiveBack, Counted, pool
<1>2. CASE req[p].connected = FALSE
    BY <1>2 DEF GiveBack, Counted, pool
<1> QED BY <1>1, <1>2, Shapes

\* The request of p becomes r, an answer or nothing.
LEMMA Turns ==
    ASSUME TypeOK, NEW p \in Sessions, NEW r \in Request, req' = [req EXCEPT ![p] = r]
    PROVE  req'[p] = r /\ req' = [req EXCEPT ![p] = req'[p]]
BY DEF TypeOK

AnswerOf(s, c) == [at |-> "answered", status |-> s, connected |-> c]

LEMMA Answers ==
    ASSUME NEW s \in Statuses, NEW c \in BOOLEAN
    PROVE  AnswerOf(s, c) \in Request /\ ProgressOf(AnswerOf(s, c))
<1>1. AnswerOf(s, c) \in [at : {"answered"}, status : Statuses, connected : BOOLEAN]
    BY DEF AnswerOf
<1>2. AnswerOf(s, c) \in Request
    BY <1>1 DEF Request, Statuses
<1>3. AnswerOf(s, c).at = "answered"
    BY DEF AnswerOf
<1> QED BY <1>2, <1>3 DEF ProgressOf

\* The ways a request gets its answer before its commit.
LEMMA Answered ==
    ASSUME TypeOK, NEW p \in Sessions, NEW e \in DOMAIN StatusOf, UNCHANGED tables,
           Answer(p, e) \/ AnswerOpen(p, e)
    PROVE  /\ req'[p].at = "answered" /\ req'[p].status = StatusOf[e]
           /\ Told(p) => SessionStep(p)
<1>1. StatusOf[e] \in Statuses
    BY DEF Statuses
<1>2. req[p].connected \in BOOLEAN
    BY Shapes
<1> DEFINE S == StatusOf[e]
<1>3. PICK c \in BOOLEAN :
          /\ req' = [req EXCEPT ![p] = AnswerOf(S, c)]
          /\ \/ GiveBack(p) /\ c = FALSE
             \/ UNCHANGED pool /\ c = req[p].connected
    BY <1>2 DEF Answer, AnswerOpen, AnswerOf
<1>4. S \in Statuses
    BY <1>1
<1> HIDE DEF S
<1>5. AnswerOf(S, c) \in Request /\ ProgressOf(AnswerOf(S, c))
    BY <1>4, Answers
<1>6. req'[p] = AnswerOf(S, c) /\ req' = [req EXCEPT ![p] = req'[p]]
    BY <1>3, <1>5, Turns
<1>7. req'[p].at = "answered" /\ req'[p].status = S /\ req'[p].connected = c
    BY <1>6 DEF AnswerOf
<1>8. Counted(p)
    BY <1>3, <1>7, Gives
<1> QED BY <1>5, <1>6, <1>7, <1>8 DEF SessionStep, Ended, S

\* A request in flight goes on, or not, to another statement.
Turned(p, at, c, w) == [at |-> at, op |-> req[p].op, connected |-> c, wrote |-> w]

LEMMA TurnedShape ==
    ASSUME TypeOK, NEW p \in Sessions, Flying(p)
    PROVE  /\ req[p] = Turned(p, req[p].at, req[p].connected, req[p].wrote)
           /\ \A at \in InFlight, w \in SUBSET Tables :
                 /\ Turned(p, at, req[p].connected, w) \in Request
                 /\ Turned(p, at, TRUE, w) \in Request
                 /\ Turned(p, at, FALSE, w) \in Request
<1>1. req[p] = [at |-> req[p].at, op |-> req[p].op, connected |-> req[p].connected,
                wrote |-> req[p].wrote]
    BY RequestShapes DEF TypeOK, Flying
<1>2. req[p].op \in Operations /\ req[p].connected \in BOOLEAN
    BY Shapes
<1> QED BY <1>1, <1>2 DEF Turned, Request, InFlight

LEMMA GoesOn ==
    ASSUME TypeOK, NEW p \in Sessions, Flying(p), NEW at \in InFlight, NEW w \in SUBSET Tables,
           \/ req' = [req EXCEPT ![p].at = at] /\ w = req[p].wrote
           \/ req' = [req EXCEPT ![p].at = at, ![p].wrote = w]
    PROVE  /\ req' = [req EXCEPT ![p] = req'[p]]
           /\ req'[p].at = at /\ req'[p].op = req[p].op
           /\ req'[p].connected = req[p].connected /\ req'[p].wrote = w
           /\ req'[p] \in Request /\ Flying(p)'
<1> DEFINE c == req[p].connected
<1>1. req[p] = Turned(p, req[p].at, c, req[p].wrote) /\ Turned(p, at, c, w) \in Request
    BY TurnedShape
<1> HIDE DEF c
<1>2. req' = [req EXCEPT ![p] = Turned(p, at, c, w)]
    BY <1>1 DEF Turned, TypeOK
<1>3. req'[p] = Turned(p, at, c, w) /\ req' = [req EXCEPT ![p] = req'[p]]
    BY <1>1, <1>2, Turns
<1>4. req'[p].at = at /\ req'[p].op = req[p].op /\ req'[p].connected = c /\ req'[p].wrote = w
    BY <1>3 DEF Turned
<1> QED BY <1>1, <1>3, <1>4 DEF Flying, c

LEMMA ArriveStep ==
    ASSUME TypeOK, NEW p \in Sessions, NEW op \in Operations, Arrive(p, op)
    PROVE  SessionStep(p)
<1> DEFINE at == IF op.kind \in {"register", "return"} THEN "first" ELSE "auth"
<1> DEFINE next == [at |-> at, op |-> op, connected |-> FALSE, wrote |-> {}]
<1>1. next \in Request /\ ProgressOf(next)
    BY DEF Request, ProgressOf
<1>2. req'[p] = next /\ req' = [req EXCEPT ![p] = req'[p]]
    BY <1>1, Turns DEF Arrive
<1>a. req'[p].connected = FALSE /\ req[p].connected = FALSE /\ UNCHANGED pool
    BY <1>2 DEF Arrive, Idle
<1>3. Counted(p)
    BY <1>a DEF Counted, pool
<1>4. \A q \in Others(p) : Is(q, "create") => "op" \in DOMAIN req[q] /\ Asks(q, "create")
    BY RequestShapes DEF TypeOK, Is, Asks, Others, Flying
<1>5. Arrived(p)
    BY <1>2, <1>4 DEF Arrive, Arrived, Flying, InFlight, Asks, Others
<1> QED BY <1>1, <1>2, <1>3, <1>5 DEF SessionStep, Arrive

LEMMA ConnectStep ==
    ASSUME TypeOK, Progress, NEW p \in Sessions, Connect(p)
    PROVE  SessionStep(p)
<1>1. Flying(p) /\ req[p].connected = FALSE
    BY Shapes DEF Connect, Waits, Flying, InFlight
<1> DEFINE next == Turned(p, req[p].at, TRUE, req[p].wrote)
<1>2. next \in Request /\ req' = [req EXCEPT ![p] = next]
    <2>1. next \in Request
        BY <1>1, TurnedShape, Shapes DEF Flying
    <2>2. req[p] = Turned(p, req[p].at, req[p].connected, req[p].wrote)
        BY <1>1, TurnedShape
    <2> DEFINE c == req[p].connected  d == TRUE
    <2>a. req[p] = Turned(p, req[p].at, c, req[p].wrote)
        BY <2>2
    <2> HIDE DEF c, d
    <2>b. Turned(p, req[p].at, d, req[p].wrote) = [req[p] EXCEPT !.connected = d]
        BY <2>a DEF Turned
    <2>3. next = [req[p] EXCEPT !.connected = TRUE]
        BY <2>b DEF d
    <2>4. req' = [req EXCEPT ![p] = [req[p] EXCEPT !.connected = TRUE]]
        BY DEF Connect
    <2> QED BY <2>1, <2>3, <2>4
<1>a. req'[p] = next /\ req' = [req EXCEPT ![p] = req'[p]]
    BY <1>2, Turns
<1>3. /\ req' = [req EXCEPT ![p] = req'[p]] /\ Flying(p)'
      /\ req'[p].at = req[p].at /\ req'[p].op = req[p].op
      /\ req'[p].connected = TRUE /\ req'[p].wrote = req[p].wrote /\ req'[p] \in Request
    BY <1>1, <1>2, <1>a DEF Turned, Flying
<1>4. Counted(p) /\ Moved(p)
    BY <1>1, <1>3 DEF Connect, Counted, Moved
<1>5. ProgressOf(req'[p])
    BY <1>3 DEF Progress, ProgressOf
<1> QED BY <1>3, <1>4, <1>5 DEF SessionStep, Connect

LEMMA AuthoriseStep ==
    ASSUME TypeOK, Progress, NEW p \in Sessions, Authorise(p)
    PROVE  SessionStep(p)
<1>1. Flying(p) /\ req[p].connected = TRUE /\ req[p].at = "auth" /\ "first" \in InFlight
    BY Shapes DEF Authorise, Flying, InFlight
<1> DEFINE next == Turned(p, "first", FALSE, req[p].wrote)
<1>2. next \in Request /\ req' = [req EXCEPT ![p] = next]
    BY <1>1, TurnedShape, Shapes DEF Authorise, Turned, TypeOK
<1>a. req'[p] = next /\ req' = [req EXCEPT ![p] = req'[p]]
    BY <1>2, Turns
<1>3. /\ req' = [req EXCEPT ![p] = req'[p]] /\ Flying(p)'
      /\ req'[p].at = "first" /\ req'[p].op = req[p].op
      /\ req'[p].connected = FALSE /\ req'[p].wrote = req[p].wrote /\ req'[p] \in Request
    BY <1>1, <1>2, <1>a DEF Turned, Flying
<1>4. Counted(p) /\ Moved(p)
    BY <1>1, <1>3 DEF Authorise, Counted, Moved, Passes, Asks
<1>5. ProgressOf(req'[p])
    BY <1>1, <1>3 DEF Progress, ProgressOf
<1> QED BY <1>3, <1>4, <1>5 DEF SessionStep, Authorise

LEMMA CloseStep ==
    ASSUME TypeOK, NEW p \in Sessions, Close(p)
    PROVE  SessionStep(p)
<1>1. Idle \in Request /\ ProgressOf(Idle)
    BY DEF Request, ProgressOf, Idle
<1>2. req'[p] = Idle /\ req' = [req EXCEPT ![p] = req'[p]]
    BY <1>1, Turns DEF Close
<1>3. req'[p].connected = FALSE /\ Ended(p)
    BY <1>2 DEF Idle, Ended, Close
<1>4. Counted(p)
    BY <1>3, Gives DEF Close
<1> QED BY <1>1, <1>2, <1>3, <1>4 DEF SessionStep, Close

LEMMA CommitStep ==
    ASSUME TypeOK, Progress, NEW p \in Sessions, Commit(p) \/ CommitUnheard(p)
    PROVE  SessionStep(p)
<1>0. req[p].at = "commit" /\ Flying(p) /\ CommitWrites(p) /\ "position" \in InFlight
    BY DEF Commit, CommitUnheard, Goes, Flying, InFlight
<1>1. CASE Commit(p) /\ Asks(p, "reserve")
    <2> DEFINE next == Turned(p, "position", FALSE, req[p].wrote)
    <2>1. next \in Request /\ req' = [req EXCEPT ![p] = next] /\ GiveBack(p)
        BY <1>0, <1>1, TurnedShape, Shapes DEF Commit, Turned, TypeOK
    <2>a. req'[p] = next /\ req' = [req EXCEPT ![p] = req'[p]]
        BY <2>1, Turns
    <2>2. /\ req' = [req EXCEPT ![p] = req'[p]]
          /\ req'[p].at = "position" /\ req'[p].op = req[p].op
          /\ req'[p].connected = FALSE /\ req'[p].wrote = req[p].wrote /\ req'[p] \in Request
        BY <2>1, <2>a DEF Turned
    <2>3. Counted(p)
        BY <2>1, <2>2, Gives
    <2>4. ProgressOf(req'[p])
        BY <1>1, <2>2 DEF ProgressOf, Asks
    <2>5. Committed(p)
        BY <1>0, <1>1, <2>2 DEF Committed, Is, Asks
    <2> QED BY <2>2, <2>3, <2>4, <2>5 DEF SessionStep
<1>2. ASSUME NEW s \in {200, 500}, s \in Statuses,
             req' = [req EXCEPT ![p] = AnswerOf(s, FALSE)], GiveBack(p)
      PROVE  SessionStep(p)
    <2>1. AnswerOf(s, FALSE) \in Request /\ ProgressOf(AnswerOf(s, FALSE))
        BY <1>2, Answers
    <2>2. req'[p] = AnswerOf(s, FALSE) /\ req' = [req EXCEPT ![p] = req'[p]]
        BY <1>2, <2>1, Turns
    <2>3. req'[p].at = "answered" /\ req'[p].status = s /\ req'[p].connected = FALSE
        BY <2>2 DEF AnswerOf
    <2>4. Counted(p)
        BY <1>2, <2>3, Gives
    <2>5. Committed(p)
        BY <1>0, <2>3 DEF Committed
    <2> QED BY <2>1, <2>2, <2>4, <2>5 DEF SessionStep
<1>3. "Success" \in DOMAIN StatusOf /\ StatusOf["Success"] = 200
      /\ "OperationalError" \in DOMAIN StatusOf /\ StatusOf["OperationalError"] = 500
    BY DEF StatusOf
<1>4. 200 \in Statuses /\ 500 \in Statuses
    BY <1>3 DEF Statuses
<1>5. CASE Commit(p) /\ ~Asks(p, "reserve")
    <2>1. req' = [req EXCEPT ![p] = AnswerOf(200, FALSE)] /\ GiveBack(p)
        BY <1>3, <1>5 DEF Commit, Answer, AnswerOf
    <2> QED BY <1>2, <1>4, <2>1
<1>6. CASE CommitUnheard(p)
    <2>1. req' = [req EXCEPT ![p] = AnswerOf(500, FALSE)] /\ GiveBack(p)
        BY <1>3, <1>6 DEF CommitUnheard, Answer, AnswerOf
    <2> QED BY <1>2, <1>4, <2>1
<1> QED BY <1>1, <1>5, <1>6

-----------------------------------------------------------------------------
(* The statements.                                                         *)

LEMMA StatusValues ==
    /\ DOMAIN StatusOf = {"Success", "Unauthorized", "InactiveUser", "Forbidden", "BookNotFound",
          "EmailAlreadyExists", "AlreadyReserved", "ConcurrentBorrow", "IntegrityError", "ValueError",
          "OperationalError", "TimeoutError"}
    /\ StatusOf["Success"] = 200 /\ StatusOf["Unauthorized"] = 401
    /\ StatusOf["InactiveUser"] = 403 /\ StatusOf["Forbidden"] = 403
    /\ StatusOf["BookNotFound"] = 404 /\ StatusOf["EmailAlreadyExists"] = 400
    /\ StatusOf["AlreadyReserved"] = 400 /\ StatusOf["ConcurrentBorrow"] = 409
    /\ StatusOf["IntegrityError"] = 400 /\ StatusOf["ValueError"] = 500
    /\ StatusOf["OperationalError"] = 500 /\ StatusOf["TimeoutError"] = 500
BY DEF StatusOf

\* A statement that lets the request go on.
LEMMA Continued ==
    ASSUME TypeOK, NEW p \in Sessions, Flying(p), NEW at \in InFlight, NEW table \in Tables,
           NEW w, \/ Continue(p, at) /\ w = req[p].wrote
                  \/ Write(p, table, at) /\ w = req[p].wrote \cup {table}
    PROVE  /\ req' = [req EXCEPT ![p] = req'[p]]
           /\ req'[p] \in Request /\ Flying(p)'
           /\ req'[p].at = at /\ req'[p].op = req[p].op /\ req'[p].wrote = w
           /\ Counted(p) /\ UNCHANGED tables
<1>1. w \in SUBSET Tables
    BY Shapes
<1>2. \/ req' = [req EXCEPT ![p].at = at] /\ w = req[p].wrote
      \/ req' = [req EXCEPT ![p].at = at, ![p].wrote = w]
    BY DEF Continue, Write
<1>3. UNCHANGED <<tables, pool>>
    BY DEF Continue, Write
<1>4. /\ req' = [req EXCEPT ![p] = req'[p]]
      /\ req'[p].at = at /\ req'[p].op = req[p].op
      /\ req'[p].connected = req[p].connected /\ req'[p].wrote = w
      /\ req'[p] \in Request /\ Flying(p)'
    BY <1>1, <1>2, GoesOn
<1>5. Counted(p)
    BY <1>3, <1>4, Gives
<1> QED BY <1>3, <1>4, <1>5

\* A statement that writes.
LEMMA Wrote ==
    ASSUME TypeOK, NEW p \in Sessions, Flying(p), NEW at \in InFlight, NEW table \in Tables,
           Write(p, table, at)
    PROVE  /\ req' = [req EXCEPT ![p] = req'[p]]
           /\ req'[p] \in Request /\ Flying(p)'
           /\ req'[p].at = at /\ req'[p].op = req[p].op
           /\ req'[p].wrote = req[p].wrote \cup {table}
           /\ Counted(p) /\ UNCHANGED tables
<1> DEFINE w == req[p].wrote \cup {table}
<1>1. w = req[p].wrote \cup {table}
    OBVIOUS
<1> HIDE DEF w
<1> QED BY <1>1, Continued

\* A statement that refuses it.
LEMMA Ends ==
    ASSUME TypeOK, NEW p \in Sessions, NEW e \in DOMAIN StatusOf, Raise(p, e),
           Flying(p), req[p].at # "position",
           \/ StatusOf[e] \in {401, 403, 409, 500}
           \/ StatusOf[e] = 400 /\ Conflicts(req[p].op)
           \/ StatusOf[e] = 404 /\ req[p].op.kind \in {"rename", "delete"} /\ ~IsLive(req[p].op.book)
    PROVE  SessionStep(p)
<1>1. req'[p].at = "answered" /\ req'[p].status = StatusOf[e] /\ (Told(p) => SessionStep(p))
    BY Answered DEF Raise
<1>2. Told(p)
    BY <1>1 DEF Told
<1> QED BY <1>1, <1>2

LEMMA LookUpStep ==
    ASSUME TypeOK, Progress, NEW p \in Sessions, LookUpIsbn(p) \/ LookUpEmail(p)
    PROVE  SessionStep(p)
<1>1. /\ Flying(p) /\ req[p].at = "first" /\ req[p].wrote = {} /\ "write" \in InFlight
      /\ req[p].op.kind \in {"create", "register"}
    BY DEF LookUpIsbn, LookUpEmail, Goes, Asks, Flying, InFlight, Progress, ProgressOf
<1>2. CASE Raise(p, "ValueError")
    BY <1>1, <1>2, Ends, StatusValues
<1>3. CASE Raise(p, "EmailAlreadyExists") /\ Asks(p, "register")
    BY <1>1, <1>3, Ends, StatusValues DEF Conflicts, Asks
<1>4. CASE Continue(p, "write")
    <2>1. /\ req' = [req EXCEPT ![p] = req'[p]] /\ req'[p] \in Request /\ Flying(p)'
          /\ req'[p].at = "write" /\ req'[p].op = req[p].op /\ req'[p].wrote = req[p].wrote
          /\ Counted(p) /\ UNCHANGED tables
        BY <1>1, <1>4, Continued DEF Tables
    <2>2. Moved(p) /\ ProgressOf(req'[p])
        BY <1>1, <2>1 DEF Moved, Passes, ProgressOf
    <2> QED BY <2>1, <2>2 DEF SessionStep
<1> QED BY <1>2, <1>3, <1>4 DEF LookUpIsbn, LookUpEmail

LEMMA FindBookStep ==
    ASSUME TypeOK, Progress, NEW p \in Sessions, FindBook(p)
    PROVE  SessionStep(p)
<1>1. /\ Flying(p) /\ req[p].at = "first" /\ req[p].wrote = {} /\ "write" \in InFlight
      /\ req[p].op.kind \in {"rename", "delete"}
    BY DEF FindBook, Goes, Flying, InFlight, Progress, ProgressOf
<1>2. CASE ~IsLive(req[p].op.book)
    BY <1>1, <1>2, Ends, StatusValues DEF FindBook
<1>3. CASE IsLive(req[p].op.book)
    <2>1. /\ req' = [req EXCEPT ![p] = req'[p]] /\ req'[p] \in Request /\ Flying(p)'
          /\ req'[p].at = "write" /\ req'[p].op = req[p].op /\ req'[p].wrote = req[p].wrote
          /\ Counted(p) /\ UNCHANGED tables
        BY <1>1, <1>3, Continued DEF FindBook, Tables
    <2>2. req[p].op.kind = "rename" => \A q \in Others(p) : ~Locking(q, req[p].op.book)
        BY Locks DEF FindBook, Asks, Others
    <2>3. Moved(p) /\ ProgressOf(req'[p])
        BY <1>1, <1>3, <2>1, <2>2 DEF Moved, Passes, ProgressOf
    <2> QED BY <2>1, <2>3 DEF SessionStep
<1> QED BY <1>2, <1>3

LEMMA CheckReservationStep ==
    ASSUME TypeOK, Progress, NEW p \in Sessions, CheckReservation(p)
    PROVE  SessionStep(p)
<1>1. /\ Flying(p) /\ req[p].at = "first" /\ req[p].wrote = {} /\ "write" \in InFlight
      /\ req[p].op.kind = "reserve"
    BY DEF CheckReservation, Goes, Asks, Flying, InFlight, Progress, ProgressOf
<1>2. CASE req[p].op.email \in reserved
    BY <1>1, <1>2, Ends, StatusValues DEF CheckReservation, Conflicts
<1>3. CASE req[p].op.email \notin reserved
    <2>1. /\ req' = [req EXCEPT ![p] = req'[p]] /\ req'[p] \in Request /\ Flying(p)'
          /\ req'[p].at = "write" /\ req'[p].op = req[p].op /\ req'[p].wrote = req[p].wrote
          /\ Counted(p) /\ UNCHANGED tables
        BY <1>1, <1>3, Continued DEF CheckReservation, Tables
    <2>2. \A q \in Others(p) : ~Reserving(q)
        BY Locks DEF CheckReservation, Others
    <2>3. Moved(p) /\ ProgressOf(req'[p])
        BY <1>1, <1>3, <2>1, <2>2 DEF Moved, Passes, ProgressOf
    <2> QED BY <2>1, <2>3 DEF SessionStep
<1> QED BY <1>2, <1>3

LEMMA ReadLoanStep ==
    ASSUME TypeOK, Progress, NEW p \in Sessions, ReadLoan(p)
    PROVE  SessionStep(p)
<1> DEFINE at == IF req[p].op.loan \in returned THEN "commit" ELSE "write"
<1>1. /\ Flying(p) /\ req[p].at = "first" /\ req[p].wrote = {} /\ at \in InFlight
      /\ req[p].op.kind = "return"
    BY DEF ReadLoan, Goes, Asks, Flying, InFlight, Progress, ProgressOf
<1>2. Continue(p, at)
    BY DEF ReadLoan
<1>3. (at = "commit" /\ req[p].op.loan \in returned) \/ at = "write"
    OBVIOUS
<1> HIDE DEF at
<1>4. /\ req' = [req EXCEPT ![p] = req'[p]] /\ req'[p] \in Request /\ Flying(p)'
      /\ req'[p].at = at /\ req'[p].op = req[p].op /\ req'[p].wrote = req[p].wrote
      /\ Counted(p) /\ UNCHANGED tables
    BY <1>1, <1>2, Continued DEF Tables
<1>5. Moved(p) /\ ProgressOf(req'[p])
    BY <1>1, <1>3, <1>4 DEF Moved, Passes, ProgressOf
<1> QED BY <1>4, <1>5 DEF SessionStep

LEMMA WriteBookStep ==
    ASSUME TypeOK, Progress, NEW p \in Sessions, InsertBook(p) \/ RenameBook(p) \/ MarkDeleted(p)
    PROVE  SessionStep(p)
<1>1. /\ Flying(p) /\ req[p].at = "write" /\ req[p].wrote = {} /\ "commit" \in InFlight
      /\ "book" \in Tables
    BY DEF InsertBook, RenameBook, MarkDeleted, Goes, Flying, InFlight, Progress, ProgressOf, Tables
<1>2. CASE Raise(p, "IntegrityError") /\ Conflicts(req[p].op)
    BY <1>1, <1>2, Ends, StatusValues
<1>3. ASSUME Write(p, "book", "commit"),
             \/ /\ req[p].op.kind \in {"create", "rename"}
                /\ HasIsbn(req[p].op.isbn) \subseteq
                       IF req[p].op.kind = "create" THEN {} ELSE {req[p].op.book}
                /\ \A q \in Others(p) : req[p].op.isbn \notin Claims(q)
             \/ /\ req[p].op.kind = "delete"
                /\ \A q \in Others(p) : ~Locking(q, req[p].op.book)
      PROVE  SessionStep(p)
    <2>1. /\ req' = [req EXCEPT ![p] = req'[p]] /\ req'[p] \in Request /\ Flying(p)'
          /\ req'[p].at = "commit" /\ req'[p].op = req[p].op
          /\ req'[p].wrote = req[p].wrote \cup {"book"}
          /\ Counted(p) /\ UNCHANGED tables
        BY <1>1, <1>3, Wrote
    <2>2. Moved(p)
        BY <1>1, <1>3, <2>1 DEF Moved, Passes
    <2>3. ProgressOf(req'[p])
        BY <1>1, <1>3, <2>1 DEF ProgressOf
    <2> QED BY <2>1, <2>2, <2>3 DEF SessionStep
<1>4. CASE InsertBook(p)
    BY <1>2, <1>3, <1>4 DEF InsertBook, Asks, Conflicts
<1>5. CASE RenameBook(p)
    BY <1>2, <1>3, <1>5 DEF RenameBook, Asks, Conflicts
<1>6. CASE MarkDeleted(p)
    <2>1. \A q \in Others(p) : ~Locking(q, req[p].op.book)
        BY <1>6, Locks DEF MarkDeleted, Others
    <2> QED BY <1>3, <1>6, <2>1 DEF MarkDeleted, Asks
<1> QED BY <1>4, <1>5, <1>6

LEMMA RegisterStep ==
    ASSUME TypeOK, Progress, NEW p \in Sessions, InsertUser(p) \/ InsertMember(p)
    PROVE  SessionStep(p)
<1>1. Flying(p) /\ req[p].op.kind = "register" /\ req[p].at # "position"
    BY DEF InsertUser, InsertMember, Goes, Asks, Flying, InFlight, Progress, ProgressOf
<1>2. CASE Raise(p, "IntegrityError")
    BY <1>1, <1>2, Ends, StatusValues DEF Conflicts
<1>3. CASE InsertUser(p) /\ Write(p, "user", "profile") /\ req[p].op.email \notin users
    <2>1. req[p].at = "write" /\ req[p].wrote = {} /\ "profile" \in InFlight /\ "user" \in Tables
        BY <1>3 DEF InsertUser, Goes, InFlight, Tables, Progress, ProgressOf
    <2>2. /\ req' = [req EXCEPT ![p] = req'[p]] /\ req'[p] \in Request /\ Flying(p)'
          /\ req'[p].at = "profile" /\ req'[p].op = req[p].op
          /\ req'[p].wrote = req[p].wrote \cup {"user"}
          /\ Counted(p) /\ UNCHANGED tables
        BY <1>1, <1>3, <2>1, Wrote
    <2>3. Moved(p) /\ ProgressOf(req'[p])
        BY <1>1, <1>3, <2>1, <2>2 DEF Moved, Passes, ProgressOf, InsertUser
    <2> QED BY <2>2, <2>3 DEF SessionStep
<1>4. CASE InsertMember(p) /\ Write(p, "member", "commit")
    <2>1. /\ req[p].at = "profile" /\ req[p].wrote = {"user"}
          /\ "commit" \in InFlight /\ "member" \in Tables
        BY <1>4 DEF InsertMember, Goes, InFlight, Tables, Progress, ProgressOf
    <2>2. /\ req' = [req EXCEPT ![p] = req'[p]] /\ req'[p] \in Request /\ Flying(p)'
          /\ req'[p].at = "commit" /\ req'[p].op = req[p].op
          /\ req'[p].wrote = req[p].wrote \cup {"member"}
          /\ Counted(p) /\ UNCHANGED tables
        BY <1>1, <1>4, <2>1, Wrote
    <2>3. Moved(p) /\ ProgressOf(req'[p])
        BY <1>1, <2>1, <2>2 DEF Moved, Passes, ProgressOf
    <2> QED BY <2>2, <2>3 DEF SessionStep
<1> QED BY <1>2, <1>3, <1>4 DEF InsertUser, InsertMember

LEMMA ReturnStep ==
    ASSUME TypeOK, Progress, NEW p \in Sessions, WriteLoan(p) \/ Promote(p)
    PROVE  SessionStep(p)
<1>1. CASE WriteLoan(p)
    <2>1. /\ Flying(p) /\ req[p].op.kind = "return" /\ req[p].at = "write" /\ req[p].wrote = {}
          /\ "promote" \in InFlight /\ "loan" \in Tables
        BY <1>1 DEF WriteLoan, Goes, Asks, Flying, InFlight, Tables, Progress, ProgressOf
    <2>2. /\ req' = [req EXCEPT ![p] = req'[p]] /\ req'[p] \in Request /\ Flying(p)'
          /\ req'[p].at = "promote" /\ req'[p].op = req[p].op
          /\ req'[p].wrote = req[p].wrote \cup {"loan"}
          /\ Counted(p) /\ UNCHANGED tables
        BY <1>1, <2>1, Wrote DEF WriteLoan
    <2>3. Moved(p) /\ ProgressOf(req'[p])
        BY <2>1, <2>2 DEF Moved, Passes, ProgressOf
    <2> QED BY <2>2, <2>3 DEF SessionStep
<1>2. CASE Promote(p)
    <2>1. /\ Flying(p) /\ req[p].op.kind = "return" /\ req[p].at = "promote" /\ req[p].wrote = {"loan"}
          /\ "commit" \in InFlight /\ "copy" \in Tables
        BY <1>2 DEF Promote, Goes, Flying, InFlight, Tables, Progress, ProgressOf
    <2>2. /\ req' = [req EXCEPT ![p] = req'[p]] /\ req'[p] \in Request /\ Flying(p)'
          /\ req'[p].at = "commit" /\ req'[p].op = req[p].op
          /\ req'[p].wrote = req[p].wrote \cup {"copy"}
          /\ Counted(p) /\ UNCHANGED tables
        BY <1>2, <2>1, Wrote DEF Promote
    <2>3. Moved(p) /\ ProgressOf(req'[p])
        BY <2>1, <2>2 DEF Moved, Passes, ProgressOf
    <2> QED BY <2>2, <2>3 DEF SessionStep
<1> QED BY <1>1, <1>2

LEMMA InsertReservationStep ==
    ASSUME TypeOK, Progress, NEW p \in Sessions, InsertReservation(p)
    PROVE  SessionStep(p)
<1>1. /\ Flying(p) /\ req[p].op.kind = "reserve" /\ req[p].at = "write" /\ req[p].wrote = {}
      /\ "commit" \in InFlight /\ "reservation" \in Tables
    BY DEF InsertReservation, Goes, Asks, Flying, InFlight, Tables, Progress, ProgressOf
<1>2. /\ req' = [req EXCEPT ![p] = req'[p]] /\ req'[p] \in Request /\ Flying(p)'
      /\ req'[p].at = "commit" /\ req'[p].op = req[p].op
      /\ req'[p].wrote = req[p].wrote \cup {"reservation"}
      /\ Counted(p) /\ UNCHANGED tables
    BY <1>1, Wrote DEF InsertReservation
<1>3. Moved(p) /\ ProgressOf(req'[p])
    BY <1>1, <1>2 DEF Moved, Passes, ProgressOf
<1> QED BY <1>2, <1>3 DEF SessionStep

\* Refusals, failures and time-outs.
LEMMA FailureStep ==
    ASSUME TypeOK, NEW p \in Sessions,
           Refuse(p) \/ Break(p) \/ PoolTimeout(p) \/ ReadPosition(p)
    PROVE  SessionStep(p)
<1>1. Flying(p)
    BY RequestShapes
    DEF TypeOK, Refuse, Break, PoolTimeout, ReadPosition, Waits, Goes, Flying, InFlight
<1>2. PICK e \in DOMAIN StatusOf :
          /\ UNCHANGED tables
          /\ Answer(p, e) \/ AnswerOpen(p, e)
          /\ \/ StatusOf[e] \in {401, 403, 409, 500} /\ req[p].at # "position"
             \/ StatusOf[e] \in {200, 500} /\ req[p].at = "position"
    <2>1. CASE Refuse(p)
        <3>1. PICK e \in {"Unauthorized", "InactiveUser", "Forbidden"} : AnswerOpen(p, e)
            BY <2>1 DEF Refuse
        <3> QED BY <2>1, <3>1, StatusValues DEF Refuse
    <2>2. CASE Break(p)
        BY <2>2, StatusValues DEF Break
    <2>3. CASE PoolTimeout(p)
        BY <2>3, StatusValues DEF PoolTimeout, Raise
    <2>4. CASE ReadPosition(p)
        BY <2>4, StatusValues DEF ReadPosition, Goes
    <2> QED BY <2>1, <2>2, <2>3, <2>4
<1>3. req'[p].at = "answered" /\ req'[p].status = StatusOf[e] /\ (Told(p) => SessionStep(p))
    BY <1>2, Answered
<1>4. Told(p)
    BY <1>1, <1>2, <1>3 DEF Told
<1> QED BY <1>3, <1>4

LEMMA SessionSteps ==
    ASSUME TypeOK, Progress, NEW p \in Sessions,
           \/ \E op \in Operations : Arrive(p, op)
           \/ Connect(p) \/ PoolTimeout(p) \/ Refuse(p) \/ Authorise(p) \/ Close(p)
           \/ Statement(p) \/ Break(p) \/ CommitUnheard(p)
    PROVE  SessionStep(p)
BY ArriveStep, ConnectStep, AuthoriseStep, CloseStep, CommitStep, LookUpStep, FindBookStep,
   CheckReservationStep, ReadLoanStep, WriteBookStep, RegisterStep, ReturnStep,
   InsertReservationStep, FailureStep DEF Statement

-----------------------------------------------------------------------------
(* A step of a session keeps the invariant.                                *)

\* The commit has the effect that the operation promises, at a moment when it
\* is allowed: what was found before it is still true.
LEMMA CommitEffect ==
    ASSUME TypeOK, NothingHalfDone, Progress, Checked, NEW p \in Sessions, Committed(p)
    PROVE  Promised!Effect(req[p].op)
<1> DEFINE op == req[p].op  wrote == req[p].wrote
<1>1. req[p].at = "commit" /\ CommitWrites(p) /\ ProgressOf(req[p]) /\ CheckedBy(p) /\ Flying(p)
    BY DEF Committed, Progress, Checked
<1>2. CASE op.kind = "create"
    <2>1. wrote = {"book"}
        BY <1>1, <1>2 DEF ProgressOf
    <2>2. books[op.book] = NoBook /\ HasIsbn(op.isbn) = {}
        BY <1>1, <1>2 DEF CheckedBy, Is, Keyed
    <2>3. ~Promised!Taken(op.isbn)
        BY <2>2 DEF HasIsbn, Promised!Taken
    <2> QED BY <1>1, <1>2, <2>1, <2>2, <2>3
            DEF CommitWrites, Promised!Effect, Promised!Create, Promised!NoBook, NoBook
<1>3. CASE op.kind = "rename"
    <2>1. wrote = {"book"}
        BY <1>1, <1>3 DEF ProgressOf
    <2>2. IsLive(op.book) /\ HasIsbn(op.isbn) \subseteq {op.book}
        BY <1>1, <1>3 DEF CheckedBy, Is, Keyed, Writing
    <2>3. Promised!Taken(op.isbn) => books[op.book].isbn = op.isbn
        BY <2>2 DEF HasIsbn, Promised!Taken
    <2> QED BY <1>1, <1>3, <2>1, <2>2, <2>3
            DEF CommitWrites, Promised!Effect, Promised!Rename, Promised!IsLive, Promised!NoBook,
                NoBook, IsLive
<1>4. CASE op.kind = "delete"
    BY <1>1, <1>4 DEF CommitWrites, Promised!Effect, Promised!Delete, Promised!NoBook, NoBook,
        ProgressOf, CheckedBy, Is, Writing
<1>5. CASE op.kind = "register"
    BY <1>1, <1>5 DEF CommitWrites, Promised!Effect, Promised!Register, ProgressOf, CheckedBy, Is,
        Enrolling
<1>6. CASE op.kind = "return"
    <2>1. CASE wrote = {"loan", "copy"}
        BY <1>1, <1>6, <2>1 DEF CommitWrites, Promised!Effect, Promised!ReturnLoan
    <2>2. CASE wrote = {}
        <3>1. op.loan \in returned /\ op.loan \in released
            BY <1>1, <1>6, <2>2 DEF CheckedBy, Is, NothingHalfDone
        <3> QED BY <1>1, <1>6, <2>2, <3>1 DEF CommitWrites, Promised!Effect, Promised!ReturnLoan
    <2> QED BY <1>1, <1>6, <2>1, <2>2 DEF ProgressOf
<1>7. CASE op.kind = "reserve"
    BY <1>1, <1>7 DEF CommitWrites, Promised!Effect, Promised!Reserve, ProgressOf, CheckedBy, Is,
        Reserving, Writing
<1> QED BY <1>1, <1>2, <1>3, <1>4, <1>5, <1>6, <1>7, Shapes, OperationShapes

LEMMA TypeStep ==
    ASSUME TypeOK, NEW p \in Sessions, SessionStep(p), Committed(p) => Promised!Effect(req[p].op),
           inUse' \in 0..PoolSize, readers' \in 0..MaxReaders
    PROVE  TypeOK'
<1>1. req' \in [Sessions -> Request]
    BY DEF SessionStep, TypeOK
<1>2. CASE UNCHANGED tables
    BY <1>1, <1>2 DEF TypeOK, tables
<1>3. CASE Committed(p) /\ Promised!Effect(req[p].op)
    <2> DEFINE op == req[p].op
    <2>1. op \in Operations
        BY <1>3, Shapes DEF Committed
    <2>2. CASE op.kind = "create" /\ Promised!Create(op)
        <3>1. op.book \in Books /\ op.isbn \in Isbns
            BY <2>1, <2>2, OperationShapes
        <3>2. books' \in [Books -> {NoBook} \cup [isbn : Isbns, deleted : BOOLEAN]]
            BY <2>2, <3>1 DEF Promised!Create, TypeOK
        <3> QED BY <1>1, <2>2, <3>2 DEF Promised!Create, TypeOK
    <2>3. CASE op.kind = "rename" /\ Promised!Rename(op)
        <3>1. op.book \in Books /\ op.isbn \in Isbns /\ books[op.book] # NoBook
            BY <2>1, <2>3, OperationShapes DEF Promised!Rename, Promised!IsLive, Promised!NoBook, NoBook
        <3>2. books[op.book] \in [isbn : Isbns, deleted : BOOLEAN]
            BY <3>1 DEF TypeOK
        <3>3. [books[op.book] EXCEPT !.isbn = op.isbn] \in [isbn : Isbns, deleted : BOOLEAN]
            BY <3>1, <3>2
        <3>4. books' = [books EXCEPT ![op.book] = [books[op.book] EXCEPT !.isbn = op.isbn]]
            BY <2>3 DEF Promised!Rename
        <3>5. books' \in [Books -> {NoBook} \cup [isbn : Isbns, deleted : BOOLEAN]]
            BY <3>3, <3>4 DEF TypeOK
        <3> QED BY <1>1, <2>3, <3>5 DEF Promised!Rename, TypeOK
    <2>4. CASE op.kind = "delete" /\ Promised!Delete(op)
        <3>1. op.book \in Books /\ books[op.book] # NoBook
            BY <2>1, <2>4, OperationShapes DEF Promised!Delete, Promised!NoBook, NoBook
        <3>2. books[op.book] \in [isbn : Isbns, deleted : BOOLEAN]
            BY <3>1 DEF TypeOK
        <3>3. [books[op.book] EXCEPT !.deleted = TRUE] \in [isbn : Isbns, deleted : BOOLEAN]
            BY <3>2
        <3>4. books' = [books EXCEPT ![op.book] = [books[op.book] EXCEPT !.deleted = TRUE]]
            BY <2>4 DEF Promised!Delete
        <3>5. books' \in [Books -> {NoBook} \cup [isbn : Isbns, deleted : BOOLEAN]]
            BY <3>3, <3>4 DEF TypeOK
        <3> QED BY <1>1, <2>4, <3>5 DEF Promised!Delete, TypeOK
    <2>5. CASE op.kind = "register" /\ Promised!Register(op)
        BY <1>1, <2>1, <2>5, OperationShapes DEF Promised!Register, TypeOK
    <2>6. CASE op.kind = "return" /\ Promised!ReturnLoan(op)
        BY <1>1, <2>1, <2>6, OperationShapes DEF Promised!ReturnLoan, TypeOK
    <2>7. CASE op.kind = "reserve" /\ Promised!Reserve(op)
        BY <1>1, <2>1, <2>7, OperationShapes DEF Promised!Reserve, TypeOK
    <2> QED BY <1>3, <2>2, <2>3, <2>4, <2>5, <2>6, <2>7 DEF Promised!Effect
<1> QED BY <1>2, <1>3 DEF SessionStep

LEMMA HalfDoneStep ==
    ASSUME NothingHalfDone, NEW p \in Sessions,
           UNCHANGED tables \/ Promised!Effect(req[p].op)
    PROVE  NothingHalfDone'
BY DEF NothingHalfDone, tables, Promised!Effect, Promised!Create, Promised!Rename, Promised!Delete,
       Promised!Register, Promised!ReturnLoan, Promised!Reserve

\* The connections are counted: a step adds p to those that have one, takes it
\* away, or leaves them.
LEMMA ConnectionsStep ==
    ASSUME TypeOK, NoConnectionLeaks, NEW p \in Sessions, SessionStep(p)
    PROVE  NoConnectionLeaks' /\ inUse' \in 0..PoolSize /\ readers' \in 0..MaxReaders
<1> DEFINE C == {q \in Sessions : req[q].connected}
<1>1. IsFiniteSet(C) /\ Cardinality(C) \in Nat /\ inUse = readers + Cardinality(C)
    BY SessionsAssumption, FS_Subset, FS_CardinalityType DEF NoConnectionLeaks
<1>2. \A q \in Sessions : q # p => req'[q] = req[q]
    BY DEF SessionStep, TypeOK
<1>3. readers' = readers /\ readers \in 0..MaxReaders /\ inUse \in 0..PoolSize
    BY DEF SessionStep, Counted, TypeOK
<1>4. CASE req'[p].connected = req[p].connected /\ inUse' = inUse
    <2>1. C' = C
        BY <1>2, <1>4
    <2> QED BY <1>1, <1>3, <1>4, <2>1 DEF NoConnectionLeaks
<1>5. CASE ~req[p].connected /\ req'[p].connected /\ inUse < PoolSize /\ inUse' = inUse + 1
    <2>1. C' = C \cup {p} /\ p \notin C
        BY <1>2, <1>5
    <2>2. Cardinality(C') = Cardinality(C) + 1
        BY <1>1, <2>1, FS_AddElement
    <2> QED BY <1>1, <1>3, <1>5, <2>2, PoolAssumption DEF NoConnectionLeaks
<1>6. CASE req[p].connected /\ ~req'[p].connected /\ inUse' = inUse - 1
    <2>1. C' = C \ {p} /\ p \in C
        BY <1>2, <1>6
    <2>2. Cardinality(C') = Cardinality(C) - 1 /\ IsFiniteSet(C')
        BY <1>1, <2>1, FS_RemoveElement
    <2>3. Cardinality(C') \in Nat
        BY <2>2, FS_CardinalityType
    <2>4. inUse' = readers' + Cardinality(C')
        BY <1>1, <1>3, <1>6, <2>2
    <2> QED BY <1>3, <1>6, <2>3, <2>4, PoolAssumption DEF NoConnectionLeaks
<1> QED BY <1>4, <1>5, <1>6 DEF SessionStep, Counted

LEMMA ProgressStep ==
    ASSUME TypeOK, Progress, NEW p \in Sessions, SessionStep(p)
    PROVE  Progress'
<1>1. \A q \in Sessions : q # p => req'[q] = req[q]
    BY DEF SessionStep, TypeOK
<1> QED BY <1>1 DEF SessionStep, Progress, ProgressOf

LEMMA OthersStand ==
    ASSUME TypeOK, NEW p \in Sessions, SessionStep(p), NEW q \in Others(p)
    PROVE  q \in Sessions /\ q # p /\ req'[q] = req[q]
BY DEF SessionStep, TypeOK, Others

\* What one request commits does not disturb what another has found: ApartFrom
\* says that the two have no row and no key in common.
LEMMA CheckedStep ==
    ASSUME TypeOK, Progress, Checked, Apart, NEW p \in Sessions, SessionStep(p),
           Committed(p) => Promised!Effect(req[p].op)
    PROVE  Checked'
<1> SUFFICES ASSUME NEW q \in Sessions PROVE CheckedBy(q)'
    BY DEF Checked
<1>0. CheckedBy(q)
    BY DEF Checked
<1>1. CASE UNCHANGED tables /\ q # p
    <2>1. req'[q] = req[q]
        BY <1>1, OthersStand DEF Others
    <2> QED BY <1>0, <1>1, <2>1
            DEF CheckedBy, Is, Flying, Keyed, Writing, Enrolling, Reserving, HasIsbn, IsLive, tables
<1>2. CASE UNCHANGED tables /\ q = p /\ (Arrived(p) \/ Ended(p) \/ Moved(p))
    <2>1. CASE Arrived(p)
        BY <1>2, <2>1 DEF Arrived, CheckedBy, Is, Keyed, Writing, Enrolling, Reserving, tables
    <2>2. CASE Ended(p)
        BY <1>2, <2>2 DEF Ended, Told, CheckedBy, Is, Flying, InFlight, Keyed, Enrolling, Reserving, Idle
    <2>3. CASE Moved(p)
        BY <1>0, <1>2, <2>3
        DEF Moved, Passes, CheckedBy, Is, Flying, Keyed, Writing, Enrolling, Reserving, HasIsbn, IsLive,
            tables, Progress, ProgressOf
    <2> QED BY <1>2, <2>1, <2>2, <2>3
<1>3. CASE Committed(p) /\ q = p
    BY <1>3 DEF Committed, CheckedBy, Is, Flying, InFlight, Keyed, Writing, Enrolling, Reserving
<1>4. CASE Committed(p) /\ q # p
    <2> DEFINE op == req[p].op
    <2>1. req'[q] = req[q]
        BY <1>4, OthersStand DEF Others
    <2>2. ApartFrom(p, q) /\ req[p].at = "commit" /\ Flying(p) /\ Promised!Effect(op)
        BY <1>4 DEF Apart, Others, Committed
    <2>3. Flying(q) => req[q].op \in Operations
        BY Shapes
    <2>a. Flying(q) /\ req[q].op.kind \in {"create", "rename", "delete"} => req[q].op.book \in Books
        BY <2>3, OperationShapes
    <2>4. CASE op.kind = "create" /\ Promised!Create(op)
        <3>1. /\ books[op.book] = NoBook
              /\ books' = [books EXCEPT ![op.book] = [isbn |-> op.isbn, deleted |-> FALSE]]
              /\ UNCHANGED <<users, members, returned, reserved>>
            BY <2>4 DEF Promised!Create, Promised!NoBook, NoBook
        <3>2. \A b \in Books : b # op.book => books'[b] = books[b]
            BY <3>1 DEF TypeOK
        <3>3. \A i : i # op.isbn => HasIsbn(i)' \subseteq HasIsbn(i)
            BY <3>1 DEF HasIsbn, TypeOK
        <3> QED BY <1>0, <2>1, <2>2, <2>4, <2>a, <3>1, <3>2, <3>3
                DEF ApartFrom, CheckedBy, Is, Flying, Keyed, Writing, Enrolling, Reserving, IsLive
    <2>5. CASE op.kind = "rename" /\ Promised!Rename(op)
        <3>1. /\ IsLive(op.book)
              /\ books' = [books EXCEPT ![op.book].isbn = op.isbn]
              /\ UNCHANGED <<users, members, returned, reserved>>
            BY <2>5 DEF Promised!Rename, Promised!IsLive, Promised!NoBook, IsLive, NoBook
        <3>2. \A b \in Books : books[b] # NoBook => books[b] \in [isbn : Isbns, deleted : BOOLEAN]
            BY DEF TypeOK
        <3>3. \A b \in Books : (IsLive(b)' <=> IsLive(b)) /\ (books'[b] = NoBook <=> books[b] = NoBook)
            BY <3>1, <3>2 DEF IsLive, NoBook, TypeOK
        <3>4. \A i : i # op.isbn => HasIsbn(i)' \subseteq HasIsbn(i)
            BY <3>1, <3>2 DEF HasIsbn, IsLive, TypeOK
        <3> QED BY <1>0, <2>1, <2>2, <2>5, <2>a, <3>1, <3>3, <3>4
                DEF ApartFrom, CheckedBy, Is, Flying, Keyed, Writing, Enrolling, Reserving
    <2>6. CASE op.kind = "delete" /\ Promised!Delete(op)
        <3>1. /\ books[op.book] # NoBook
              /\ books' = [books EXCEPT ![op.book].deleted = TRUE]
              /\ UNCHANGED <<users, members, returned, reserved>>
            BY <2>6 DEF Promised!Delete, Promised!NoBook, NoBook
        <3>2. \A b \in Books : books[b] # NoBook => books[b] \in [isbn : Isbns, deleted : BOOLEAN]
            BY DEF TypeOK
        <3>3. \A b \in Books :
                 /\ books'[b] = NoBook <=> books[b] = NoBook
                 /\ b # op.book => books'[b] = books[b]
            BY <3>1, <3>2 DEF NoBook, TypeOK
        <3>4. \A i : HasIsbn(i)' \subseteq HasIsbn(i)
            BY <3>1, <3>2 DEF HasIsbn, TypeOK
        <3>5. op.book \in Books
            BY <2>2, <2>6, Shapes, OperationShapes
        <3>6. Is(q, "rename") /\ Writing(q) => req[q].op.book # op.book
            BY <2>2, <2>6, <3>5 DEF ApartFrom, Locking, Is
        <3> QED BY <1>0, <2>1, <2>a, <3>1, <3>3, <3>4, <3>6
                DEF CheckedBy, Is, Flying, Keyed, Writing, Enrolling, Reserving, IsLive
    <2>7. CASE op.kind = "register" /\ Promised!Register(op)
        BY <1>0, <2>1, <2>2, <2>7
        DEF Promised!Register, ApartFrom, CheckedBy, Is, Flying, Keyed, Writing, Enrolling, Reserving,
            HasIsbn, IsLive
    <2>8. CASE op.kind = "return" /\ Promised!ReturnLoan(op)
        BY <1>0, <2>1, <2>2, <2>8
        DEF Promised!ReturnLoan, ApartFrom, CheckedBy, Is, Flying, Keyed, Writing, Enrolling, Reserving,
            HasIsbn, IsLive
    <2>9. CASE op.kind = "reserve" /\ Promised!Reserve(op)
        BY <1>0, <2>1, <2>2, <2>9
        DEF Promised!Reserve, ApartFrom, CheckedBy, Is, Flying, Keyed, Writing, Enrolling, Reserving,
            HasIsbn, IsLive
    <2> QED BY <2>2, <2>4, <2>5, <2>6, <2>7, <2>8, <2>9 DEF Promised!Effect
<1> QED BY <1>1, <1>2, <1>3, <1>4 DEF SessionStep

\* A request comes to a row or a key only past the locks of the others.
LEMMA ApartStep ==
    ASSUME TypeOK, Progress, Apart, NEW p \in Sessions, SessionStep(p)
    PROVE  Apart'
<1>1. ASSUME NEW q \in Others(p) PROVE ApartFrom(p, q)'
    <2>0. ApartFrom(p, q) /\ q \in Sessions /\ req'[q] = req[q]
        BY OthersStand DEF Apart, Others
    <2>1. CASE Arrived(p)
        BY <2>0, <2>1
        DEF Arrived, ApartFrom, Is, Flying, Keyed, Locking, Writing, Enrolling, Reserving
    <2>2. CASE Ended(p) \/ Committed(p)
        BY <2>0, <2>2
        DEF Ended, Told, Committed, ApartFrom, Is, Flying, InFlight, Keyed, Locking, Writing,
            Enrolling, Reserving, Idle
    <2>3. CASE Moved(p)
        <3>1. /\ Keyed(q) => req[q].op.isbn \in Claims(q)
              /\ Enrolling(q) => req[q].op.email \in Claims(q)
            BY <2>0, Locks
        <3> QED BY <2>0, <2>3, <3>1
                DEF Moved, Passes, ApartFrom, Is, Flying, Keyed, Locking, Writing, Enrolling, Reserving
    <2> QED BY <2>1, <2>2, <2>3 DEF SessionStep
<1>2. ASSUME NEW q \in Sessions, NEW r \in Others(q), q # p, r # p PROVE ApartFrom(q, r)'
    <2>1. ApartFrom(q, r) /\ req'[q] = req[q] /\ req'[r] = req[r]
        BY <1>2, OthersStand DEF Apart, Others
    <2> QED BY <2>1 DEF ApartFrom, Is, Flying, Keyed, Locking, Writing, Enrolling, Reserving
<1>3. \A q, r : ApartFrom(q, r)' => ApartFrom(r, q)'
    BY DEF ApartFrom
<1> QED BY <1>1, <1>2, <1>3 DEF Apart, Others

\* No two rows, deleted ones included, get the same ISBN.
LEMMA UniqueStep ==
    ASSUME TypeOK, UniqueIsbns, NEW p \in Sessions,
           UNCHANGED tables \/ (Flying(p) /\ Promised!Effect(req[p].op))
    PROVE  UniqueIsbns'
<1> DEFINE op == req[p].op
<1>1. CASE books' = books
    BY <1>1 DEF UniqueIsbns
<1>2. CASE Flying(p) /\ op.kind = "create" /\ Promised!Create(op)
    BY <1>2 DEF Promised!Create, Promised!Taken, UniqueIsbns, TypeOK
<1>3. CASE Flying(p) /\ op.kind = "rename" /\ Promised!Rename(op)
    BY <1>3 DEF Promised!Rename, Promised!Taken, Promised!IsLive, Promised!NoBook, NoBook, UniqueIsbns, TypeOK
<1>4. CASE Flying(p) /\ op.kind = "delete" /\ Promised!Delete(op)
    BY <1>4 DEF Promised!Delete, Promised!NoBook, NoBook, UniqueIsbns, TypeOK
<1> QED BY <1>1, <1>2, <1>3, <1>4 DEF tables, Promised!Effect, Promised!Register,
            Promised!ReturnLoan, Promised!Reserve

-----------------------------------------------------------------------------
(* The invariant.                                                          *)

LEMMA SessionKeeps ==
    ASSUME RequestsInv, NEW p \in Sessions, SessionStep(p)
    PROVE  RequestsInv'
<1>1. /\ TypeOK /\ NoConnectionLeaks /\ NothingHalfDone
      /\ Progress /\ Checked /\ Apart /\ UniqueIsbns
    BY DEF RequestsInv, Sound
<1>2. Committed(p) => Promised!Effect(req[p].op)
    BY <1>1, CommitEffect
<1>3. UNCHANGED tables \/ (Flying(p) /\ Promised!Effect(req[p].op))
    BY <1>2 DEF SessionStep, Committed
<1>4. NoConnectionLeaks' /\ inUse' \in 0..PoolSize /\ readers' \in 0..MaxReaders
    BY <1>1, ConnectionsStep
<1>5. TypeOK'
    BY <1>1, <1>2, <1>4, TypeStep
<1>6. NothingHalfDone'
    BY <1>1, <1>3, HalfDoneStep
<1>7. Progress'
    BY <1>1, ProgressStep
<1>8. Checked'
    BY <1>1, <1>2, CheckedStep
<1>9. Apart'
    BY <1>1, ApartStep
<1>10. UniqueIsbns'
    BY <1>1, <1>3, UniqueStep
<1> QED BY <1>4, <1>5, <1>6, <1>7, <1>8, <1>9, <1>10 DEF RequestsInv, Sound

\* Steps that leave tables and requests alone, the end of the process among them.
LEMMA SameSound ==
    ASSUME Sound, UNCHANGED <<tables, req>>
    PROVE  Sound'
BY DEF Sound, Progress, Checked, CheckedBy, Apart, ApartFrom, UniqueIsbns, Is, Flying, Keyed, Locking,
       Writing, Enrolling, Reserving, HasIsbn, IsLive, tables

LEMMA ReadersKeep ==
    ASSUME RequestsInv, ReaderConnects \/ ReaderEnds \/ UNCHANGED vars
    PROVE  RequestsInv'
<1> DEFINE C == {q \in Sessions : req[q].connected}
<1>1. Cardinality(C) \in Nat /\ inUse = readers + Cardinality(C)
    BY SessionsAssumption, FS_Subset, FS_CardinalityType DEF RequestsInv, NoConnectionLeaks
<1>2. TypeOK
    BY DEF RequestsInv
<1>3. UNCHANGED <<tables, req>> /\ C' = C
    BY DEF ReaderConnects, ReaderEnds, vars
<1>4. inUse' = readers' + Cardinality(C') /\ inUse' \in 0..PoolSize /\ readers' \in 0..MaxReaders
    BY <1>1, <1>2, <1>3, PoolAssumption DEF ReaderConnects, ReaderEnds, TypeOK, vars, pool
<1>5. TypeOK' /\ NothingHalfDone'
    BY <1>2, <1>3, <1>4 DEF TypeOK, NothingHalfDone, RequestsInv, tables
<1>6. NoConnectionLeaks'
    BY <1>4 DEF NoConnectionLeaks
<1>7. Sound'
    BY <1>3, SameSound DEF RequestsInv
<1> QED BY <1>5, <1>6, <1>7 DEF RequestsInv

LEMMA CrashKeeps ==
    ASSUME RequestsInv, Crash
    PROVE  RequestsInv'
<1>1. \A q \in Sessions : req'[q] = Idle /\ ~Flying(q)' /\ req'[q].connected = FALSE
    BY DEF Crash, Idle, Flying, InFlight
<1>2. UNCHANGED tables /\ inUse' = 0 /\ readers' = 0
    BY DEF Crash
<1>3. req' \in [Sessions -> Request]
    BY DEF Crash, Request
<1>4. TypeOK'
    BY <1>2, <1>3, PoolAssumption DEF RequestsInv, TypeOK, tables
<1>5. {q \in Sessions : req'[q].connected} = {}
    BY <1>1
<1>6. NoConnectionLeaks'
    BY <1>2, <1>5, FS_EmptySet DEF NoConnectionLeaks
<1>7. NothingHalfDone' /\ UniqueIsbns'
    BY <1>2 DEF RequestsInv, NothingHalfDone, Sound, UniqueIsbns, tables
<1>8. Progress'
    BY <1>1 DEF Progress, ProgressOf, Idle
<1>9. Checked' /\ Apart'
    BY <1>1 DEF Checked, CheckedBy, Apart, ApartFrom, Others, Is, Keyed, Locking, Enrolling, Reserving
<1> QED BY <1>4, <1>6, <1>7, <1>8, <1>9 DEF RequestsInv, Sound

LEMMA RequestsInvInductive ==
    /\ Init => RequestsInv
    /\ RequestsInv /\ [Next]_vars => RequestsInv'
<1>1. ASSUME Init PROVE RequestsInv
    <2>1. \A q \in Sessions : req[q] = Idle /\ ~Flying(q) /\ req[q].connected = FALSE
        BY <1>1 DEF Init, Idle, Flying, InFlight
    <2>2. TypeOK
        BY <1>1, PoolAssumption DEF Init, TypeOK, Request
    <2>3. {q \in Sessions : req[q].connected} = {}
        BY <2>1
    <2>4. NoConnectionLeaks
        BY <1>1, <2>3, FS_EmptySet DEF Init, NoConnectionLeaks
    <2>5. NothingHalfDone /\ UniqueIsbns
        BY <1>1 DEF Init, NothingHalfDone, UniqueIsbns
    <2>6. Progress
        BY <2>1 DEF Progress, ProgressOf, Idle
    <2>7. Checked /\ Apart
        BY <2>1 DEF Checked, CheckedBy, Apart, ApartFrom, Others, Is, Keyed, Locking, Enrolling, Reserving
    <2> QED BY <2>2, <2>4, <2>5, <2>6, <2>7 DEF RequestsInv, Sound
<1>2. ASSUME RequestsInv, [Next]_vars PROVE RequestsInv'
    <2>1. ASSUME NEW p \in Sessions,
                 \/ \E op \in Operations : Arrive(p, op)
                 \/ Connect(p) \/ PoolTimeout(p) \/ Refuse(p) \/ Authorise(p) \/ Close(p)
                 \/ Statement(p) \/ Break(p) \/ CommitUnheard(p)
          PROVE  RequestsInv'
        <3>1. TypeOK /\ Progress
            BY <1>2 DEF RequestsInv, Sound
        <3> QED BY <1>2, <2>1, <3>1, SessionSteps, SessionKeeps
    <2> QED BY <1>2, <2>1, ReadersKeep, CrashKeeps DEF Next
<1> QED BY <1>1, <1>2

-----------------------------------------------------------------------------
(* Every step is a step of AtomicRequests, or none.                        *)

Asked == [q \in Sessions |-> Outcome(req[q])]

LEMMA Outcomes ==
    /\ Outcome(Idle) = [outcome |-> "none"]
    /\ \A r \in Request :
          /\ r.at \in InFlight \ {"position"} => Outcome(r) = [outcome |-> "pending", op |-> r.op]
          /\ r.at = "position" => Outcome(r) = [outcome |-> "applied"]
          /\ r.at = "answered" =>
                /\ r.status = 200 => Outcome(r) = [outcome |-> "done"]
                /\ r.status = 400 => Outcome(r) = [outcome |-> "conflict"]
                /\ r.status = 404 => Outcome(r) = [outcome |-> "missing"]
                /\ r.status \in {401, 403, 409} => Outcome(r) = [outcome |-> "refused"]
                /\ r.status = 500 => Outcome(r) = [outcome |-> "failed"]
<1>1. Outcome(Idle) = [outcome |-> "none"]
    BY DEF Outcome
<1>2. ASSUME NEW r \in Request, r.at # "idle"
      PROVE  r # Idle
    BY <1>2 DEF Idle
<1> QED BY <1>1, <1>2 DEF Outcome, InFlight

LEMMA AskedChanges ==
    ASSUME TypeOK, NEW p \in Sessions, SessionStep(p)
    PROVE  /\ Asked' = [Asked EXCEPT ![p] = Outcome(req'[p])]
           /\ Asked[p] = Outcome(req[p])
           /\ Outcome(req'[p]) = Outcome(req[p]) => Asked' = Asked
BY DEF SessionStep, Asked, TypeOK

LEMMA SessionPromise ==
    ASSUME RequestsInv, NEW p \in Sessions, SessionStep(p)
    PROVE  [Promised!Next]_(Promised!vars)
<1> DEFINE op == req[p].op
<1>0. TypeOK /\ Progress /\ req[p] \in Request /\ req'[p] \in Request
    BY Shapes DEF RequestsInv, Sound, SessionStep
<1>1. /\ Asked' = [Asked EXCEPT ![p] = Outcome(req'[p])]
      /\ Asked[p] = Outcome(req[p])
      /\ Outcome(req'[p]) = Outcome(req[p]) => Asked' = Asked
    BY <1>0, AskedChanges
<1>2. Flying(p) /\ req[p].at # "position" => Asked[p] = [outcome |-> "pending", op |-> op]
    BY <1>0, <1>1, Outcomes DEF Flying
<1>a. UniqueIsbns /\ (Flying(p) /\ op.kind = "rename" => op.book \in Books /\ op.isbn \in Isbns)
    BY <1>0, Shapes, OperationShapes DEF RequestsInv, Sound
<1>b. \A o : Asked' = [Asked EXCEPT ![p] = [outcome |-> o]] => Promised!Tell(p, o)
    BY DEF Asked, Promised!Tell
<1>3. CASE UNCHANGED tables /\ Arrived(p)
    <2>1. req'[p].op \in Operations
        BY <1>0, <1>3, RequestShapes DEF Arrived, Flying
    <2>2. Outcome(req'[p]) = [outcome |-> "pending", op |-> req'[p].op]
        BY <1>0, <1>3, Outcomes DEF Arrived, Flying
    <2>3. Asked[p] = [outcome |-> "none"]
        BY <1>1, <1>3, Outcomes DEF Arrived
    <2>4. Promised!Ask(p, req'[p].op)
        BY <1>1, <1>3, <2>2, <2>3 DEF Asked, Promised!Ask, Promised!Nothing, Promised!tables, tables
    <2> QED BY <2>1, <2>4 DEF Promised!Next
<1>4. CASE UNCHANGED tables /\ Told(p) /\ req[p].at = "position"
    <2>1. Asked[p] = [outcome |-> "applied"]
        BY <1>0, <1>1, <1>4, Outcomes
    <2>2. Outcome(req'[p]) \in {[outcome |-> "done"], [outcome |-> "failed"]}
        BY <1>0, <1>4, Outcomes DEF Told
    <2>3. Promised!Tell(p, "done") \/ Promised!Tell(p, "failed")
        BY <1>1, <1>b, <2>2
    <2>4. Promised!Confirm(p)
        BY <1>4, <2>1, <2>3 DEF Asked, Promised!Confirm, Promised!tables, tables
    <2> QED BY <2>4 DEF Promised!Next
<1>5. CASE UNCHANGED tables /\ Told(p) /\ req[p].at # "position"
    <2>1. Asked[p] = [outcome |-> "pending", op |-> op]
        BY <1>2, <1>5 DEF Told
    <2>2. Promised!Pending(p) /\ UNCHANGED Promised!tables
        BY <1>5, <2>1 DEF Asked, Promised!Pending, Promised!tables, tables
    <2>3. CASE req'[p].status \in {401, 403, 409}
        <3>1. Promised!Refuse(p)
            BY <1>0, <1>1, <1>5, <2>2, <2>3, Outcomes DEF Told, Asked, Promised!Refuse, Promised!Tell
        <3> QED BY <3>1 DEF Promised!Next
    <2>4. CASE req'[p].status = 500
        <3>1. Promised!Fail(p)
            BY <1>0, <1>1, <1>5, <2>2, <2>4, Outcomes DEF Told, Asked, Promised!Fail, Promised!Tell
        <3> QED BY <3>1 DEF Promised!Next
    <2>5. CASE req'[p].status = 400 /\ Conflicts(op)
        <3>1. Promised!Tell(p, "conflict")
            BY <1>0, <1>1, <1>5, <2>5, Outcomes DEF Told, Asked, Promised!Tell
        <3>2. \/ op.kind = "create" /\ Promised!Taken(op.isbn)
              \/ op.kind = "rename" /\ Promised!Taken(op.isbn) /\ books[op.book].isbn # op.isbn
              \/ op.kind = "register"
              \/ op.kind = "reserve" /\ op.email \in reserved
            BY <1>5, <1>a, <2>5, IsbnsAssumption DEF Told, Conflicts, HasIsbn, Promised!Taken, UniqueIsbns, NoBook
        <3>3. Promised!Conflict(p)
            BY <2>1, <2>2, <3>1, <3>2 DEF Asked, Promised!Conflict
        <3> QED BY <3>3 DEF Promised!Next
    <2>6. CASE req'[p].status = 404 /\ op.kind \in {"rename", "delete"} /\ ~IsLive(op.book)
        <3>1. Promised!Tell(p, "missing")
            BY <1>0, <1>1, <1>5, <2>6, Outcomes DEF Told, Asked, Promised!Tell
        <3>2. Promised!Missing(p)
            BY <2>1, <2>2, <2>6, <3>1
            DEF Asked, IsLive, NoBook, Promised!Missing, Promised!IsLive, Promised!NoBook
        <3> QED BY <3>2 DEF Promised!Next
    <2> QED BY <1>5, <2>3, <2>4, <2>5, <2>6 DEF Told
<1>6. CASE UNCHANGED tables /\ req[p].at = "answered" /\ req'[p] = Idle
    <2>1. Asked' = [q \in Sessions |-> IF q \in {p} THEN [outcome |-> "none"] ELSE Asked[q]]
        BY <1>1, <1>6, Outcomes DEF Asked
    <2>2. Promised!Part({p})
        BY <1>6, <2>1 DEF Asked, Promised!Part, Promised!Nothing, Promised!tables, tables
    <2> QED BY <2>2 DEF Promised!Next
<1>7. CASE UNCHANGED tables /\ Moved(p)
    <2>1. Outcome(req'[p]) = Outcome(req[p])
        BY <1>0, <1>7, Outcomes DEF Moved, Passes, Flying, InFlight
    <2>2. UNCHANGED Promised!vars
        BY <1>1, <1>7, <2>1 DEF Asked, Promised!vars, Promised!tables, tables
    <2> QED BY <2>2
<1>8. CASE Committed(p)
    <2>1. Promised!Effect(op)
        BY <1>8, CommitEffect DEF RequestsInv, Sound
    <2>2. Asked[p] = [outcome |-> "pending", op |-> op]
        BY <1>2, <1>8 DEF Committed
    <2> DEFINE asked == [q \in Sessions |-> Outcome(req[q])]
    <2>a. asked[p] = [outcome |-> "pending", op |-> op]
        BY <2>2 DEF Asked
    <2> HIDE DEF asked
    <2>b. Promised!Effect(asked[p].op)
        BY <2>1, <2>a
        DEF Promised!Effect, Promised!Create, Promised!Rename, Promised!Delete, Promised!Register,
            Promised!ReturnLoan, Promised!Reserve
    <2>c. Promised!Pending(p)
        BY <2>a DEF Promised!Pending, asked
    <2>3. CASE req'[p].at = "answered" /\ req'[p].status = 200
        <3>1. Promised!Tell(p, "done")
            BY <1>0, <1>1, <1>b, <2>3, Outcomes
        <3>2. Promised!Succeed(p)
            BY <2>b, <2>c, <3>1 DEF Promised!Succeed, asked
        <3> QED BY <3>2 DEF Promised!Next
    <2>4. CASE req'[p].at = "answered" /\ req'[p].status = 500
        <3>1. Promised!Tell(p, "failed")
            BY <1>0, <1>1, <1>b, <2>4, Outcomes
        <3>2. Promised!Fail(p)
            BY <2>b, <2>c, <3>1 DEF Promised!Fail, asked
        <3> QED BY <3>2 DEF Promised!Next
    <2>5. CASE Is(p, "reserve") /\ req'[p].at = "position"
        <3>1. Promised!Tell(p, "applied")
            BY <1>0, <1>1, <1>b, <2>5, Outcomes
        <3>2. asked[p].op.kind = "reserve"
            BY <2>5, <2>a DEF Is
        <3>3. Promised!Apply(p)
            BY <2>b, <2>c, <3>1, <3>2 DEF Promised!Apply, asked
        <3> QED BY <3>3 DEF Promised!Next
    <2> QED BY <1>8, <2>3, <2>4, <2>5 DEF Committed
<1> QED BY <1>3, <1>4, <1>5, <1>6, <1>7, <1>8 DEF SessionStep, Ended

LEMMA StepPromise ==
    ASSUME RequestsInv, [Next]_vars
    PROVE  [Promised!Next]_(Promised!vars)
<1>1. ASSUME NEW p \in Sessions,
             \/ \E op \in Operations : Arrive(p, op)
             \/ Connect(p) \/ PoolTimeout(p) \/ Refuse(p) \/ Authorise(p) \/ Close(p)
             \/ Statement(p) \/ Break(p) \/ CommitUnheard(p)
      PROVE  [Promised!Next]_(Promised!vars)
    <2>1. TypeOK /\ Progress
        BY DEF RequestsInv, Sound
    <2> QED BY <1>1, <2>1, SessionSteps, SessionPromise
<1>2. CASE ReaderConnects \/ ReaderEnds \/ UNCHANGED vars
    BY <1>2 DEF ReaderConnects, ReaderEnds, vars, tables, Promised!vars, Promised!tables
<1>3. CASE Crash
    <2>1. Asked' = [q \in Sessions |-> IF q \in Sessions THEN [outcome |-> "none"] ELSE Asked[q]]
        BY <1>3, Outcomes DEF Crash, Asked
    <2>2. Promised!Part(Sessions)
        BY <1>3, <2>1 DEF Crash, Asked, Promised!Part, Promised!Nothing, Promised!tables, tables
    <2> QED BY <2>2 DEF Promised!Next
<1> QED BY <1>1, <1>2, <1>3 DEF Next

-----------------------------------------------------------------------------
(* Theorems.                                                               *)

\* What every request relies on when it comes to its commit is never undone by
\* the others: RequestsInv holds throughout.
THEOREM InvariantHolds == Spec => []RequestsInv
BY RequestsInvInductive, PTL DEF Spec

\* The tables, the pool and the requests have their types; above all the pool
\* never gives out more connections than it has, nor takes back more than it gave.
THEOREM RequestsTypeCorrect == Spec => []TypeOK
<1>1. RequestsInv => TypeOK
    BY DEF RequestsInv
<1> QED BY <1>1, InvariantHolds, PTL

\* However requests end, and however many there are, the connections checked
\* out of the pool are those of the requests that still need them.
THEOREM NoLeak == Spec => []NoConnectionLeaks
<1>1. RequestsInv => NoConnectionLeaks
    BY DEF RequestsInv
<1> QED BY <1>1, InvariantHolds, PTL

\* No account without its member, no return without its copy, whatever fails.
THEOREM AllOrNothing == Spec => []NothingHalfDone
<1>1. RequestsInv => NothingHalfDone
    BY DEF RequestsInv
<1> QED BY <1>1, InvariantHolds, PTL

\* The application implements what AtomicRequests promises its clients.
THEOREM ClientsMayRely == Spec => PromisesKept
<1>1. Init => Promised!Init
    BY DEF Init, Promised!Init, Promised!NoBook, Promised!Nothing, NoBook, Outcome
<1>2. RequestsInv /\ [Next]_vars => [Promised!Next]_(Promised!vars)
    BY StepPromise
<1> QED BY <1>1, <1>2, InvariantHolds, PTL DEF Spec, PromisesKept, Promised!Spec

=============================================================================
