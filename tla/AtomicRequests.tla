--------------------------- MODULE AtomicRequests ---------------------------
(***************************************************************************)
(* What a client of the API may rely on, whatever runs beside its request: *)
(*   - a request answered with success has taken effect, all of it and     *)
(*     once, and at a moment when it was allowed to;                       *)
(*   - 400 and 404 mean that, at some moment of the request, the key was   *)
(*     taken, or the book was not there, and that nothing changed;         *)
(*   - 401, 403 and 409 mean that nothing changed;                         *)
(*   - 500, or no answer at all, mean all of the effect or none of it.     *)
(* Requests shows that the sessions, transactions and exception handlers   *)
(* of the application keep this.                                           *)
(***************************************************************************)
CONSTANTS
    Books,          \* identities of rows of the books table
    Requests,       \* clients, each with at most one request in flight
    Operations      \* what they may ask for

VARIABLES
    books,          \* isbn and deletion of every row of the books table
    users, members, \* emails of the accounts, and those with a member profile
    returned,       \* loans that are RETURNED
    released,       \* loans whose copy was given to the queue or the shelf
    reserved,       \* accounts with an active reservation
    asked           \* what each client waits for, or was told

tables == <<books, users, members, returned, released, reserved>>
vars == <<tables, asked>>

NoBook == [isbn |-> "NONE"]
Nothing == [outcome |-> "none"]

\* Deleted rows keep their entry in the unique index.
Taken(isbn) == \E b \in Books : books[b].isbn = isbn
IsLive(b) == books[b] # NoBook /\ ~books[b].deleted

Init ==
    /\ books = [b \in Books |-> NoBook]
    /\ users = {} /\ members = {} /\ reserved = {}
    /\ returned = {} /\ released = {}
    /\ asked = [p \in Requests |-> Nothing]

-----------------------------------------------------------------------------
(* The effect of an operation, with the condition it is allowed under.     *)

Create(op) ==
    /\ books[op.book] = NoBook /\ ~Taken(op.isbn)
    /\ books' = [books EXCEPT ![op.book] = [isbn |-> op.isbn, deleted |-> FALSE]]
    /\ UNCHANGED <<users, members, returned, released, reserved>>

Rename(op) ==
    /\ IsLive(op.book)
    /\ Taken(op.isbn) => books[op.book].isbn = op.isbn
    /\ books' = [books EXCEPT ![op.book].isbn = op.isbn]
    /\ UNCHANGED <<users, members, returned, released, reserved>>

\* Of two deletions that overlap, both succeed.
Delete(op) ==
    /\ books[op.book] # NoBook
    /\ books' = [books EXCEPT ![op.book].deleted = TRUE]
    /\ UNCHANGED <<users, members, returned, released, reserved>>

Register(op) ==
    /\ op.email \notin users
    /\ users' = users \cup {op.email} /\ members' = members \cup {op.email}
    /\ UNCHANGED <<books, returned, released, reserved>>

\* A retry finds the loan returned and succeeds without effect.
ReturnLoan(op) ==
    /\ returned' = returned \cup {op.loan} /\ released' = released \cup {op.loan}
    /\ UNCHANGED <<books, users, members, reserved>>

Reserve(op) ==
    /\ op.email \in members \ reserved
    /\ reserved' = reserved \cup {op.email}
    /\ UNCHANGED <<books, users, members, returned, released>>

Effect(op) ==
    \/ op.kind = "create" /\ Create(op)
    \/ op.kind = "rename" /\ Rename(op)
    \/ op.kind = "delete" /\ Delete(op)
    \/ op.kind = "register" /\ Register(op)
    \/ op.kind = "return" /\ ReturnLoan(op)
    \/ op.kind = "reserve" /\ Reserve(op)

-----------------------------------------------------------------------------
Pending(p) == asked[p].outcome = "pending"
Tell(p, outcome) == asked' = [asked EXCEPT ![p] = [outcome |-> outcome]]

Ask(p, op) ==
    /\ asked[p] = Nothing
    /\ asked' = [asked EXCEPT ![p] = [outcome |-> "pending", op |-> op]]
    /\ UNCHANGED tables

Succeed(p) == Pending(p) /\ Effect(asked[p].op) /\ Tell(p, "done")

\* The effect comes first, and the answer, of whatever kind but a refusal, later.
Apply(p) == Pending(p) /\ asked[p].op.kind = "reserve" /\ Effect(asked[p].op) /\ Tell(p, "applied")
Confirm(p) ==
    /\ asked[p].outcome = "applied"
    /\ Tell(p, "done") \/ Tell(p, "failed")
    /\ UNCHANGED tables

Conflict(p) ==
    /\ Pending(p)
    /\ LET op == asked[p].op
       IN  \/ op.kind = "create" /\ Taken(op.isbn)
           \/ op.kind = "rename" /\ Taken(op.isbn) /\ books[op.book].isbn # op.isbn
           \* a membership number drawn twice is a conflict the client did not cause
           \/ op.kind = "register"
           \/ op.kind = "reserve" /\ op.email \in reserved
    /\ Tell(p, "conflict") /\ UNCHANGED tables

Missing(p) ==
    /\ Pending(p)
    /\ asked[p].op.kind \in {"rename", "delete"} /\ ~IsLive(asked[p].op.book)
    /\ Tell(p, "missing") /\ UNCHANGED tables

Refuse(p) == (Pending(p) \/ asked[p] = Nothing) /\ Tell(p, "refused") /\ UNCHANGED tables

Fail(p) ==
    /\ Pending(p)
    /\ Effect(asked[p].op) \/ UNCHANGED tables
    /\ Tell(p, "failed")

\* The answers arrive, or the application dies with all requests in flight.
Part(P) ==
    /\ asked' = [p \in Requests |-> IF p \in P THEN Nothing ELSE asked[p]]
    /\ UNCHANGED tables

Next ==
    \/ \E p \in Requests, op \in Operations : Ask(p, op)
    \/ \E p \in Requests : Succeed(p) \/ Conflict(p) \/ Missing(p) \/ Refuse(p) \/ Fail(p)
    \/ \E p \in Requests : Apply(p) \/ Confirm(p)
    \/ \E P \in SUBSET Requests : Part(P)

Spec == Init /\ [][Next]_vars
=============================================================================
