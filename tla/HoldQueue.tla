----------------------------- MODULE HoldQueue -----------------------------
(***************************************************************************)
(* What the library promises about the copies of one book and the members  *)
(* who wait for it: docs/adr/0019-reservation-queue-hold-strategy.md and   *)
(* docs/adr/0020-use-fifo-reservation-queue.md, as far as the services     *)
(* keep it.  CirculationQueues shows that every book of Circulation is     *)
(* such a queue.                                                           *)
(*                                                                         *)
(* Rows, clocks and members are abstracted away.  A ticket stands for an   *)
(* active reservation and is free again when the reservation closes, so    *)
(* behaviours go on for ever and liveness can be asked: the loans and the  *)
(* arrivals never end, and still everybody's turn has to come.             *)
(***************************************************************************)
EXTENDS Integers, FiniteSets

CONSTANTS
    Tickets,        \* identities of active reservations of the book
    MaxCopies       \* bound: copies a librarian enters for the book

ASSUME TicketsAssumption == IsFiniteSet(Tickets)
ASSUME CopiesAssumption == MaxCopies \in Nat

VARIABLES
    state,      \* of the book: NONE, LIVE or DELETED
    shelf,      \* copies on the shelf
    out,        \* copies on loan
    waiting,    \* tickets in the queue
    ahead,      \* <<s, t>>: both wait, and s arrived at an earlier instant than t
    recent,     \* tickets that arrived at the present instant
    fresh,      \* tickets a copy is held for, within their window
    late        \* tickets a copy is held for, past their deadline

vars == <<state, shelf, out, waiting, ahead, recent, fresh, late>>

Holders == fresh \cup late

TypeOK ==
    /\ state \in {"NONE", "LIVE", "DELETED"}
    /\ shelf \in Nat /\ out \in Nat
    /\ waiting \subseteq Tickets /\ Holders \subseteq Tickets
    /\ fresh \cap late = {} /\ waiting \cap Holders = {}
    /\ recent \subseteq waiting
    /\ ahead \subseteq (waiting \ recent) \X waiting
    /\ \A s \in waiting \ recent, t \in recent : <<s, t>> \in ahead
    /\ \A s, t \in waiting : <<s, t>> \in ahead => <<t, s>> \notin ahead
    /\ \A s, t, u \in waiting : <<s, u>> \in ahead => <<s, t>> \in ahead \/ <<t, u>> \in ahead

Init ==
    /\ state = "NONE" /\ shelf = 0 /\ out = 0
    /\ waiting = {} /\ ahead = {} /\ recent = {}
    /\ fresh = {} /\ late = {}

-----------------------------------------------------------------------------
(* The queue.                                                              *)

\* Variant: the newest of the queue are served first.
NewestOfQueue(n) ==
    {P \in SUBSET waiting :
        /\ Cardinality(P) = IF n <= Cardinality(waiting) THEN n ELSE Cardinality(waiting)
        /\ \A p \in P, q \in waiting \ P : <<p, q>> \notin ahead}

\* The first n of the queue, all of it when fewer wait; equal arrivals in any order.
FirstOfQueue(n) ==
    {P \in SUBSET waiting :
        /\ Cardinality(P) = IF n <= Cardinality(waiting) THEN n ELSE Cardinality(waiting)
        /\ \A p \in P, q \in waiting \ P : <<q, p>> \notin ahead}

\* The tickets P are no longer in the queue.
Dequeue(P) ==
    /\ waiting' = waiting \ P
    /\ recent' = recent \ P
    /\ ahead' = ahead \cap (waiting' \X waiting')

\* n copies come free while the holds in closed end.  Copies nobody waits for
\* go on the shelf; those of a deleted book are taken out of the library.
Release(n, closed) ==
    \E P \in FirstOfQueue(n) :
        /\ Dequeue(P)
        /\ fresh' = (fresh \ closed) \cup P
        /\ late' = late \ closed
        /\ shelf' = IF state = "LIVE" THEN shelf + n - Cardinality(P) ELSE shelf

-----------------------------------------------------------------------------
Create(n) ==
    /\ state = "NONE"
    /\ state' = "LIVE" /\ shelf' = n
    /\ UNCHANGED <<out, waiting, ahead, recent, fresh, late>>

\* The librarian corrects the stock: n copies stand on the shelf from now on.
Stock(n) ==
    /\ state = "LIVE"
    /\ n + out <= MaxCopies
    /\ shelf' = n
    /\ UNCHANGED <<state, out, waiting, ahead, recent, fresh, late>>

Delete ==
    /\ state = "LIVE"
    /\ state' = "DELETED"
    /\ UNCHANGED <<shelf, out, waiting, ahead, recent, fresh, late>>

\* Variant: who has a hold of the book may queue for it again.
JoinWhileHolding(t) ==
    /\ state = "LIVE" /\ shelf = 0
    /\ t \notin waiting
    /\ waiting' = waiting \cup {t}
    /\ recent' = recent \cup {t}
    /\ ahead' = ahead \cup ((waiting \ recent) \X {t})
    /\ UNCHANGED <<state, shelf, out, fresh, late>>

Join(t) ==
    /\ state = "LIVE" /\ shelf = 0
    /\ t \notin waiting \cup Holders
    /\ waiting' = waiting \cup {t}
    /\ recent' = recent \cup {t}
    /\ ahead' = ahead \cup ((waiting \ recent) \X {t})
    /\ UNCHANGED <<state, shelf, out, fresh, late>>

Leave(t) ==
    /\ t \in waiting
    /\ Dequeue({t})
    /\ UNCHANGED <<state, shelf, out, fresh, late>>

\* The one holder borrows, in time or late.
BorrowHeld(t) ==
    /\ state = "LIVE"
    /\ Holders = {t}
    /\ fresh' = {} /\ late' = {} /\ out' = out + 1
    /\ UNCHANGED <<state, shelf, waiting, ahead, recent>>

\* Anybody borrows from the shelf while no copy is held.
BorrowShelved ==
    /\ state = "LIVE"
    /\ Holders = {} /\ shelf > 0
    /\ shelf' = shelf - 1 /\ out' = out + 1
    /\ UNCHANGED <<state, waiting, ahead, recent, fresh, late>>

Return ==
    /\ out > 0
    /\ out' = out - 1
    /\ Release(1, {})
    /\ UNCHANGED state

\* Variant: the copy of a cancelled hold goes to the shelf past the queue.
CancelHoldToShelf(t) ==
    /\ t \in Holders
    /\ fresh' = fresh \ {t} /\ late' = late \ {t}
    /\ shelf' = IF state = "LIVE" THEN shelf + 1 ELSE shelf
    /\ UNCHANGED <<state, out, waiting, ahead, recent>>

CancelHold(t) ==
    /\ t \in Holders
    /\ Release(1, {t})
    /\ UNCHANGED <<state, out>>

\* Variant: late holds end only when somebody waits for their copies.
SweepForQueue ==
    /\ late # {} /\ waiting # {}
    /\ Release(Cardinality(late), late)
    /\ UNCHANGED <<state, out>>

Sweep ==
    /\ late # {}
    /\ Release(Cardinality(late), late)
    /\ UNCHANGED <<state, out>>

\* Time passes, and the deadlines of the holds L with it.
Pass(L) ==
    /\ recent' = {}
    /\ fresh' = fresh \ L /\ late' = late \cup L
    /\ ahead' = ahead
    /\ UNCHANGED <<state, shelf, out, waiting>>

Next ==
    \/ \E n \in 0..MaxCopies : Create(n) \/ Stock(n)
    \/ Delete
    \/ \E t \in Tickets : Join(t) \/ Leave(t) \/ BorrowHeld(t) \/ CancelHold(t)
    \/ BorrowShelved \/ Return \/ Sweep
    \/ \E L \in SUBSET fresh : Pass(L)

Spec == Init /\ [][Next]_vars

-----------------------------------------------------------------------------
(* Fairness.  Nothing in the application makes these steps happen: time    *)
(* passes; the librarians' job calls POST /reservations/sweep again and    *)
(* again, as the docstring of process_expired_holds assumes; and a book on *)
(* loan comes back some day.  Nobody has to borrow, reserve or cancel.     *)

Lapse(t) == \E L \in SUBSET fresh : t \in L /\ Pass(L)

TimePasses == WF_vars(Pass({})) /\ \A t \in Tickets : WF_vars(Lapse(t))
SweptRegularly == WF_vars(Sweep)
LoansComeBack == WF_vars(Return)

FairSpec == Spec /\ TimePasses /\ SweptRegularly /\ LoansComeBack

-----------------------------------------------------------------------------
(* Properties.                                                             *)

\* ADR-0019, lines 16 and 17: no copy is held for ever.  A hold ends with a
\* loan, a cancellation or a sweep, also of a deleted book, and also when two
\* holds keep both holders from borrowing.
EveryHoldEnds == \A t \in Tickets : t \in Holders ~> t \notin Holders

\* ADR-0020, line 10: the FIFO queue avoids starvation.  Whoever waits is
\* served or leaves, whatever the others do and however often new members
\* join, as long as copies of the book circulate.  The exception is real: a
\* book entered with no copies can be reserved and nobody's turn comes, and
\* copies added with update_book reach the shelf past the queue.
NobodyStarves ==
    []<>(out > 0 \/ Holders # {}) => \A t \in Tickets : t \in waiting ~> t \notin waiting

\* A released copy never rests while somebody waits: once a copy of the book
\* circulates, it does so until the queue is empty.
CopiesCirculateWhileAwaited ==
    [][(out > 0 \/ Holders # {}) /\ waiting # {} /\ waiting' # {}
          => out' > 0 \/ Holders' # {}]_vars

=============================================================================
