-------------------------- MODULE HoldQueueProofs --------------------------
(***************************************************************************)
(* The safety of HoldQueue for any number of tickets and copies.  With     *)
(* QueueProofs it holds of every book of Circulation.                      *)
(***************************************************************************)
EXTENDS HoldQueue, FiniteSetTheorems, TLAPS

LEMMA TicketSetsFinite ==
    \A S \in SUBSET Tickets : IsFiniteSet(S) /\ Cardinality(S) \in Nat
BY TicketsAssumption, FS_Subset, FS_CardinalityType

-----------------------------------------------------------------------------
(* The order of the queue.                                                 *)

Ordered(W, A, N) ==
    /\ W \subseteq Tickets /\ N \subseteq W
    /\ A \subseteq (W \ N) \X W
    /\ \A s \in W \ N, t \in N : <<s, t>> \in A
    /\ \A s, t \in W : <<s, t>> \in A => <<t, s>> \notin A
    /\ \A s, t, u \in W : <<s, u>> \in A => <<s, t>> \in A \/ <<t, u>> \in A

LEMMA OrderedIsTyped ==
    TypeOK <=> /\ state \in {"NONE", "LIVE", "DELETED"}
               /\ shelf \in Nat /\ out \in Nat
               /\ Holders \subseteq Tickets
               /\ fresh \cap late = {} /\ waiting \cap Holders = {}
               /\ Ordered(waiting, ahead, recent)
BY DEF TypeOK, Ordered, Holders

LEMMA DequeueKeepsOrder ==
    ASSUME Ordered(waiting, ahead, recent), NEW P \in SUBSET waiting, Dequeue(P)
    PROVE  Ordered(waiting, ahead, recent)' /\ waiting' = waiting \ P
<1>1. /\ waiting' = waiting \ P /\ recent' = recent \ P
      /\ ahead' = ahead \cap ((waiting \ P) \X (waiting \ P))
    BY DEF Dequeue
<1> QED BY <1>1 DEF Ordered

LEMMA JoinKeepsOrder ==
    ASSUME Ordered(waiting, ahead, recent), NEW t \in Tickets \ waiting, Join(t)
    PROVE  Ordered(waiting, ahead, recent)'
<1>1. /\ waiting' = waiting \cup {t} /\ recent' = recent \cup {t}
      /\ ahead' = ahead \cup ((waiting \ recent) \X {t})
    BY DEF Join
<1>2. \A s, u : <<s, u>> \in ahead' <=>
          <<s, u>> \in ahead \/ (u = t /\ s \in waiting \ recent)
    BY <1>1
<1>3. \A s, u : <<s, u>> \in ahead => s \in waiting \ recent /\ u \in waiting
    BY DEF Ordered
<1>4. waiting' \subseteq Tickets /\ recent' \subseteq waiting'
      /\ ahead' \subseteq (waiting' \ recent') \X waiting'
    BY <1>1 DEF Ordered
<1>5. \A s \in waiting' \ recent', u \in recent' : <<s, u>> \in ahead'
    BY <1>1, <1>2 DEF Ordered
<1>6. \A s, u \in waiting' : <<s, u>> \in ahead' => <<u, s>> \notin ahead'
    BY <1>1, <1>2, <1>3 DEF Ordered
<1>7. ASSUME NEW s \in waiting', NEW u \in waiting', NEW v \in waiting', <<s, v>> \in ahead'
      PROVE  <<s, u>> \in ahead' \/ <<u, v>> \in ahead'
    <2>1. s \in waiting \ recent
        BY <1>2, <1>3, <1>7
    <2>2. CASE u = t \/ u \in recent
        BY <1>2, <2>1, <2>2 DEF Ordered
    <2>3. CASE u \in waiting \ recent
        BY <1>1, <1>2, <1>3, <1>7, <2>3 DEF Ordered
    <2> QED BY <1>1, <2>2, <2>3
<1> QED BY <1>4, <1>5, <1>6, <1>7 DEF Ordered

-----------------------------------------------------------------------------
(* Releases.                                                               *)

\* A copy that comes free and finds somebody waiting becomes a hold.
LEMMA ReleaseEffect ==
    ASSUME TypeOK, NEW n \in Nat, NEW closed, Release(n, closed)
    PROVE  /\ Ordered(waiting, ahead, recent)' /\ shelf' \in Nat
           /\ Holders' \subseteq Tickets
           /\ fresh' \cap late' = {} /\ waiting' \cap Holders' = {}
           /\ n > 0 /\ waiting # {} => fresh' # {}
<1>1. PICK P \in FirstOfQueue(n) :
          /\ Dequeue(P)
          /\ fresh' = (fresh \ closed) \cup P /\ late' = late \ closed
          /\ shelf' = IF state = "LIVE" THEN shelf + n - Cardinality(P) ELSE shelf
    BY DEF Release
<1>2. /\ P \in SUBSET waiting /\ P \in SUBSET Tickets /\ waiting \in SUBSET Tickets
      /\ Cardinality(P) = IF n <= Cardinality(waiting) THEN n ELSE Cardinality(waiting)
    BY <1>1 DEF FirstOfQueue, TypeOK
<1>3. Cardinality(P) \in Nat /\ Cardinality(waiting) \in Nat /\ IsFiniteSet(waiting)
    BY <1>2, TicketSetsFinite
<1>4. Ordered(waiting, ahead, recent)' /\ waiting' = waiting \ P
    BY <1>1, <1>2, OrderedIsTyped, DequeueKeepsOrder
<1>5. shelf' \in Nat
    BY <1>1, <1>2, <1>3 DEF TypeOK
<1>6. Holders' \subseteq Tickets /\ fresh' \cap late' = {} /\ waiting' \cap Holders' = {}
    BY <1>1, <1>2, <1>4 DEF TypeOK, Holders
<1>7. ASSUME n > 0, waiting # {} PROVE fresh' # {}
    <2>1. Cardinality(waiting) # 0
        BY <1>3, <1>7, FS_EmptySet
    <2>2. Cardinality(P) # 0
        BY <1>2, <1>3, <1>7, <2>1
    <2> QED BY <1>1, <2>2, FS_EmptySet
<1> QED BY <1>4, <1>5, <1>6, <1>7

ReleasingStep ==
    \E n \in Nat \ {0}, closed \in SUBSET Tickets :
        Release(n, closed) /\ state' = state /\ out' \in Nat

LEMMA ReleasingSteps ==
    ASSUME TypeOK
    PROVE  /\ Return => ReleasingStep
           /\ \A t \in Tickets : CancelHold(t) => ReleasingStep
           /\ Sweep => ReleasingStep
<1>1. ASSUME Return PROVE ReleasingStep
    BY <1>1 DEF Return, ReleasingStep, TypeOK
<1>2. ASSUME NEW t \in Tickets, CancelHold(t) PROVE ReleasingStep
    BY <1>2 DEF CancelHold, ReleasingStep, TypeOK
<1>3. ASSUME Sweep PROVE ReleasingStep
    <2>1. late \in SUBSET Tickets /\ late # {}
        BY <1>3 DEF Sweep, TypeOK, Holders
    <2>2. Cardinality(late) \in Nat \ {0}
        BY <2>1, TicketSetsFinite, FS_EmptySet
    <2> QED BY <1>3, <2>1, <2>2 DEF Sweep, ReleasingStep, TypeOK
<1> QED BY <1>1, <1>2, <1>3

-----------------------------------------------------------------------------
LEMMA QueueTypeStep == TypeOK /\ [Next]_vars => TypeOK'
<1> SUFFICES ASSUME TypeOK, [Next]_vars PROVE TypeOK'
    OBVIOUS
<1>1. ASSUME NEW n \in 0..MaxCopies, Create(n) \/ Stock(n) PROVE TypeOK'
    BY <1>1, CopiesAssumption DEF Create, Stock, TypeOK, Holders
<1>2. CASE Delete
    BY <1>2 DEF Delete, TypeOK, Holders
<1>3. ASSUME NEW t \in Tickets, Join(t) PROVE TypeOK'
    <2>1. Ordered(waiting, ahead, recent)'
        BY <1>3, OrderedIsTyped, JoinKeepsOrder DEF Join
    <2>2. /\ UNCHANGED <<state, shelf, out, fresh, late>>
          /\ waiting' \cap Holders' = {}
        BY <1>3 DEF Join, TypeOK, Holders
    <2> QED BY <2>1, <2>2, OrderedIsTyped DEF TypeOK, Ordered, Holders
<1>4. ASSUME NEW t \in Tickets, Leave(t) PROVE TypeOK'
    <2>1. Ordered(waiting, ahead, recent)' /\ waiting' = waiting \ {t}
        BY <1>4, OrderedIsTyped, DequeueKeepsOrder DEF Leave
    <2>2. UNCHANGED <<state, shelf, out, fresh, late>>
        BY <1>4 DEF Leave
    <2> QED BY <2>1, <2>2 DEF TypeOK, Ordered, Holders
<1>5. ASSUME NEW t \in Tickets, BorrowHeld(t) PROVE TypeOK'
    BY <1>5 DEF BorrowHeld, TypeOK, Holders
<1>6. CASE BorrowShelved
    BY <1>6 DEF BorrowShelved, TypeOK, Holders
<1>7. CASE ReleasingStep
    BY <1>7, ReleaseEffect DEF ReleasingStep, TypeOK, Ordered, Holders
<1>8. ASSUME NEW L \in SUBSET fresh, Pass(L) PROVE TypeOK'
    BY <1>8 DEF Pass, TypeOK, Holders
<1>9. CASE UNCHANGED vars
    BY <1>9 DEF vars, TypeOK, Holders
<1> QED BY <1>1, <1>2, <1>3, <1>4, <1>5, <1>6, <1>7, <1>8, <1>9, ReleasingSteps DEF Next

\* The queue stays an order: nobody loses the place the arrival gave, a ticket
\* is in the queue or holds a copy and never both, and no copy count falls
\* below zero.
THEOREM QueueTypeCorrect == Spec => []TypeOK
<1>1. Init => TypeOK
    BY DEF Init, TypeOK, Holders
<1> QED BY <1>1, QueueTypeStep, PTL DEF Spec

\* As long as somebody waits, the copies in circulation do not end up on the shelf.
THEOREM CopiesKeepCirculating == Spec => CopiesCirculateWhileAwaited
<1>1. ASSUME TypeOK, [Next]_vars, out > 0 \/ Holders # {}, waiting # {}, waiting' # {}
      PROVE  out' > 0 \/ Holders' # {}
    <2>1. ASSUME NEW n \in 0..MaxCopies, Create(n) \/ Stock(n) PROVE out' > 0 \/ Holders' # {}
        BY <1>1, <2>1 DEF Create, Stock, Holders
    <2>2. CASE Delete
        BY <1>1, <2>2 DEF Delete, Holders
    <2>3. ASSUME NEW t \in Tickets, Join(t) \/ Leave(t) PROVE out' > 0 \/ Holders' # {}
        BY <1>1, <2>3 DEF Join, Leave, Holders
    <2>4. ASSUME NEW t \in Tickets, BorrowHeld(t) PROVE out' > 0 \/ Holders' # {}
        BY <1>1, <2>4 DEF BorrowHeld, TypeOK
    <2>5. CASE BorrowShelved
        BY <1>1, <2>5 DEF BorrowShelved, TypeOK
    <2>6. CASE ReleasingStep
        <3>1. fresh' # {}
            BY <1>1, <2>6, ReleaseEffect DEF ReleasingStep
        <3> QED BY <3>1 DEF Holders
    <2>7. ASSUME NEW L \in SUBSET fresh, Pass(L) PROVE out' > 0 \/ Holders' # {}
        BY <1>1, <2>7 DEF Pass, Holders
    <2>8. CASE UNCHANGED vars
        BY <1>1, <2>8 DEF vars, Holders
    <2> QED BY <1>1, <2>1, <2>2, <2>3, <2>4, <2>5, <2>6, <2>7, <2>8, ReleasingSteps DEF Next
<1>2. TypeOK /\ [Next]_vars =>
         [(out > 0 \/ Holders # {}) /\ waiting # {} /\ waiting' # {}
             => out' > 0 \/ Holders' # {}]_vars
    BY <1>1
<1> QED BY <1>2, QueueTypeCorrect, PTL DEF Spec, CopiesCirculateWhileAwaited

=============================================================================
