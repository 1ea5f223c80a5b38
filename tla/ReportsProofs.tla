--------------------------- MODULE ReportsProofs ---------------------------
(***************************************************************************)
(* What the library tells its members, for every value of Circulation's    *)
(* constants: positions in a queue, lateness, fines and the dashboard.      *)
(***************************************************************************)
EXTENDS Reports, QueueProofs, WellFoundedInduction

-----------------------------------------------------------------------------
(* Positions.                                                              *)

\* The reservations that the position of r counts.
Earlier(r) ==
    {q \in Pending(reservations[r].book, reservations) :
        reservations[q].reserved_at < reservations[r].reserved_at}

LEMMA EarlierFinite ==
    ASSUME NEW r \in ReservationIds
    PROVE  Earlier(r) \in SUBSET ReservationIds /\ Earlier(r)' \in SUBSET ReservationIds
BY DEF Earlier, Pending

\* A row that waits after a step waited before it, or was placed by it.
LEMMA WaitingRows ==
    ASSUME TypeOK, [RacyNext]_vars, NEW r \in ReservationIds, reservations'[r].status = "PENDING"
    PROVE  \/ reservations'[r] = reservations[r]
           \/ reservations[r] = NoRow /\ reservations'[r].reserved_at = now
<1>1. ASSUME NEW m \in Members, NEW b \in Books, NEW p \in ReservationIds,
             Enqueue(m, b, p), reservations'[r] # reservations[r]
      PROVE  reservations[r] = NoRow /\ reservations'[r].reserved_at = now
    BY <1>1 DEF Enqueue, NewReservation, TypeOK
<1>2. ASSUME NEW R \in SUBSET ReservationIds, NEW s \in ClosedStatus, Closes(R, s)
      PROVE  reservations'[r] = reservations[r]
    <2>1. reservations'[r].status = s \/ reservations'[r] = reservations[r]
        BY <1>2, ClosedRows DEF Closes
    <2> QED BY <2>1 DEF ClosedStatus
<1>3. ASSUME NEW R \in SUBSET ReservationIds, NEW s \in ClosedStatus, NEW n \in Released,
             Releases(n, R, s)
      PROVE  reservations'[r] = reservations[r]
    BY <1>3, ReleasedRows, PromotedRow DEF ClosedStatus
<1> QED BY <1>1, <1>2, <1>3, ReservationSteps DEF SomeRelease

\* Only a release promotes.
LEMMA PromotionIsRelease ==
    ASSUME TypeOK, [RacyNext]_vars, NEW r \in ReservationIds, Promotes(r)
    PROVE  SomeRelease
<1>1. reservations' # reservations
    BY DEF Promotes
<1>2. ASSUME NEW m \in Members, NEW b \in Books, NEW p \in ReservationIds,
             Enqueue(m, b, p)
      PROVE  FALSE
    BY <1>2 DEF Enqueue, NewReservation, Promotes, TypeOK
<1>3. ASSUME NEW R \in SUBSET ReservationIds, NEW s \in ClosedStatus, Closes(R, s)
      PROVE  FALSE
    <2>1. reservations'[r].status = s \/ reservations'[r] = reservations[r]
        BY <1>3, ClosedRows DEF Closes
    <2> QED BY <2>1 DEF Promotes, ClosedStatus
<1> QED BY <1>1, <1>2, <1>3, ReservationSteps

\* Whoever joins is behind everybody dated before, so the rows ahead of a
\* reservation can only become fewer.
LEMMA PositionKept ==
    ASSUME TypeOK, DatedSoFar, [RacyNext]_vars, NEW r \in ReservationIds,
           reservations[r].status = "PENDING", reservations'[r].status = "PENDING"
    PROVE  Position(r)' <= Position(r)
<1>1. reservations[r] # NoRow
    BY DEF NoRow
<1>2. reservations'[r] = reservations[r]
    BY <1>1, WaitingRows
<1>3. reservations[r].reserved_at \in Nat /\ now \in Nat /\ reservations[r].reserved_at <= now
    BY <1>1 DEF TypeOK, Reservation, Times, DatedSoFar
<1>4. Earlier(r)' \subseteq Earlier(r)
    <2> SUFFICES ASSUME NEW q \in Earlier(r)' PROVE q \in Earlier(r)
        OBVIOUS
    <2>1. /\ q \in ReservationIds /\ reservations'[q].status = "PENDING"
          /\ reservations'[q].book = reservations[r].book
          /\ reservations'[q].reserved_at < reservations[r].reserved_at
        BY <1>2 DEF Earlier, Pending
    <2>2. reservations'[q].reserved_at # now
        BY <1>3, <2>1
    <2>3. reservations'[q] = reservations[q]
        BY <2>1, <2>2, WaitingRows
    <2> QED BY <2>1, <2>3 DEF Earlier, Pending
<1>5. Cardinality(Earlier(r)') <= Cardinality(Earlier(r))
      /\ Cardinality(Earlier(r)') \in Nat /\ Cardinality(Earlier(r)) \in Nat
    BY <1>4, EarlierFinite, RowSetsFinite, FS_Subset
<1> QED BY <1>5 DEF Position, Earlier

\* Promotion takes r and everybody ahead of it.
LEMMA PromotedInTurn ==
    ASSUME TypeOK, [RacyNext]_vars, NEW r \in ReservationIds, Promotes(r)
    PROVE  Position(r) <= Cardinality({q \in Pending(reservations[r].book, reservations) :
                                          Promotes(q)})
<1> DEFINE b == reservations[r].book
           S == {q \in Pending(b, reservations) : Promotes(q)}
<1>1. PICK R \in SUBSET ReservationIds, s \in ClosedStatus, n \in Released : Releases(n, R, s)
    BY PromotionIsRelease DEF SomeRelease
<1>2. PICK P \in SUBSET ReservationIds : Served(P, n, R, s)
    BY <1>1, ReleaseServes
<1>3. reservations[r] \in Reservation /\ b \in Books
    BY DEF Promotes, TypeOK, NoRow, Reservation
<1>4. \A q \in P : Promotes(q)
    BY <1>2, PromotedRow DEF Served, Promotes
<1>5. r \in P \cap Waiting(b)
    <2>1. r \notin R
        BY <1>1 DEF Releases, Promotes
    <2> QED BY <1>2, <2>1 DEF Served, Promotes, Waiting, Pending
<1>6. P \cap Waiting(b) \in Promotable(b, n[b], reservations)
    BY <1>2, <1>3 DEF Served
<1>7. Earlier(r) \subseteq P
    <2> SUFFICES ASSUME NEW q \in Earlier(r), q \notin P PROVE FALSE
        OBVIOUS
    <2>1. q \in Waiting(b) /\ reservations[q].reserved_at < reservations[r].reserved_at
        BY DEF Earlier, Waiting
    <2>2. reservations[r].reserved_at <= reservations[q].reserved_at
        BY <1>5, <1>6, <2>1 DEF Promotable, Waiting
    <2>3. reservations[r].reserved_at \in Nat /\ reservations[q].reserved_at \in Nat
        BY <1>3, <2>1 DEF TypeOK, Waiting, Pending, NoRow, Reservation, Times
    <2> QED BY <2>1, <2>2, <2>3
<1>8. r \in ReservationIds \ Earlier(r)
    BY <1>3 DEF Earlier, Reservation, Times
<1>9. Earlier(r) \cup {r} \subseteq S /\ S \in SUBSET ReservationIds
    BY <1>4, <1>5, <1>7 DEF Earlier, Waiting, Pending
<1>10. Cardinality(Earlier(r) \cup {r}) = Cardinality(Earlier(r)) + 1
    BY <1>8, EarlierFinite, RowSetsFinite, FS_AddElement
<1>11. Cardinality(Earlier(r) \cup {r}) <= Cardinality(S) /\ Cardinality(Earlier(r)) \in Nat
    BY <1>9, EarlierFinite, RowSetsFinite, FS_Subset
<1>12. Position(r) = 1 + Cardinality(Earlier(r))
    BY DEF Position, Earlier
<1> QED BY <1>10, <1>11, <1>12

\* The position a member is told never gets worse, and is the turn in which
\* the reservation is promoted.
THEOREM PositionsKeepTheirWord == Spec => PositionTellsTheTurn
<1>1. TypeOK /\ DatedSoFar /\ [Next]_vars =>
         [\A r \in ReservationIds : reservations[r].status = "PENDING" =>
             /\ reservations'[r].status = "PENDING" => Position(r)' <= Position(r)
             /\ Promotes(r) =>
                   Position(r) <= Cardinality({q \in Pending(reservations[r].book, reservations) :
                                                  Promotes(q)})]_vars
    BY PositionKept, PromotedInTurn, WiderSteps, NextIsFree
<1>2. Init => DatedSoFar
    BY DEF Init, DatedSoFar
<1>3. TypeOK /\ DatedSoFar /\ [Next]_vars => DatedSoFar'
    BY DatedStep, WiderSteps, NextIsFree
<1> QED BY <1>1, <1>2, <1>3, TypeCorrect, PTL DEF Spec, PositionTellsTheTurn

-----------------------------------------------------------------------------
(* Fines.                                                                  *)

\* A loan that is on loan belongs to a member and has a date to be returned.
LEMMA LoansOut ==
    ASSUME TypeOK, NEW l \in CheckedOut
    PROVE  l \in LoanIds /\ OnLoan(l) /\ loans[l].member \in Members /\ loans[l].due_date \in Nat
BY DEF CheckedOut, OnLoan, TypeOK, NoRow, Loan, Times

\* The clock stops at its bound, so a delay is at most MaxTime days.
BoundedClock == now <= MaxTime

LEMMA ClockStep == TypeOK /\ BoundedClock /\ [Next]_vars => BoundedClock'
<1>1. [Next]_vars => now' = now \/ Tick
    BY DEF Next, vars, CreateBook, UpdateBook, DeleteBook, BorrowBook, ReturnBook, RenewBook,
           PlaceReservation, CancelPending, CancelHold, SweepExpiredHolds, SetMembership
<1> QED BY <1>1, BoundsAssumption DEF BoundedClock, TypeOK, Times, Tick

\* The days of which a full second is over are those that DaysOverdue counts.
LEMMA DaysBegun ==
    ASSUME NEW bound \in Nat, NEW overdue \in Int, overdue < 4 * (bound + 1)
    PROVE  /\ DaysOverdue(overdue, 4, 2) \in Nat
           /\ {d \in 0..bound : overdue >= 4 * d + 2} = 0..(DaysOverdue(overdue, 4, 2) - 1)
           /\ DaysOverdue(overdue, 4, 2) <= DaysOverdue(overdue + 1, 4, 2)
<1> DEFINE days(t) == IF t <= 0 THEN 0 ELSE t \div 4 + (IF (t % 4) \div 2 > 0 THEN 1 ELSE 0)
<1>1. \A t \in Int : DaysOverdue(t, 4, 2) = days(t)
    BY DEF DaysOverdue
<1>2. \A t \in Int : t % 4 \in 0..3 /\ t \div 4 \in Int /\ t = 4 * (t \div 4) + (t % 4)
    <2> SUFFICES ASSUME NEW t \in Int
                 PROVE  t % 4 \in 0..3 /\ t \div 4 \in Int /\ t = 4 * (t \div 4) + (t % 4)
        OBVIOUS
    <2>1. t % 4 \in 0..3
        OBVIOUS
    <2>2. t \div 4 \in Int
        OBVIOUS
    <2>3. t = 4 * (t \div 4) + (t % 4)
        OBVIOUS
    <2> QED BY <2>1, <2>2, <2>3
<1>3. \A i \in 0..3 : (i \div 2 > 0) = (i >= 2)
    OBVIOUS
<1>4. \A t \in Int : /\ days(t) \in Nat
                     /\ \A d \in Nat : (t >= 4 * d + 2) = (d < days(t))
    BY <1>2, <1>3
<1> HIDE DEF days
<1>5. days(overdue) <= days(overdue + 1)
    <2>1. ASSUME days(overdue + 1) < days(overdue) PROVE FALSE
        <3>1. overdue >= 4 * days(overdue + 1) + 2
            BY <1>4, <2>1
        <3>2. overdue + 1 >= 4 * days(overdue + 1) + 2
            BY <1>4, <3>1
        <3> QED BY <1>4, <3>2
    <2> QED BY <1>4, <2>1
<1>6. \A d \in Nat : overdue >= 4 * d + 2 => d <= bound
    OBVIOUS
<1>7. {d \in 0..bound : overdue >= 4 * d + 2} = 0..(days(overdue) - 1)
    BY <1>4, <1>6
<1> QED BY <1>1, <1>4, <1>5, <1>7

\* A fine counts the days begun, grows with the delay and stops at its limit.
THEOREM FinesPerDay == Spec => []FinePerStartedDay
<1>1. TypeOK /\ BoundedClock => FinePerStartedDay
    <2> SUFFICES ASSUME TypeOK, BoundedClock, NEW l \in CheckedOut, NEW later \in 0..3
                 PROVE  LET overdue == 4 * (now - loans[l].due_date) + later
                            begun == {d \in 0..MaxTime : overdue >= 4 * d + 2}
                            fine(delay) == Fine(delay, 4, 2, 3, 5)
                        IN  /\ DaysOverdue(overdue, 4, 2) = Cardinality(begun)
                            /\ fine(overdue) <= fine(overdue + 1) /\ fine(overdue) <= 5
        BY DEF FinePerStartedDay
    <2> DEFINE overdue == 4 * (now - loans[l].due_date) + later
               k == DaysOverdue(overdue, 4, 2)
               j == DaysOverdue(overdue + 1, 4, 2)
    <2>1. now \in Nat /\ loans[l].due_date \in Nat /\ MaxTime \in Nat
        BY LoansOut, BoundsAssumption DEF TypeOK, Times
    <2>2. overdue \in Int /\ overdue < 4 * (MaxTime + 1) /\ overdue + 1 < 4 * (MaxTime + 1 + 1)
        BY <2>1 DEF BoundedClock
    <2> HIDE DEF overdue
    <2>3. k \in Nat /\ k <= j /\ {d \in 0..MaxTime : overdue >= 4 * d + 2} = 0..(k - 1)
        BY <2>1, <2>2, DaysBegun
    <2>4. j \in Nat
        BY <2>1, <2>2, DaysBegun
    <2>5. Cardinality(0..(k - 1)) = k
        BY <2>3, FS_Interval
    <2>6. Fine(overdue, 4, 2, 3, 5) <= Fine(overdue + 1, 4, 2, 3, 5) /\ Fine(overdue, 4, 2, 3, 5) <= 5
        BY <2>3, <2>4 DEF Fine, MinOf
    <2>7. k = Cardinality({d \in 0..MaxTime : overdue >= 4 * d + 2})
        BY <2>3, <2>5
    <2> QED BY <2>6, <2>7 DEF overdue
<1>2. Init => BoundedClock
    BY BoundsAssumption DEF Init, BoundedClock
<1> QED BY <1>1, <1>2, TypeCorrect, ClockStep, PTL DEF Spec


-----------------------------------------------------------------------------
(* Sums over a set.  The library's induction takes an operator, so each    *)
(* induction here is the choice of a smallest counterexample.              *)

Pick(s) == CHOOSE x \in s : TRUE

\* The equation by which SumOver is defined.
Adds(f, S, g) == g = [s \in SUBSET S |-> IF s = {} THEN 0 ELSE f[Pick(s)] + g[s \ {Pick(s)}]]

LEMMA SumUnfold ==
    ASSUME NEW f, NEW S
    PROVE  SumOver(f, S) = (CHOOSE g : Adds(f, S, g))[S]
BY DEF SumOver, MapThenSumSet, MapThenFoldSet, Pick, Adds

\* A set of subsets of a finite set has a smallest one.
LEMMA SmallestSubset ==
    ASSUME NEW S, IsFiniteSet(S), NEW T \in SUBSET SUBSET S, T # {}
    PROVE  \E s \in T : \A x \in s : s \ {x} \notin T
<1>1. IsWellFoundedOn(StrictSubsetOrdering(S), SUBSET S)
    BY FS_StrictSubsetOrderingWellFounded, FS_FiniteSubsetsOfFinite
<1>2. PICK s \in T : \A t \in T : ~(<<t, s>> \in StrictSubsetOrdering(S))
    BY <1>1, WFMin
<1>3. ASSUME NEW x \in s, s \ {x} \in T PROVE FALSE
    <2>1. <<s \ {x}, s>> \in StrictSubsetOrdering(S)
        BY <1>3 DEF StrictSubsetOrdering
    <2> QED BY <1>2, <1>3, <2>1
<1> QED BY <1>3

LEMMA DisjointSets ==
    ASSUME NEW A, NEW B, IsFiniteSet(A), IsFiniteSet(B), A \cap B = {}
    PROVE  /\ Cardinality(A) \in Nat /\ Cardinality(B) \in Nat
           /\ Cardinality(A \cup B) = Cardinality(A) + Cardinality(B)
<1>1. Cardinality(A) \in Nat /\ Cardinality(B) \in Nat
    BY FS_CardinalityType
<1>2. Cardinality(A \cup B) = Cardinality(A) + Cardinality(B) - Cardinality(A \cap B)
    BY FS_Union
<1>3. Cardinality(A \cap B) = 0
    BY FS_EmptySet
<1> QED BY <1>1, <1>2, <1>3

\* A summand n of x is n pairs: the sum is their number.
Units(f, s) == UNION {{x} \X (1..f[x]) : x \in s}

LEMMA UnitsOfOne ==
    ASSUME NEW x, NEW n \in Nat
    PROVE  IsFiniteSet({x} \X (1..n)) /\ Cardinality({x} \X (1..n)) = n
<1>1. IsFiniteSet({x}) /\ Cardinality({x}) = 1
    BY FS_Singleton
<1>2. IsFiniteSet(1..n) /\ Cardinality(1..n) = n
    BY FS_Interval
<1>3. /\ IsFiniteSet({x} \X (1..n))
      /\ Cardinality({x} \X (1..n)) = Cardinality({x}) * Cardinality(1..n)
    BY <1>1, <1>2, FS_Product
<1> QED BY <1>1, <1>2, <1>3

LEMMA UnitsFinite ==
    ASSUME NEW f, NEW s, IsFiniteSet(s), \A x \in s : f[x] \in Nat
    PROVE  IsFiniteSet(Units(f, s)) /\ Cardinality(Units(f, s)) \in Nat
<1> DEFINE K == [x \in s |-> {x} \X (1..f[x])]
           Ks == {{x} \X (1..f[x]) : x \in s}
<1>1. \A x \in s : IsFiniteSet({x} \X (1..f[x]))
    BY UnitsOfOne
<1>2. IsFiniteSet(Ks)
    <2>1. K \in Surjection(s, Ks)
        BY DEF Surjection
    <2> QED BY <2>1, FS_Surjection
<1>3. IsFiniteSet(UNION Ks)
    BY <1>1, <1>2, FS_UNION
<1> QED BY <1>3, FS_CardinalityType DEF Units

LEMMA UnitsStep ==
    ASSUME NEW f, NEW s, IsFiniteSet(s), \A x \in s : f[x] \in Nat, NEW x \in s
    PROVE  Cardinality(Units(f, s)) = f[x] + Cardinality(Units(f, s \ {x}))
<1> DEFINE A == {x} \X (1..f[x])
           B == Units(f, s \ {x})
<1>1. IsFiniteSet(A) /\ Cardinality(A) = f[x]
    BY UnitsOfOne
<1>2. IsFiniteSet(B) /\ Cardinality(B) \in Nat
    <2>1. IsFiniteSet(s \ {x})
        BY FS_RemoveElement
    <2> QED BY <2>1, UnitsFinite
<1>3. A \cap B = {}
    BY DEF Units
<1>4. Units(f, s) = A \cup B
    BY DEF Units
<1> HIDE DEF A, B
<1>5. Cardinality(A \cup B) = Cardinality(A) + Cardinality(B)
    BY <1>1, <1>2, <1>3, DisjointSets
<1> QED BY <1>1, <1>4, <1>5 DEF B

LEMMA SumIsUnits ==
    ASSUME NEW f, NEW S, IsFiniteSet(S), \A x \in S : f[x] \in Nat
    PROVE  SumOver(f, S) = Cardinality(Units(f, S))
<1> DEFINE count == [s \in SUBSET S |-> Cardinality(Units(f, s))]
<1>1. Cardinality(Units(f, {})) = 0
    BY FS_EmptySet DEF Units
<1>2. \A s \in SUBSET S : s # {} =>
          /\ Pick(s) \in s /\ s \ {Pick(s)} \in SUBSET S
          /\ Cardinality(Units(f, s)) = f[Pick(s)] + Cardinality(Units(f, s \ {Pick(s)}))
    <2> SUFFICES ASSUME NEW s \in SUBSET S, s # {}
                 PROVE  /\ Pick(s) \in s /\ s \ {Pick(s)} \in SUBSET S
                        /\ Cardinality(Units(f, s))
                              = f[Pick(s)] + Cardinality(Units(f, s \ {Pick(s)}))
        OBVIOUS
    <2>1. Pick(s) \in s
        BY DEF Pick
    <2>2. IsFiniteSet(s)
        BY FS_Subset
    <2> QED BY <2>1, <2>2, UnitsStep
<1>3. Adds(f, S, count)
    BY <1>1, <1>2 DEF Adds
<1>4. PICK g : Adds(f, S, g) /\ SumOver(f, S) = g[S]
    BY <1>3, SumUnfold
<1> DEFINE wrong == {s \in SUBSET S : g[s] # Cardinality(Units(f, s))}
<1>5. wrong = {}
    <2> SUFFICES ASSUME wrong # {} PROVE FALSE
        OBVIOUS
    <2>1. PICK s \in wrong : \A x \in s : s \ {x} \notin wrong
        BY SmallestSubset
    <2>2. g[{}] = 0
        BY <1>4 DEF Adds
    <2>3. s # {}
        BY <1>1, <2>2
    <2>4. g[s] = f[Pick(s)] + g[s \ {Pick(s)}]
        BY <1>4, <2>3 DEF Adds
    <2> QED BY <1>2, <2>1, <2>3, <2>4
<1> QED BY <1>4, <1>5

\* One summand after the other, in any order.
LEMMA SumStep ==
    ASSUME NEW f, NEW S, IsFiniteSet(S), \A x \in S : f[x] \in Nat
    PROVE  /\ SumOver(f, S) \in Nat
           /\ SumOver(f, {}) = 0
           /\ \A x \in S : SumOver(f, S) = f[x] + SumOver(f, S \ {x})
<1>1. SumOver(f, {}) = 0
    <2>1. Cardinality(Units(f, {})) = 0
        BY FS_EmptySet DEF Units
    <2> QED BY <2>1, FS_EmptySet, SumIsUnits
<1>2. ASSUME NEW x \in S PROVE SumOver(f, S) = f[x] + SumOver(f, S \ {x})
    <2>1. IsFiniteSet(S \ {x})
        BY FS_RemoveElement
    <2>2. SumOver(f, S \ {x}) = Cardinality(Units(f, S \ {x}))
        BY <2>1, SumIsUnits
    <2> QED BY <2>2, SumIsUnits, UnitsStep
<1> QED BY <1>1, <1>2, SumIsUnits, UnitsFinite

\* Whatever adds up like the sum is the sum.
AddsUp(f, S, h) == h[{}] = 0 /\ \A s \in SUBSET S : \A x \in s : h[s] = f[x] + h[s \ {x}]

LEMMA SumUnique ==
    ASSUME NEW f, NEW S, IsFiniteSet(S), \A x \in S : f[x] \in Nat, NEW h, AddsUp(f, S, h)
    PROVE  SumOver(f, S) = h[S]
<1> DEFINE wrong == {s \in SUBSET S : SumOver(f, s) # h[s]}
<1>1. wrong = {}
    <2> SUFFICES ASSUME wrong # {} PROVE FALSE
        OBVIOUS
    <2>1. PICK s \in wrong : \A x \in s : s \ {x} \notin wrong
        BY SmallestSubset
    <2>2. IsFiniteSet(s) /\ s \in SUBSET S
        BY <2>1, FS_Subset
    <2>3. s # {}
        BY <2>1, FS_EmptySet, SumStep DEF AddsUp
    <2>4. PICK x \in s : TRUE
        BY <2>3
    <2>5. SumOver(f, s \ {x}) = h[s \ {x}]
        BY <2>1, <2>2, <2>4
    <2>6. SumOver(f, s) = f[x] + SumOver(f, s \ {x})
        BY <2>2, <2>4, SumStep
    <2>7. h[s] = f[x] + h[s \ {x}]
        BY <2>2, <2>4 DEF AddsUp
    <2> QED BY <2>1, <2>5, <2>6, <2>7
<1> QED BY <1>1

\* The sum of the sizes of disjoint sets is the size of their union.
LEMMA SumOfParts ==
    ASSUME NEW f, NEW S, IsFiniteSet(S), NEW K,
           \A x \in S : IsFiniteSet(K[x]) /\ f[x] = Cardinality(K[x]),
           \A x, y \in S : x # y => K[x] \cap K[y] = {}
    PROVE  SumOver(f, S) = Cardinality(UNION {K[x] : x \in S})
<1> DEFINE all(s) == UNION {K[x] : x \in s}
           total == [s \in SUBSET S |-> Cardinality(all(s))]
<1>1. \A x \in S : f[x] \in Nat
    BY FS_CardinalityType
<1>2. \A s \in SUBSET S : IsFiniteSet(all(s))
    <2> SUFFICES ASSUME NEW s \in SUBSET S PROVE IsFiniteSet(all(s))
        OBVIOUS
    <2> DEFINE Ks == {K[x] : x \in s}
               k == [x \in s |-> K[x]]
    <2>1. k \in Surjection(s, Ks)
        BY DEF Surjection
    <2>2. IsFiniteSet(s)
        BY FS_Subset
    <2>3. IsFiniteSet(Ks)
        BY <2>1, <2>2, FS_Surjection
    <2>4. IsFiniteSet(UNION Ks)
        BY <2>3, FS_UNION
    <2> QED BY <2>4
<1>3. total[{}] = 0
    BY FS_EmptySet
<1>4. ASSUME NEW s \in SUBSET S, NEW x \in s PROVE total[s] = f[x] + total[s \ {x}]
    <2>1. all(s) = K[x] \cup all(s \ {x}) /\ K[x] \cap all(s \ {x}) = {}
        OBVIOUS
    <2>2. IsFiniteSet(all(s \ {x})) /\ IsFiniteSet(K[x]) /\ f[x] = Cardinality(K[x])
        BY <1>2
    <2> HIDE DEF all
    <2>3. Cardinality(all(s)) = f[x] + Cardinality(all(s \ {x}))
        BY <2>1, <2>2, DisjointSets
    <2> QED BY <2>3
<1> HIDE DEF total
<1>5. SumOver(f, S) = total[S]
    <2>1. AddsUp(f, S, total)
        BY <1>3, <1>4 DEF AddsUp
    <2> QED BY <1>1, <2>1, SumUnique
<1> QED BY <1>5 DEF total

\* Sums add up.
LEMMA SumOfSums ==
    ASSUME NEW f, NEW g, NEW k, NEW S, IsFiniteSet(S),
           \A x \in S : g[x] \in Nat /\ k[x] \in Nat /\ f[x] = g[x] + k[x]
    PROVE  SumOver(f, S) = SumOver(g, S) + SumOver(k, S)
<1> DEFINE total == [s \in SUBSET S |-> SumOver(g, s) + SumOver(k, s)]
<1>1. \A x \in S : f[x] \in Nat
    OBVIOUS
<1>2. total[{}] = 0
    BY FS_EmptySet, SumStep
<1>3. ASSUME NEW s \in SUBSET S, NEW x \in s PROVE total[s] = f[x] + total[s \ {x}]
    <2>1. IsFiniteSet(s) /\ IsFiniteSet(s \ {x})
        BY FS_Subset
    <2>2. /\ SumOver(g, s) = g[x] + SumOver(g, s \ {x}) /\ SumOver(k, s) = k[x] + SumOver(k, s \ {x})
          /\ SumOver(g, s \ {x}) \in Nat /\ SumOver(k, s \ {x}) \in Nat
        BY <2>1, SumStep
    <2>3. g[x] \in Nat /\ k[x] \in Nat /\ f[x] = g[x] + k[x]
        OBVIOUS
    <2> QED BY <2>2, <2>3
<1> HIDE DEF total
<1>4. SumOver(f, S) = total[S]
    <2>1. AddsUp(f, S, total)
        BY <1>2, <1>3 DEF AddsUp
    <2> QED BY <1>1, <2>1, SumUnique
<1> QED BY <1>4 DEF total

-----------------------------------------------------------------------------
(* The dashboard.                                                          *)

\* The book of a loan was in the catalogue, and its row stays there.
LentBooks == \A l \in LoanIds : loans[l] # NoRow => books[loans[l].book].state # "NONE"

LEMMA RowsRemain ==
    ASSUME TypeOK, [RacyNext]_vars, NEW b \in Books, books[b].state # "NONE"
    PROVE  books'[b].state # "NONE"
<1>1. ASSUME NEW c \in Books, NEW n \in 0..MaxCopies, CreateBook(c, n) \/ UpdateBook(c, n)
      PROVE  books'[b].state # "NONE"
    BY <1>1 DEF CreateBook, UpdateBook, TypeOK
<1>2. ASSUME NEW c \in Books, DeleteBook(c) PROVE books'[b].state # "NONE"
    BY <1>2 DEF DeleteBook, TypeOK, Book
<1>3. ASSUME NEW m \in Members, NEW c \in Books, NEW l \in LoanIds, Lend(m, c, l)
      PROVE  books'[b].state # "NONE"
    BY <1>3 DEF Lend, NewLoan, TakeCopy, TypeOK, Book
<1>4. ASSUME NEW R \in SUBSET ReservationIds, NEW s \in ClosedStatus, NEW n \in Released,
             Releases(n, R, s)
      PROVE  books'[b].state # "NONE"
    BY <1>4, ReleaseKeepsState
<1> QED BY <1>1, <1>2, <1>3, <1>4, BookSteps DEF SomeRelease

LEMMA LentStep == TypeOK /\ LentBooks /\ [FreeNext]_vars => LentBooks'
<1> SUFFICES ASSUME TypeOK, LentBooks, [FreeNext]_vars, NEW l \in LoanIds, loans'[l] # NoRow
             PROVE  books'[loans'[l].book].state # "NONE"
    BY DEF LentBooks
<1>1. ASSUME loans[l] # NoRow, loans'[l].book = loans[l].book
      PROVE  books'[loans'[l].book].state # "NONE"
    <2>1. loans[l].book \in Books /\ books[loans[l].book].state # "NONE"
        BY <1>1 DEF LentBooks, TypeOK, Loan
    <2> QED BY <1>1, <2>1, RowsRemain, WiderSteps
<1>2. ASSUME NEW m \in Members, NEW b \in Books, NEW k \in LoanIds, BorrowBook(m, b, k)
      PROVE  books'[loans'[l].book].state # "NONE"
    <2>1. books[b].state # "NONE"
        BY <1>2 DEF BorrowBook
    <2>2. CASE l = k
        <3>1. loans'[l].book = b
            BY <1>2, <2>2 DEF BorrowBook, NewLoan, TypeOK
        <3> QED BY <2>1, <3>1, RowsRemain, WiderSteps
    <2>3. CASE l # k
        <3>1. loans'[l] = loans[l]
            BY <1>2, <2>3 DEF BorrowBook, TypeOK
        <3> QED BY <1>1, <3>1
    <2> QED BY <2>2, <2>3
<1>3. ASSUME NEW k \in LoanIds, ReturnBook(k) \/ RenewBook(k)
      PROVE  loans[l] # NoRow /\ loans'[l].book = loans[l].book
    <2>1. loans[k] \in Loan
        BY <1>3 DEF ReturnBook, RenewBook, OnLoan, TypeOK, NoRow
    <2>2. l # k => loans'[l] = loans[l]
        BY <1>3 DEF ReturnBook, RenewBook, TypeOK
    <2>3. loans'[k] = [loans[k] EXCEPT !.status = "RETURNED"] \/ loans'[k] = Extended(loans[k])
        BY <1>3 DEF ReturnBook, RenewBook, TypeOK
    <2>4. loans'[k].book = loans[k].book
        BY <2>1, <2>3 DEF Extended, Loan
    <2>5. loans[k] # NoRow
        BY <1>3 DEF ReturnBook, RenewBook, OnLoan, NoRow
    <2>6. loans[l] # NoRow
        BY <2>2, <2>5
    <2> QED BY <2>2, <2>4, <2>6
<1>4. loans' = loans => loans[l] # NoRow /\ loans'[l].book = loans[l].book
    OBVIOUS
<1> QED BY <1>1, <1>2, <1>3, <1>4, LoanSteps

\* Rows counted book by book.
LEMMA CountedByBook ==
    ASSUME NEW S \in SUBSET Books, NEW f, NEW K,
           \A b \in S : /\ K[b] \in SUBSET LoanIds \/ K[b] \in SUBSET ReservationIds
                        /\ f[b] = Cardinality(K[b]),
           \A b, c \in S : b # c => K[b] \cap K[c] = {}
    PROVE  SumOver(f, S) = Cardinality(UNION {K[b] : b \in S})
<1>1. IsFiniteSet(S)
    BY CatalogueAssumption, FS_Subset
<1>2. \A b \in S : IsFiniteSet(K[b])
    BY RowSetsFinite
<1> QED BY <1>1, <1>2, SumOfParts

\* The copies of the catalogue and the stray ones of deleted books are the
\* ones on the shelf, on loan and on hold.
StrayCopies == [b \in Books |-> Cardinality(CopiesOut(b)) + Cardinality(Held(b, reservations))]
GoneBooks == {b \in Books : books[b].state = "DELETED"}
OutOf(S) == {l \in LoanIds : OnLoan(l) /\ loans[l].book \in S}
HeldOf(S) == {r \in ReservationIds : reservations[r].status = "HOLD" /\ reservations[r].book \in S}

LEMMA StrayByBook ==
    ASSUME TypeOK, NEW S \in SUBSET Books
    PROVE  SumOver(StrayCopies, S) = Cardinality(OutOf(S)) + Cardinality(HeldOf(S))
<1> DEFINE outs == [b \in Books |-> Cardinality(CopiesOut(b))]
           helds == [b \in Books |-> Cardinality(Held(b, reservations))]
           C == [b \in Books |-> CopiesOut(b)]
           H == [b \in Books |-> Held(b, reservations)]
<1>1. SumOver(outs, S) = Cardinality(OutOf(S))
    <2>1. \A b \in S : C[b] \in SUBSET LoanIds /\ outs[b] = Cardinality(C[b])
        BY DEF CopiesOut
    <2>2. \A b, c \in S : b # c => C[b] \cap C[c] = {}
        BY DEF CopiesOut
    <2>3. UNION {C[b] : b \in S} = OutOf(S)
        <3>1. \A b \in S : C[b] = {l \in LoanIds : OnLoan(l) /\ loans[l].book = b}
            BY DEF CopiesOut
        <3> HIDE DEF C
        <3> QED BY <3>1 DEF OutOf
    <2> HIDE DEF outs, C
    <2> QED BY <2>1, <2>2, <2>3, CountedByBook
<1>2. SumOver(helds, S) = Cardinality(HeldOf(S))
    <2>1. \A b \in S : H[b] \in SUBSET ReservationIds /\ helds[b] = Cardinality(H[b])
        BY DEF Held
    <2>2. \A b, c \in S : b # c => H[b] \cap H[c] = {}
        BY DEF Held
    <2>3. UNION {H[b] : b \in S} = HeldOf(S)
        <3>1. \A b \in S : H[b] = {r \in ReservationIds : /\ reservations[r].status = "HOLD"
                                                          /\ reservations[r].book = b}
            BY DEF Held
        <3> HIDE DEF H
        <3> QED BY <3>1 DEF HeldOf
    <2> HIDE DEF helds, H
    <2> QED BY <2>1, <2>2, <2>3, CountedByBook
<1>3. \A b \in S : outs[b] \in Nat /\ helds[b] \in Nat /\ StrayCopies[b] = outs[b] + helds[b]
    BY RowSetsFinite DEF StrayCopies, CopiesOut, Held
<1> HIDE DEF outs, helds
<1>4. SumOver(StrayCopies, S) = SumOver(outs, S) + SumOver(helds, S)
    <2>1. IsFiniteSet(S)
        BY CatalogueAssumption, FS_Subset
    <2> QED BY <1>3, <2>1, SumOfSums
<1> QED BY <1>1, <1>2, <1>4

LEMMA CopiesAgree ==
    ASSUME TypeOK, CopiesConserved
    PROVE  InventorySummary.total_copies + SumOver(StrayCopies, GoneBooks)
             = InventorySummary.available_copies + InventorySummary.checked_out_copies
                 + ReservationSummary.hold
<1> DEFINE total == [b \in Books |-> books[b].total]
           available == [b \in Books |-> books[b].available]
<1>1. IsFiniteSet(LiveBooks) /\ LiveBooks \in SUBSET Books /\ GoneBooks \in SUBSET Books
    BY CatalogueAssumption, FS_Subset DEF LiveBooks, GoneBooks
<1>2. SumOver(total, LiveBooks) = SumOver(available, LiveBooks) + SumOver(StrayCopies, LiveBooks)
    <2>1. \A b \in Books : /\ Cardinality(CopiesOut(b)) \in Nat
                           /\ Cardinality(Held(b, reservations)) \in Nat
        BY RowSetsFinite DEF CopiesOut, Held
    <2>2. \A b \in LiveBooks : /\ available[b] \in Nat /\ StrayCopies[b] \in Nat
                               /\ total[b] = available[b] + StrayCopies[b]
        BY <2>1 DEF LiveBooks, StrayCopies, CopiesConserved, TypeOK, Book
    <2> HIDE DEF total, available
    <2> QED BY <1>1, <2>2, SumOfSums
<1>3. \A b \in Books : b \notin LiveBooks \cup GoneBooks
                          => CopiesOut(b) = {} /\ Held(b, reservations) = {}
    <2> SUFFICES ASSUME NEW b \in Books, b \notin LiveBooks \cup GoneBooks
                 PROVE  CopiesOut(b) = {} /\ Held(b, reservations) = {}
        OBVIOUS
    <2>1. books[b].state = "NONE"
        BY DEF LiveBooks, GoneBooks, TypeOK, Book
    <2>2. /\ IsFiniteSet(CopiesOut(b)) /\ Cardinality(CopiesOut(b)) \in Nat
          /\ IsFiniteSet(Held(b, reservations)) /\ Cardinality(Held(b, reservations)) \in Nat
        BY RowSetsFinite DEF CopiesOut, Held
    <2>3. Cardinality(CopiesOut(b)) = 0 /\ Cardinality(Held(b, reservations)) = 0
        BY <2>1, <2>2 DEF CopiesConserved
    <2> QED BY <2>2, <2>3, FS_EmptySet
<1>4. Cardinality(CheckedOut) = Cardinality(OutOf(LiveBooks)) + Cardinality(OutOf(GoneBooks))
    <2>1. CheckedOut = OutOf(LiveBooks) \cup OutOf(GoneBooks)
        <3>1. \A l \in CheckedOut : loans[l].book \in Books /\ l \in CopiesOut(loans[l].book)
            BY DEF CheckedOut, OnLoan, CopiesOut, TypeOK, Loan, NoRow
        <3> QED BY <1>3, <3>1 DEF CheckedOut, OutOf
    <2>2. OutOf(LiveBooks) \cap OutOf(GoneBooks) = {}
        BY DEF OutOf, LiveBooks, GoneBooks
    <2>3. IsFiniteSet(OutOf(LiveBooks)) /\ IsFiniteSet(OutOf(GoneBooks))
        BY RowSetsFinite DEF OutOf
    <2> QED BY <2>1, <2>2, <2>3, DisjointSets
<1>5. Cardinality(InState("HOLD")) = Cardinality(HeldOf(LiveBooks)) + Cardinality(HeldOf(GoneBooks))
    <2>1. InState("HOLD") = HeldOf(LiveBooks) \cup HeldOf(GoneBooks)
        <3>1. \A r \in InState("HOLD") :
                 reservations[r].book \in Books /\ r \in Held(reservations[r].book, reservations)
            BY DEF InState, Held, TypeOK, Reservation, NoRow
        <3> QED BY <1>3, <3>1 DEF InState, HeldOf
    <2>2. HeldOf(LiveBooks) \cap HeldOf(GoneBooks) = {}
        BY DEF HeldOf, LiveBooks, GoneBooks
    <2>3. IsFiniteSet(HeldOf(LiveBooks)) /\ IsFiniteSet(HeldOf(GoneBooks))
        BY RowSetsFinite DEF HeldOf
    <2> QED BY <2>1, <2>2, <2>3, DisjointSets
<1>6. /\ SumOver(StrayCopies, LiveBooks)
            = Cardinality(OutOf(LiveBooks)) + Cardinality(HeldOf(LiveBooks))
      /\ SumOver(StrayCopies, GoneBooks)
            = Cardinality(OutOf(GoneBooks)) + Cardinality(HeldOf(GoneBooks))
    BY <1>1, StrayByBook
<1>7. \A S \in SUBSET Books : Cardinality(OutOf(S)) \in Nat /\ Cardinality(HeldOf(S)) \in Nat
    BY RowSetsFinite DEF OutOf, HeldOf
<1>8. SumOver(available, LiveBooks) \in Nat
    BY <1>1, SumStep DEF LiveBooks, TypeOK, Book
<1>9. /\ InventorySummary.total_copies = SumOver(total, LiveBooks)
      /\ InventorySummary.available_copies = SumOver(available, LiveBooks)
      /\ InventorySummary.checked_out_copies = Cardinality(CheckedOut)
      /\ ReservationSummary.hold = Cardinality(InState("HOLD"))
    BY DEF InventorySummary, ReservationSummary
<1> HIDE DEF total, available
<1> QED BY <1>1, <1>2, <1>4, <1>5, <1>6, <1>7, <1>8, <1>9

\* Every active reservation is some member's.
LEMMA ReservationsAgree ==
    ASSUME TypeOK, NEW active, active = [m \in Members |-> Cardinality(ActiveReservations(m))]
    PROVE  ReservationSummary.pending + ReservationSummary.hold = SumOver(active, Members)
<1> DEFINE A == [m \in Members |-> ActiveReservations(m)]
<1>1. \A m \in Members : IsFiniteSet(A[m]) /\ active[m] = Cardinality(A[m])
    BY RowSetsFinite DEF ActiveReservations
<1>2. \A m, n \in Members : m # n => A[m] \cap A[n] = {}
    BY DEF ActiveReservations
<1>3. UNION {A[m] : m \in Members} = InState("PENDING") \cup InState("HOLD")
    <2>1. \A r \in InState("PENDING") \cup InState("HOLD") :
             reservations[r].member \in Members /\ r \in A[reservations[r].member]
        BY DEF InState, ActiveReservations, TypeOK, Reservation, NoRow
    <2>2. \A m \in Members : A[m] \subseteq InState("PENDING") \cup InState("HOLD")
        BY DEF InState, ActiveReservations
    <2> HIDE DEF A
    <2> QED BY <2>1, <2>2
<1>4. SumOver(active, Members) = Cardinality(UNION {A[m] : m \in Members})
    <2> HIDE DEF A
    <2> QED BY <1>1, <1>2, CatalogueAssumption, SumOfParts
<1>5. /\ IsFiniteSet(InState("PENDING")) /\ IsFiniteSet(InState("HOLD"))
      /\ InState("PENDING") \cap InState("HOLD") = {}
    BY RowSetsFinite DEF InState
<1>6. ReservationSummary.pending = Cardinality(InState("PENDING"))
      /\ ReservationSummary.hold = Cardinality(InState("HOLD"))
    BY DEF ReservationSummary
<1> QED BY <1>3, <1>4, <1>5, <1>6, DisjointSets

\* Every overdue loan is some member's.
LEMMA LateAgree ==
    ASSUME TypeOK
    PROVE  OverdueSummary.count = SumOver([m \in Members |-> Cardinality(OverdueLoans(m))], Members)
<1> DEFINE late == [m \in Members |-> Cardinality(OverdueLoans(m))]
           L == [m \in Members |-> OverdueLoans(m)]
<1>1. \A m \in Members : IsFiniteSet(L[m]) /\ late[m] = Cardinality(L[m])
    BY RowSetsFinite DEF OverdueLoans, ActiveLoans
<1>2. \A m, n \in Members : m # n => L[m] \cap L[n] = {}
    BY DEF OverdueLoans, ActiveLoans
<1>3. UNION {L[m] : m \in Members} = {l \in CheckedOut : loans[l].due_date < now}
    <2>1. \A l \in CheckedOut : loans[l].due_date < now =>
             loans[l].member \in Members /\ l \in L[loans[l].member]
        BY LoansOut DEF OverdueLoans, ActiveLoans
    <2>2. \A m \in Members : L[m] \subseteq {l \in CheckedOut : loans[l].due_date < now}
        BY DEF OverdueLoans, ActiveLoans, CheckedOut
    <2> HIDE DEF L
    <2> QED BY <2>1, <2>2
<1>4. SumOver(late, Members) = Cardinality(UNION {L[m] : m \in Members})
    <2> HIDE DEF L, late
    <2> QED BY <1>1, <1>2, CatalogueAssumption, SumOfParts
<1> QED BY <1>3, <1>4 DEF OverdueSummary

\* The checkouts of the popular books are loans of the window, and all of
\* them when no borrowed book is left out.
LEMMA WindowAgrees ==
    ASSUME TypeOK, LentBooks, NEW days \in Nat, NEW top \in Nat, NEW popular \in PopularBooks(days, top)
    PROVE  /\ TotalBorrowsInWindow(days, popular) <= BorrowVelocity(days)
           /\ (\A b \in GoneBooks : Checkouts(b, days) = 0) /\ top >= Cardinality(Books)
                 => TotalBorrowsInWindow(days, popular) = BorrowVelocity(days)
<1> DEFINE window == LoansSince(now - days)
           counts == [b \in Books |-> Checkouts(b, days)]
           W == [b \in Books |-> {l \in window : loans[l].book = b}]
           borrowed == {b \in LiveBooks : Checkouts(b, days) > 0}
<1>1. window \in SUBSET LoanIds /\ \A b \in Books : W[b] \in SUBSET LoanIds /\ W[b] \in SUBSET window
    BY DEF LoansSince
<1>2. \A b \in Books : counts[b] = Cardinality(W[b])
    BY DEF Checkouts
<1>3. \A b, c \in Books : b # c => W[b] \cap W[c] = {}
    OBVIOUS
<1>4. popular \in SUBSET borrowed /\ Cardinality(popular) = MinOf(top, Cardinality(borrowed))
    BY DEF PopularBooks
<1>5. borrowed \in SUBSET Books /\ popular \in SUBSET Books
    BY <1>4 DEF LiveBooks
<1> DEFINE reached == UNION {W[b] : b \in popular}
<1>6. TotalBorrowsInWindow(days, popular) = Cardinality(reached)
    <2>1. TotalBorrowsInWindow(days, popular) = SumOver(counts, popular)
        BY DEF TotalBorrowsInWindow
    <2> HIDE DEF counts, W
    <2> QED BY <1>1, <1>2, <1>3, <1>5, <2>1, CountedByBook
<1>7. reached \in SUBSET window
    BY <1>1, <1>5
<1>8. IsFiniteSet(window)
    BY <1>1, RowSetsFinite
<1>9. Cardinality(reached) <= Cardinality(window)
    <2> HIDE DEF reached, window
    <2> QED BY <1>7, <1>8, FS_Subset
<1>10. BorrowVelocity(days) = Cardinality(window)
    BY DEF BorrowVelocity
<1>11. ASSUME \A b \in GoneBooks : Checkouts(b, days) = 0, top >= Cardinality(Books)
       PROVE  reached = window
    <2>1. popular = borrowed
        <3>1. /\ IsFiniteSet(borrowed) /\ Cardinality(borrowed) <= Cardinality(Books)
              /\ Cardinality(borrowed) \in Nat /\ Cardinality(Books) \in Nat
            <4> HIDE DEF borrowed
            <4> QED BY <1>5, CatalogueAssumption, FS_Subset, FS_CardinalityType
        <3>2. Cardinality(popular) = Cardinality(borrowed)
            BY <1>4, <1>11, <3>1 DEF MinOf
        <3> HIDE DEF borrowed
        <3> QED BY <1>4, <3>1, <3>2, FS_Subset
    <2>2. ASSUME NEW l \in window PROVE l \in reached
        <3> DEFINE b == loans[l].book
        <3>1. b \in Books /\ books[b].state # "NONE" /\ l \in W[b]
            BY <2>2 DEF LoansSince, TypeOK, Loan, LentBooks
        <3>2. Checkouts(b, days) > 0
            <4>1. IsFiniteSet(W[b]) /\ Cardinality(W[b]) \in Nat /\ W[b] # {}
                BY <1>1, <3>1, RowSetsFinite
            <4>2. Cardinality(W[b]) # 0
                <5> HIDE DEF W
                <5> QED BY <4>1, FS_EmptySet
            <4>3. Checkouts(b, days) = Cardinality(W[b])
                BY <3>1 DEF Checkouts
            <4> QED BY <4>1, <4>2, <4>3
        <3>3. b \in LiveBooks
            <4>1. b \notin GoneBooks
                BY <1>11, <3>2
            <4> QED BY <3>1, <4>1 DEF LiveBooks, GoneBooks, TypeOK, Book
        <3> QED BY <2>1, <3>1, <3>2, <3>3
    <2> QED BY <1>7, <2>2
<1> QED BY <1>6, <1>9, <1>10, <1>11

\* The dashboard never contradicts itself, whatever is deleted, lent or held.
THEOREM DashboardAgrees == Spec => []FiguresAgree
<1>1. TypeOK /\ CopiesConserved /\ LentBooks => FiguresAgree
    <2> SUFFICES ASSUME TypeOK, CopiesConserved, LentBooks PROVE FiguresAgree
        OBVIOUS
    <2>1. \A days \in 0..MaxTime, top \in 1..2 : \A popular \in PopularBooks(days, top) :
             /\ TotalBorrowsInWindow(days, popular) <= BorrowVelocity(days)
             /\ (\A b \in GoneBooks : Checkouts(b, days) = 0) /\ top >= Cardinality(Books)
                   => TotalBorrowsInWindow(days, popular) = BorrowVelocity(days)
        BY WindowAgrees
    <2> QED BY <2>1, CopiesAgree, ReservationsAgree, LateAgree DEF FiguresAgree, GoneBooks, StrayCopies
<1>2. Init => LentBooks
    BY DEF Init, LentBooks
<1>3. TypeOK /\ LentBooks /\ [Next]_vars => LentBooks'
    BY LentStep, NextIsFree
<1> QED BY <1>1, <1>2, <1>3, TypeCorrect, CopiesAlwaysConserved, PTL DEF Spec

=============================================================================
