---------------------------- MODULE TokenProofs ----------------------------
(***************************************************************************)
(* TokenRotation's invariants and action property, for any users, families,*)
(* tokens, sessions and lifetime.                                          *)
(***************************************************************************)
EXTENDS TokenRotation, TLAPS

\* What a request in flight remembers of the table stays true: a token and the
\* tokens of a snapshot are rows of the family the request is about.
RememberedBy(p) ==
    /\ req[p].pc = "rotate" => req[p].token \in TokensOf(req[p].family)
    /\ req[p].pc = "revoke" => /\ req[p].seen # {}
                               /\ req[p].seen \subseteq TokensOf(req[p].family)
Remembered == \A p \in Requests : RememberedBy(p)

\* The inductive invariant.  A rotation writes to the family of its token, so
\* SingleUseInTurn is preserved only together with Remembered.
TokenInv == TypeOK /\ Remembered /\ SingleUseInTurn

-----------------------------------------------------------------------------
(* Shapes of rows and requests.                                            *)

LEMMA RowShape ==
    /\ NoRow \notin RefreshToken
    /\ \A x \in Request :
          \/ x = Idle
          \/ x.pc = "rotate" /\ x.family \in Families /\ x.token \in Tokens /\ x # Idle
          \/ x.pc = "revoke" /\ x.family \in Families /\ x.seen \in SUBSET Tokens /\ x # Idle
<1>1. NoRow \notin RefreshToken
    BY DEF NoRow, RefreshToken
<1>2. ASSUME NEW x \in Request, x # Idle
      PROVE  \/ x.pc = "rotate" /\ x.family \in Families /\ x.token \in Tokens
             \/ x.pc = "revoke" /\ x.family \in Families /\ x.seen \in SUBSET Tokens
    BY <1>2 DEF Request
<1> QED BY <1>1, <1>2

\* The requests in flight about a family, and the rows of the table, by kind.
LEMMA Kinds ==
    ASSUME TypeOK
    PROVE  /\ \A t \in Tokens : tokens[t] # NoRow => tokens[t] \in RefreshToken
           /\ \A p \in Requests :
                 \/ req[p] = Idle /\ req[p].pc = "idle"
                 \/ /\ req[p].pc = "rotate" /\ req[p] # Idle
                    /\ req[p].family \in Families /\ req[p].token \in Tokens
                 \/ /\ req[p].pc = "revoke" /\ req[p] # Idle
                    /\ req[p].family \in Families /\ req[p].seen \in SUBSET Tokens
<1>1. ASSUME NEW t \in Tokens, tokens[t] # NoRow PROVE tokens[t] \in RefreshToken
    BY <1>1 DEF TypeOK
<1>2. Idle.pc = "idle"
    BY DEF Idle
<1>3. \A p \in Requests : req[p] \in Request
    BY DEF TypeOK
<1> QED BY <1>1, <1>2, <1>3, RowShape

-----------------------------------------------------------------------------
(* Types.                                                                  *)

\* Each step keeps the shape of rows and requests: a successor copies the row
\* it replaces, and a snapshot holds rows only.
LEMMA TypeStep == TypeOK /\ Remembered /\ [Next]_vars => TypeOK'
<1> SUFFICES ASSUME TypeOK, Remembered, [Next]_vars PROVE TypeOK'
    OBVIOUS
<1>1. ASSUME NEW u \in Users, NEW f \in Families, NEW t \in Tokens, Login(u, f, t)
      PROVE  TypeOK'
    <2>1. [user |-> u, family |-> f, expires_at |-> now + Lifetime, revoked |-> FALSE]
          \in RefreshToken
        BY TokensAssumption DEF TypeOK, RefreshToken
    <2> QED BY <1>1, <2>1 DEF Login, TypeOK
<1>2. ASSUME NEW p \in Requests, NEW t \in Tokens, StartRefresh(p, t)
      PROVE  TypeOK'
    <2>1. tokens[t].family \in Families
        BY <1>2, Kinds DEF StartRefresh, RefreshToken
    <2>2. TokensOf(tokens[t].family) \in SUBSET Tokens
        BY DEF TokensOf
    <2>3. req' \in [Requests -> Request]
        <3>1. CASE req' = [req EXCEPT ![p] = [pc |-> "rotate", family |-> tokens[t].family,
                                              token |-> t]]
            BY <2>1, <3>1 DEF TypeOK, Request
        <3>2. CASE req' = [req EXCEPT ![p] = [pc |-> "revoke", family |-> tokens[t].family,
                                              seen |-> TokensOf(tokens[t].family)]]
            BY <2>1, <2>2, <3>2 DEF TypeOK, Request
        <3> QED BY <1>2, <3>1, <3>2 DEF StartRefresh
    <2>4. overlapped' \in SUBSET Families
        BY <1>2, <2>1 DEF StartRefresh, NoteOverlap, TypeOK
    <2> QED BY <1>2, <2>3, <2>4 DEF StartRefresh, TypeOK
<1>3. ASSUME NEW p \in Requests, NEW u \in Tokens, FinishRotate(p, u)
      PROVE  TypeOK'
    <2> DEFINE t == req[p].token
    <2>1. t \in Tokens /\ tokens[t] # NoRow
        BY <1>3 DEF FinishRotate, Remembered, RememberedBy, TokensOf
    <2>2. tokens[t] \in RefreshToken
        BY <2>1, Kinds
    <2>3. /\ [tokens[t] EXCEPT !.revoked = TRUE] \in RefreshToken
          /\ [tokens[t] EXCEPT !.expires_at = now + Lifetime, !.revoked = FALSE] \in RefreshToken
        <3>1. now + Lifetime \in Nat
            BY TokensAssumption DEF TypeOK
        <3> HIDE DEF t
        <3> QED BY <2>2, <3>1 DEF RefreshToken
    <2>4. tokens' \in [Tokens -> RefreshToken \cup {NoRow}]
        BY <1>3, <2>1, <2>3 DEF FinishRotate, Rotated, TypeOK
    <2>5. req' \in [Requests -> Request]
        BY <1>3 DEF FinishRotate, TypeOK, Request
    <2> QED BY <1>3, <2>4, <2>5 DEF FinishRotate, TypeOK
<1>4. ASSUME NEW p \in Requests, FinishRevoke(p)
      PROVE  TypeOK'
    <2>1. ASSUME NEW t \in req[p].seen
          PROVE  [tokens[t] EXCEPT !.revoked = TRUE] \in RefreshToken
        <3>1. t \in Tokens /\ tokens[t] # NoRow
            BY <1>4 DEF FinishRevoke, Remembered, RememberedBy, TokensOf
        <3>2. tokens[t] \in RefreshToken
            BY <3>1, Kinds
        <3> QED BY <3>2 DEF RefreshToken
    <2>2. tokens' \in [Tokens -> RefreshToken \cup {NoRow}]
        BY <1>4, <2>1 DEF FinishRevoke, TypeOK
    <2>3. req' \in [Requests -> Request]
        BY <1>4 DEF FinishRevoke, TypeOK, Request
    <2> QED BY <1>4, <2>2, <2>3 DEF FinishRevoke, TypeOK
<1>5. ASSUME NEW p \in Requests, Rollback(p)
      PROVE  TypeOK'
    BY <1>5 DEF Rollback, TypeOK, Request
<1>6. ASSUME NEW t \in Tokens, Logout(t)
      PROVE  TypeOK'
    <2>1. tokens[t] \in RefreshToken
        BY <1>6, Kinds DEF Logout
    <2>2. [tokens[t] EXCEPT !.revoked = TRUE] \in RefreshToken /\ tokens[t].family \in Families
        BY <2>1 DEF RefreshToken
    <2>3. overlapped' \in SUBSET Families
        BY <1>6, <2>2 DEF Logout, NoteOverlap, TypeOK
    <2> QED BY <1>6, <2>2, <2>3 DEF Logout, TypeOK
<1>7. ASSUME NEW u \in Users, NEW s \in UserStatus, SetStatus(u, s)
      PROVE  TypeOK'
    BY <1>7 DEF SetStatus, TypeOK
<1>8. CASE Tick
    BY <1>8 DEF Tick, TypeOK
<1>9. CASE UNCHANGED vars
    BY <1>9 DEF vars, TypeOK
<1> QED BY <1>1, <1>2, <1>3, <1>4, <1>5, <1>6, <1>7, <1>8, <1>9 DEF Next

-----------------------------------------------------------------------------
(* What the steps do to the rows.                                          *)

\* A row, once inserted, keeps its family, and a revoked one stays revoked.
\* New rows come from a login to an unused family, or from a rotation to the
\* family of the token it consumes.
LEMMA RowsStep ==
    ASSUME TypeOK, Remembered, [Next]_vars
    PROVE  /\ \A t \in Tokens : tokens[t] # NoRow =>
                 /\ tokens'[t] # NoRow
                 /\ tokens'[t].family = tokens[t].family
                 /\ tokens[t].revoked => tokens'[t].revoked
           /\ \A u \in Tokens : tokens[u] = NoRow /\ tokens'[u] # NoRow =>
                 \/ TokensOf(tokens'[u].family) = {}
                 \/ \E p \in Rotating(tokens'[u].family) : FinishRotate(p, u)
<1> DEFINE Old == \A t \in Tokens : tokens[t] # NoRow =>
                      /\ tokens'[t] # NoRow
                      /\ tokens'[t].family = tokens[t].family
                      /\ tokens[t].revoked => tokens'[t].revoked
           New == \A u \in Tokens : tokens[u] = NoRow /\ tokens'[u] # NoRow =>
                      \/ TokensOf(tokens'[u].family) = {}
                      \/ \E p \in Rotating(tokens'[u].family) : FinishRotate(p, u)
           Row(t) == tokens[t]
<1>0. \A t \in Tokens : Row(t) # NoRow =>
          LET r == [Row(t) EXCEPT !.revoked = TRUE]
          IN  r # NoRow /\ r.family = Row(t).family /\ r.revoked
    <2> SUFFICES ASSUME NEW t \in Tokens, Row(t) # NoRow
                 PROVE  LET r == [Row(t) EXCEPT !.revoked = TRUE]
                        IN  r # NoRow /\ r.family = Row(t).family /\ r.revoked
        OBVIOUS
    <2>1. Row(t) \in RefreshToken
        BY Kinds
    <2>2. [Row(t) EXCEPT !.revoked = TRUE] \in RefreshToken
        BY <2>1 DEF RefreshToken
    <2>3. [Row(t) EXCEPT !.revoked = TRUE] # NoRow
        BY <2>2, RowShape
    <2> QED BY <2>1, <2>3 DEF RefreshToken
<1>1. ASSUME NEW u \in Users, NEW f \in Families, NEW t \in Tokens, Login(u, f, t)
      PROVE  Old /\ New
    BY <1>1 DEF Login, TypeOK
<1>2. ASSUME NEW p \in Requests, NEW u \in Tokens, FinishRotate(p, u)
      PROVE  Old /\ New
    <2> DEFINE t == req[p].token
               r == [Row(t) EXCEPT !.expires_at = now + Lifetime, !.revoked = FALSE]
    <2>1. t \in Tokens /\ Row(t) # NoRow /\ Row(t).family = req[p].family /\ t # u
        BY <1>2 DEF FinishRotate, Remembered, RememberedBy, TokensOf
    <2>2. r.family = req[p].family
        BY <2>1, Kinds DEF RefreshToken
    <2>3. tokens' = [tokens EXCEPT ![t] = [Row(t) EXCEPT !.revoked = TRUE], ![u] = r]
        BY <1>2, <2>1 DEF FinishRotate, Rotated, TypeOK
    <2>4. Old
        BY <1>2, <2>1, <2>3, <1>0 DEF FinishRotate, TypeOK
    <2>5. p \in Rotating(req[p].family)
        BY <1>2, Kinds DEF FinishRotate, Rotating, InFlight
    <2>6. tokens'[u].family = req[p].family
        BY <2>2, <2>3 DEF TypeOK
    <2>7. \A v \in Tokens \ {t, u} : tokens'[v] = tokens[v]
        BY <2>3 DEF TypeOK
    <2>8. New
        BY <1>2, <2>1, <2>5, <2>6, <2>7
    <2> QED BY <2>4, <2>8
<1>3. ASSUME NEW p \in Requests, FinishRevoke(p)
      PROVE  Old /\ New
    <2>1. \A t \in req[p].seen : t \in Tokens /\ Row(t) # NoRow
        BY <1>3 DEF FinishRevoke, Remembered, RememberedBy, TokensOf
    <2>2. \A t \in Tokens : tokens'[t] = IF t \in req[p].seen
                                         THEN [Row(t) EXCEPT !.revoked = TRUE] ELSE Row(t)
        BY <1>3 DEF FinishRevoke
    <2> QED BY <1>0, <2>1, <2>2
<1>4. ASSUME NEW t \in Tokens, Logout(t)
      PROVE  Old /\ New
    BY <1>4, <1>0 DEF Logout, TypeOK
<1>5. CASE UNCHANGED tokens
    BY <1>5
<1> QED BY <1>1, <1>2, <1>3, <1>4, <1>5 DEF Next, vars, StartRefresh, Rollback, SetStatus, Tick

-----------------------------------------------------------------------------
(* The inductive invariant.                                                *)

LEMMA InvInit == Init => TokenInv
<1> SUFFICES ASSUME Init PROVE TokenInv
    OBVIOUS
<1>1. TypeOK
    BY DEF Init, TypeOK, UserStatus, Request
<1>2. /\ \A p \in Requests : req[p] = Idle /\ req[p].pc = "idle"
      /\ \A f \in Families : TokensOf(f) = {} /\ InFlight(f) = {}
    BY DEF Init, Idle, TokensOf, InFlight
<1>3. Remembered
    BY <1>2 DEF Remembered, RememberedBy
<1>4. SingleUseInTurn
    BY <1>2 DEF SingleUseInTurn, Live, Rotating
<1> QED BY <1>1, <1>3, <1>4 DEF TokenInv

\* A refresh remembers rows of its family when it starts, and rows stay.
LEMMA RememberedStep == TypeOK /\ Remembered /\ [Next]_vars => Remembered'
<1> SUFFICES ASSUME TypeOK, Remembered, [Next]_vars, NEW q \in Requests
             PROVE  RememberedBy(q)'
    BY DEF Remembered
<1>1. CASE req'[q] = req[q]
    BY <1>1, RowsStep DEF Remembered, RememberedBy, TokensOf
<1>2. CASE req'[q] = Idle
    BY <1>2 DEF Idle, RememberedBy
<1>3. ASSUME NEW p \in Requests, NEW t \in Tokens, StartRefresh(p, t), q = p
      PROVE  RememberedBy(q)'
    <2> DEFINE f == tokens[t].family
    <2>1. t \in TokensOf(f) /\ tokens' = tokens
        BY <1>3 DEF StartRefresh, TokensOf
    <2>2. CASE req' = [req EXCEPT ![p] = [pc |-> "rotate", family |-> f, token |-> t]]
        <3>1. req'[q] = [pc |-> "rotate", family |-> f, token |-> t]
            BY <1>3, <2>2 DEF TypeOK
        <3> QED BY <2>1, <3>1 DEF RememberedBy, TokensOf
    <2>3. CASE req' = [req EXCEPT ![p] = [pc |-> "revoke", family |-> f, seen |-> TokensOf(f)]]
        <3>1. req'[q] = [pc |-> "revoke", family |-> f, seen |-> TokensOf(f)]
            BY <1>3, <2>3 DEF TypeOK
        <3> QED BY <2>1, <3>1 DEF RememberedBy, TokensOf
    <2> QED BY <1>3, <2>2, <2>3 DEF StartRefresh
<1>4. \/ req'[q] = req[q]
      \/ req'[q] = Idle
      \/ \E p \in Requests, t \in Tokens : StartRefresh(p, t) /\ q = p
    <2>1. ASSUME NEW p \in Requests, NEW t \in Tokens, StartRefresh(p, t), q # p
          PROVE  req'[q] = req[q]
        BY <2>1 DEF StartRefresh, TypeOK
    <2>2. ASSUME NEW p \in Requests, req' = [req EXCEPT ![p] = Idle]
          PROVE  req'[q] = req[q] \/ req'[q] = Idle
        BY <2>2 DEF TypeOK
    <2>3. ASSUME NEW p \in Requests, NEW u \in Tokens, FinishRotate(p, u)
          PROVE  req' = [req EXCEPT ![p] = Idle]
        BY <2>3 DEF FinishRotate
    <2>4. ASSUME NEW p \in Requests, FinishRevoke(p) \/ Rollback(p)
          PROVE  req' = [req EXCEPT ![p] = Idle]
        BY <2>4 DEF FinishRevoke, Rollback
    <2>5. \/ req' = req
          \/ \E p \in Requests, t \in Tokens : StartRefresh(p, t) \/ FinishRotate(p, t)
          \/ \E p \in Requests : FinishRevoke(p) \/ Rollback(p)
        BY DEF Next, vars, Login, Logout, SetStatus, Tick
    <2> QED BY <2>1, <2>2, <2>3, <2>4, <2>5
<1> QED BY <1>1, <1>2, <1>3, <1>4

\* What SingleUseInTurn says of one family.
InTurn(f) ==
    /\ \A t, u \in Live(f) : t = u
    /\ \A p, q \in InFlight(f) : p = q
    /\ \A p \in Rotating(f) : Live(f) = {req[p].token}

\* A step that only ends requests about f and revokes tokens of f keeps the
\* turn, if it leaves the live token of a rotation in flight alone.
LEMMA InTurnShrinks ==
    ASSUME NEW f, InTurn(f), InFlight(f)' \subseteq InFlight(f), Live(f)' \subseteq Live(f),
           \A p \in InFlight(f)' : req'[p] = req[p],
           Rotating(f)' = {} \/ Live(f)' = Live(f)
    PROVE  InTurn(f)'
<1>1. ASSUME Live(f)' = Live(f)
      PROVE  \A p \in Rotating(f)' : Live(f)' = {req'[p].token}
    BY <1>1 DEF InTurn, Rotating
<1> QED BY <1>1 DEF InTurn

LEMMA InTurnStep ==
    ASSUME TypeOK, Remembered, [Next]_vars, NEW f \in Families, f \notin overlapped', InTurn(f),
           f \notin overlapped
    PROVE  InTurn(f)'
<1>1. ASSUME NEW u \in Users, NEW g \in Families, NEW t \in Tokens, Login(u, g, t)
      PROVE  InTurn(f)'
    <2>1. InFlight(f)' = InFlight(f) /\ req' = req
        BY <1>1 DEF Login, InFlight
    <2>2. CASE g = f
        <3>1. InFlight(f)' = {}
            BY <1>1, <2>1, <2>2, Kinds DEF Login, InFlight, Remembered, RememberedBy
        <3>2. Live(f)' \subseteq {t}
            BY <1>1, <2>2 DEF Login, Live, TokensOf, TypeOK
        <3> QED BY <3>1, <3>2 DEF InTurn, Rotating
    <2>3. CASE g # f
        <3>1. Live(f)' = Live(f)
            BY <1>1, <2>3 DEF Login, Live, TokensOf, TypeOK
        <3> QED BY <2>1, <3>1, InTurnShrinks
    <2> QED BY <2>2, <2>3
<1>2. ASSUME NEW p \in Requests, NEW t \in Tokens, StartRefresh(p, t)
      PROVE  InTurn(f)'
    <2> DEFINE g == tokens[t].family
    <2>1. /\ Live(f)' = Live(f)
          /\ t \in TokensOf(g)
          /\ req[p] = Idle
          /\ \A q \in Requests \ {p} : req'[q] = req[q]
        BY <1>2 DEF StartRefresh, Live, TokensOf, TypeOK
    <2>2. /\ req'[p].family = g /\ req'[p] # Idle
          /\ req'[p].pc = "rotate" => req'[p].token = t /\ t \in Live(g)
        <3>1. CASE /\ MayRotate(t)
                   /\ req' = [req EXCEPT ![p] = [pc |-> "rotate", family |-> g, token |-> t]]
            <4>1. req'[p] = [pc |-> "rotate", family |-> g, token |-> t]
                BY <3>1 DEF TypeOK
            <4> QED BY <2>1, <3>1, <4>1 DEF Idle, MayRotate, Live
        <3>2. CASE req' = [req EXCEPT ![p] = [pc |-> "revoke", family |-> g, seen |-> TokensOf(g)]]
            <4>1. req'[p] = [pc |-> "revoke", family |-> g, seen |-> TokensOf(g)]
                BY <3>2 DEF TypeOK
            <4> QED BY <4>1 DEF Idle
        <3> QED BY <1>2, <3>1, <3>2 DEF StartRefresh
    <2>3. CASE g = f
        <3>1. InFlight(f) = {}
            BY <1>2, <2>3 DEF StartRefresh, NoteOverlap
        <3>2. InFlight(f)' \subseteq {p}
            BY <2>1, <3>1 DEF InFlight
        <3>3. ASSUME p \in Rotating(f)' PROVE Live(f)' = {req'[p].token}
            BY <2>1, <2>2, <2>3, <3>3 DEF InTurn, Rotating
        <3> QED BY <2>1, <3>2, <3>3 DEF InTurn, Rotating
    <2>4. CASE g # f
        <3>1. InFlight(f)' \subseteq InFlight(f) /\ p \notin InFlight(f)'
            BY <2>1, <2>2, <2>4 DEF InFlight
        <3>2. \A q \in InFlight(f)' : req'[q] = req[q]
            BY <2>1, <3>1 DEF InFlight
        <3> QED BY <2>1, <3>1, <3>2, InTurnShrinks
    <2> QED BY <2>3, <2>4
<1>3. ASSUME NEW p \in Requests, req' = [req EXCEPT ![p] = Idle]
      PROVE  /\ InFlight(f)' = InFlight(f) \ {p}
             /\ \A q \in InFlight(f)' : req'[q] = req[q]
    BY <1>3 DEF InFlight, TypeOK
<1>4. ASSUME NEW p \in Requests, NEW u \in Tokens, FinishRotate(p, u)
      PROVE  InTurn(f)'
    <2> DEFINE t == req[p].token
               g == req[p].family
    <2>1. /\ t \in TokensOf(g) /\ t \in Tokens /\ tokens[t].family = g /\ t # u
          /\ p \in Rotating(g)
        BY <1>4, Kinds DEF FinishRotate, Remembered, RememberedBy, TokensOf, Rotating, InFlight
    <2>2. /\ tokens'[u].family = g
          /\ tokens'[t].revoked /\ tokens'[t].family = g
          /\ \A v \in Tokens \ {t, u} : tokens'[v] = tokens[v]
        <3>1. tokens[t] \in RefreshToken
            BY <2>1, Kinds DEF TokensOf
        <3>2. tokens' = [tokens EXCEPT ![t] = [tokens[t] EXCEPT !.revoked = TRUE],
                             ![u] = [tokens[t] EXCEPT !.expires_at = now + Lifetime,
                                                      !.revoked = FALSE]]
            BY <1>4, <2>1 DEF FinishRotate, Rotated, TypeOK
        <3> HIDE DEF t
        <3> QED BY <2>1, <3>1, <3>2 DEF TypeOK, RefreshToken
    <2>3. /\ InFlight(f)' = InFlight(f) \ {p}
          /\ \A q \in InFlight(f)' : req'[q] = req[q]
        BY <1>3, <1>4 DEF FinishRotate
    <2>4. CASE g = f
        <3>1. Live(f) = {t} /\ InFlight(f) = {p}
            BY <2>1, <2>4 DEF InTurn, Rotating
        <3>2. Live(f)' \subseteq {u}
            BY <2>2, <3>1 DEF Live, TokensOf
        <3>3. InFlight(f)' = {}
            BY <2>3, <3>1
        <3> QED BY <3>2, <3>3 DEF InTurn, Rotating
    <2>5. CASE g # f
        <3>1. Live(f)' = Live(f)
            BY <1>4, <2>1, <2>2, <2>5 DEF FinishRotate, Live, TokensOf
        <3> QED BY <2>3, <3>1, InTurnShrinks
    <2> QED BY <2>4, <2>5
<1>5. ASSUME NEW p \in Requests, FinishRevoke(p)
      PROVE  InTurn(f)'
    <2> DEFINE g == req[p].family
    <2>1. /\ req[p].seen \subseteq TokensOf(g)
          /\ p \in InFlight(g)
        BY <1>5, Kinds DEF FinishRevoke, Remembered, RememberedBy, InFlight
    <2>2. Live(f)' \subseteq Live(f)
        BY <1>5, RowsStep DEF FinishRevoke, Live, TokensOf
    <2>3. /\ InFlight(f)' = InFlight(f) \ {p}
          /\ \A q \in InFlight(f)' : req'[q] = req[q]
        BY <1>3, <1>5 DEF FinishRevoke
    <2>4. CASE g = f
        <3>1. InFlight(f)' = {}
            BY <2>1, <2>3, <2>4 DEF InTurn
        <3> QED BY <2>2, <2>3, <3>1, InTurnShrinks DEF Rotating
    <2>5. CASE g # f
        <3>1. \A t \in TokensOf(f) : t \notin req[p].seen
            BY <2>1, <2>5 DEF TokensOf
        <3>2. Live(f) \subseteq Live(f)'
            BY <1>5, <3>1 DEF FinishRevoke, Live, TokensOf
        <3> QED BY <2>2, <2>3, <3>2, InTurnShrinks
    <2> QED BY <2>4, <2>5
<1>6. ASSUME NEW p \in Requests, Rollback(p)
      PROVE  InTurn(f)'
    <2>1. Live(f)' = Live(f)
        BY <1>6 DEF Rollback, Live, TokensOf
    <2> QED BY <1>3, <1>6, <2>1, InTurnShrinks DEF Rollback
<1>7. ASSUME NEW t \in Tokens, Logout(t)
      PROVE  InTurn(f)'
    <2>1. InFlight(f)' = InFlight(f) /\ \A q \in InFlight(f)' : req'[q] = req[q]
        BY <1>7 DEF Logout, InFlight
    <2>2. Live(f)' \subseteq Live(f)
        BY <1>7, RowsStep DEF Logout, Live, TokensOf, TypeOK
    <2>3. CASE tokens[t].family = f
        <3>1. InFlight(f) = {}
            BY <1>7, <2>3 DEF Logout, NoteOverlap
        <3> QED BY <2>1, <2>2, <3>1, InTurnShrinks DEF Rotating
    <2>4. CASE tokens[t].family # f
        <3>1. Live(f) \subseteq Live(f)'
            BY <1>7, <2>4 DEF Logout, Live, TokensOf, TypeOK
        <3> QED BY <2>1, <2>2, <3>1, InTurnShrinks
    <2> QED BY <2>3, <2>4
<1>8. CASE UNCHANGED <<tokens, req>>
    BY <1>8 DEF InTurn, Live, TokensOf, InFlight, Rotating
<1> QED BY <1>1, <1>2, <1>4, <1>5, <1>6, <1>7, <1>8 DEF Next, vars, SetStatus, Tick

\* Requests that overlapped once are remembered for ever.
LEMMA OverlapsStay == [Next]_vars => overlapped \subseteq overlapped'
BY DEF Next, vars, Login, StartRefresh, FinishRotate, FinishRevoke, Rollback, Logout,
       SetStatus, Tick, NoteOverlap

LEMMA InvStep == TokenInv /\ [Next]_vars => TokenInv'
<1> SUFFICES ASSUME TokenInv, [Next]_vars PROVE TokenInv'
    OBVIOUS
<1>1. TypeOK' /\ Remembered'
    BY TypeStep, RememberedStep DEF TokenInv
<1>2. ASSUME NEW f \in Families, f \notin overlapped'
      PROVE  InTurn(f)'
    <2>1. f \notin overlapped
        BY <1>2, OverlapsStay
    <2>2. InTurn(f)
        BY <2>1 DEF TokenInv, SingleUseInTurn, InTurn
    <2> QED BY <1>2, <2>1, <2>2, InTurnStep DEF TokenInv
<1>3. SingleUseInTurn'
    BY <1>2 DEF SingleUseInTurn, InTurn
<1> QED BY <1>1, <1>3 DEF TokenInv

-----------------------------------------------------------------------------
(* The theorems.                                                           *)

\* Rows and requests keep their shape.
THEOREM TokenTypeCorrect == Spec => []TypeOK
<1>1. TokenInv => TypeOK
    BY DEF TokenInv
<1> QED BY InvInit, InvStep, <1>1, PTL DEF Spec

\* Requests about a session that never overlap find at most one live token in
\* it: refresh_token's check and its late write are enough in turn.
THEOREM OneLiveTokenInTurn == Spec => []SingleUseInTurn
<1>1. TokenInv => SingleUseInTurn
    BY DEF TokenInv
<1> QED BY InvInit, InvStep, <1>1, PTL DEF Spec

\* A session with no live token and no rotation in flight stays closed,
\* whatever overlaps: new rows go to families with a rotation in flight, or to
\* families without rows.
THEOREM ClosedForGood == Spec => ClosedStaysClosed
<1>1. ASSUME TokenInv, [Next]_vars, NEW f \in Families, Closed(f)
      PROVE  Closed(f)'
    <2>1. TypeOK /\ Remembered
        BY <1>1 DEF TokenInv
    <2>2. TokensOf(f)' = TokensOf(f) /\ Live(f)' = {}
        BY <1>1, <2>1, RowsStep DEF Closed, Live, TokensOf
    <2>3. Rotating(f)' = {}
        <3>1. ASSUME NEW p \in Requests, NEW t \in Tokens, StartRefresh(p, t)
              PROVE  Rotating(f)' = {}
            <4>1. \A q \in Requests \ {p} : req'[q] = req[q]
                BY <2>1, <3>1 DEF StartRefresh, TypeOK
            <4>2. p \in Rotating(f)' => t \in Live(f)
                <5>1. CASE /\ MayRotate(t)
                           /\ req' = [req EXCEPT ![p] = [pc |-> "rotate",
                                          family |-> tokens[t].family, token |-> t]]
                    <6>1. req'[p].family = tokens[t].family
                        BY <2>1, <5>1 DEF TypeOK
                    <6> QED BY <3>1, <5>1, <6>1
                            DEF StartRefresh, MayRotate, Live, TokensOf, Rotating, InFlight
                <5>2. CASE req' = [req EXCEPT ![p] = [pc |-> "revoke",
                                       family |-> tokens[t].family,
                                       seen |-> TokensOf(tokens[t].family)]]
                    <6>1. req'[p].pc = "revoke"
                        BY <2>1, <5>2 DEF TypeOK
                    <6> QED BY <6>1 DEF Rotating
                <5> QED BY <3>1, <5>1, <5>2 DEF StartRefresh
            <4> QED BY <1>1, <4>1, <4>2 DEF Closed, Rotating, InFlight
        <3>2. ASSUME NEW p \in Requests, req' = [req EXCEPT ![p] = Idle]
              PROVE  Rotating(f)' = {}
            BY <1>1, <2>1, <3>2 DEF Closed, Rotating, InFlight, TypeOK
        <3>3. CASE req' = req
            BY <1>1, <3>3 DEF Closed, Rotating, InFlight
        <3> QED BY <1>1, <3>1, <3>2, <3>3
                DEF Next, vars, Login, FinishRotate, FinishRevoke, Rollback, Logout, SetStatus, Tick
    <2> QED BY <1>1, <2>2, <2>3 DEF Closed
<1>2. TokenInv /\ [Next]_vars => [\A f \in Families : Closed(f) => Closed(f)']_vars
    BY <1>1
<1> QED BY InvInit, InvStep, <1>2, PTL DEF Spec, ClosedStaysClosed
=============================================================================
