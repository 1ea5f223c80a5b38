--------------------------- MODULE TokenRotation ---------------------------
(***************************************************************************)
(* Refresh tokens: login, refresh_token and logout of                      *)
(* app/services/auth_service.py, with overlapping requests.                *)
(*                                                                         *)
(* refresh_token reads its token without a lock and writes what it decided *)
(* at the end of its transaction, so a refresh is two actions.  login only *)
(* inserts, and logout sets revoked whatever it read: one action each.     *)
(* Raw tokens, fingerprints and access tokens are the identity of a row.   *)
(***************************************************************************)
EXTENDS Integers, FiniteSets

CONSTANTS
    Users,          \* identities of users
    Families,       \* family_id of a login and all tokens rotated from it
    Tokens,         \* identities of rows of refresh_tokens
    Requests,       \* concurrent sessions, each runs one request at a time
    Lifetime,       \* seven days
    MaxTime         \* bound: the last instant explored

ASSUME TokensAssumption == IsFiniteSet(Tokens) /\ Lifetime \in Nat /\ MaxTime \in Nat

VARIABLES
    now,            \* the clock
    accounts,       \* users.status
    tokens,         \* the refresh_tokens table
    req,            \* the refresh each session is in, if any
    overlapped      \* history: families with requests that overlapped

vars == <<now, accounts, tokens, req, overlapped>>

-----------------------------------------------------------------------------
\* BLOCKED is INACTIVE or SUSPENDED.
UserStatus == {"ACTIVE", "BLOCKED"}
RefreshToken == [user : Users, family : Families, expires_at : Nat, revoked : BOOLEAN]
NoRow == [status |-> "NONE"]

Idle == [pc |-> "idle"]
Request ==
    {Idle}
    \cup [pc : {"rotate"}, family : Families, token : Tokens]
    \cup [pc : {"revoke"}, family : Families, seen : SUBSET Tokens]

TypeOK ==
    /\ now \in Nat
    /\ accounts \in [Users -> UserStatus]
    /\ tokens \in [Tokens -> RefreshToken \cup {NoRow}]
    /\ req \in [Requests -> Request]
    /\ overlapped \in SUBSET Families

TokensOf(f) == {t \in Tokens : tokens[t] # NoRow /\ tokens[t].family = f}
Live(f) == {t \in TokensOf(f) : ~tokens[t].revoked}
InFlight(f) == {p \in Requests : req[p] # Idle /\ req[p].family = f}
Rotating(f) == {p \in InFlight(f) : req[p].pc = "rotate"}

\* A request about f runs beside those in flight, if there are any.
NoteOverlap(f) ==
    overlapped' = IF InFlight(f) = {} THEN overlapped ELSE overlapped \cup {f}

-----------------------------------------------------------------------------
Init ==
    /\ now = 0
    /\ accounts = [u \in Users |-> "ACTIVE"]
    /\ tokens = [t \in Tokens |-> NoRow]
    /\ req = [p \in Requests |-> Idle]
    /\ overlapped = {}

\* Every login opens a family of its own.
Login(u, f, t) ==
    /\ accounts[u] = "ACTIVE"
    /\ tokens[t] = NoRow
    /\ TokensOf(f) = {}
    /\ tokens' = [tokens EXCEPT ![t] =
          [user |-> u, family |-> f, expires_at |-> now + Lifetime, revoked |-> FALSE]]
    /\ UNCHANGED <<now, accounts, req, overlapped>>

\* Variant: whether the token was revoked is not looked at.
MayRotateRevoked(t) ==
    /\ tokens[t].expires_at >= now
    /\ accounts[tokens[t].user] = "ACTIVE"

\* An expired token is marked revoked, but the exception raised after that
\* rolls the mark back: nothing happens.
MayRotate(t) ==
    /\ ~tokens[t].revoked
    /\ tokens[t].expires_at >= now
    /\ accounts[tokens[t].user] = "ACTIVE"

StartRefresh(p, t) ==
    /\ req[p] = Idle
    /\ tokens[t] # NoRow
    /\ \/ /\ MayRotate(t)
          /\ req' = [req EXCEPT ![p] = [pc |-> "rotate", family |-> tokens[t].family, token |-> t]]
       \/ /\ tokens[t].revoked
          /\ req' = [req EXCEPT ![p] = [pc |-> "revoke", family |-> tokens[t].family,
                                        seen |-> TokensOf(tokens[t].family)]]
    /\ NoteOverlap(tokens[t].family)
    /\ UNCHANGED <<now, accounts, tokens>>

\* Variant: the old token is left as it is.
RotatedTwice(t, u) ==
    [tokens EXCEPT ![u] = [tokens[t] EXCEPT !.expires_at = now + Lifetime, !.revoked = FALSE]]

\* Variant: the lifetime is counted backwards.
RotatedBackwards(t, u) ==
    [tokens EXCEPT
        ![t].revoked = TRUE,
        ![u] = [tokens[t] EXCEPT !.expires_at = now - Lifetime, !.revoked = FALSE]]

\* The table after t is rotated to the new row u.
Rotated(t, u) ==
    [tokens EXCEPT
        ![t].revoked = TRUE,
        ![u] = [tokens[t] EXCEPT !.expires_at = now + Lifetime, !.revoked = FALSE]]

FinishRotate(p, u) ==
    /\ req[p].pc = "rotate"
    /\ tokens[u] = NoRow
    /\ tokens' = Rotated(req[p].token, u)
    /\ req' = [req EXCEPT ![p] = Idle]
    /\ UNCHANGED <<now, accounts, overlapped>>

\* The tokens of the family that the transaction's snapshot shows are revoked,
\* and the transaction commits before it raises.
FinishRevoke(p) ==
    /\ req[p].pc = "revoke"
    /\ tokens' = [t \in Tokens |->
          IF t \in req[p].seen THEN [tokens[t] EXCEPT !.revoked = TRUE] ELSE tokens[t]]
    /\ req' = [req EXCEPT ![p] = Idle]
    /\ UNCHANGED <<now, accounts, overlapped>>

Logout(t) ==
    /\ tokens[t] # NoRow
    /\ tokens' = [tokens EXCEPT ![t].revoked = TRUE]
    /\ NoteOverlap(tokens[t].family)
    /\ UNCHANGED <<now, accounts, req>>

-----------------------------------------------------------------------------
\* The transaction of p ends without effect, for whatever reason.
Rollback(p) ==
    /\ req[p] # Idle
    /\ req' = [req EXCEPT ![p] = Idle]
    /\ UNCHANGED <<now, accounts, tokens, overlapped>>

\* Nothing in the application writes users.status after the registration.
SetStatus(u, s) ==
    /\ accounts[u] # s
    /\ accounts' = [accounts EXCEPT ![u] = s]
    /\ UNCHANGED <<now, tokens, req, overlapped>>

Tick ==
    /\ now < MaxTime
    /\ now' = now + 1
    /\ UNCHANGED <<accounts, tokens, req, overlapped>>

Next ==
    \/ \E u \in Users, f \in Families, t \in Tokens : Login(u, f, t)
    \/ \E p \in Requests, t \in Tokens : StartRefresh(p, t) \/ FinishRotate(p, t)
    \/ \E p \in Requests : FinishRevoke(p) \/ Rollback(p)
    \/ \E t \in Tokens : Logout(t)
    \/ \E u \in Users, s \in UserStatus : SetStatus(u, s)
    \/ Tick

Spec == Init /\ [][Next]_vars
-----------------------------------------------------------------------------
(* Properties.                                                             *)

\* A family whose requests never overlapped has at most one live token, and a
\* refresh in flight is rotating exactly that one.
SingleUseInTurn ==
    \A f \in Families \ overlapped :
        /\ \A t, u \in Live(f) : t = u
        /\ \A p, q \in InFlight(f) : p = q
        /\ \A p \in Rotating(f) : Live(f) = {req[p].token}

Closed(f) == TokensOf(f) # {} /\ Live(f) = {} /\ Rotating(f) = {}

\* A session that has ended, by logout or because a used token came back,
\* never comes to life again once no rotation of it is in flight, however the
\* requests that follow overlap.
ClosedStaysClosed == [][\A f \in Families : Closed(f) => Closed(f)']_vars

\* auth_service.py, line 162: tokens are for a single use.  Two refreshes that
\* overlap both find the token live, and each issues a successor.
SingleUse == \A f \in Families : Cardinality(Live(f)) <= 1

=============================================================================
