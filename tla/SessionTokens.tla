---------------------------- MODULE SessionTokens ----------------------------
(***************************************************************************)
(* The RefreshToken table with token rotation, as coreRoutes.ts and the    *)
(* account routes use it.  Each operator is one statement, or one          *)
(* transaction, of a handler.  Rows are never deleted.  A row stands for   *)
(* the refresh token and for the access tokens signed next to it.          *)
(***************************************************************************)
EXTENDS Naturals, Sequences

CONSTANTS
  User,
  Nobody   \* no impersonator

VARIABLE tokens

Row == [user : User, session : Nat \ {0}, revoked : BOOLEAN,
        cred : Nat,         \* the password that was checked, 0 when none was
        late : BOOLEAN,     \* history: signed in with a password that is gone
        by : User \cup {Nobody}]  \* the impersonating administrator

Live(i) == ~ tokens[i].revoked

\* generateTokens and refreshToken.create for a new sign-in.
Issued(u, cred, late, by) ==
  Append(tokens, [user |-> u, session |-> Len(tokens) + 1, revoked |-> FALSE,
                  cred |-> cred, late |-> late, by |-> by])

\* Defect: the stored token is read but not tested again by the update.
RotatedAnyway(i) ==
  Append([tokens EXCEPT ![i].revoked = TRUE], [tokens[i] EXCEPT !.revoked = FALSE])

\* The transaction of POST /refresh; a revoked token is answered with 401.
Rotated(i) ==
  IF Live(i)
    THEN Append([tokens EXCEPT ![i].revoked = TRUE], tokens[i])
    ELSE tokens

\* refreshToken.updateMany({ userId, revoked: false }).
RevokedAll(u) ==
  [i \in DOMAIN tokens |->
     IF tokens[i].user = u THEN [tokens[i] EXCEPT !.revoked = TRUE] ELSE tokens[i]]

-----------------------------------------------------------------------------
RowsOf(s) == {i \in DOMAIN tokens : tokens[i].session = s}
LiveOf(s) == {i \in RowsOf(s) : Live(i)}

OpenSessions  == {s \in DOMAIN tokens : \E i \in LiveOf(s) : LiveOf(s) = {i}}
EndedSessions == {s \in DOMAIN tokens : RowsOf(s) # {} /\ LiveOf(s) = {}}
=============================================================================
