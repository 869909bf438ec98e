--------------------------- MODULE AccountsProofs ---------------------------
(***************************************************************************)
(* Proofs about the account routes, for any users and any number of        *)
(* requests: every row keeps its type, the table of refresh tokens keeps   *)
(* the promise of SessionLife, somebody can administer the installation,   *)
(* its first registration happens once, and sessions follow the password.  *)
(***************************************************************************)
EXTENDS Onboarding, SessionTokensProofs, SequenceTheorems

\* Statements that anything may be asked for.
Ordinary(s) == s \notin {"rotate", "readTarget", "patch"}

Plain(todo) == todo \in Seq(Statement) /\ \A k \in DOMAIN todo : Ordinary(todo[k])

\* A request knows what its remaining statements need.
Fits(c, todo) ==
  \A k \in DOMAIN todo :
    /\ todo[k] = "rotate" => c.item \in DOMAIN tokens
    /\ todo[k] \in {"readTarget", "patch"} => c.change \in Change

Knows(c) == (c.todo # <<>> => c.about \in User) /\ Fits(c, c.todo)

CallsOK == req \in [Request -> Call] /\ \A r \in Request : Knows(req[r])

RowsOK ==
  /\ user \in [User -> UserRow]
  /\ resets \in Seq([user : User, used : BOOLEAN])
  /\ mode \in BOOLEAN /\ hybrid \in BOOLEAN
  /\ registration \in BOOLEAN /\ jit \in BOOLEAN /\ grouped \in BOOLEAN /\ firstAdmin \in BOOLEAN
  /\ kept \subseteq User /\ overlapped \in BOOLEAN /\ unled \in BOOLEAN

SetupOK ==
  /\ onboarded \in BOOLEAN /\ code \in Code /\ codes \in Nat
  /\ setups \in Nat /\ raced \in BOOLEAN

AccountInv == TokenInv /\ CallsOK /\ RowsOK /\ SetupOK

-----------------------------------------------------------------------------
(***************************************************************************)
(* What becomes of a request.                                              *)
(***************************************************************************)
LEMMA RequestSet ==
  ASSUME AccountInv, NEW r \in Request, NEW c \in Call, Knows(c),
         req' = [req EXCEPT ![r] = c], DOMAIN tokens \subseteq DOMAIN tokens'
  PROVE  CallsOK'
<1>1. ASSUME NEW d, Knows(d) PROVE Knows(d)'
  BY <1>1 DEF Knows, Fits
<1> QED
  BY <1>1 DEF AccountInv, CallsOK

LEMMA UnusedCall ==
  /\ Unused \in Call /\ Unused.todo = <<>> /\ Unused.item = 0 /\ Unused.cred = 0
  /\ Finished \in Call /\ Finished.todo = <<>>
<1>1. Unused \in Call /\ Unused.todo = <<>> /\ Unused.item = 0 /\ Unused.cred = 0
  BY DEF Unused, Call
<1>2. Finished \in Call /\ Finished.todo = <<>>
  BY <1>1 DEF Finished, Call
<1> QED
  BY <1>1, <1>2

LEMMA BeginsCall ==
  ASSUME NEW u \in User, NEW todo \in Seq(Statement)
  PROVE  /\ Begins(u, todo) \in Call
         /\ Begins(u, todo).todo = todo /\ Begins(u, todo).about = u
BY UnusedCall DEF Begins, Call

LEMMA Stays ==
  ASSUME AccountInv, UNCHANGED <<tokens, user, resets, settings, history, setupVars>>
  PROVE  TokenInv' /\ RowsOK' /\ SetupOK' /\ DOMAIN tokens \subseteq DOMAIN tokens'
BY DEF AccountInv, TokenInv, RowsOK, SetupOK, settings, history, setupVars

LEMMA StartKeeps ==
  ASSUME AccountInv, NEW r \in Request, NEW c \in Call, Knows(c), Start(r, c), UNCHANGED setupVars
  PROVE  AccountInv'
<1>1. UNCHANGED <<tokens, user, resets, settings, history, setupVars>>
      /\ req' = [req EXCEPT ![r] = c]
  BY DEF Start
<1> QED
  BY <1>1, RequestSet, Stays DEF AccountInv

\* A request of ordinary statements, whatever else it carries.
LEMMA OrdinaryStart ==
  ASSUME AccountInv, NEW r \in Request, NEW u \in User, NEW todo, Plain(todo),
         UNCHANGED setupVars, NEW x,
         \/ Start(r, Begins(u, todo))
         \/ x \in Nat /\ Start(r, [Begins(u, todo) EXCEPT !.cred = x])
         \/ x \in Nat /\ Start(r, [Begins(u, todo) EXCEPT !.item = x])
         \/ x \in BOOLEAN /\ Start(r, [Begins(u, todo) EXCEPT !.on = x])
         \/ x \in User /\ Start(r, [Begins(u, todo) EXCEPT !.by = x])
  PROVE  AccountInv'
<1> DEFINE c == Begins(u, todo)
<1>1. c \in Call /\ c.todo = todo /\ c.about = u
  BY BeginsCall DEF Plain
<1> HIDE DEF c
<1>2. ASSUME NEW d \in Call, d.todo = todo, d.about = u PROVE Knows(d)
  BY <1>2 DEF Knows, Fits, Plain, Ordinary
<1>3. CASE Start(r, c)
  BY <1>1, <1>2, <1>3, StartKeeps
<1>4. CASE x \in Nat /\ Start(r, [c EXCEPT !.cred = x])
  <2> DEFINE d == [c EXCEPT !.cred = x]
  <2>1. d \in Call /\ d.todo = todo /\ d.about = u
    BY <1>1, <1>4 DEF Call
  <2> HIDE DEF d
  <2>2. Start(r, d)
    BY <1>4 DEF d
  <2> QED
    BY <1>2, <2>1, <2>2, StartKeeps
<1>5. CASE x \in Nat /\ Start(r, [c EXCEPT !.item = x])
  <2> DEFINE d == [c EXCEPT !.item = x]
  <2>1. d \in Call /\ d.todo = todo /\ d.about = u
    BY <1>1, <1>5 DEF Call
  <2> HIDE DEF d
  <2>2. Start(r, d)
    BY <1>5 DEF d
  <2> QED
    BY <1>2, <2>1, <2>2, StartKeeps
<1>6. CASE x \in BOOLEAN /\ Start(r, [c EXCEPT !.on = x])
  <2> DEFINE d == [c EXCEPT !.on = x]
  <2>1. d \in Call /\ d.todo = todo /\ d.about = u
    BY <1>1, <1>6 DEF Call
  <2> HIDE DEF d
  <2>2. Start(r, d)
    BY <1>6 DEF d
  <2> QED
    BY <1>2, <2>1, <2>2, StartKeeps
<1>7. CASE x \in User /\ Start(r, [c EXCEPT !.by = x])
  <2> DEFINE d == [c EXCEPT !.by = x]
  <2>1. d \in Call /\ d.todo = todo /\ d.about = u
    BY <1>1, <1>7 DEF Call
  <2> HIDE DEF d
  <2>2. Start(r, d)
    BY <1>7 DEF d
  <2> QED
    BY <1>2, <2>1, <2>2, StartKeeps
<1> QED
  BY <1>3, <1>4, <1>5, <1>6, <1>7 DEF c

\* A request goes on with the statements that it knows enough for.
LEMMA ContinuesKeeps ==
  ASSUME AccountInv, NEW r \in Request, req[r].todo # <<>>,
         NEW rest \in Seq(Statement), Fits(req[r], rest), NEW cred \in Nat,
         Continues(r, rest, cred), DOMAIN tokens \subseteq DOMAIN tokens'
  PROVE  CallsOK'
<1> DEFINE c == req[r]
           d == [c EXCEPT !.todo = rest, !.cred = cred]
<1>1. c \in Call /\ c.about \in User /\ req \in [Request -> Call]
  BY DEF AccountInv, CallsOK, Knows
<1>2. CASE rest = <<>>
  <2>1. req' = [req EXCEPT ![r] = Finished]
    BY <1>2 DEF Continues
  <2>2. Knows(Finished)
    BY UnusedCall DEF Knows, Fits
  <2> QED
    BY <2>1, <2>2, UnusedCall, RequestSet
<1>3. CASE rest # <<>>
  <2>1. req' = [req EXCEPT ![r] = d]
    BY <1>3 DEF Continues
  <2>2. /\ d \in Call /\ d.todo = rest /\ d.about = c.about
        /\ d.item = c.item /\ d.change = c.change
    <3> HIDE DEF c
    <3> QED
      BY <1>1 DEF Call
  <2> HIDE DEF d
  <2>3. Knows(d)
    BY <1>1, <2>2 DEF Knows, Fits
  <2> QED
    BY <2>1, <2>2, <2>3, RequestSet
<1> QED
  BY <1>2, <1>3

LEMMA Rest ==
  ASSUME AccountInv, NEW r \in Request, req[r].todo # <<>>
  PROVE  /\ Tail(req[r].todo) \in Seq(Statement) /\ Fits(req[r], Tail(req[r].todo))
         /\ <<>> \in Seq(Statement) /\ Fits(req[r], <<>>)
         /\ req[r] \in Call /\ req[r].cred \in Nat /\ req[r].about \in User
         /\ req[r].todo \in Seq(Statement)
<1>1. req[r] \in Call /\ req[r].about \in User /\ Fits(req[r], req[r].todo)
  BY DEF AccountInv, CallsOK, Knows
<1>2. req[r].todo \in Seq(Statement) /\ req[r].cred \in Nat
  BY <1>1 DEF Call
<1> DEFINE todo == req[r].todo
<1>3. /\ Tail(todo) \in Seq(Statement)
      /\ \A k \in DOMAIN Tail(todo) : k + 1 \in DOMAIN todo /\ Tail(todo)[k] = todo[k + 1]
  <2> HIDE DEF todo
  <2>1. todo \in Seq(Statement) /\ todo # <<>>
    BY <1>2 DEF todo
  <2> QED
    BY <2>1
<1>4. Fits(req[r], Tail(todo))
  BY <1>1, <1>3 DEF Fits
<1> QED
  BY <1>1, <1>2, <1>3, <1>4 DEF Fits

LEMMA GoesOnKeeps ==
  ASSUME AccountInv, NEW r \in Request, req[r].todo # <<>>, GoesOn(r) \/ GivesUp(r),
         DOMAIN tokens \subseteq DOMAIN tokens'
  PROVE  CallsOK'
<1>1. CASE GoesOn(r)
  BY <1>1, Rest, ContinuesKeeps DEF GoesOn
<1>2. CASE GivesUp(r)
  BY <1>2, Rest, ContinuesKeeps DEF GivesUp, GoesTo
<1> QED
  BY <1>1, <1>2

LEMMA GoesToKeeps ==
  ASSUME AccountInv, NEW r \in Request, req[r].todo # <<>>,
         NEW rest \in Seq(Statement), Fits(req[r], rest), GoesTo(r, rest), UNCHANGED tokens
  PROVE  CallsOK'
BY Rest, ContinuesKeeps DEF GoesTo

-----------------------------------------------------------------------------
(***************************************************************************)
(* The requests as they begin.                                             *)
(***************************************************************************)
LEMMA TheHolder ==
  ASSUME AccountInv, NEW i \in DOMAIN tokens
  PROVE  Holder(i) \in User /\ tokens[i].by \in User \cup {Nobody} /\ i \in Nat
<1>1. tokens[i] \in Row /\ i \in Nat
  BY DEF AccountInv, TokenInv, Sound
<1> QED
  BY <1>1 DEF Row, Holder

LEMMA ThePassword ==
  ASSUME AccountInv, NEW u \in User
  PROVE  user[u] \in UserRow /\ user[u].pw \in Nat
BY DEF AccountInv, RowsOK, UserRow

LEMMA Todos ==
  /\ Plain(<<>>) /\ Plain(<<"issue">>) /\ Plain(<<"revoke">>) /\ Plain(<<"create">>)
  /\ Plain(<<"setRegistration">>) /\ Plain(<<"setJit">>) /\ Plain(<<"setMode">>) /\ Plain(<<"checkCode">>)
  /\ Plain(<<"create", "issue">>) /\ Plain(<<"spendAll", "addReset">>)
  /\ Plain(<<"provision", "issue">>) /\ Plain(<<"setPassword", "revoke">>)
  /\ Plain(<<"revoke", "issue">>) /\ Plain(<<"setTemp", "revoke">>)
  /\ Plain(<<"ensureBoot", "setMode">>)
  /\ Plain(<<"setPassword", "spend", "revoke">>) /\ Plain(<<"setPassword", "revoke", "issue">>)
  /\ Plain(<<"verifyCode", "activateBoot", "issue">>)
  /\ Plain(<<"ensureBoot", "setMode", "checkCode">>)
BY DEF Plain, Statement, Ordinary

LEMMA BeginOfUser ==
  ASSUME AccountInv, NEW r \in Request, NEW u \in User, UNCHANGED setupVars,
         Login(r, u) \/ Register(r, u) \/ RequestReset(r, u) \/ Callback(r, u)
  PROVE  AccountInv'
<1>1. CASE Login(r, u)
  <2>1. Start(r, [Begins(u, <<"issue">>) EXCEPT !.cred = user[u].pw])
    BY <1>1 DEF Login
  <2> QED
    BY <2>1, Todos, ThePassword, OrdinaryStart
<1>2. CASE Register(r, u)
  BY <1>2, Todos, OrdinaryStart DEF Register
<1>3. CASE RequestReset(r, u)
  BY <1>3, Todos, OrdinaryStart DEF RequestReset
<1>4. CASE Callback(r, u)
  BY <1>4, Todos, OrdinaryStart DEF Callback
<1> QED
  BY <1>1, <1>2, <1>3, <1>4

LEMMA BeginOfReset ==
  ASSUME AccountInv, NEW r \in Request, NEW k \in DOMAIN resets, UNCHANGED setupVars,
         ConfirmReset(r, k)
  PROVE  AccountInv'
<1> DEFINE R == [user : User, used : BOOLEAN]
<1>1. resets[k] \in R /\ k \in Nat
  <2>1. resets \in Seq(R)
    BY DEF AccountInv, RowsOK
  <2> HIDE DEF R
  <2> QED
    BY <2>1
<1>2. resets[k].user \in User
  BY <1>1
<1> QED
  BY <1>1, <1>2, Todos, OrdinaryStart DEF ConfirmReset

\* One who is signed in, acting for himself.
LEMMA BeginOfHolder ==
  ASSUME AccountInv, NEW r \in Request, NEW i \in DOMAIN tokens, UNCHANGED setupVars,
         \/ Refresh(r, i) \/ Logout(r, i) \/ ChangePassword(r, i)
         \/ MustResetPassword(r, i) \/ ChangeEmail(r, i) \/ StopImpersonation(r, i)
         \/ \E on \in BOOLEAN : SetRegistration(r, i, on) \/ SetProvisioning(r, i, on)
  PROVE  AccountInv'
<1>1. CASE Refresh(r, i)
  <2> DEFINE c == Begins(Holder(i), <<"rotate">>)
             d == [c EXCEPT !.item = i]
  <2>1. <<"rotate">> \in Seq(Statement)
    BY DEF Statement
  <2>2. c \in Call /\ c.todo = <<"rotate">> /\ c.about = Holder(i)
    BY <2>1, TheHolder, BeginsCall
  <2>3. Start(r, d)
    BY <1>1 DEF Refresh
  <2> HIDE DEF c
  <2>4. d \in Call /\ d.todo = <<"rotate">> /\ d.about = Holder(i) /\ d.item = i
    BY <2>2, TheHolder DEF Call
  <2> HIDE DEF d
  <2>5. Knows(d)
    BY <2>4, TheHolder DEF Knows, Fits
  <2> QED
    BY <2>3, <2>4, <2>5, StartKeeps
<1>2. CASE Logout(r, i)
  BY <1>2, TheHolder, Todos, OrdinaryStart DEF Logout
<1>3. CASE ChangePassword(r, i)
  BY <1>3, TheHolder, Todos, OrdinaryStart DEF ChangePassword
<1>4. CASE MustResetPassword(r, i)
  BY <1>4, TheHolder, Todos, OrdinaryStart DEF MustResetPassword
<1>5. CASE ChangeEmail(r, i)
  <2>1. Start(r, [Begins(Holder(i), <<"revoke", "issue">>) EXCEPT !.cred = user[Holder(i)].pw])
    BY <1>5 DEF ChangeEmail
  <2> QED
    BY <2>1, TheHolder, Todos, ThePassword, OrdinaryStart
<1>6. CASE StopImpersonation(r, i)
  <2>1. Start(r, Begins(tokens[i].by, <<"issue">>)) /\ tokens[i].by \in User
    BY <1>6, TheHolder DEF StopImpersonation, AsOneself
  <2> QED
    BY <2>1, Todos, OrdinaryStart
<1>7. ASSUME NEW on \in BOOLEAN, SetRegistration(r, i, on) PROVE AccountInv'
  <2>1. Start(r, [Begins(Holder(i), <<"setRegistration">>) EXCEPT !.on = on])
    BY <1>7 DEF SetRegistration
  <2> QED
    BY <2>1, TheHolder, Todos, OrdinaryStart
<1>8. ASSUME NEW on \in BOOLEAN, SetProvisioning(r, i, on) PROVE AccountInv'
  <2>1. Start(r, [Begins(Holder(i), <<"setJit">>) EXCEPT !.on = on])
    BY <1>8 DEF SetProvisioning
  <2> QED
    BY <2>1, TheHolder, Todos, OrdinaryStart
<1> QED
  BY <1>1, <1>2, <1>3, <1>4, <1>5, <1>6, <1>7, <1>8

\* One who is signed in, about somebody.
LEMMA BeginAboutUser ==
  ASSUME AccountInv, NEW r \in Request, NEW i \in DOMAIN tokens, NEW u \in User,
         UNCHANGED setupVars,
         \/ AdminReset(r, i, u) \/ Impersonate(r, i, u)
         \/ \E change \in Change : ChangeUser(r, i, u, change) \/ ChangeRole(r, i, u, change)
         \/ \E withPassword \in BOOLEAN : CreateUser(r, i, u, withPassword)
  PROVE  AccountInv'
<1>1. CASE AdminReset(r, i, u)
  BY <1>1, Todos, OrdinaryStart DEF AdminReset
<1>2. CASE Impersonate(r, i, u)
  <2> DEFINE acting == IF user[Holder(i)].role = "ADMIN" THEN Holder(i) ELSE tokens[i].by
  <2>1. acting \in User
    BY <1>2, TheHolder DEF Impersonate
  <2>2. Start(r, [Begins(u, <<"issue">>) EXCEPT !.by = acting])
    BY <1>2 DEF Impersonate
  <2> HIDE DEF acting
  <2> QED
    BY <2>1, <2>2, Todos, OrdinaryStart
<1>3. ASSUME NEW change \in Change, ChangeUser(r, i, u, change) PROVE AccountInv'
  <2> DEFINE todo == <<"readTarget", "patch">>
             c == Begins(u, todo)
             d == [c EXCEPT !.change = change]
  <2>1. todo \in Seq(Statement) /\ \A k \in DOMAIN todo : todo[k] # "rotate"
    BY DEF Statement
  <2>2. Start(r, d)
    BY <1>3 DEF ChangeUser
  <2> HIDE DEF todo
  <2>3. c \in Call /\ c.todo = todo /\ c.about = u
    BY <2>1, BeginsCall
  <2> HIDE DEF c
  <2>4. d \in Call /\ d.todo = todo /\ d.about = u /\ d.change = change
    BY <2>3 DEF Call
  <2> HIDE DEF d
  <2>5. Knows(d)
    BY <2>1, <2>4 DEF Knows, Fits
  <2> QED
    BY <2>2, <2>4, <2>5, StartKeeps
<1>4. ASSUME NEW withPassword \in BOOLEAN, CreateUser(r, i, u, withPassword) PROVE AccountInv'
  <2>1. Start(r, [Begins(u, <<"create">>) EXCEPT !.on = withPassword])
    BY <1>4 DEF CreateUser
  <2> QED
    BY <2>1, Todos, OrdinaryStart
<1> QED
  BY <1>1, <1>2, <1>3, <1>4 DEF ChangeRole

LEMMA PlainConcat ==
  ASSUME NEW a, NEW b, Plain(a), Plain(b)
  PROVE  Plain(a \o b)
<1>1. a \o b \in Seq(Statement)
  BY DEF Plain
<1>2. ASSUME NEW k \in DOMAIN (a \o b) PROVE Ordinary((a \o b)[k])
  <2>1. /\ Len(a) \in Nat /\ Len(b) \in Nat /\ k \in 1 .. Len(a) + Len(b)
        /\ DOMAIN a = 1 .. Len(a) /\ DOMAIN b = 1 .. Len(b)
    BY DEF Plain
  <2>2. (a \o b)[k] = IF k <= Len(a) THEN a[k] ELSE b[k - Len(a)]
    BY <2>1 DEF Plain
  <2> QED
    BY <2>1, <2>2 DEF Plain
<1> QED
  BY <1>1, <1>2 DEF Plain

\* The first registration, and the switch between the modes.
LEMMA BeginOfSetup ==
  ASSUME AccountInv, NEW r \in Request,
         \/ \E given \in {0, code.number} : FirstRegister(r, given)
         \/ \E on \in BOOLEAN :
              Onboard(r, on) \/ \E i \in {0} \cup DOMAIN tokens : SwitchMode(r, i, on)
         \/ StartServer(r)
  PROVE  AccountInv'
<1> USE AccountsAssumption
<1>1. ASSUME NEW given \in {0, code.number}, FirstRegister(r, given) PROVE AccountInv'
  <2>1. given \in Nat
    BY DEF AccountInv, SetupOK, Code
  <2>2. Start(r, [Begins(Boot, <<"verifyCode", "activateBoot", "issue">>) EXCEPT !.item = given])
        /\ UNCHANGED setupVars
    BY <1>1 DEF FirstRegister
  <2> QED
    BY <2>1, <2>2, Todos, OrdinaryStart
<1>2. ASSUME NEW on \in BOOLEAN, NEW todo, Plain(todo), UNCHANGED setupVars,
             Start(r, [Begins(Boot, todo) EXCEPT !.on = on])
      PROVE  AccountInv'
  BY <1>2, OrdinaryStart
<1>3. ASSUME NEW on \in BOOLEAN, Onboard(r, on) PROVE AccountInv'
  <2> DEFINE todo == IF on THEN <<"ensureBoot", "setMode", "checkCode">> ELSE <<"setMode">>
  <2>1. Start(r, [Begins(Boot, todo) EXCEPT !.on = on]) /\ UNCHANGED setupVars
    BY <1>3 DEF Onboard
  <2>2. Plain(todo)
    BY Todos
  <2> HIDE DEF todo
  <2> QED
    BY <1>2, <2>1, <2>2
<1>4. ASSUME NEW on \in BOOLEAN, NEW i, SwitchMode(r, i, on) PROVE AccountInv'
  <2> DEFINE more == IF on THEN <<"checkCode">> ELSE <<>>
             todo == <<"ensureBoot", "setMode">> \o more
  <2>1. CASE mode
    <3>1. Start(r, [Begins(Boot, <<"setMode">>) EXCEPT !.on = on]) /\ UNCHANGED setupVars
      BY <1>4, <2>1 DEF SwitchMode
    <3> QED
      BY <1>2, <3>1, Todos
  <2>2. CASE ~ mode
    <3>1. Start(r, [Begins(Boot, todo) EXCEPT !.on = on]) /\ UNCHANGED setupVars
      BY <1>4, <2>2 DEF SwitchMode
    <3>2. Plain(todo)
      <4>1. Plain(more)
        BY Todos
      <4> HIDE DEF more
      <4> QED
        BY <4>1, Todos, PlainConcat
    <3> HIDE DEF todo
    <3> QED
      BY <1>2, <3>1, <3>2
  <2> QED
    BY <2>1, <2>2
<1>5. CASE StartServer(r)
  BY <1>5, Todos, OrdinaryStart DEF StartServer
<1> QED
  BY <1>1, <1>3, <1>4, <1>5

-----------------------------------------------------------------------------
(***************************************************************************)
(* The statements.                                                         *)
(***************************************************************************)
\* Those on the refresh tokens.
LEMMA TokenStatement ==
  ASSUME AccountInv, NEW r \in Request, Issue(r) \/ Rotate(r) \/ Revoke(r)
  PROVE  /\ TokenInv' /\ CallsOK' /\ RowsOK'
         /\ \/ UNCHANGED <<OpenSessions, EndedSessions>>
            \/ /\ OpenSessions' = OpenSessions \cup {Len(tokens) + 1}
               /\ Len(tokens) + 1 \notin OpenSessions \cup EndedSessions
               /\ UNCHANGED EndedSessions
            \/ /\ OpenSessions' \subseteq OpenSessions
               /\ EndedSessions' = EndedSessions \cup (OpenSessions \ OpenSessions')
<1>1. req[r].todo # <<>> /\ GoesOn(r) /\ UNCHANGED <<user, resets, settings, history>>
  BY DEF Issue, Rotate, Revoke, Runs
<1>2. RowsOK'
  BY <1>1 DEF AccountInv, RowsOK, settings, history
<1>3. TokenInv /\ DOMAIN tokens = 1 .. Len(tokens) /\ Len(tokens) \in Nat
  BY DEF AccountInv, TokenInv, Sound
<1>4. ASSUME TokenInv', Len(tokens) <= Len(tokens')
      PROVE  CallsOK'
  <2>1. DOMAIN tokens' = 1 .. Len(tokens') /\ Len(tokens') \in Nat
    BY <1>4 DEF TokenInv, Sound
  <2>2. DOMAIN tokens \subseteq DOMAIN tokens'
    BY <1>3, <1>4, <2>1
  <2> QED
    BY <1>1, <2>2, GoesOnKeeps
<1>5. CASE Issue(r)
  <2> DEFINE c == req[r]
             late == c.cred # 0 /\ c.cred # user[c.about].pw
  <2>1. tokens' = Issued(c.about, c.cred, late, c.by)
    BY <1>5 DEF Issue
  <2>2. c.about \in User /\ c.cred \in Nat /\ c.by \in User \cup {Nobody} /\ late \in BOOLEAN
    BY <1>1, Rest DEF Call
  <2> HIDE DEF c, late
  <2>3. /\ TokenInv' /\ Len(tokens') = Len(tokens) + 1
        /\ OpenSessions' = OpenSessions \cup {Len(tokens) + 1}
        /\ Len(tokens) + 1 \notin OpenSessions \cup EndedSessions
        /\ EndedSessions' = EndedSessions
    BY <1>3, <2>1, <2>2, IssuedBegins
  <2> QED
    BY <1>2, <1>3, <1>4, <2>3
<1>6. CASE Rotate(r)
  <2>1. req[r].item \in DOMAIN tokens
    <3>1. req[r].todo \in Seq(Statement) /\ req[r].todo # <<>> /\ Head(req[r].todo) = "rotate"
      BY <1>1, <1>6, Rest DEF Rotate, Runs
    <3>2. 1 \in DOMAIN req[r].todo /\ req[r].todo[1] = "rotate"
      BY <3>1
    <3> QED
      BY <3>2 DEF AccountInv, CallsOK, Knows, Fits
  <2>2. tokens' = Rotated(req[r].item)
    BY <1>6 DEF Rotate
  <2>3. /\ TokenInv' /\ Len(tokens') \in {Len(tokens), Len(tokens) + 1}
        /\ OpenSessions' = OpenSessions /\ EndedSessions' = EndedSessions
    BY <1>3, <2>1, <2>2, RotatedKeeps
  <2> QED
    BY <1>2, <1>3, <1>4, <2>3
<1>7. CASE Revoke(r)
  <2>1. tokens' = RevokedAll(req[r].about)
    BY <1>7 DEF Revoke
  <2>2. /\ TokenInv' /\ Len(tokens') = Len(tokens)
        /\ OpenSessions' \subseteq OpenSessions
        /\ EndedSessions' = EndedSessions \cup (OpenSessions \ OpenSessions')
    BY <1>3, <2>1, RevokedAllEnds
  <2> QED
    BY <1>2, <1>3, <1>4, <2>2
<1> QED
  BY <1>5, <1>6, <1>7

\* Those that leave the tokens alone, and go on or give up.
LEMMA KeepsTokens ==
  ASSUME AccountInv, NEW r \in Request, req[r].todo # <<>>, GoesOn(r) \/ GivesUp(r),
         UNCHANGED tokens, RowsOK', SetupOK'
  PROVE  AccountInv'
BY GoesOnKeeps DEF AccountInv, TokenInv

LEMMA UserSet ==
  ASSUME AccountInv, NEW u \in User, NEW row \in UserRow, user' = [user EXCEPT ![u] = row],
         UNCHANGED <<resets, settings, kept, overlapped>>, unled' \in BOOLEAN
  PROVE  RowsOK'
BY DEF AccountInv, RowsOK, settings, history

\* Those on the users.
LEMMA UserStatement ==
  ASSUME AccountInv, NEW r \in Request, UNCHANGED setupVars,
         SetPassword(r) \/ SetTemp(r) \/ Create(r) \/ Provision(r)
  PROVE  AccountInv'
<1> DEFINE c == req[r]
           u == c.about
<1>1. /\ c.todo # <<>> /\ UNCHANGED <<tokens, resets, settings, kept, overlapped>>
      /\ unled' \in BOOLEAN
  BY DEF AccountInv, RowsOK, SetPassword, SetTemp, Create, Provision, Runs, history
<1>2. u \in User /\ user[u] \in UserRow /\ user \in [User -> UserRow] /\ c \in Call
  BY <1>1, Rest DEF AccountInv, RowsOK
<1>3. user[u].pw \in Nat /\ user[u].must \in BOOLEAN /\ user[u].exists \in BOOLEAN
  BY <1>2 DEF UserRow
<1>4. SetupOK'
  BY DEF AccountInv, SetupOK, setupVars
<1>5. \A role \in {"ADMIN", "USER"}, pw \in Nat : NewUser(role, pw) \in UserRow
  BY DEF NewUser, UserRow, Roles
<1>6. ASSUME NEW pw \in Nat, Continues(r, Tail(c.todo), pw) PROVE CallsOK'
  BY <1>1, <1>6, Rest, ContinuesKeeps
<1>7. CASE SetPassword(r)
  <2>1. user' = [user EXCEPT ![u].pw = user[u].pw + 1, ![u].must = FALSE]
    BY <1>2, <1>7 DEF SetPassword
  <2> DEFINE one == [user EXCEPT ![u].pw = user[u].pw + 1]
  <2>2. user' \in [User -> UserRow]
    <3> HIDE DEF u
    <3>1. one \in [User -> UserRow]
      BY <1>2, <1>3 DEF UserRow
    <3>2. user' = [one EXCEPT ![u].must = FALSE]
      BY <2>1
    <3> HIDE DEF one
    <3> QED
      BY <1>2, <3>1, <3>2 DEF UserRow
  <2>3. RowsOK'
    BY <1>1, <2>2 DEF AccountInv, RowsOK, settings, history
  <2>4. CallsOK'
    BY <1>3, <1>6, <1>7 DEF SetPassword
  <2> QED
    BY <1>1, <1>4, <2>3, <2>4 DEF AccountInv, TokenInv
<1>8. CASE SetTemp(r)
  <2>1. user' = [user EXCEPT ![u].pw = user[u].pw + 1, ![u].must = TRUE, ![u].active = TRUE]
    BY <1>2, <1>8 DEF SetTemp
  <2> DEFINE one == [user EXCEPT ![u].pw = user[u].pw + 1]
             two == [one EXCEPT ![u].must = TRUE]
  <2>2. user' \in [User -> UserRow]
    <3> HIDE DEF u
    <3>1. one \in [User -> UserRow]
      BY <1>2, <1>3 DEF UserRow
    <3>2. user' = [two EXCEPT ![u].active = TRUE]
      BY <2>1
    <3> HIDE DEF one
    <3>3. two \in [User -> UserRow]
      BY <1>2, <3>1 DEF UserRow
    <3> HIDE DEF two
    <3> QED
      BY <1>2, <3>2, <3>3 DEF UserRow
  <2>3. RowsOK'
    BY <1>1, <2>2 DEF AccountInv, RowsOK, settings, history
  <2> QED
    BY <1>1, <1>4, <1>8, <2>3, KeepsTokens DEF SetTemp
<1>9. CASE Create(r)
  <2> DEFINE pw == IF c.on THEN 1 ELSE 0
  <2>1. pw \in Nat
    OBVIOUS
  <2>2. CASE user[u].exists
    <3>1. GivesUp(r) /\ UNCHANGED user
      BY <1>9, <2>2 DEF Create
    <3>2. RowsOK'
      BY <1>1, <3>1 DEF AccountInv, RowsOK, settings, history
    <3> QED
      BY <1>1, <1>4, <3>1, <3>2, KeepsTokens
  <2>3. CASE ~ user[u].exists
    <3>1. user' = [user EXCEPT ![u] = NewUser("USER", pw)] /\ Continues(r, Tail(c.todo), pw)
      BY <1>9, <2>3 DEF Create
    <3> HIDE DEF pw
    <3>2. RowsOK'
      BY <1>1, <1>2, <1>5, <2>1, <3>1, UserSet
    <3>3. CallsOK'
      BY <1>6, <2>1, <3>1
    <3> QED
      BY <1>1, <1>4, <3>2, <3>3 DEF AccountInv, TokenInv
  <2> QED
    BY <2>2, <2>3
<1>10. CASE Provision(r)
  <2>1. PICK role \in Roles :
          \/ user' = [user EXCEPT ![u].role = role]
          \/ user' = [user EXCEPT ![u] = NewUser(role, 0)]
    BY <1>10 DEF Provision
  <2>2. [user[u] EXCEPT !.role = role] \in UserRow
    BY <1>2 DEF UserRow
  <2>3. RowsOK'
    <3>1. CASE user' = [user EXCEPT ![u].role = role]
      BY <1>1, <1>2, <2>2, <3>1, UserSet
    <3>2. CASE user' = [user EXCEPT ![u] = NewUser(role, 0)]
      BY <1>1, <1>2, <1>5, <3>2, UserSet DEF Roles
    <3> QED
      BY <2>1, <3>1, <3>2
  <2> QED
    BY <1>1, <1>4, <1>10, <2>3, KeepsTokens DEF Provision
<1> QED
  BY <1>7, <1>8, <1>9, <1>10

LEMMA Patched ==
  ASSUME NEW row \in UserRow, NEW change \in Change
  PROVE  Changed(row, change) \in UserRow
BY DEF Changed, Change, UserRow, Roles

\* The change of a user, and the other ones of the accounts.
LEMMA OtherStatement ==
  ASSUME AccountInv, NEW r \in Request, UNCHANGED setupVars,
         \/ RevokeFails(r) \/ ChangeResets(r) \/ WriteSetting(r) \/ RefuseProvision(r)
         \/ ReadTarget(r) \/ Count(r) \/ Patch(r) \/ BreaksOff(r)
  PROVE  AccountInv'
<1> DEFINE c == req[r]
<1>1. c.todo # <<>> /\ UNCHANGED tokens
  BY DEF RevokeFails, ChangeResets, WriteSetting, RefuseProvision, ReadTarget, Count, Patch,
         BreaksOff, Runs
<1>2. c \in Call /\ c.about \in User /\ c.todo \in Seq(Statement) /\ Knows(c)
  BY <1>1, Rest DEF AccountInv, CallsOK
<1>3. SetupOK' /\ RowsOK
  BY DEF AccountInv, SetupOK, setupVars
<1>4. CASE RevokeFails(r)
  BY <1>1, <1>2, <1>3, <1>4, KeepsTokens DEF RevokeFails, RowsOK, settings
<1>5. CASE ChangeResets(r)
  <2> DEFINE R == [user : User, used : BOOLEAN]
  <2>1. resets \in Seq(R) /\ DOMAIN resets = 1 .. Len(resets) /\ Len(resets) \in Nat
        /\ \A k \in DOMAIN resets : resets[k] \in R
    <3>1. resets \in Seq(R)
      BY <1>3 DEF RowsOK
    <3> HIDE DEF R
    <3> QED
      BY <3>1
  <2>2. \A k \in DOMAIN resets : [resets[k] EXCEPT !.used = TRUE] \in R
    BY <2>1
  <2>3. [user |-> c.about, used |-> FALSE] \in R
    BY <1>2
  <2> HIDE DEF R
  <2>4. resets' \in Seq(R)
    <3>1. CASE resets' = [k \in DOMAIN resets |->
                            IF resets[k].user = c.about
                              THEN [resets[k] EXCEPT !.used = TRUE] ELSE resets[k]]
      BY <2>1, <2>2, <3>1
    <3>2. CASE resets' = Append(resets, [user |-> c.about, used |-> FALSE])
      BY <2>1, <2>3, <3>2
    <3>3. CASE resets' = [resets EXCEPT ![c.item].used = TRUE]
      <4>1. /\ resets' = [k \in 1 .. Len(resets) |-> resets'[k]]
            /\ \A k \in DOMAIN resets : resets'[k] \in R
        BY <2>1, <2>2, <3>3
      <4> QED
        BY <2>1, <4>1
    <3> QED
      BY <1>5, <3>1, <3>2, <3>3 DEF ChangeResets
  <2>5. RowsOK'
    BY <1>3, <1>5, <2>4 DEF ChangeResets, RowsOK, settings, history, R
  <2> QED
    BY <1>1, <1>3, <1>5, <2>5, KeepsTokens DEF ChangeResets
<1>6. CASE WriteSetting(r)
  <2>1. RowsOK'
    BY <1>2, <1>3, <1>6 DEF WriteSetting, RowsOK, history, Call
  <2> QED
    BY <1>1, <1>3, <1>6, <2>1, KeepsTokens DEF WriteSetting
<1>7. CASE ReadTarget(r)
  <2> DEFINE rest == IF IsAdmin(c.about) /\ Removes(c.change) THEN <<"count", "patch">>
                                                              ELSE <<"patch">>
  <2>1. c.change \in Change
    <3>1. 1 \in DOMAIN c.todo /\ c.todo[1] = "readTarget"
      BY <1>1, <1>2, <1>7 DEF ReadTarget, Runs
    <3> QED
      BY <1>2, <3>1 DEF Knows, Fits
  <2>2. rest \in Seq(Statement) /\ Fits(c, rest)
    <3>1. <<"count", "patch">> \in Seq(Statement) /\ Fits(c, <<"count", "patch">>)
      BY <2>1 DEF Fits, Statement
    <3>2. <<"patch">> \in Seq(Statement) /\ Fits(c, <<"patch">>)
      BY <2>1 DEF Fits, Statement
    <3> QED
      BY <3>1, <3>2
  <2>3. GoesTo(r, rest) /\ UNCHANGED <<user, resets, settings, history>>
    BY <1>7 DEF ReadTarget
  <2> HIDE DEF rest, c
  <2>4. RowsOK'
    BY <1>3, <2>3 DEF RowsOK, settings, history
  <2>5. CallsOK'
    BY <1>1, <2>2, <2>3, GoesToKeeps DEF c
  <2> QED
    BY <1>1, <1>3, <2>4, <2>5 DEF AccountInv, TokenInv
<1>8. CASE Count(r)
  <2>1. UNCHANGED <<user, resets, settings, history>> /\ (GoesOn(r) \/ GivesUp(r))
    BY <1>8 DEF Count
  <2>2. RowsOK'
    BY <1>3, <2>1 DEF RowsOK, settings, history
  <2> QED
    BY <1>1, <1>3, <2>1, <2>2, KeepsTokens
<1>9. CASE Patch(r)
  <2>1. c.change \in Change
    <3>1. 1 \in DOMAIN c.todo /\ c.todo[1] = "patch"
      BY <1>1, <1>2, <1>9 DEF Patch, Runs
    <3> QED
      BY <1>2, <3>1 DEF Knows, Fits
  <2>2. user' \in [User -> UserRow]
    BY <1>2, <1>3, <1>9, <2>1, Patched DEF Patch, RowsOK
  <2>3. overlapped' \in BOOLEAN
    BY <1>3, <1>9 DEF Patch, RowsOK
  <2>4. RowsOK'
    BY <1>3, <1>9, <2>2, <2>3 DEF Patch, RowsOK, settings
  <2> QED
    BY <1>1, <1>3, <1>9, <2>4, KeepsTokens DEF Patch
<1>10. CASE BreaksOff(r)
  <2>1. RowsOK'
    BY <1>2, <1>3, <1>10 DEF BreaksOff, RowsOK, settings
  <2> QED
    BY <1>1, <1>3, <1>10, <2>1, KeepsTokens DEF BreaksOff
<1>11. CASE RefuseProvision(r)
  <2>1. UNCHANGED <<user, resets, settings, history>> /\ GivesUp(r)
    BY <1>11 DEF RefuseProvision
  <2>2. RowsOK'
    BY <1>3, <2>1 DEF RowsOK, settings, history
  <2> QED
    BY <1>1, <1>3, <2>1, <2>2, KeepsTokens
<1> QED
  BY <1>4, <1>5, <1>6, <1>7, <1>8, <1>9, <1>10, <1>11

\* Those that set an installation up.
LEMMA SetupStatement ==
  ASSUME AccountInv, NEW r \in Request,
         \/ EnsureBoot(r) \/ SetMode(r) \/ CheckCode(r) \/ WriteCode(r)
         \/ VerifyCode(r) \/ CountFailure(r) \/ ClearCode(r) \/ ActivateBoot(r)
  PROVE  AccountInv'
<1> USE AccountsAssumption
<1> DEFINE c == req[r]
<1>1. c.todo # <<>> /\ UNCHANGED tokens
  BY DEF EnsureBoot, SetMode, CheckCode, WriteCode, VerifyCode, CountFailure, ClearCode,
         ActivateBoot, Runs
<1>2. c \in Call /\ RowsOK /\ SetupOK
  BY <1>1, Rest DEF AccountInv
<1>3. ASSUME UNCHANGED <<user, resets, settings, history>> PROVE RowsOK'
  BY <1>2, <1>3 DEF RowsOK, settings, history
<1>4. CASE EnsureBoot(r)
  <2> DEFINE row == [exists |-> TRUE, active |-> FALSE, role |-> "ADMIN", must |-> TRUE, pw |-> 0]
  <2>1. row \in UserRow
    BY DEF UserRow, Roles
  <2>2. (user' = user \/ user' = [user EXCEPT ![Boot] = row])
        /\ UNCHANGED <<resets, settings, history, setupVars>> /\ GoesOn(r)
    BY <1>4 DEF EnsureBoot
  <2> HIDE DEF row
  <2>3. UNCHANGED <<kept, overlapped>> /\ unled' \in BOOLEAN
    BY <1>2, <2>2 DEF history, RowsOK
  <2>5. RowsOK'
    BY <1>3, <2>1, <2>2, <2>3, UserSet
  <2>4. SetupOK'
    BY <1>2, <2>2 DEF SetupOK, setupVars
  <2> QED
    BY <1>1, <2>2, <2>4, <2>5, KeepsTokens
<1>5. CASE SetMode(r)
  <2>1. RowsOK' /\ SetupOK'
    BY <1>2, <1>5 DEF SetMode, RowsOK, SetupOK, history, Call
  <2> QED
    BY <1>1, <1>5, <2>1, KeepsTokens DEF SetMode
<1>6. CASE CheckCode(r)
  <2> DEFINE rest == IF Required THEN <<"writeCode">> ELSE <<>>
  <2>1. rest \in Seq(Statement) /\ Fits(c, rest)
    <3>1. <<"writeCode">> \in Seq(Statement) /\ Fits(c, <<"writeCode">>)
      BY DEF Fits, Statement
    <3> QED
      BY <1>1, <3>1, Rest
  <2>2. GoesTo(r, rest) /\ UNCHANGED <<user, resets, settings, history, setupVars>>
    BY <1>6 DEF CheckCode
  <2> HIDE DEF rest, c
  <2>3. RowsOK' /\ SetupOK'
    BY <1>2, <1>3, <2>2 DEF SetupOK, setupVars
  <2>4. CallsOK'
    BY <1>1, <2>1, <2>2, GoesToKeeps DEF c
  <2> QED
    BY <1>1, <2>3, <2>4 DEF AccountInv, TokenInv
<1>7. CASE WriteCode(r)
  <2>1. SetupOK'
    <3>1. /\ code' = [NoCode EXCEPT !.number = codes + 1] /\ codes' = codes + 1
          /\ UNCHANGED <<onboarded, setups, raced>> /\ codes + 1 \in Nat
      BY <1>2, <1>7 DEF WriteCode, SetupOK
    <3>2. NoCode \in Code
      BY DEF NoCode, Code
    <3>3. code' \in Code
      BY <3>1, <3>2 DEF Code
    <3> QED
      BY <1>2, <3>1, <3>3 DEF SetupOK
  <2> QED
    BY <1>1, <1>3, <1>7, <2>1, KeepsTokens DEF WriteCode
<1>8. CASE VerifyCode(r)
  <2> DEFINE rest == IF ~ Usable THEN <<"checkCode">>
                     ELSE IF c.item # code.number THEN <<"countFailure">>
                     ELSE <<"clearCode">> \o Tail(c.todo)
  <2>1. rest \in Seq(Statement) /\ Fits(c, rest)
    <3>1. Tail(c.todo) \in Seq(Statement) /\ Fits(c, Tail(c.todo))
      BY <1>1, Rest
    <3> DEFINE t == Tail(c.todo)
               more == <<"clearCode">> \o t
    <3>2. more \in Seq(Statement) /\ Fits(c, more)
      <4> HIDE DEF t
      <4>1. t \in Seq(Statement) /\ Fits(c, t)
        BY <3>1 DEF t
      <4>2. more \in Seq(Statement)
        BY <4>1 DEF Statement
      <4>3. ASSUME NEW k \in DOMAIN more
            PROVE  more[k] = "clearCode" \/ (k - 1 \in DOMAIN t /\ more[k] = t[k - 1])
        BY <4>1
      <4> HIDE DEF more
      <4> QED
        BY <4>1, <4>2, <4>3 DEF Fits
    <3>3. \A s \in {"checkCode", "countFailure"} : <<s>> \in Seq(Statement) /\ Fits(c, <<s>>)
      BY DEF Fits, Statement
    <3> QED
      BY <3>2, <3>3
  <2>2. GoesTo(r, rest) /\ UNCHANGED <<user, resets, settings, history, setupVars>>
    BY <1>8 DEF VerifyCode
  <2> HIDE DEF rest, c
  <2>3. RowsOK' /\ SetupOK'
    BY <1>2, <1>3, <2>2 DEF SetupOK, setupVars
  <2>4. CallsOK'
    BY <1>1, <2>1, <2>2, GoesToKeeps DEF c
  <2> QED
    BY <1>1, <2>3, <2>4 DEF AccountInv, TokenInv
<1>9. CASE CountFailure(r)
  <2>1. SetupOK'
    BY <1>2, <1>9 DEF CountFailure, SetupOK, Code
  <2> QED
    BY <1>1, <1>3, <1>9, <2>1, KeepsTokens DEF CountFailure
<1>10. CASE ClearCode(r)
  <2>1. SetupOK'
    BY <1>2, <1>10 DEF ClearCode, SetupOK, NoCode, Code
  <2> QED
    BY <1>1, <1>3, <1>10, <2>1, KeepsTokens DEF ClearCode
<1>11. CASE ActivateBoot(r)
  <2> DEFINE row == NewUser("ADMIN", user[Boot].pw + 1)
  <2>1. user[Boot].pw \in Nat
    BY ThePassword
  <2>2. row \in UserRow
    BY <2>1 DEF NewUser, UserRow, Roles
  <2>3. user' = [user EXCEPT ![Boot] = row]
    BY <1>2, <1>11 DEF ActivateBoot, RowsOK
  <2> HIDE DEF row
  <2>4. RowsOK'
    BY <1>2, <1>11, <2>2, <2>3 DEF ActivateBoot, RowsOK, settings
  <2>5. SetupOK'
    BY <1>2, <1>11 DEF ActivateBoot, SetupOK
  <2>6. CallsOK'
    <3>1. Continues(r, Tail(c.todo), user[Boot].pw + 1) /\ user[Boot].pw + 1 \in Nat
      BY <1>11, <2>1 DEF ActivateBoot
    <3> DEFINE pw == user[Boot].pw + 1
    <3>2. Continues(r, Tail(c.todo), pw) /\ pw \in Nat
      BY <3>1
    <3> HIDE DEF pw
    <3> QED
      BY <1>1, <3>2, Rest, ContinuesKeeps
  <2> QED
    BY <1>1, <2>4, <2>5, <2>6 DEF AccountInv, TokenInv
<1> QED
  BY <1>4, <1>5, <1>6, <1>7, <1>8, <1>9, <1>10, <1>11

-----------------------------------------------------------------------------
(***************************************************************************)
(* From the installations to any state.                                    *)
(***************************************************************************)
LEMMA AccountInit == Init => AccountInv /\ EndedSessions = {}
<1> SUFFICES ASSUME Init PROVE AccountInv /\ EndedSessions = {}
  OBVIOUS
<1> USE AccountsAssumption
<1>1. CallsOK /\ code \in Code /\ codes \in Nat /\ raced \in BOOLEAN
      /\ kept \subseteq User /\ overlapped \in BOOLEAN /\ unled \in BOOLEAN
      /\ hybrid \in BOOLEAN /\ jit \in BOOLEAN /\ grouped \in BOOLEAN /\ firstAdmin \in BOOLEAN
  <2>1. /\ req = [r \in Request |-> Unused] /\ code = NoCode /\ codes = 0 /\ raced = FALSE
        /\ kept = {} /\ overlapped = FALSE /\ unled = FALSE
        /\ hybrid \in BOOLEAN /\ jit \in BOOLEAN /\ grouped \in BOOLEAN /\ firstAdmin \in BOOLEAN
    BY DEF Init, Common
  <2>2. Knows(Unused)
    BY UnusedCall DEF Knows, Fits
  <2>3. NoCode \in Code
    BY DEF NoCode, Code
  <2> QED
    BY <2>1, <2>2, <2>3, UnusedCall DEF CallsOK
<1>2. Absent \in UserRow /\ \A role \in {"ADMIN", "USER"} : NewUser(role, 1) \in UserRow
  BY DEF Absent, NewUser, UserRow, Roles
<1>3. ASSUME tokens \in Seq(Row), \A i \in DOMAIN tokens : tokens[i].session = i /\ Live(i)
      PROVE  TokenInv /\ EndedSessions = {}
  <2>1. DOMAIN tokens = 1 .. Len(tokens) /\ Len(tokens) \in Nat
    BY <1>3
  <2>2. TokenInv
    BY <1>3, <2>1 DEF TokenInv, Sound
  <2> QED
    BY <1>3, <2>2 DEF EndedSessions, RowsOf, LiveOf
<1>4. CASE Fresh
  <2> DEFINE row == [exists |-> TRUE, active |-> FALSE, role |-> "ADMIN", must |-> TRUE, pw |-> 0]
  <2>1. row \in UserRow
    BY DEF UserRow, Roles
  <2>2. user \in [User -> UserRow]
    <3>1. PICK there \in BOOLEAN :
            user = [u \in User |-> IF u = Boot /\ there THEN row ELSE Absent]
      BY <1>4 DEF Fresh
    <3> QED
      BY <1>2, <2>1, <3>1
  <2>3. tokens = <<>> /\ resets = <<>>
    BY <1>4 DEF Fresh
  <2>4. TokenInv /\ EndedSessions = {}
    BY <1>3, <2>3
  <2>5. RowsOK /\ SetupOK
    <3>1. resets \in Seq([user : User, used : BOOLEAN])
      BY <2>3
    <3>2. /\ mode = hybrid /\ onboarded = FALSE /\ registration = FALSE
          /\ setups = 0
      BY <1>4 DEF Fresh
    <3> QED
      BY <1>1, <2>2, <3>1, <3>2 DEF RowsOK, SetupOK
  <2> QED
    BY <1>1, <2>4, <2>5 DEF AccountInv
<1>5. CASE InUse
  <2>1. PICK other \in User \ {Boot}, role \in {"ADMIN", "USER"}, must \in BOOLEAN :
          /\ user = [u \in User |->
                       IF u = Boot THEN NewUser("ADMIN", 1)
                       ELSE IF u = other THEN [NewUser(role, 1) EXCEPT !.must = must]
                       ELSE Absent]
          /\ tokens = <<SignIn(Boot, 1, 1, Nobody), SignIn(other, 2, 1, Nobody),
                        SignIn(other, 3, 0, Boot)>>
          /\ resets = <<[user |-> other, used |-> FALSE]>>
    BY <1>5 DEF InUse
  <2>2. [NewUser(role, 1) EXCEPT !.must = must] \in UserRow
    BY DEF NewUser, UserRow, Roles
  <2>3. user \in [User -> UserRow]
    BY <1>2, <2>1, <2>2
  <2>4. /\ SignIn(Boot, 1, 1, Nobody) \in Row /\ SignIn(other, 2, 1, Nobody) \in Row
        /\ SignIn(other, 3, 0, Boot) \in Row
    BY DEF SignIn, Row
  <2>5. tokens \in Seq(Row)
    BY <2>1, <2>4
  <2>6. \A i \in DOMAIN tokens : tokens[i].session = i /\ ~ tokens[i].revoked
    BY <2>1 DEF SignIn
  <2>7. TokenInv /\ EndedSessions = {}
    BY <1>3, <2>5, <2>6 DEF Live
  <2>8. resets \in Seq([user : User, used : BOOLEAN])
    BY <2>1
  <2>9. RowsOK /\ SetupOK
    BY <1>1, <1>5, <2>3, <2>8 DEF InUse, RowsOK, SetupOK
  <2> QED
    BY <1>1, <2>7, <2>9 DEF AccountInv
<1> QED
  BY <1>4, <1>5 DEF Init

LEMMA BeginKeeps ==
  ASSUME AccountInv, NEW r \in Request, Begin(r), UNCHANGED setupVars
  PROVE  AccountInv'
BY BeginOfUser, BeginOfReset, BeginOfHolder, BeginAboutUser DEF Begin

LEMMA RunKeeps ==
  ASSUME AccountInv, NEW r \in Request, Run(r), UNCHANGED setupVars
  PROVE  AccountInv'
<1>1. CASE Issue(r) \/ Rotate(r) \/ Revoke(r)
  <2>1. SetupOK'
    BY DEF AccountInv, SetupOK, setupVars
  <2> QED
    BY <1>1, <2>1, TokenStatement DEF AccountInv
<1>2. CASE ~ (Issue(r) \/ Rotate(r) \/ Revoke(r))
  BY <1>2, UserStatement, OtherStatement DEF Run
<1> QED
  BY <1>1, <1>2

LEMMA AccountInvariance == Spec => []AccountInv
<1>1. AccountInv /\ [Next]_vars => AccountInv'
  <2> SUFFICES ASSUME AccountInv, [Next]_vars PROVE AccountInv'
    OBVIOUS
  <2>1. ASSUME NEW r \in Request, Begin(r) \/ Run(r), UNCHANGED setupVars PROVE AccountInv'
    BY <2>1, BeginKeeps, RunKeeps
  <2>2. ASSUME NEW r \in Request, SetUp(r) PROVE AccountInv'
    BY <2>2, BeginOfSetup, SetupStatement DEF SetUp
  <2>3. CASE Expire
    <3>1. UNCHANGED <<tokens, user, resets, settings, req, history>>
      BY <2>3 DEF Expire, accountVars, settings, history
    <3>2. SetupOK'
      BY <2>3 DEF AccountInv, SetupOK, Expire, Code
    <3> QED
      BY <3>1, <3>2 DEF AccountInv, TokenInv, CallsOK, Knows, Fits, RowsOK, settings, history
  <2>4. CASE UNCHANGED vars
    BY <2>4 DEF vars, accountVars, settings, setupVars, AccountInv, TokenInv, CallsOK, Knows, Fits,
                RowsOK, SetupOK
  <2>5. ASSUME NEW i \in DOMAIN tokens, NEW role \in Roles, FollowProvider(i, role),
               UNCHANGED setupVars
        PROVE  AccountInv'
    <3>1. Holder(i) \in User /\ user[Holder(i)] \in UserRow
      BY TheHolder DEF AccountInv, RowsOK
    <3>2. [user[Holder(i)] EXCEPT !.role = role] \in UserRow
      BY <3>1 DEF UserRow
    <3>3. /\ user' = [user EXCEPT ![Holder(i)].role = role]
          /\ UNCHANGED <<tokens, resets, settings, req, history>>
      BY <2>5 DEF FollowProvider
    <3>4. UNCHANGED <<kept, overlapped>> /\ unled' \in BOOLEAN
      BY <3>3 DEF history, AccountInv, RowsOK
    <3>5. RowsOK'
      BY <3>1, <3>2, <3>3, <3>4, UserSet
    <3> QED
      BY <2>5, <3>3, <3>5 DEF AccountInv, TokenInv, CallsOK, Knows, Fits, SetupOK, setupVars
  <2> QED
    BY <2>1, <2>2, <2>3, <2>4, <2>5 DEF Next
<1> QED
  BY <1>1, AccountInit, PTL DEF Spec

(***************************************************************************)
(* Whatever requests run next to each other and wherever they break off,   *)
(* every row of the account tables and every request under way is one that *)
(* the routes can read.                                                    *)
(***************************************************************************)
THEOREM AccountsTypeCorrect == Spec => []TypeOK
<1>1. AccountInv => TypeOK
  BY DEF AccountInv, TokenInv, Sound, CallsOK, RowsOK, SetupOK, TypeOK
<1> QED
  BY <1>1, AccountInvariance, PTL

\* Nothing else touches the tokens.
LEMMA TokensStay ==
  ASSUME [Next]_vars, ~ \E r \in Request : Issue(r) \/ Rotate(r) \/ Revoke(r)
  PROVE  UNCHANGED tokens
<1>1. ASSUME NEW r \in Request, Begin(r) PROVE UNCHANGED tokens
  BY <1>1 DEF Begin, Login, Register, RequestReset, Callback, ConfirmReset, Refresh, Logout,
              ChangePassword, MustResetPassword, ChangeEmail, StopImpersonation, AdminReset,
              Impersonate, ChangeUser, ChangeRole, CreateUser, SetRegistration,
              SetProvisioning, Start
<1>2. ASSUME NEW r \in Request, Run(r) PROVE UNCHANGED tokens
  BY <1>2 DEF Run, RevokeFails, SetPassword, SetTemp, ChangeResets, Create, Provision,
              RefuseProvision, WriteSetting, ReadTarget, Count, Patch, BreaksOff
<1>3. ASSUME NEW r \in Request, SetUp(r) PROVE UNCHANGED tokens
  BY <1>3 DEF SetUp, FirstRegister, Onboard, SwitchMode, StartServer, Start, EnsureBoot, SetMode,
              CheckCode, WriteCode, VerifyCode, CountFailure, ClearCode, ActivateBoot
<1>4. CASE Expire \/ UNCHANGED vars
  BY <1>4 DEF Expire, vars, accountVars
<1>5. ASSUME NEW i, NEW role, FollowProvider(i, role) PROVE UNCHANGED tokens
  BY <1>5 DEF FollowProvider
<1> QED
  BY <1>1, <1>2, <1>3, <1>4, <1>5 DEF Next

(***************************************************************************)
(* The refresh tokens keep the promise of SessionLife: a session begins    *)
(* once, has one token that works, and once it was ended, by a sign-out, a *)
(* new password or an administrator, no refresh brings it back, also not   *)
(* one that was under way.                                                 *)
(***************************************************************************)
THEOREM SessionsEndForGood == Spec => ImplementsSessionLife
<1>1. Init => SL!Init
  BY AccountInit DEF SL!Init
<1>2. AccountInv /\ [Next]_vars => [SL!Next]_<<OpenSessions, EndedSessions>>
  <2> SUFFICES ASSUME AccountInv, [Next]_vars
               PROVE  SL!Next \/ UNCHANGED <<OpenSessions, EndedSessions>>
    OBVIOUS
  <2>1. ASSUME NEW r \in Request, Issue(r) \/ Rotate(r) \/ Revoke(r)
        PROVE  SL!Next \/ UNCHANGED <<OpenSessions, EndedSessions>>
    <3>1. CASE UNCHANGED <<OpenSessions, EndedSessions>>
      BY <3>1
    <3>2. CASE /\ OpenSessions' = OpenSessions \cup {Len(tokens) + 1}
               /\ Len(tokens) + 1 \notin OpenSessions \cup EndedSessions
               /\ UNCHANGED EndedSessions
      BY <3>2 DEF SL!Next, SL!Begin
    <3>3. CASE /\ OpenSessions' \subseteq OpenSessions
               /\ EndedSessions' = EndedSessions \cup (OpenSessions \ OpenSessions')
      BY <3>3 DEF SL!Next, SL!End
    <3> QED
      BY <2>1, <3>1, <3>2, <3>3, TokenStatement
  <2>2. CASE ~ \E r \in Request : Issue(r) \/ Rotate(r) \/ Revoke(r)
    <3>1. UNCHANGED tokens
      BY <2>2, TokensStay
    <3> QED
      BY <3>1 DEF OpenSessions, EndedSessions, LiveOf, RowsOf, Live
  <2> QED
    BY <2>1, <2>2
<1> QED
  BY <1>1, <1>2, AccountInvariance, PTL DEF Spec, ImplementsSessionLife, SL!Spec

-----------------------------------------------------------------------------
(***************************************************************************)
(* What the order of a handler's statements is good for: a patch comes     *)
(* right after its check, a registration activates the bootstrap account   *)
(* once, and a new password is followed by a revocation, before which      *)
(* nothing gives up.                                                       *)
(***************************************************************************)
PatchesAreChecked(todo) ==
  \A k \in DOMAIN todo : todo[k] = "patch" => k = 1 \/ todo[k - 1] \in {"readTarget", "count"}

ActivatesOnce(todo) ==
  \A j, k \in DOMAIN todo : todo[j] = "activateBoot" /\ todo[k] = "activateBoot" => j = k

RevokesAfterwards(todo) ==
  \A k \in DOMAIN todo :
    todo[k] \in {"setPassword", "setTemp"} => \E j \in DOMAIN todo : k < j /\ todo[j] = "revoke"

RevokesFirst(todo) ==
  \A j, k \in DOMAIN todo :
    j < k /\ todo[k] = "revoke" => todo[j] \in {"setPassword", "setTemp", "spend"}

Shaped(todo) ==
  PatchesAreChecked(todo) /\ ActivatesOnce(todo) /\ RevokesAfterwards(todo) /\ RevokesFirst(todo)

Does(todo, s) == \E k \in DOMAIN todo : todo[k] = s

\* Only an administrator asks for these.
NeedsAdmin(todo) ==
  \E s \in {"create", "setTemp", "readTarget", "count", "patch", "setRegistration"} : Does(todo, s)

\* What is left to do after a statement is as well ordered.
LEMMA TailShaped ==
  ASSUME NEW todo \in Seq(Statement), todo # <<>>, Shaped(todo)
  PROVE  /\ Shaped(Tail(todo)) /\ Tail(todo) \in Seq(Statement)
         /\ \A s : Does(Tail(todo), s) => Does(todo, s)
         /\ \A s : Does(todo, s) => Head(todo) = s \/ Does(Tail(todo), s)
         /\ Does(todo, Head(todo))
<1> DEFINE t == Tail(todo)
<1>1. /\ Len(todo) \in Nat \ {0} /\ DOMAIN todo = 1 .. Len(todo)
      /\ t \in Seq(Statement) /\ DOMAIN t = 1 .. (Len(todo) - 1)
      /\ \A k \in DOMAIN t : k + 1 \in DOMAIN todo /\ t[k] = todo[k + 1]
      /\ Head(todo) = todo[1]
  OBVIOUS
<1> HIDE DEF t
<1>2. PatchesAreChecked(t)
  <2> SUFFICES ASSUME NEW k \in DOMAIN t, t[k] = "patch", k # 1
               PROVE  t[k - 1] \in {"readTarget", "count"}
    BY DEF PatchesAreChecked
  <2>1. k - 1 \in DOMAIN t /\ k + 1 \in DOMAIN todo /\ t[k - 1] = todo[k] /\ t[k] = todo[k + 1]
    BY <1>1
  <2>2. k + 1 # 1 /\ (k + 1) - 1 = k /\ todo[k + 1] = "patch"
    BY <1>1, <2>1
  <2>3. todo[k] \in {"readTarget", "count"}
    BY <2>1, <2>2 DEF Shaped, PatchesAreChecked
  <2> QED
    BY <2>1, <2>3
<1>3. ActivatesOnce(t)
  BY <1>1 DEF Shaped, ActivatesOnce
<1>4. RevokesAfterwards(t)
  <2> SUFFICES ASSUME NEW k \in DOMAIN t, t[k] \in {"setPassword", "setTemp"}
               PROVE  \E j \in DOMAIN t : k < j /\ t[j] = "revoke"
    BY DEF RevokesAfterwards
  <2>1. PICK j \in DOMAIN todo : k + 1 < j /\ todo[j] = "revoke"
    BY <1>1 DEF Shaped, RevokesAfterwards
  <2>2. j - 1 \in DOMAIN t /\ k < j - 1 /\ t[j - 1] = todo[j]
    BY <1>1, <2>1
  <2> QED
    BY <2>1, <2>2
<1>5. RevokesFirst(t)
  <2> SUFFICES ASSUME NEW j \in DOMAIN t, NEW k \in DOMAIN t, j < k, t[k] = "revoke"
               PROVE  t[j] \in {"setPassword", "setTemp", "spend"}
    BY DEF RevokesFirst
  <2>1. j + 1 \in DOMAIN todo /\ k + 1 \in DOMAIN todo /\ j + 1 < k + 1 /\ todo[k + 1] = "revoke"
    BY <1>1
  <2>2. todo[j + 1] \in {"setPassword", "setTemp", "spend"}
    BY <2>1 DEF Shaped, RevokesFirst
  <2> QED
    BY <1>1, <2>2
<1>6. ASSUME NEW s, Does(todo, s), Head(todo) # s PROVE Does(t, s)
  <2>1. PICK k \in DOMAIN todo : todo[k] = s
    BY <1>6 DEF Does
  <2>2. k - 1 \in DOMAIN t /\ t[k - 1] = s
    BY <1>1, <1>6, <2>1
  <2> QED
    BY <2>2 DEF Does
<1> QED
  BY <1>1, <1>2, <1>3, <1>4, <1>5, <1>6 DEF Shaped, Does, t

\* The lists that requests begin with, and those that they are given later.
LEMMA ShapesOfOne ==
  ASSUME NEW s \in Statement, s \notin {"setPassword", "setTemp"}
  PROVE  Shaped(<<s>>) /\ \A x : Does(<<s>>, x) <=> x = s
<1>1. DOMAIN <<s>> = {1} /\ <<s>>[1] = s
  OBVIOUS
<1> QED
  BY <1>1 DEF Shaped, PatchesAreChecked, ActivatesOnce, RevokesAfterwards, RevokesFirst, Does

LEMMA ShapesOfTwo ==
  ASSUME NEW s, NEW x,
         s \notin {"setPassword", "setTemp"} \/ x = "revoke",
         x \notin {"setPassword", "setTemp"},
         x = "patch" => s \in {"readTarget", "count"},
         x = "revoke" => s \in {"setPassword", "setTemp", "spend"},
         s # x
  PROVE  Shaped(<<s, x>>) /\ \A y : Does(<<s, x>>, y) <=> y \in {s, x}
<1>1. DOMAIN <<s, x>> = {1, 2} /\ <<s, x>>[1] = s /\ <<s, x>>[2] = x
  OBVIOUS
<1> HIDE DEF Shaped
<1>2. PatchesAreChecked(<<s, x>>) /\ ActivatesOnce(<<s, x>>)
  BY <1>1 DEF PatchesAreChecked, ActivatesOnce
<1>3. RevokesAfterwards(<<s, x>>) /\ RevokesFirst(<<s, x>>)
  BY <1>1 DEF RevokesAfterwards, RevokesFirst
<1> QED
  BY <1>1, <1>2, <1>3 DEF Shaped, Does

LEMMA DoesOfThree ==
  \A a, b, c, s : Does(<<a, b, c>>, s) <=> s \in {a, b, c}
<1> TAKE a, b, c, s
<1>1. /\ DOMAIN <<a, b, c>> = {1, 2, 3}
      /\ <<a, b, c>>[1] = a /\ <<a, b, c>>[2] = b /\ <<a, b, c>>[3] = c
  OBVIOUS
<1> QED
  BY <1>1 DEF Does

LEMMA ShapesOfThree ==
  /\ Shaped(<<"setPassword", "spend", "revoke">>)
  /\ Shaped(<<"setPassword", "revoke", "issue">>)
  /\ Shaped(<<"verifyCode", "activateBoot", "issue">>)
  /\ Shaped(<<"ensureBoot", "setMode", "checkCode">>)
<1>1. \A a, b, c : /\ DOMAIN <<a, b, c>> = {1, 2, 3}
                   /\ <<a, b, c>>[1] = a /\ <<a, b, c>>[2] = b /\ <<a, b, c>>[3] = c
  OBVIOUS
<1>2. Shaped(<<"setPassword", "spend", "revoke">>)
  BY <1>1 DEF Shaped, PatchesAreChecked, ActivatesOnce, RevokesAfterwards, RevokesFirst
<1>3. Shaped(<<"setPassword", "revoke", "issue">>)
  BY <1>1 DEF Shaped, PatchesAreChecked, ActivatesOnce, RevokesAfterwards, RevokesFirst
<1>4. Shaped(<<"verifyCode", "activateBoot", "issue">>)
  BY <1>1 DEF Shaped, PatchesAreChecked, ActivatesOnce, RevokesAfterwards, RevokesFirst
<1>5. Shaped(<<"ensureBoot", "setMode", "checkCode">>)
  BY <1>1 DEF Shaped, PatchesAreChecked, ActivatesOnce, RevokesAfterwards, RevokesFirst
<1> QED
  BY <1>2, <1>3, <1>4, <1>5

-----------------------------------------------------------------------------
(***************************************************************************)
(* A request that begins.  An administrator, or a registration that an     *)
(* administrator opened, may ask for anything; the first registration      *)
(* begins when nobody is active; and accounts are switched on with the     *)
(* bootstrap account there, or made in the statement before.               *)
(***************************************************************************)
ModeNamed(c) ==
  \A k \in DOMAIN c.todo :
    c.todo[k] = "setMode" /\ c.on =>
      user[Boot].exists \/ (k > 1 /\ c.todo[k - 1] = "ensureBoot")

SetsPassword(todo) == Does(todo, "setPassword") \/ Does(todo, "setTemp")

WellBegun(c) ==
  /\ c \in Call /\ c.about \in User /\ Shaped(c.todo)
  /\ c.todo # <<>> /\ c.todo[1] # "patch"
  /\ c.cred \in {0, user[c.about].pw}
  /\ NeedsAdmin(c.todo) => ActiveAdmins # {} \/ registration
  /\ Does(c.todo, "activateBoot") => ActiveUsers = {} /\ c.about = Boot
  /\ SetsPassword(c.todo) => user[c.about].exists
  /\ ModeNamed(c)

Made(d, u, todo, cred, on) ==
  d \in Call /\ d.todo = todo /\ d.about = u /\ d.cred = cred /\ d.on = on

LEMMA CallsMade ==
  ASSUME NEW u \in User, NEW todo \in Seq(Statement)
  PROVE  LET c == Begins(u, todo) IN
         /\ Made(c, u, todo, 0, FALSE)
         /\ \A x \in Nat : Made([c EXCEPT !.cred = x], u, todo, x, FALSE)
         /\ \A x \in Nat : Made([c EXCEPT !.item = x], u, todo, 0, FALSE)
         /\ \A x \in BOOLEAN : Made([c EXCEPT !.on = x], u, todo, 0, x)
         /\ \A x \in User : Made([c EXCEPT !.by = x], u, todo, 0, FALSE)
         /\ \A x \in Change : Made([c EXCEPT !.change = x], u, todo, 0, FALSE)
<1> DEFINE c == Begins(u, todo)
<1>1. Unused \in Call /\ Unused.cred = 0 /\ Unused.on = FALSE
  BY UnusedCall DEF Unused
<1>2. Made(c, u, todo, 0, FALSE)
  BY <1>1 DEF Begins, Made, Call
<1> HIDE DEF c
<1>3. c \in Call /\ c.todo = todo /\ c.about = u /\ c.cred = 0 /\ c.on = FALSE
  BY <1>2 DEF Made
<1>4. \A x \in Nat : Made([c EXCEPT !.cred = x], u, todo, x, FALSE)
  BY <1>3 DEF Made, Call
<1>5. \A x \in Nat : Made([c EXCEPT !.item = x], u, todo, 0, FALSE)
  BY <1>3 DEF Made, Call
<1>6. \A x \in BOOLEAN : Made([c EXCEPT !.on = x], u, todo, 0, x)
  BY <1>3 DEF Made, Call
<1>7. \A x \in User : Made([c EXCEPT !.by = x], u, todo, 0, FALSE)
  BY <1>3 DEF Made, Call
<1>8. \A x \in Change : Made([c EXCEPT !.change = x], u, todo, 0, FALSE)
  BY <1>3 DEF Made, Call
<1> QED
  BY <1>2, <1>4, <1>5, <1>6, <1>7, <1>8 DEF c

\* A request that changes neither a mode nor the bootstrap account.
LEMMA EasilyBegun ==
  ASSUME NEW d, NEW u \in User, NEW todo \in Seq(Statement), NEW cred, NEW on,
         Made(d, u, todo, cred, on), Shaped(todo), todo # <<>>, todo[1] # "patch",
         ~ Does(todo, "setMode"), ~ Does(todo, "activateBoot"),
         cred \in {0, user[u].pw},
         NeedsAdmin(todo) => ActiveAdmins # {} \/ registration,
         SetsPassword(todo) => user[u].exists
  PROVE  WellBegun(d)
BY DEF Made, WellBegun, ModeNamed, Does

\* The lists of these.
Easy(todo, admin, there) ==
  /\ todo \in Seq(Statement) /\ Shaped(todo) /\ todo # <<>> /\ todo[1] # "patch"
  /\ ~ Does(todo, "setMode") /\ ~ Does(todo, "activateBoot")
  /\ ~ admin => ~ NeedsAdmin(todo)
  /\ ~ there => ~ SetsPassword(todo)

LEMMA EasyLists ==
  /\ Easy(<<"issue">>, FALSE, FALSE) /\ Easy(<<"revoke">>, FALSE, FALSE) /\ Easy(<<"rotate">>, FALSE, FALSE)
  /\ Easy(<<"setRegistration">>, TRUE, FALSE)
  /\ Easy(<<"setJit">>, FALSE, FALSE) /\ Easy(<<"checkCode">>, FALSE, FALSE)
  /\ Easy(<<"spendAll", "addReset">>, FALSE, FALSE) /\ Easy(<<"provision", "issue">>, FALSE, FALSE)
  /\ Easy(<<"setPassword", "revoke">>, FALSE, TRUE) /\ Easy(<<"revoke", "issue">>, FALSE, FALSE)
  /\ Easy(<<"setPassword", "spend", "revoke">>, FALSE, TRUE)
  /\ Easy(<<"setPassword", "revoke", "issue">>, FALSE, TRUE)
  /\ Easy(<<"create">>, TRUE, FALSE) /\ Easy(<<"create", "issue">>, TRUE, FALSE)
  /\ Easy(<<"setTemp", "revoke">>, TRUE, TRUE) /\ Easy(<<"readTarget", "patch">>, TRUE, FALSE)
<1>1. ASSUME NEW s \in Statement \ {"setPassword", "setTemp", "patch", "setMode", "activateBoot"}
      PROVE  Easy(<<s>>, TRUE, FALSE) /\ (s \notin {"create", "readTarget", "count", "setRegistration"} =>
                                             Easy(<<s>>, FALSE, FALSE))
  BY <1>1, ShapesOfOne DEF Easy, NeedsAdmin, SetsPassword
<1>2. ASSUME NEW s \in Statement \ {"patch", "setMode", "activateBoot"},
             NEW x \in Statement \ {"setPassword", "setTemp", "setMode", "activateBoot"},
             s \notin {"setPassword", "setTemp"} \/ x = "revoke",
             x = "patch" => s \in {"readTarget", "count"},
             x = "revoke" => s \in {"setPassword", "setTemp", "spend"},
             s # x
      PROVE  \A admin, there \in BOOLEAN :
               /\ ~ admin =>
                    {s, x} \cap {"create", "setTemp", "readTarget", "count", "patch", "setRegistration"} = {}
               /\ ~ there => s \notin {"setPassword", "setTemp"}
               => Easy(<<s, x>>, admin, there)
  <2> DEFINE todo == <<s, x>>
  <2>1. Shaped(todo) /\ \A y : Does(todo, y) <=> y \in {s, x}
    BY <1>2, ShapesOfTwo
  <2>2. todo \in Seq(Statement) /\ todo # <<>> /\ todo[1] # "patch"
    OBVIOUS
  <2> HIDE DEF todo
  <2>3. ~ Does(todo, "setMode") /\ ~ Does(todo, "activateBoot")
    BY <2>1
  <2>4. {s, x} \cap {"create", "setTemp", "readTarget", "count", "patch", "setRegistration"} = {} =>
          ~ NeedsAdmin(todo)
    BY <2>1 DEF NeedsAdmin
  <2>5. s \notin {"setPassword", "setTemp"} => ~ SetsPassword(todo)
    BY <2>1 DEF SetsPassword
  <2> QED
    BY <2>1, <2>2, <2>3, <2>4, <2>5 DEF Easy, todo
<1>4. Easy(<<"setPassword", "spend", "revoke">>, FALSE, TRUE)
  BY DoesOfThree, ShapesOfThree DEF Easy, NeedsAdmin, SetsPassword, Statement
<1>5. Easy(<<"setPassword", "revoke", "issue">>, FALSE, TRUE)
  BY DoesOfThree, ShapesOfThree DEF Easy, NeedsAdmin, SetsPassword, Statement
<1>6. /\ Easy(<<"issue">>, FALSE, FALSE) /\ Easy(<<"revoke">>, FALSE, FALSE) /\ Easy(<<"rotate">>, FALSE, FALSE)
      /\ Easy(<<"setRegistration">>, TRUE, FALSE)
  /\ Easy(<<"setJit">>, FALSE, FALSE)
      /\ Easy(<<"checkCode">>, FALSE, FALSE) /\ Easy(<<"create">>, TRUE, FALSE)
  BY <1>1 DEF Statement
<1>7. /\ Easy(<<"spendAll", "addReset">>, FALSE, FALSE) /\ Easy(<<"provision", "issue">>, FALSE, FALSE)
      /\ Easy(<<"setPassword", "revoke">>, FALSE, TRUE) /\ Easy(<<"revoke", "issue">>, FALSE, FALSE)
  BY <1>2 DEF Statement
<1>8. /\ Easy(<<"create", "issue">>, TRUE, FALSE) /\ Easy(<<"setTemp", "revoke">>, TRUE, TRUE)
      /\ Easy(<<"readTarget", "patch">>, TRUE, FALSE)
  BY <1>2 DEF Statement
<1> QED
  BY <1>4, <1>5, <1>6, <1>7, <1>8

LEMMA EasyCalls ==
  ASSUME NEW u \in User, NEW todo, NEW admin \in BOOLEAN, NEW there \in BOOLEAN, Easy(todo, admin, there),
         admin => ActiveAdmins # {} \/ registration,
         there => user[u].exists
  PROVE  LET c == Begins(u, todo) IN
         /\ WellBegun(c)
         /\ user[u].pw \in Nat => WellBegun([c EXCEPT !.cred = user[u].pw])
         /\ \A x \in Nat : WellBegun([c EXCEPT !.item = x])
         /\ \A x \in BOOLEAN : WellBegun([c EXCEPT !.on = x])
         /\ \A x \in User : WellBegun([c EXCEPT !.by = x])
         /\ \A x \in Change : WellBegun([c EXCEPT !.change = x])
<1> DEFINE c == Begins(u, todo)
<1>1. todo \in Seq(Statement)
  BY DEF Easy
<1>2. ASSUME NEW d, NEW cred \in {0, user[u].pw}, NEW on, Made(d, u, todo, cred, on)
      PROVE  WellBegun(d)
  BY <1>1, <1>2, EasilyBegun DEF Easy
<1> QED
  BY <1>1, <1>2, CallsMade

-----------------------------------------------------------------------------
LEMMA BeginWell ==
  ASSUME AccountInv, NEW r \in Request, Begin(r)
  PROVE  \E c : WellBegun(c) /\ Start(r, c)
<1>1. ASSUME NEW u \in User, Login(r, u) PROVE \E c : WellBegun(c) /\ Start(r, c)
  <2>1. Start(r, [Begins(u, <<"issue">>) EXCEPT !.cred = user[u].pw])
    BY <1>1 DEF Login
  <2> QED
    BY <2>1, EasyLists, EasyCalls, ThePassword
<1>2. ASSUME NEW u \in User, Register(r, u) PROVE \E c : WellBegun(c) /\ Start(r, c)
  BY <1>2, EasyLists, EasyCalls DEF Register
<1>3. ASSUME NEW u \in User, RequestReset(r, u) \/ Callback(r, u)
      PROVE  \E c : WellBegun(c) /\ Start(r, c)
  BY <1>3, EasyLists, EasyCalls DEF RequestReset, Callback
<1>4. ASSUME NEW k \in DOMAIN resets, ConfirmReset(r, k)
      PROVE  \E c : WellBegun(c) /\ Start(r, c)
  <2> DEFINE R == [user : User, used : BOOLEAN]
  <2>1. resets[k].user \in User /\ k \in Nat
    <3>1. resets \in Seq(R)
      BY DEF AccountInv, RowsOK
    <3> HIDE DEF R
    <3>2. resets[k] \in R /\ k \in Nat
      BY <3>1
    <3> QED
      BY <3>2 DEF R
  <2>2. user[resets[k].user].exists
    BY <1>4 DEF ConfirmReset, Active
  <2> QED
    BY <1>4, <2>1, <2>2, EasyLists, EasyCalls DEF ConfirmReset
<1>5. ASSUME NEW i \in DOMAIN tokens
      PROVE  /\ MayAdminister(i) => ActiveAdmins # {}
             /\ Holder(i) \in User /\ i \in Nat /\ tokens[i].by \in User \cup {Nobody}
             /\ user[Holder(i)].pw \in Nat
             /\ SignedIn(i) => user[Holder(i)].exists
  BY TheHolder, ThePassword DEF MayAdminister, MayAct, SignedIn, ActiveAdmins, IsAdmin, Active, Holder
<1>6. ASSUME NEW i \in DOMAIN tokens,
             \/ Refresh(r, i) \/ Logout(r, i) \/ ChangePassword(r, i)
             \/ MustResetPassword(r, i) \/ StopImpersonation(r, i)
      PROVE  \E c : WellBegun(c) /\ Start(r, c)
  BY <1>5, <1>6, EasyLists, EasyCalls
     DEF Refresh, Logout, ChangePassword, MustResetPassword, StopImpersonation, AsOneself
<1>7. ASSUME NEW i \in DOMAIN tokens, ChangeEmail(r, i)
      PROVE  \E c : WellBegun(c) /\ Start(r, c)
  <2>1. Start(r, [Begins(Holder(i), <<"revoke", "issue">>) EXCEPT !.cred = user[Holder(i)].pw])
    BY <1>7 DEF ChangeEmail
  <2> QED
    BY <1>5, <2>1, EasyLists, EasyCalls
<1>8. ASSUME NEW i \in DOMAIN tokens, NEW u \in User, AdminReset(r, i, u)
      PROVE  \E c : WellBegun(c) /\ Start(r, c)
  BY <1>5, <1>8, EasyLists, EasyCalls DEF AdminReset
<1>9. ASSUME NEW i \in DOMAIN tokens, NEW u \in User, Impersonate(r, i, u)
      PROVE  \E c : WellBegun(c) /\ Start(r, c)
  <2> DEFINE acting == IF user[Holder(i)].role = "ADMIN" THEN Holder(i) ELSE tokens[i].by
  <2>1. acting \in User
    BY <1>5, <1>9 DEF Impersonate
  <2>2. Start(r, [Begins(u, <<"issue">>) EXCEPT !.by = acting])
    BY <1>9 DEF Impersonate
  <2> HIDE DEF acting
  <2> QED
    BY <2>1, <2>2, EasyLists, EasyCalls
<1>10. ASSUME NEW i \in DOMAIN tokens, NEW u \in User, NEW change \in Change,
              ChangeUser(r, i, u, change)
       PROVE  \E c : WellBegun(c) /\ Start(r, c)
  BY <1>5, <1>10, EasyLists, EasyCalls DEF ChangeUser
<1>11. ASSUME NEW i \in DOMAIN tokens, NEW u \in User, NEW w \in BOOLEAN, CreateUser(r, i, u, w)
       PROVE  \E c : WellBegun(c) /\ Start(r, c)
  BY <1>5, <1>11, EasyLists, EasyCalls DEF CreateUser
<1>12. ASSUME NEW i \in DOMAIN tokens, NEW on \in BOOLEAN,
              SetRegistration(r, i, on) \/ SetProvisioning(r, i, on)
       PROVE  \E c : WellBegun(c) /\ Start(r, c)
  BY <1>5, <1>12, EasyLists, EasyCalls DEF SetRegistration, SetProvisioning
<1> QED
  BY <1>1, <1>2, <1>3, <1>4, <1>6, <1>7, <1>8, <1>9, <1>10, <1>11, <1>12 DEF Begin, ChangeRole

\* The lists that switch between the modes.
SwitchLists == {<<"setMode">>, <<"ensureBoot", "setMode">>, <<"ensureBoot", "setMode", "checkCode">>}

LEMMA ShapesOfSwitches ==
  ASSUME NEW todo \in SwitchLists
  PROVE  /\ todo \in Seq(Statement) /\ Shaped(todo) /\ todo # <<>> /\ todo[1] # "patch"
         /\ ~ NeedsAdmin(todo) /\ ~ Does(todo, "activateBoot") /\ ~ SetsPassword(todo)
         /\ \A k \in DOMAIN todo :
              todo[k] = "setMode" => todo[1] = "setMode" \/ (k > 1 /\ todo[k - 1] = "ensureBoot")
<1>1. CASE todo = <<"setMode">>
  <2>1. Shaped(todo) /\ \A x : Does(todo, x) <=> x = "setMode"
    BY <1>1, ShapesOfOne DEF Statement
  <2>2. todo \in Seq(Statement) /\ todo # <<>> /\ todo[1] = "setMode"
    BY <1>1 DEF Statement
  <2> QED
    BY <2>1, <2>2 DEF NeedsAdmin, SetsPassword
<1>2. CASE todo = <<"ensureBoot", "setMode">>
  <2>1. Shaped(todo) /\ \A x : Does(todo, x) <=> x \in {"ensureBoot", "setMode"}
    BY <1>2, ShapesOfTwo
  <2>2. /\ todo \in Seq(Statement) /\ todo # <<>> /\ DOMAIN todo = {1, 2}
        /\ todo[1] = "ensureBoot" /\ todo[2] = "setMode"
    BY <1>2 DEF Statement
  <2> QED
    BY <2>1, <2>2 DEF NeedsAdmin, SetsPassword
<1>3. CASE todo = <<"ensureBoot", "setMode", "checkCode">>
  <2>1. Shaped(todo) /\ \A x : Does(todo, x) <=> x \in {"ensureBoot", "setMode", "checkCode"}
    BY <1>3, ShapesOfThree, DoesOfThree
  <2>2. /\ todo \in Seq(Statement) /\ todo # <<>> /\ DOMAIN todo = {1, 2, 3}
        /\ todo[1] = "ensureBoot" /\ todo[2] = "setMode" /\ todo[3] = "checkCode"
    BY <1>3 DEF Statement
  <2> QED
    BY <2>1, <2>2 DEF NeedsAdmin, SetsPassword
<1> QED
  BY <1>1, <1>2, <1>3 DEF SwitchLists

LEMMA SwitchBegun ==
  ASSUME NEW todo \in SwitchLists, NEW on \in BOOLEAN,
         todo[1] = "setMode" /\ on => user[Boot].exists
  PROVE  WellBegun([Begins(Boot, todo) EXCEPT !.on = on])
<1> USE AccountsAssumption
<1> DEFINE d == [Begins(Boot, todo) EXCEPT !.on = on]
<1>1. Made(d, Boot, todo, 0, on)
  BY ShapesOfSwitches, CallsMade
<1> HIDE DEF d
<1>2. /\ d \in Call /\ d.todo = todo /\ d.about = Boot /\ d.cred = 0 /\ d.on = on
  BY <1>1 DEF Made
<1>3. ModeNamed(d)
  BY <1>2, ShapesOfSwitches DEF ModeNamed
<1> QED
  BY <1>2, <1>3, ShapesOfSwitches DEF WellBegun, d

LEMMA OneMore ==
  \A a, b, c : <<a, b>> \o <<c>> = <<a, b, c>>
<1> TAKE a, b, c
<1> DEFINE x == <<a, b>> \o <<c>>
           S == {a, b, c}
<1>1. /\ Len(<<a, b>>) = 2 /\ Len(<<c>>) = 1
      /\ <<a, b>>[1] = a /\ <<a, b>>[2] = b /\ <<c>>[1] = c
      /\ <<a, b>> \in Seq(S) /\ <<c>> \in Seq(S)
  OBVIOUS
<1>2. x \in Seq(S) /\ Len(x) = 3 /\ x[1] = a /\ x[2] = b /\ x[3] = c
  BY <1>1
<1> HIDE DEF x
<1>3. x = [i \in 1 .. 3 |-> x[i]] /\ <<a, b, c>> = [i \in 1 .. 3 |-> x[i]]
  BY <1>2
<1> QED
  BY <1>3 DEF x

LEMMA SetupBeginsWell ==
  ASSUME AccountInv, mode => user[Boot].exists, NEW r \in Request,
         \/ \E given \in {0, code.number} : FirstRegister(r, given)
         \/ \E on \in BOOLEAN :
              Onboard(r, on) \/ \E i \in {0} \cup DOMAIN tokens : SwitchMode(r, i, on)
         \/ StartServer(r)
  PROVE  \E c : WellBegun(c) /\ Start(r, c)
<1> USE AccountsAssumption
<1>1. ASSUME NEW given \in {0, code.number}, FirstRegister(r, given)
      PROVE  \E c : WellBegun(c) /\ Start(r, c)
  <2> DEFINE todo == <<"verifyCode", "activateBoot", "issue">>
             d == [Begins(Boot, todo) EXCEPT !.item = given]
  <2>1. given \in Nat
    BY DEF AccountInv, SetupOK, Code
  <2>2. todo \in Seq(Statement) /\ todo # <<>> /\ todo[1] # "patch"
    BY DEF Statement
  <2>3. Start(r, d) /\ ActiveUsers = {}
    BY <1>1 DEF FirstRegister, Required
  <2>4. Shaped(todo) /\ \A s : Does(todo, s) <=> s \in {"verifyCode", "activateBoot", "issue"}
    BY ShapesOfThree, DoesOfThree
  <2> HIDE DEF todo
  <2>5. Made(d, Boot, todo, 0, FALSE)
    BY <2>1, <2>2, CallsMade
  <2> HIDE DEF d
  <2>6. ~ NeedsAdmin(todo) /\ ~ Does(todo, "setMode") /\ ~ SetsPassword(todo)
    BY <2>4 DEF NeedsAdmin, SetsPassword
  <2>7. d \in Call /\ d.about = Boot /\ d.todo = todo /\ d.cred = 0 /\ ModeNamed(d)
    BY <2>5, <2>6 DEF Made, ModeNamed, Does
  <2>8. WellBegun(d)
    BY <2>2, <2>3, <2>4, <2>6, <2>7 DEF WellBegun
  <2> QED
    BY <2>3, <2>8
<1>2. ASSUME NEW on \in BOOLEAN, Onboard(r, on) PROVE \E c : WellBegun(c) /\ Start(r, c)
  <2> DEFINE todo == IF on THEN <<"ensureBoot", "setMode", "checkCode">> ELSE <<"setMode">>
  <2>1. Start(r, [Begins(Boot, todo) EXCEPT !.on = on])
    BY <1>2 DEF Onboard
  <2>2. todo \in SwitchLists /\ (todo[1] = "setMode" => ~ on)
    BY DEF SwitchLists
  <2> HIDE DEF todo
  <2> QED
    BY <2>1, <2>2, SwitchBegun
<1>3. ASSUME NEW on \in BOOLEAN, NEW i, SwitchMode(r, i, on)
      PROVE  \E c : WellBegun(c) /\ Start(r, c)
  <2> DEFINE todo == IF mode THEN <<"setMode">>
                     ELSE <<"ensureBoot", "setMode">> \o IF on THEN <<"checkCode">> ELSE <<>>
  <2>1. Start(r, [Begins(Boot, todo) EXCEPT !.on = on])
    BY <1>3 DEF SwitchMode
  <2>2. /\ <<"ensureBoot", "setMode">> \o <<"checkCode">> = <<"ensureBoot", "setMode", "checkCode">>
        /\ <<"ensureBoot", "setMode">> \o <<>> = <<"ensureBoot", "setMode">>
    BY OneMore
  <2>3. todo \in SwitchLists
    BY <2>2 DEF SwitchLists
  <2>4. todo[1] = "setMode" => mode
    <3>1. /\ <<"ensureBoot", "setMode">>[1] = "ensureBoot"
          /\ <<"ensureBoot", "setMode", "checkCode">>[1] = "ensureBoot"
      OBVIOUS
    <3> QED
      BY <2>2, <3>1
  <2> HIDE DEF todo
  <2> QED
    BY <2>1, <2>3, <2>4, SwitchBegun
<1>4. CASE StartServer(r)
  BY <1>4, EasyLists, EasyCalls DEF StartServer
<1> QED
  BY <1>1, <1>2, <1>3, <1>4

-----------------------------------------------------------------------------
(***************************************************************************)
(* What the statements leave of a request, and what they do to a row of    *)
(* the User table.                                                         *)
(***************************************************************************)
SetsUp(r) ==
  \/ EnsureBoot(r) \/ SetMode(r) \/ CheckCode(r) \/ WriteCode(r)
  \/ VerifyCode(r) \/ CountFailure(r) \/ ClearCode(r) \/ ActivateBoot(r)

Works(r) == (Run(r) /\ UNCHANGED setupVars) \/ SetsUp(r)

SoonNamed(todo, k) == k > 1 /\ todo[k - 1] = "ensureBoot"

GoodRest(todo, rest) ==
  /\ rest \in Seq(Statement) /\ Shaped(rest)
  /\ \A s : Does(rest, s) => \/ Does(todo, s)
                             \/ Head(todo) = "readTarget" /\ s \in {"count", "patch"}
                             \/ s \in {"checkCode", "writeCode", "countFailure", "clearCode"}
  /\ rest # <<>> /\ rest[1] = "patch" => Head(todo) \in {"readTarget", "count"}
  /\ \A k \in DOMAIN rest :
       rest[k] = "setMode" => \/ SoonNamed(rest, k) \/ Head(todo) = "ensureBoot"
                              \/ \E j \in DOMAIN todo : todo[j] = "setMode" /\ ~ SoonNamed(todo, j)

LEMMA TailGood ==
  ASSUME NEW todo \in Seq(Statement), todo # <<>>, Shaped(todo)
  PROVE  GoodRest(todo, Tail(todo)) /\ GoodRest(todo, <<>>)
<1> DEFINE t == Tail(todo)
<1>1. /\ DOMAIN todo = 1 .. Len(todo) /\ DOMAIN t = 1 .. (Len(todo) - 1) /\ Len(todo) \in Nat \ {0}
      /\ \A k \in DOMAIN t : k + 1 \in DOMAIN todo /\ t[k] = todo[k + 1]
      /\ Head(todo) = todo[1] /\ (t # <<>> => 1 \in DOMAIN t)
  OBVIOUS
<1>2. Shaped(t) /\ t \in Seq(Statement) /\ \A s : Does(t, s) => Does(todo, s)
  BY TailShaped
<1> HIDE DEF t
<1>3. t # <<>> /\ t[1] = "patch" => Head(todo) \in {"readTarget", "count"}
  <2> SUFFICES ASSUME t # <<>>, t[1] = "patch" PROVE todo[1] \in {"readTarget", "count"}
    BY <1>1
  <2>1. 2 \in DOMAIN todo /\ todo[2] = "patch"
    BY <1>1
  <2> QED
    BY <2>1 DEF Shaped, PatchesAreChecked
<1>4. ASSUME NEW k \in DOMAIN t, t[k] = "setMode", ~ SoonNamed(t, k), Head(todo) # "ensureBoot"
      PROVE  \E j \in DOMAIN todo : todo[j] = "setMode" /\ ~ SoonNamed(todo, j)
  <2>1. k + 1 \in DOMAIN todo /\ todo[k + 1] = "setMode" /\ k \in Nat
    BY <1>1, <1>4
  <2>2. k = 1 \/ (k - 1 \in DOMAIN t /\ k > 1 /\ t[k - 1] = todo[k])
    BY <1>1
  <2>3. ~ SoonNamed(todo, k + 1)
    BY <1>1, <1>4, <2>1, <2>2 DEF SoonNamed
  <2> QED
    BY <2>1, <2>3
<1>5. GoodRest(todo, t)
  BY <1>2, <1>3, <1>4 DEF GoodRest
<1>6. GoodRest(todo, <<>>)
  BY DEF GoodRest, Shaped, PatchesAreChecked, ActivatesOnce, RevokesAfterwards, RevokesFirst, Does
<1> QED
  BY <1>5, <1>6 DEF t

LEMMA ListsGood ==
  ASSUME NEW todo, todo # <<>>
  PROVE  /\ \A s \in {"checkCode", "writeCode", "countFailure"} : GoodRest(todo, <<s>>)
         /\ Head(todo) = "readTarget" => /\ GoodRest(todo, <<"patch">>)
                                         /\ GoodRest(todo, <<"count", "patch">>)
<1>1. ASSUME NEW s \in {"checkCode", "writeCode", "countFailure"} PROVE GoodRest(todo, <<s>>)
  <2>1. Shaped(<<s>>) /\ \A x : Does(<<s>>, x) <=> x = s
    BY ShapesOfOne DEF Statement
  <2>2. <<s>> \in Seq(Statement) /\ DOMAIN <<s>> = {1} /\ <<s>>[1] = s
    BY DEF Statement
  <2> QED
    BY <2>1, <2>2 DEF GoodRest
<1>2. ASSUME Head(todo) = "readTarget" PROVE GoodRest(todo, <<"patch">>)
  <2>1. Shaped(<<"patch">>) /\ \A x : Does(<<"patch">>, x) <=> x = "patch"
    BY ShapesOfOne DEF Statement
  <2>2. <<"patch">> \in Seq(Statement) /\ DOMAIN <<"patch">> = {1} /\ <<"patch">>[1] = "patch"
    BY DEF Statement
  <2> QED
    BY <1>2, <2>1, <2>2 DEF GoodRest
<1>3. ASSUME Head(todo) = "readTarget" PROVE GoodRest(todo, <<"count", "patch">>)
  <2> DEFINE l == <<"count", "patch">>
  <2>1. Shaped(l) /\ \A x : Does(l, x) <=> x \in {"count", "patch"}
    BY ShapesOfTwo
  <2>2. l \in Seq(Statement) /\ DOMAIN l = {1, 2} /\ l[1] = "count" /\ l[2] = "patch"
    BY DEF Statement
  <2> HIDE DEF l
  <2>3. GoodRest(todo, l)
    BY <1>3, <2>1, <2>2 DEF GoodRest
  <2> QED
    BY <2>3 DEF l
<1> QED
  BY <1>1, <1>2, <1>3

LEMMA Joined ==
  ASSUME NEW a \in Seq(Statement), NEW b \in Seq(Statement)
  PROVE  /\ a \o b \in Seq(Statement) /\ Len(a \o b) = Len(a) + Len(b)
         /\ \A k \in 1 .. Len(a) + Len(b) :
              (a \o b)[k] = IF k <= Len(a) THEN a[k] ELSE b[k - Len(a)]
BY ConcatProperties

\* A setup code that was right is cleared before the rest.
LEMMA ClearingGood ==
  ASSUME NEW todo \in Seq(Statement), todo # <<>>, Shaped(todo), Head(todo) = "verifyCode"
  PROVE  GoodRest(todo, <<"clearCode">> \o Tail(todo))
<1> DEFINE t == <<"clearCode">> \o Tail(todo)
<1>1. /\ t \in Seq(Statement) /\ DOMAIN t = DOMAIN todo /\ DOMAIN todo = 1 .. Len(todo)
      /\ Len(todo) \in Nat \ {0} /\ t[1] = "clearCode" /\ todo[1] = "verifyCode"
      /\ \A k \in DOMAIN todo : k # 1 => t[k] = todo[k]
  <2>1. /\ Tail(todo) \in Seq(Statement) /\ Len(todo) \in Nat \ {0}
        /\ Len(Tail(todo)) = Len(todo) - 1 /\ DOMAIN todo = 1 .. Len(todo)
        /\ \A k \in 1 .. Len(todo) - 1 : Tail(todo)[k] = todo[k + 1]
        /\ todo[1] = "verifyCode"
    OBVIOUS
  <2> DEFINE u == Tail(todo)
  <2> HIDE DEF u
  <2>2. /\ u \in Seq(Statement) /\ Len(u) = Len(todo) - 1
        /\ \A k \in 1 .. Len(todo) - 1 : u[k] = todo[k + 1]
    BY <2>1 DEF u
  <2> DEFINE h == <<"clearCode">>
  <2>3. h \in Seq(Statement) /\ Len(h) = 1 /\ h[1] = "clearCode"
    BY DEF Statement
  <2> HIDE DEF h
  <2>4. /\ h \o u \in Seq(Statement) /\ Len(h \o u) = Len(h) + Len(u)
        /\ \A k \in 1 .. Len(h) + Len(u) :
             (h \o u)[k] = IF k <= Len(h) THEN h[k] ELSE u[k - Len(h)]
    BY <2>2, <2>3, Joined
  <2>5. ASSUME NEW k \in 1 .. Len(todo)
        PROVE  (h \o u)[k] = IF k <= 1 THEN h[k] ELSE u[k - 1]
    <3>1. Len(h) = 1 /\ Len(u) = Len(todo) - 1 /\ Len(todo) \in Nat
      BY <2>1, <2>2, <2>3
    <3>2. k \in 1 .. Len(h) + Len(u)
      BY <3>1
    <3>3. (h \o u)[k] = IF k <= Len(h) THEN h[k] ELSE u[k - Len(h)]
      BY <2>4, <3>2
    <3> QED
      BY <3>1, <3>3
  <2> DEFINE w == h \o u
  <2>6. /\ w \in Seq(Statement) /\ DOMAIN w = 1 .. Len(todo) /\ w[1] = "clearCode"
        /\ \A k \in DOMAIN todo : k # 1 => w[k] = todo[k]
    <3>1. /\ w \in Seq(Statement) /\ Len(w) = Len(todo)
          /\ \A k \in 1 .. Len(todo) : w[k] = IF k <= 1 THEN h[k] ELSE u[k - 1]
      BY <2>1, <2>2, <2>3, <2>4, <2>5
    <3> HIDE DEF w
    <3>2. DOMAIN w = 1 .. Len(todo) /\ w[1] = h[1]
      BY <2>1, <3>1
    <3>3. ASSUME NEW k \in DOMAIN todo, k # 1 PROVE w[k] = todo[k]
      <4>1. k \in 1 .. Len(todo) /\ ~ (k <= 1) /\ k - 1 \in 1 .. Len(todo) - 1 /\ (k - 1) + 1 = k
        BY <2>1, <3>3
      <4>2. w[k] = u[k - 1] /\ u[k - 1] = todo[(k - 1) + 1]
        BY <2>2, <3>1, <4>1
      <4> QED
        BY <4>1, <4>2
    <3> QED
      BY <2>3, <3>1, <3>2, <3>3
  <2> QED
    BY <2>1, <2>6 DEF u, h
<1> HIDE DEF t
<1>2. PatchesAreChecked(t)
  <2> SUFFICES ASSUME NEW k \in DOMAIN t, t[k] = "patch", k # 1
               PROVE  t[k - 1] \in {"readTarget", "count"}
    BY DEF PatchesAreChecked
  <2>1. todo[k] = "patch" /\ k - 1 \in DOMAIN todo
    BY <1>1
  <2>2. todo[k - 1] \in {"readTarget", "count"}
    BY <1>1, <2>1 DEF Shaped, PatchesAreChecked
  <2> QED
    BY <1>1, <2>1, <2>2
<1>3. ActivatesOnce(t) /\ RevokesAfterwards(t)
  <2>1. ActivatesOnce(t)
    BY <1>1 DEF Shaped, ActivatesOnce
  <2>2. RevokesAfterwards(t)
    <3> SUFFICES ASSUME NEW k \in DOMAIN t, t[k] \in {"setPassword", "setTemp"}
                 PROVE  \E j \in DOMAIN t : k < j /\ t[j] = "revoke"
      BY DEF RevokesAfterwards
    <3>1. PICK j \in DOMAIN todo : k < j /\ todo[j] = "revoke"
      BY <1>1 DEF Shaped, RevokesAfterwards
    <3> QED
      BY <1>1, <3>1
  <2> QED
    BY <2>1, <2>2
<1>4. RevokesFirst(t)
  <2> SUFFICES ASSUME NEW j \in DOMAIN t, NEW k \in DOMAIN t, j < k, t[k] = "revoke" PROVE FALSE
    BY DEF RevokesFirst
  <2>1. todo[k] = "revoke" /\ 1 < k /\ 1 \in DOMAIN todo /\ k \in DOMAIN todo
    BY <1>1
  <2>2. todo[1] \in {"setPassword", "setTemp", "spend"}
    BY <2>1 DEF Shaped, RevokesFirst
  <2> QED
    BY <1>1, <2>2
<1>5. \A s : Does(t, s) => Does(todo, s) \/ s = "clearCode"
  BY <1>1 DEF Does
<1>6. \A k \in DOMAIN t : t[k] = "setMode" =>
        todo[k] = "setMode" /\ (SoonNamed(todo, k) => SoonNamed(t, k))
  BY <1>1 DEF SoonNamed
<1>7. t[1] # "patch"
  BY <1>1
<1> QED
  BY <1>1, <1>2, <1>3, <1>4, <1>5, <1>6, <1>7 DEF GoodRest, Shaped, t

-----------------------------------------------------------------------------
(***************************************************************************)
(* A statement leaves a rest that is as well ordered, and forgets a        *)
(* revocation only when it was done, or when the user counts as kept.      *)
(***************************************************************************)
Carries(r, rest, cred) ==
  /\ Continues(r, rest, cred) /\ cred \in Nat
  /\ GoodRest(req[r].todo, rest)
  /\ Does(req[r].todo, "revoke") =>
       Does(rest, "revoke") \/ req[r].about \in kept' \/ Revoke(r)
  /\ cred \in {req[r].cred, user'[req[r].about].pw}

LEMMA OnCarries ==
  ASSUME AccountInv, NEW r \in Request, req[r].todo # <<>>, Shaped(req[r].todo),
         NEW cred \in {req[r].cred, user'[req[r].about].pw}, cred \in Nat,
         Continues(r, Tail(req[r].todo), cred),
         Head(req[r].todo) # "revoke" \/ req[r].about \in kept' \/ Revoke(r)
  PROVE  \E rest, x : Carries(r, rest, x)
<1> DEFINE todo == req[r].todo
<1>1. todo \in Seq(Statement)
  BY Rest
<1>2. /\ GoodRest(todo, Tail(todo))
      /\ Does(todo, "revoke") => Head(todo) = "revoke" \/ Does(Tail(todo), "revoke")
  BY <1>1, TailGood, TailShaped
<1>3. Carries(r, Tail(todo), cred)
  BY <1>2 DEF Carries
<1> QED
  BY <1>3

LEMMA OverCarries ==
  ASSUME AccountInv, NEW r \in Request, req[r].todo # <<>>, Shaped(req[r].todo),
         NEW rest, GoesTo(r, rest), GoodRest(req[r].todo, rest),
         Head(req[r].todo) \notin {"setPassword", "setTemp", "spend", "revoke"}
  PROVE  \E x, y : Carries(r, x, y)
<1> DEFINE todo == req[r].todo
<1>1. todo \in Seq(Statement) /\ req[r].cred \in Nat
  BY Rest
<1>2. ~ Does(todo, "revoke")
  <2> HIDE DEF todo
  <2>1. todo # <<>> /\ Shaped(todo) /\ Head(todo) \notin {"setPassword", "setTemp", "spend", "revoke"}
    BY DEF todo
  <2>2. /\ 1 \in DOMAIN todo /\ Head(todo) = todo[1]
        /\ \A k \in DOMAIN todo : k = 1 \/ 1 < k
    BY <1>1, <2>1
  <2> QED
    BY <2>1, <2>2 DEF Does, Shaped, RevokesFirst
<1>3. Carries(r, rest, req[r].cred)
  BY <1>1, <1>2 DEF Carries, GoesTo
<1> QED
  BY <1>3

\* A new password, chosen or temporary.
LEMMA PasswordSet ==
  ASSUME AccountInv, NEW r \in Request, SetPassword(r) \/ SetTemp(r)
  PROVE  LET u == req[r].about IN
         \E row \in UserRow :
           /\ user' = [user EXCEPT ![u] = row] /\ user'[u] = row /\ u \in User
           /\ row.exists = user[u].exists /\ row.role = user[u].role /\ row.pw = user[u].pw + 1
           /\ row.active = user[u].active \/ (row.active /\ SetTemp(r))
<1> DEFINE u == req[r].about
           old == user[u]
           more == old.pw + 1
<1>1. u \in User /\ user \in [User -> UserRow] /\ old \in UserRow
  BY Rest DEF SetPassword, SetTemp, Runs, AccountInv, RowsOK
<1>2. more \in Nat
  BY <1>1 DEF UserRow
<1> HIDE DEF u, more
<1>3. CASE SetPassword(r)
  <2> DEFINE one == [user EXCEPT ![u].pw = more]
             row == [[old EXCEPT !.pw = more] EXCEPT !.must = FALSE]
  <2>1. user' = [one EXCEPT ![u].must = FALSE]
    BY <1>1, <1>3 DEF SetPassword, u, more
  <2>2. one = [user EXCEPT ![u] = [old EXCEPT !.pw = more]]
    BY <1>1
  <2>3. user' = [user EXCEPT ![u] = row]
    BY <1>1, <2>1, <2>2
  <2>4. /\ row \in UserRow /\ row.exists = old.exists /\ row.role = old.role
        /\ row.pw = more /\ row.active = old.active
    <3> HIDE DEF old
    <3> QED
      BY <1>1, <1>2 DEF UserRow
  <2> HIDE DEF row
  <2> QED
    BY <1>1, <2>3, <2>4 DEF u, more
<1>4. CASE SetTemp(r)
  <2> DEFINE one == [user EXCEPT ![u].pw = more]
             two == [one EXCEPT ![u].must = TRUE]
             row == [[[old EXCEPT !.pw = more] EXCEPT !.must = TRUE] EXCEPT !.active = TRUE]
  <2>1. user' = [two EXCEPT ![u].active = TRUE]
    BY <1>1, <1>4 DEF SetTemp, u, more
  <2>2. one = [user EXCEPT ![u] = [old EXCEPT !.pw = more]]
    BY <1>1
  <2>3. two = [user EXCEPT ![u] = [[old EXCEPT !.pw = more] EXCEPT !.must = TRUE]]
    BY <1>1, <2>2
  <2>4. user' = [user EXCEPT ![u] = row]
    BY <1>1, <2>1, <2>3
  <2>5. /\ row \in UserRow /\ row.exists = old.exists /\ row.role = old.role
        /\ row.pw = more /\ row.active = TRUE
    <3> HIDE DEF old
    <3> QED
      BY <1>1, <1>2 DEF UserRow
  <2> HIDE DEF row
  <2> QED
    BY <1>1, <1>4, <2>4, <2>5 DEF u, more
<1> QED
  BY <1>3, <1>4

LEMMA WorkCarries ==
  ASSUME AccountInv, NEW r \in Request, Shaped(req[r].todo), Works(r),
         Does(req[r].todo, "activateBoot") => req[r].about = Boot
  PROVE  req[r].todo # <<>> /\ \E rest, cred : Carries(r, rest, cred)
<1> DEFINE todo == req[r].todo
           about == req[r].about
<1>1. todo # <<>>
  BY DEF Works, Run, SetsUp, Issue, Rotate, Revoke, RevokeFails, SetPassword, SetTemp, ChangeResets,
         Create, Provision, RefuseProvision, WriteSetting, ReadTarget, Count, Patch, BreaksOff,
         EnsureBoot, SetMode, CheckCode, WriteCode, VerifyCode, CountFailure, ClearCode,
         ActivateBoot, Runs
<1>2. /\ todo \in Seq(Statement) /\ req[r].cred \in Nat /\ about \in User
      /\ GoodRest(todo, Tail(todo)) /\ GoodRest(todo, <<>>) /\ Does(todo, Head(todo))
  BY <1>1, Rest, TailGood, TailShaped
<1> SUFFICES \E rest, cred : Carries(r, rest, cred)
  BY <1>1
<1>3. user \in [User -> UserRow] /\ user[about].pw \in Nat /\ Boot \in User
  BY <1>2, ThePassword, AccountsAssumption DEF AccountInv, RowsOK
<1>4. ASSUME GoesOn(r), Head(todo) # "revoke" \/ about \in kept' \/ Revoke(r)
      PROVE  \E rest, cred : Carries(r, rest, cred)
  BY <1>1, <1>2, <1>4, OnCarries DEF GoesOn
<1>5. ASSUME NEW rest, GoesTo(r, rest), GoodRest(todo, rest),
             Head(todo) \notin {"setPassword", "setTemp", "spend", "revoke"}
      PROVE  \E x, y : Carries(r, x, y)
  BY <1>1, <1>5, OverCarries
<1>6. CASE Issue(r) \/ Rotate(r) \/ Revoke(r)
  BY <1>4, <1>6 DEF Issue, Rotate, Revoke, Runs
<1>7. CASE RevokeFails(r)
  BY <1>4, <1>7 DEF RevokeFails
<1>8. CASE SetPassword(r)
  <2>1. Continues(r, Tail(todo), user[about].pw + 1) /\ Head(todo) = "setPassword"
    BY <1>8 DEF SetPassword, Runs
  <2>2. user'[about].pw = user[about].pw + 1
    BY <1>1, <1>3, <1>8, PasswordSet
  <2> DEFINE pw == user[about].pw + 1
  <2>3. pw \in Nat /\ pw \in {req[r].cred, user'[about].pw} /\ Continues(r, Tail(todo), pw)
    BY <1>3, <2>1, <2>2
  <2> HIDE DEF pw
  <2> QED
    BY <1>1, <2>1, <2>3, OnCarries
<1>9. CASE SetTemp(r) \/ ChangeResets(r) \/ WriteSetting(r) \/ Patch(r)
  BY <1>4, <1>9 DEF SetTemp, ChangeResets, WriteSetting, Patch, Runs
<1>10. CASE Create(r)
  <2> DEFINE pw == IF req[r].on THEN 1 ELSE 0
  <2>1. CASE user[about].exists
    BY <1>2, <1>5, <1>10, <2>1 DEF Create, Runs, GivesUp
  <2>2. CASE ~ user[about].exists
    <3>1. /\ user' = [user EXCEPT ![about] = NewUser("USER", pw)]
          /\ Continues(r, Tail(todo), pw) /\ Head(todo) = "create"
      BY <1>10, <2>2 DEF Create, Runs
    <3>2. user'[about].pw = pw /\ pw \in Nat
      BY <1>2, <1>3, <3>1 DEF NewUser
    <3> HIDE DEF pw
    <3> QED
      BY <1>1, <3>1, <3>2, OnCarries
  <2> QED
    BY <2>1, <2>2
<1>11. CASE Provision(r)
  BY <1>4, <1>11 DEF Provision, Runs
<1>12. CASE RefuseProvision(r)
  BY <1>2, <1>5, <1>12 DEF RefuseProvision, Runs, GivesUp
<1>13. CASE ReadTarget(r)
  <2>1. /\ Head(todo) = "readTarget"
        /\ GoesTo(r, <<"count", "patch">>) \/ GoesTo(r, <<"patch">>)
    BY <1>13 DEF ReadTarget, Runs
  <2>2. GoodRest(todo, <<"patch">>) /\ GoodRest(todo, <<"count", "patch">>)
    BY <1>1, <2>1, ListsGood
  <2> QED
    BY <1>5, <2>1, <2>2
<1>14. CASE Count(r)
  <2>1. Head(todo) = "count" /\ (GoesOn(r) \/ GivesUp(r))
    BY <1>14 DEF Count, Runs
  <2> QED
    BY <1>2, <1>4, <1>5, <2>1 DEF GivesUp
<1>15. CASE BreaksOff(r)
  <2>1. /\ Continues(r, <<>>, req[r].cred)
        /\ kept' = kept \cup {about : k \in {j \in DOMAIN todo : todo[j] = "revoke"}}
    BY <1>15 DEF BreaksOff, GivesUp, GoesTo
  <2>2. Does(todo, "revoke") => about \in kept'
    BY <2>1 DEF Does
  <2>3. Carries(r, <<>>, req[r].cred)
    BY <1>2, <2>1, <2>2 DEF Carries
  <2> QED
    BY <2>3
<1>16. CASE EnsureBoot(r) \/ SetMode(r) \/ WriteCode(r) \/ CountFailure(r) \/ ClearCode(r)
  BY <1>4, <1>16 DEF EnsureBoot, SetMode, WriteCode, CountFailure, ClearCode, Runs
<1>17. CASE CheckCode(r)
  <2>1. Head(todo) = "checkCode" /\ (GoesTo(r, <<"writeCode">>) \/ GoesTo(r, <<>>))
    BY <1>17 DEF CheckCode, Runs
  <2>2. GoodRest(todo, <<"writeCode">>)
    BY <1>1, ListsGood
  <2> QED
    BY <1>2, <1>5, <2>1, <2>2
<1>18. CASE VerifyCode(r)
  <2>1. /\ Head(todo) = "verifyCode"
        /\ \/ GoesTo(r, <<"checkCode">>) \/ GoesTo(r, <<"countFailure">>)
           \/ GoesTo(r, <<"clearCode">> \o Tail(todo))
    BY <1>18 DEF VerifyCode, Runs
  <2>2. /\ GoodRest(todo, <<"checkCode">>) /\ GoodRest(todo, <<"countFailure">>)
        /\ GoodRest(todo, <<"clearCode">> \o Tail(todo))
    BY <1>1, <1>2, <2>1, ListsGood, ClearingGood
  <2> QED
    BY <1>5, <2>1, <2>2
<1>19. CASE ActivateBoot(r)
  <2>1. /\ user' = [user EXCEPT ![Boot] = NewUser("ADMIN", @.pw + 1)]
        /\ Continues(r, Tail(todo), user[Boot].pw + 1) /\ Head(todo) = "activateBoot"
    BY <1>19 DEF ActivateBoot, Runs
  <2>2. about = Boot
    BY <1>2, <2>1
  <2>3. user'[Boot].pw = user[Boot].pw + 1
    BY <1>3, <2>1 DEF NewUser
  <2> DEFINE pw == user[about].pw + 1
  <2>4. pw \in Nat /\ pw \in {req[r].cred, user'[about].pw} /\ Continues(r, Tail(todo), pw)
    BY <1>3, <2>1, <2>2, <2>3
  <2> HIDE DEF pw
  <2> QED
    BY <1>1, <2>1, <2>4, OnCarries
<1> QED
  BY <1>1, <1>6, <1>7, <1>8, <1>9, <1>10, <1>11, <1>12, <1>13, <1>14, <1>15, <1>16, <1>17, <1>18,
     <1>19 DEF Works, Run, SetsUp

LEMMA CarriedOn ==
  ASSUME AccountInv, NEW r \in Request, req[r].todo # <<>>, NEW rest, NEW cred,
         Carries(r, rest, cred)
  PROVE  /\ \A q \in Request : q # r => req'[q] = req[q]
         /\ req'[r].todo = rest
         /\ rest # <<>> => /\ req'[r].about = req[r].about /\ req'[r].change = req[r].change
                           /\ req'[r].on = req[r].on /\ req'[r].cred = cred
<1> DEFINE c == req[r]
           d == [c EXCEPT !.todo = rest, !.cred = cred]
<1>1. c \in Call /\ req \in [Request -> Call]
  BY DEF AccountInv, CallsOK
<1>2. req' = [req EXCEPT ![r] = IF rest = <<>> THEN Finished ELSE d]
  BY DEF Carries, Continues
<1>3. /\ d.todo = rest /\ d.about = c.about /\ d.change = c.change /\ d.on = c.on /\ d.cred = cred
  <2> HIDE DEF c
  <2> QED
    BY <1>1 DEF Call
<1> HIDE DEF d
<1> QED
  BY <1>1, <1>2, <1>3, UnusedCall

-----------------------------------------------------------------------------
(***************************************************************************)
(* What the plans of the requests rely on.                                 *)
(***************************************************************************)
PlanInv ==
  /\ mode => user[Boot].exists
  /\ \A u \in User : ~ user[u].exists => user[u].pw = 0
  /\ \A r \in Request :
       /\ Shaped(req[r].todo) /\ ModeNamed(req[r])
       /\ Does(req[r].todo, "activateBoot") => req[r].about = Boot
       /\ SetsPassword(req[r].todo) => user[req[r].about].exists

Acts(row) == row.exists /\ row.active
Administers(row) == Acts(row) /\ row.role = "ADMIN"

\* A statement of r gives u this row.
Edit(r, u, row) ==
  LET old == user[u] IN
    /\ row \in UserRow /\ user' = [user EXCEPT ![u] = row]
    /\ old.exists => row.exists
    /\ ~ row.exists => row.pw = 0
    /\ old.pw <= row.pw
    /\ row.pw = old.pw \/ old.pw = 0 \/ u \in kept'
       \/ (u = req[r].about /\ Head(req[r].todo) \in {"setPassword", "setTemp"})
    /\ grouped \/ (Administers(old) => Administers(row))
       \/ (Patch(r) /\ Checked(r) /\ u = req[r].about)
    /\ Acts(row) => Acts(old) \/ grouped \/ Administers(row) \/ NeedsAdmin(req[r].todo)
                    \/ ActiveUsers # {} \/ unled'

LEMMA WorkEdits ==
  ASSUME AccountInv, PlanInv, NEW r \in Request, Works(r)
  PROVE  UNCHANGED user \/ \E u \in User : \E row : Edit(r, u, row)
<1> DEFINE todo == req[r].todo
           u == req[r].about
           old == user[u]
<1>1. todo # <<>> /\ \E rest, cred : Carries(r, rest, cred)
  BY WorkCarries DEF PlanInv
<1>2. /\ u \in User /\ user \in [User -> UserRow] /\ old \in UserRow /\ req[r] \in Call
      /\ Boot \in User /\ user[Boot] \in UserRow /\ todo \in Seq(Statement)
  BY <1>1, Rest, AccountsAssumption DEF AccountInv, RowsOK
<1>3. /\ old.pw \in Nat /\ old.exists \in BOOLEAN /\ (~ old.exists => old.pw = 0)
      /\ user[Boot].pw \in Nat /\ (~ user[Boot].exists => user[Boot].pw = 0)
  BY <1>2 DEF UserRow, PlanInv
<1>4. Does(todo, Head(todo)) /\ (SetsPassword(todo) => old.exists)
  BY <1>1, <1>2, TailShaped DEF PlanInv
<1>5. \A role \in Roles, pw \in Nat :
        /\ NewUser(role, pw) \in UserRow /\ NewUser(role, pw).exists /\ NewUser(role, pw).pw = pw
        /\ NewUser(role, pw).role = role /\ NewUser(role, pw).active
  BY DEF NewUser, UserRow, Roles
<1>6. CASE SetPassword(r) \/ SetTemp(r)
  <2>1. PICK row \in UserRow :
          /\ user' = [user EXCEPT ![u] = row]
          /\ row.exists = old.exists /\ row.role = old.role /\ row.pw = old.pw + 1
          /\ row.active = old.active \/ (row.active /\ SetTemp(r))
    BY <1>6, PasswordSet
  <2>2. Head(todo) \in {"setPassword", "setTemp"} /\ (SetTemp(r) => Head(todo) = "setTemp")
    BY <1>6 DEF SetPassword, SetTemp, Runs
  <2>3. old.exists /\ (SetTemp(r) => NeedsAdmin(todo))
    BY <1>4, <2>2 DEF SetsPassword, NeedsAdmin
  <2>4. /\ row.exists /\ old.pw <= row.pw
        /\ Administers(old) => Administers(row)
        /\ Acts(row) => Acts(old) \/ NeedsAdmin(todo)
    BY <1>3, <2>1, <2>3 DEF Acts, Administers
  <2>5. Edit(r, u, row)
    BY <2>1, <2>2, <2>4 DEF Edit
  <2> QED
    BY <1>2, <2>5
<1>7. CASE Create(r)
  <2> DEFINE pw == IF req[r].on THEN 1 ELSE 0
             row == NewUser("USER", pw)
  <2>1. CASE user[u].exists
    BY <1>7, <2>1 DEF Create
  <2>2. CASE ~ user[u].exists
    <3>1. user' = [user EXCEPT ![u] = row] /\ Head(todo) = "create"
      BY <1>7, <2>2 DEF Create, Runs
    <3>2. row \in UserRow /\ row.exists /\ row.pw = pw /\ pw \in Nat
      BY <1>5 DEF Roles
    <3>3. NeedsAdmin(todo)
      BY <1>4, <3>1 DEF NeedsAdmin
    <3> HIDE DEF row, pw
    <3>4. Edit(r, u, row)
      BY <1>3, <2>2, <3>1, <3>2, <3>3 DEF Edit, Acts, Administers
    <3> QED
      BY <1>2, <3>4
  <2> QED
    BY <2>1, <2>2
<1>8. CASE Provision(r)
  <2>1. PICK role \in Roles :
          \/ /\ old.exists /\ (grouped \/ role = old.role)
             /\ user' = [user EXCEPT ![u].role = role]
          \/ /\ ~ old.exists
             /\ grouped \/ role = IF ActiveUsers = {} /\ firstAdmin THEN "ADMIN" ELSE "USER"
             /\ user' = [user EXCEPT ![u] = NewUser(role, 0)]
    BY <1>8 DEF Provision
  <2>4. ActiveUsers = {} /\ user'[u].role = "USER" => unled'
    BY <1>8 DEF Provision
  <2>2. CASE old.exists
    <3> DEFINE row == [old EXCEPT !.role = role]
    <3>1. /\ row \in UserRow /\ row.exists = old.exists /\ row.active = old.active
          /\ row.pw = old.pw /\ row.role = role
      <4> HIDE DEF old
      <4> QED
        BY <1>2 DEF UserRow
    <3>2. user' = [user EXCEPT ![u] = row]
      BY <1>2, <2>1, <2>2
    <3> HIDE DEF row
    <3>3. Edit(r, u, row)
      BY <1>3, <2>1, <2>2, <3>1, <3>2 DEF Edit, Acts, Administers
    <3> QED
      BY <1>2, <3>3
  <2>3. CASE ~ old.exists
    <3> DEFINE row == NewUser(role, 0)
    <3>1. user' = [user EXCEPT ![u] = row]
          /\ (grouped \/ role = IF ActiveUsers = {} /\ firstAdmin THEN "ADMIN" ELSE "USER")
      BY <2>1, <2>3
    <3>2. row \in UserRow /\ row.exists /\ row.pw = 0 /\ row.role = role /\ row.active
      BY <1>5
    <3> HIDE DEF row
    <3>3. ActiveUsers # {} \/ Administers(row) \/ unled'
      BY <1>2, <2>4, <3>1, <3>2 DEF Administers, Acts, Roles
    <3>4. Edit(r, u, row)
      BY <1>3, <2>3, <3>1, <3>2, <3>3 DEF Edit, Acts, Administers
    <3> QED
      BY <1>2, <3>4
  <2> QED
    BY <2>2, <2>3
<1>9. CASE Patch(r)
  <2> DEFINE row == Changed(old, req[r].change)
  <2>1. Head(todo) = "patch" /\ user' = [user EXCEPT ![u] = row]
    BY <1>2, <1>9 DEF Patch, Runs
  <2>2. req[r].change \in Change /\ NeedsAdmin(todo)
    <3>1. 1 \in DOMAIN todo /\ todo[1] = "patch"
      BY <1>1, <1>2, <2>1
    <3> QED
      BY <1>4, <2>1, <3>1 DEF NeedsAdmin, AccountInv, CallsOK, Knows, Fits
  <2>3. row \in UserRow /\ row.exists = old.exists /\ row.pw = old.pw
    <3> HIDE DEF old
    <3> QED
      BY <1>2, <2>2 DEF Changed, Change, UserRow, Roles
  <2>4. Administers(old) /\ ~ Administers(row) => Removes(req[r].change)
    <3> HIDE DEF old
    <3> QED
      BY <1>2, <2>2 DEF Changed, Change, UserRow, Roles, Removes, Administers, Acts
  <2> HIDE DEF row
  <2>5. (Administers(old) => Administers(row)) \/ Checked(r)
    BY <1>1, <2>1, <2>4 DEF Checked, Runs
  <2>6. Edit(r, u, row)
    BY <1>3, <1>9, <2>1, <2>2, <2>3, <2>5 DEF Edit
  <2> QED
    BY <1>2, <2>6
<1>10. CASE EnsureBoot(r)
  <2> DEFINE row == [exists |-> TRUE, active |-> FALSE, role |-> "ADMIN", must |-> TRUE, pw |-> 0]
  <2>1. UNCHANGED user \/ (~ user[Boot].exists /\ user' = [user EXCEPT ![Boot] = row])
    BY <1>10 DEF EnsureBoot
  <2>2. row \in UserRow /\ row.exists /\ row.pw = 0 /\ ~ row.active
    BY DEF UserRow, Roles
  <2> HIDE DEF row
  <2>3. ASSUME ~ user[Boot].exists, user' = [user EXCEPT ![Boot] = row]
        PROVE  Edit(r, Boot, row)
    BY <1>3, <2>2, <2>3 DEF Edit, Acts, Administers
  <2> QED
    BY <1>2, <2>1, <2>3
<1>11. CASE ActivateBoot(r)
  <2> DEFINE more == user[Boot].pw + 1
             row == NewUser("ADMIN", more)
  <2>1. more \in Nat /\ user[Boot].pw <= more
    BY <1>3
  <2>2. row \in UserRow /\ row.exists /\ row.pw = more /\ row.active /\ row.role = "ADMIN"
    BY <1>5, <2>1 DEF Roles
  <2>3. user' = [user EXCEPT ![Boot] = row] /\ (user[Boot].pw = 0 \/ Boot \in kept')
    BY <1>2, <1>11 DEF ActivateBoot
  <2> HIDE DEF row, more
  <2>4. Edit(r, Boot, row)
    BY <2>1, <2>2, <2>3 DEF Edit, Acts, Administers
  <2> QED
    BY <1>2, <2>4
<1>12. CASE \/ Issue(r) \/ Rotate(r) \/ Revoke(r) \/ RevokeFails(r) \/ ChangeResets(r)
            \/ RefuseProvision(r) \/ WriteSetting(r) \/ ReadTarget(r) \/ Count(r) \/ BreaksOff(r)
            \/ SetMode(r) \/ CheckCode(r) \/ WriteCode(r)
            \/ VerifyCode(r) \/ CountFailure(r) \/ ClearCode(r)
  BY <1>12 DEF Issue, Rotate, Revoke, RevokeFails, ChangeResets, RefuseProvision, WriteSetting,
               ReadTarget, Count, BreaksOff, SetMode, CheckCode, WriteCode, VerifyCode,
               CountFailure, ClearCode
<1> QED
  BY <1>6, <1>7, <1>8, <1>9, <1>10, <1>11, <1>12 DEF Works, Run, SetsUp

\* What a statement leaves alone.
LEMMA WorkSpares ==
  ASSUME NEW r \in Request, Works(r)
  PROVE  /\ UNCHANGED grouped /\ kept \subseteq kept'
         /\ UNCHANGED mode \/ SetMode(r)
         /\ UNCHANGED overlapped \/ Patch(r)
         /\ UNCHANGED registration \/ WriteSetting(r)
         /\ unled => unled'
         /\ UNCHANGED <<setups, raced>> \/ ActivateBoot(r)
         /\ UNCHANGED tokens \/ Issue(r) \/ Rotate(r) \/ Revoke(r)
<1>1. CASE Run(r) /\ UNCHANGED setupVars
  <2>1. UNCHANGED grouped /\ kept \subseteq kept' /\ UNCHANGED mode
    BY <1>1 DEF Run, Issue, Rotate, Revoke, RevokeFails, SetPassword, SetTemp, ChangeResets, Create,
                Provision, RefuseProvision, WriteSetting, ReadTarget, Count, Patch, BreaksOff,
                settings, history
  <2>2. UNCHANGED overlapped \/ Patch(r)
    BY <1>1 DEF Run, Issue, Rotate, Revoke, RevokeFails, SetPassword, SetTemp, ChangeResets, Create,
                Provision, RefuseProvision, WriteSetting, ReadTarget, Count, BreaksOff,
                settings, history
  <2>3. UNCHANGED tokens \/ Issue(r) \/ Rotate(r) \/ Revoke(r)
    BY <1>1 DEF Run, RevokeFails, SetPassword, SetTemp, ChangeResets, Create,
                Provision, RefuseProvision, WriteSetting, ReadTarget, Count, Patch, BreaksOff
  <2>4. UNCHANGED registration \/ WriteSetting(r)
    BY <1>1 DEF Run, Issue, Rotate, Revoke, RevokeFails, SetPassword, SetTemp, ChangeResets, Create,
                Provision, RefuseProvision, ReadTarget, Count, Patch, BreaksOff, settings
  <2>5. unled => unled'
    BY <1>1 DEF Run, Issue, Rotate, Revoke, RevokeFails, SetPassword, SetTemp, ChangeResets, Create,
                Provision, RefuseProvision, WriteSetting, ReadTarget, Count, Patch, BreaksOff, history
  <2> QED
    BY <1>1, <2>1, <2>2, <2>3, <2>4, <2>5 DEF setupVars
<1>2. CASE SetsUp(r)
  <2>1. UNCHANGED <<tokens, grouped, registration, overlapped, unled>> /\ kept \subseteq kept'
    BY <1>2 DEF SetsUp, EnsureBoot, SetMode, CheckCode, WriteCode, VerifyCode, CountFailure,
                ClearCode, ActivateBoot, settings, history
  <2>2. UNCHANGED mode \/ SetMode(r)
    BY <1>2 DEF SetsUp, EnsureBoot, CheckCode, WriteCode, VerifyCode, CountFailure,
                ClearCode, ActivateBoot, settings, history
  <2>3. UNCHANGED <<setups, raced>> \/ ActivateBoot(r)
    BY <1>2 DEF SetsUp, EnsureBoot, SetMode, CheckCode, WriteCode, VerifyCode, CountFailure,
                ClearCode, setupVars
  <2> QED
    BY <2>1, <2>2, <2>3
<1> QED
  BY <1>1, <1>2 DEF Works

\* A step of a request, of the provider, or one that none of this is about.
LEMMA Steps ==
  ASSUME AccountInv, mode => user[Boot].exists, [Next]_vars
  PROVE  \/ \E r \in Request : \E c : WellBegun(c) /\ Start(r, c) /\ UNCHANGED setupVars
         \/ \E r \in Request : Works(r)
         \/ \E i \in DOMAIN tokens, role \in Roles : FollowProvider(i, role) /\ UNCHANGED setupVars
         \/ UNCHANGED <<tokens, user, mode, grouped, registration, req, kept, overlapped, unled, setups,
                        raced>>
<1>1. ASSUME NEW r \in Request, Begin(r), UNCHANGED setupVars
      PROVE  \E c : WellBegun(c) /\ Start(r, c) /\ UNCHANGED setupVars
  BY <1>1, BeginWell
<1>2. ASSUME NEW r \in Request,
             \/ \E given \in {0, code.number} : FirstRegister(r, given)
             \/ \E on \in BOOLEAN :
                  Onboard(r, on) \/ \E i \in {0} \cup DOMAIN tokens : SwitchMode(r, i, on)
             \/ StartServer(r)
      PROVE  \E c : WellBegun(c) /\ Start(r, c) /\ UNCHANGED setupVars
  <2>1. UNCHANGED setupVars
    BY <1>2 DEF FirstRegister, Onboard, SwitchMode, StartServer
  <2> QED
    BY <1>2, <2>1, SetupBeginsWell
<1>3. CASE Expire \/ UNCHANGED vars
  BY <1>3 DEF Expire, vars, accountVars, setupVars, settings
<1>4. ASSUME NEW r \in Request, SetUp(r)
      PROVE  SetsUp(r) \/ \E c : WellBegun(c) /\ Start(r, c) /\ UNCHANGED setupVars
  BY <1>2, <1>4 DEF SetUp, SetsUp
<1>5. CASE Next
  BY <1>1, <1>3, <1>4, <1>5 DEF Next, Works
<1> QED
  BY <1>3, <1>5

LEMMA StartSets ==
  ASSUME AccountInv, NEW r \in Request, NEW c, Start(r, c)
  PROVE  /\ req'[r] = c /\ \A q \in Request : q # r => req'[q] = req[q]
         /\ UNCHANGED <<tokens, user, mode, grouped, registration, kept, overlapped, unled>>
         /\ req[r].todo = <<>>
BY UnusedCall DEF Start, AccountInv, CallsOK, settings, history

LEMMA PlanInit == Init => PlanInv
<1> SUFFICES ASSUME Init PROVE PlanInv
  OBVIOUS
<1> USE AccountsAssumption
<1>1. \A r \in Request : req[r] = Unused
  BY DEF Init, Common
<1>2. /\ Shaped(<<>>) /\ \A s : ~ Does(<<>>, s)
  BY DEF Shaped, PatchesAreChecked, ActivatesOnce, RevokesAfterwards, RevokesFirst, Does
<1>3. \A r \in Request :
        /\ Shaped(req[r].todo) /\ ModeNamed(req[r])
        /\ ~ Does(req[r].todo, "activateBoot") /\ ~ SetsPassword(req[r].todo)
  BY <1>1, <1>2, UnusedCall DEF ModeNamed, SetsPassword
<1>4. (mode => user[Boot].exists) /\ \A u \in User : ~ user[u].exists => user[u].pw = 0
  <2>1. CASE Fresh
    <3>1. PICK there \in BOOLEAN :
            /\ hybrid => there
            /\ user = [u \in User |->
                         IF u = Boot /\ there
                           THEN [exists |-> TRUE, active |-> FALSE, role |-> "ADMIN",
                                 must |-> TRUE, pw |-> 0]
                           ELSE Absent]
      BY <2>1 DEF Fresh
    <3>2. mode = hybrid
      BY <2>1 DEF Fresh
    <3> QED
      BY <3>1, <3>2 DEF Absent
  <2>2. CASE InUse
    <3>1. PICK other \in User \ {Boot}, role \in {"ADMIN", "USER"}, must \in BOOLEAN :
            user = [u \in User |->
                      IF u = Boot THEN NewUser("ADMIN", 1)
                      ELSE IF u = other THEN [NewUser(role, 1) EXCEPT !.must = must]
                      ELSE Absent]
      BY <2>2 DEF InUse
    <3> QED
      BY <3>1 DEF Absent, NewUser
  <2> QED
    BY <2>1, <2>2 DEF Init
<1> QED
  BY <1>3, <1>4 DEF PlanInv

LEMMA PlanKept ==
  ASSUME AccountInv, PlanInv, [Next]_vars
  PROVE  PlanInv'
<1> USE AccountsAssumption
<1>1. ASSUME \A u \in User : user[u].exists => user'[u].exists,
             NEW q \in Request, req'[q] = req[q],
             req[q].todo # <<>> => req[q].about \in User
      PROVE  /\ Shaped(req[q].todo)' /\ ModeNamed(req[q])'
             /\ Does(req[q].todo, "activateBoot")' => req'[q].about = Boot
             /\ SetsPassword(req[q].todo)' => user'[req'[q].about].exists
  <2>1. /\ Shaped(req'[q].todo)
        /\ Does(req'[q].todo, "activateBoot") => req'[q].about = Boot
    BY <1>1 DEF PlanInv
  <2>2. ModeNamed(req[q])'
    BY <1>1 DEF PlanInv, ModeNamed
  <2>3. SetsPassword(req[q].todo) => req[q].todo # <<>>
    BY DEF SetsPassword, Does
  <2>4. SetsPassword(req[q].todo)' => user'[req'[q].about].exists
    BY <1>1, <2>3 DEF PlanInv, SetsPassword, Does
  <2> QED
    BY <2>1, <2>2, <2>4 DEF Shaped, PatchesAreChecked, ActivatesOnce, RevokesAfterwards, RevokesFirst, Does
<1>2. \A q \in Request : req[q].todo # <<>> => req[q].about \in User
  BY DEF AccountInv, CallsOK, Knows
<1>3. ASSUME NEW r \in Request, NEW c, WellBegun(c), Start(r, c), UNCHANGED setupVars
      PROVE  PlanInv'
  <2>1. /\ req'[r] = c /\ \A q \in Request : q # r => req'[q] = req[q]
        /\ UNCHANGED <<tokens, user, mode, grouped, registration, kept, overlapped, unled>>
    BY <1>3, StartSets
  <2>2. /\ Shaped(req[r].todo)' /\ ModeNamed(req[r])'
        /\ Does(req[r].todo, "activateBoot")' => req'[r].about = Boot
        /\ SetsPassword(req[r].todo)' => user'[req'[r].about].exists
    <3>1. ModeNamed(req[r])'
      BY <1>3, <2>1 DEF WellBegun, ModeNamed
    <3> QED
      BY <1>3, <2>1, <3>1 DEF WellBegun, Shaped, PatchesAreChecked, ActivatesOnce,
         RevokesAfterwards, RevokesFirst, SetsPassword, Does
  <2>3. \A q \in Request : q # r =>
          /\ Shaped(req[q].todo)' /\ ModeNamed(req[q])'
          /\ Does(req[q].todo, "activateBoot")' => req'[q].about = Boot
          /\ SetsPassword(req[q].todo)' => user'[req'[q].about].exists
    BY <1>1, <1>2, <2>1
  <2> QED
    BY <2>1, <2>2, <2>3 DEF PlanInv
<1>4. ASSUME NEW r \in Request, Works(r) PROVE PlanInv'
  <2> DEFINE todo == req[r].todo
  <2>1. PICK rest, cred : todo # <<>> /\ Carries(r, rest, cred)
    BY <1>4, WorkCarries DEF PlanInv
  <2>2. /\ \A q \in Request : q # r => req'[q] = req[q]
        /\ req'[r].todo = rest
        /\ rest # <<>> => req'[r].about = req[r].about /\ req'[r].on = req[r].on
    BY <2>1, CarriedOn
  <2>3. /\ \A u \in User : user[u].exists => user'[u].exists
        /\ \A u \in User : ~ user'[u].exists => user'[u].pw = 0
    <3>1. CASE UNCHANGED user
      BY <3>1 DEF PlanInv
    <3>2. ASSUME NEW u \in User, NEW row, Edit(r, u, row)
          PROVE  /\ \A v \in User : user[v].exists => user'[v].exists
                 /\ \A v \in User : ~ user'[v].exists => user'[v].pw = 0
      <4>1. /\ user' = [user EXCEPT ![u] = row] /\ user \in [User -> UserRow]
            /\ user[u].exists => row.exists
            /\ ~ row.exists => row.pw = 0
        BY <3>2 DEF Edit, AccountInv, RowsOK
      <4> QED
        BY <4>1 DEF PlanInv
    <3> QED
      BY <1>4, <3>1, <3>2, WorkEdits
  <2>4. (mode => user[Boot].exists)'
    <3>1. CASE UNCHANGED mode
      BY <2>3, <3>1 DEF PlanInv
    <3>2. CASE SetMode(r)
      <4>1. Head(todo) = "setMode" /\ mode' = req[r].on /\ UNCHANGED user
        BY <3>2 DEF SetMode, Runs
      <4>2. 1 \in DOMAIN todo /\ todo[1] = "setMode"
        BY <2>1, <4>1, Rest
      <4>3. ModeNamed(req[r])
        BY DEF PlanInv
      <4>4. req[r].on => user[Boot].exists
        BY <4>2, <4>3 DEF ModeNamed
      <4> QED
        BY <4>1, <4>4
    <3> QED
      BY <1>4, <3>1, <3>2, WorkSpares
  <2>5. GoodRest(todo, rest)
    BY <2>1 DEF Carries
  <2>6. ModeNamed(req[r])'
    <3> SUFFICES ASSUME NEW k \in DOMAIN rest, rest[k] = "setMode", req[r].on, ~ SoonNamed(rest, k)
                 PROVE  user'[Boot].exists
      <4>1. \A k \in DOMAIN rest : rest # <<>>
        OBVIOUS
      <4>2. /\ req'[r].todo = rest
            /\ \A k \in DOMAIN rest : req'[r].on = req[r].on
        BY <2>2, <4>1
      <4> QED
        BY <4>2 DEF ModeNamed, SoonNamed
    <3>1. CASE Head(todo) = "ensureBoot"
      <4>1. EnsureBoot(r) \/ BreaksOff(r)
        BY <1>4, <3>1 DEF Works, Run, SetsUp, Issue, Rotate, Revoke, RevokeFails, SetPassword,
             SetTemp, ChangeResets, Create, Provision, RefuseProvision, WriteSetting, ReadTarget,
             Count, Patch, SetMode, CheckCode, WriteCode, VerifyCode, CountFailure,
             ClearCode, ActivateBoot, Runs
      <4>2. CASE EnsureBoot(r)
        <5>1. Boot \in User /\ user \in [User -> UserRow]
          BY DEF AccountInv, RowsOK
        <5> QED
          BY <4>2, <5>1 DEF EnsureBoot
      <4>3. CASE BreaksOff(r)
        <5>1. req' = [req EXCEPT ![r] = Finished]
          BY <4>3 DEF BreaksOff, GivesUp, GoesTo, Continues
        <5>2. rest = <<>>
          BY <2>2, <5>1, UnusedCall DEF AccountInv, CallsOK
        <5> QED
          BY <5>2
      <4> QED
        BY <4>1, <4>2, <4>3
    <3>2. ASSUME NEW j \in DOMAIN todo, todo[j] = "setMode", ~ SoonNamed(todo, j)
          PROVE  user'[Boot].exists
      BY <2>3, <3>2 DEF PlanInv, ModeNamed, SoonNamed
    <3> QED
      BY <2>5, <3>1, <3>2 DEF GoodRest
  <2>7. /\ Shaped(rest)
        /\ \A s \in {"activateBoot", "setPassword", "setTemp"} : Does(rest, s) => Does(todo, s)
    BY <2>5 DEF GoodRest
  <2>8. \A s : Does(rest, s) => rest # <<>>
    BY DEF Does
  <2>9. /\ Shaped(req'[r].todo)
        /\ Does(req'[r].todo, "activateBoot") => req'[r].about = Boot
        /\ SetsPassword(req'[r].todo) => user'[req'[r].about].exists
    <3>1. SetsPassword(rest) => SetsPassword(todo) /\ rest # <<>> /\ todo # <<>>
      BY <2>1, <2>7, <2>8 DEF SetsPassword
    <3> QED
      BY <1>2, <2>2, <2>3, <2>7, <2>8, <3>1 DEF PlanInv
  <2>10. \A q \in Request : q # r =>
           /\ Shaped(req[q].todo)' /\ ModeNamed(req[q])'
           /\ Does(req[q].todo, "activateBoot")' => req'[q].about = Boot
           /\ SetsPassword(req[q].todo)' => user'[req'[q].about].exists
    BY <1>1, <1>2, <2>2, <2>3
  <2>11. /\ Shaped(req[r].todo)'
         /\ Does(req[r].todo, "activateBoot")' => req'[r].about = Boot
         /\ SetsPassword(req[r].todo)' => user'[req'[r].about].exists
    BY <2>9 DEF Shaped, PatchesAreChecked, ActivatesOnce, RevokesAfterwards, RevokesFirst,
                SetsPassword, Does
  <2> QED
    BY <2>3, <2>4, <2>6, <2>10, <2>11 DEF PlanInv
<1>5. ASSUME NEW i \in DOMAIN tokens, NEW role \in Roles, FollowProvider(i, role)
      PROVE  PlanInv'
  <2> DEFINE u == Holder(i)
  <2>1. u \in User /\ user[u] \in UserRow /\ user \in [User -> UserRow]
    BY TheHolder DEF AccountInv, RowsOK
  <2>2. /\ user' = [user EXCEPT ![u].role = role] /\ UNCHANGED <<req, mode>>
    BY <1>5 DEF FollowProvider, settings
  <2>3. \A v \in User : user'[v].exists = user[v].exists /\ user'[v].pw = user[v].pw
    <3> HIDE DEF u
    <3> QED
      BY <2>1, <2>2 DEF UserRow
  <2>4. \A q \in Request :
          /\ Shaped(req[q].todo)' /\ ModeNamed(req[q])'
          /\ Does(req[q].todo, "activateBoot")' => req'[q].about = Boot
          /\ SetsPassword(req[q].todo)' => user'[req'[q].about].exists
    BY <1>1, <1>2, <2>2, <2>3
  <2> QED
    BY <2>2, <2>3, <2>4 DEF PlanInv
<1>6. CASE UNCHANGED <<tokens, user, mode, grouped, registration, req, kept, overlapped, unled, setups, raced>>
  <2>1. \A q \in Request :
          /\ Shaped(req[q].todo)' /\ ModeNamed(req[q])'
          /\ Does(req[q].todo, "activateBoot")' => req'[q].about = Boot
          /\ SetsPassword(req[q].todo)' => user'[req'[q].about].exists
    BY <1>1, <1>2, <1>6
  <2> QED
    BY <1>6, <2>1 DEF PlanInv
<1> QED
  BY <1>3, <1>4, <1>5, <1>6, Steps DEF PlanInv

LEMMA PlanInvariance == Spec => [](AccountInv /\ PlanInv)
<1>1. Init => PlanInv
  BY PlanInit
<1>2. AccountInv /\ PlanInv /\ [Next]_vars => PlanInv'
  BY PlanKept
<1> QED
  BY <1>1, <1>2, AccountInvariance, PTL DEF Spec

-----------------------------------------------------------------------------
(***************************************************************************)
(* There is an administrator as long as somebody is active, unless the     *)
(* single sign-on began without one; in any case there is one when the     *)
(* registration has been opened, one for every request that only an        *)
(* administrator makes, and another one wherever the removal of one is as  *)
(* good as done.  The first registration is either still to come or over.  *)
(***************************************************************************)
AdminInv ==
  ~ overlapped /\ ~ grouped =>
    /\ ActiveUsers # {} /\ ~ unled => ActiveAdmins # {}
    /\ registration => ActiveAdmins # {}
    /\ \A r \in Request :
         /\ NeedsAdmin(req[r].todo) => ActiveAdmins # {}
         /\ Checked(r) => \E a \in ActiveAdmins : a # req[r].about

SetupInv ==
  ~ raced /\ ~ overlapped /\ ~ grouped =>
    \/ setups = 0
    \/ setups = 1 /\ ActiveAdmins # {} /\ \A r \in Request : ~ SettingUp(r)

LEMMA AdminInit == Init => AdminInv /\ SetupInv
<1> SUFFICES ASSUME Init PROVE AdminInv /\ SetupInv
  OBVIOUS
<1> USE AccountsAssumption
<1>1. \A r \in Request : req[r] = Unused
  BY DEF Init, Common
<1>2. \A r \in Request : ~ NeedsAdmin(req[r].todo) /\ ~ Checked(r) /\ ~ SettingUp(r)
  BY <1>1, UnusedCall DEF NeedsAdmin, Does, Checked, Runs, SettingUp
<1>3. CASE Fresh
  <2>1. PICK there \in BOOLEAN :
          user = [u \in User |->
                    IF u = Boot /\ there
                      THEN [exists |-> TRUE, active |-> FALSE, role |-> "ADMIN",
                            must |-> TRUE, pw |-> 0]
                      ELSE Absent]
    BY <1>3 DEF Fresh
  <2>2. ActiveUsers = {}
    BY <2>1 DEF ActiveUsers, Active, Absent
  <2>3. setups = 0 /\ ~ registration
    BY <1>3 DEF Fresh
  <2> QED
    BY <1>2, <2>2, <2>3 DEF AdminInv, SetupInv
<1>4. CASE InUse
  <2>1. user[Boot] = NewUser("ADMIN", 1) /\ setups = 1
    BY <1>4 DEF InUse
  <2>2. Boot \in ActiveAdmins
    BY <2>1 DEF ActiveAdmins, IsAdmin, Active, NewUser
  <2> QED
    BY <1>2, <2>1, <2>2 DEF AdminInv, SetupInv
<1> QED
  BY <1>3, <1>4 DEF Init

LEMMA StartKeepsAdmins ==
  ASSUME AccountInv, PlanInv, AdminInv, SetupInv, NEW r \in Request, NEW c,
         WellBegun(c), Start(r, c), UNCHANGED setupVars
  PROVE  AdminInv' /\ SetupInv'
<1>1. /\ req'[r] = c /\ \A q \in Request : q # r => req'[q] = req[q]
      /\ UNCHANGED <<tokens, user, mode, grouped, registration, kept, overlapped, unled>>
  BY StartSets
<1>2. UNCHANGED <<setups, raced>>
  BY DEF setupVars
<1>3. ActiveAdmins' = ActiveAdmins /\ ActiveUsers' = ActiveUsers /\ ActiveAdmins \subseteq ActiveUsers
  BY <1>1 DEF ActiveAdmins, ActiveUsers, IsAdmin, Active
<1>4. c.todo \in Seq(Statement) /\ c.todo # <<>> /\ c.todo[1] # "patch"
  BY DEF WellBegun, Call
<1>5. Head(c.todo) # "patch"
  <2> DEFINE todo == c.todo
  <2>1. todo \in Seq(Statement) /\ todo # <<>> /\ todo[1] # "patch"
    BY <1>4
  <2> HIDE DEF todo
  <2>2. Head(todo) # "patch"
    BY <2>1
  <2> QED
    BY <2>2 DEF todo
<1>6. ~ Checked(r)'
  BY <1>1, <1>5 DEF Checked, Runs
<1>7. \A q \in Request : q # r =>
        /\ Checked(q)' <=> Checked(q)
        /\ NeedsAdmin(req[q].todo)' <=> NeedsAdmin(req[q].todo)
        /\ SettingUp(q)' <=> SettingUp(q)
  BY <1>1 DEF Checked, Runs, NeedsAdmin, Does, SettingUp
<1>8. NeedsAdmin(req[r].todo)' => ActiveAdmins # {} \/ registration
  BY <1>1 DEF WellBegun, NeedsAdmin, Does
<1>9. SettingUp(r)' => ActiveUsers = {}
  BY <1>1 DEF SettingUp, WellBegun, Does
<1>10. AdminInv'
  <2> SUFFICES ASSUME ~ overlapped, ~ grouped
               PROVE  /\ ActiveUsers' # {} /\ ~ unled' => ActiveAdmins' # {}
                      /\ registration' => ActiveAdmins' # {}
                      /\ \A q \in Request :
                           /\ NeedsAdmin(req[q].todo)' => ActiveAdmins' # {}
                           /\ Checked(q)' => \E a \in ActiveAdmins' : a # req'[q].about
    BY <1>1 DEF AdminInv, NeedsAdmin, Does
  <2> QED
    BY <1>1, <1>3, <1>6, <1>7, <1>8 DEF AdminInv
<1>11. SetupInv'
  BY <1>1, <1>2, <1>3, <1>7, <1>9 DEF SetupInv
<1> QED
  BY <1>10, <1>11

\* A statement takes no administrator away, except the update whose check is over.
LEMMA AdminsStay ==
  ASSUME AccountInv, PlanInv, AdminInv, NEW r \in Request, Works(r), ~ overlapped', ~ grouped'
  PROVE  /\ ~ overlapped /\ ~ grouped
         /\ \/ ActiveAdmins \subseteq ActiveAdmins'
            \/ /\ Checked(r) /\ \A a \in ActiveAdmins : a # req[r].about => a \in ActiveAdmins'
               /\ \A q \in Request : q # r => ~ Checked(q)
         /\ ActiveAdmins # {} => ActiveAdmins' # {}
         /\ ActiveUsers' # {} /\ ~ unled' => ActiveAdmins' # {}
<1>1. /\ ~ overlapped /\ ~ grouped /\ (unled => unled')
      /\ Patch(r) /\ Checked(r) /\ IsAdmin(req[r].about) => \A q \in Request : q # r => ~ Checked(q)
  BY WorkSpares DEF Patch
<1>2. user \in [User -> UserRow]
  BY DEF AccountInv, RowsOK
<1>3. /\ \A v \in User : v \in ActiveAdmins <=> Administers(user[v])
      /\ \A v \in User : v \in ActiveAdmins' <=> Administers(user'[v])
      /\ \A v \in User : v \in ActiveUsers <=> Acts(user[v])
      /\ \A v \in User : v \in ActiveUsers' <=> Acts(user'[v])
      /\ ActiveAdmins \subseteq User /\ ActiveUsers' \subseteq User
  BY DEF ActiveAdmins, ActiveUsers, IsAdmin, Active, Administers, Acts
<1>4. CASE UNCHANGED user
  <2>1. ActiveAdmins' = ActiveAdmins /\ ActiveUsers' = ActiveUsers
    BY <1>4 DEF ActiveAdmins, ActiveUsers, IsAdmin, Active
  <2> QED
    BY <1>1, <2>1 DEF AdminInv
<1>5. ASSUME NEW u \in User, NEW row, Edit(r, u, row)
      PROVE  /\ \/ ActiveAdmins \subseteq ActiveAdmins'
                \/ /\ Checked(r)
                   /\ \A a \in ActiveAdmins : a # req[r].about => a \in ActiveAdmins'
                   /\ \A q \in Request : q # r => ~ Checked(q)
             /\ ActiveAdmins # {} => ActiveAdmins' # {}
             /\ ActiveUsers' # {} /\ ~ unled' => ActiveAdmins' # {}
  <2>1. /\ user' = [user EXCEPT ![u] = row]
        /\ (Administers(user[u]) => Administers(row))
           \/ (Patch(r) /\ Checked(r) /\ u = req[r].about)
        /\ Acts(row) => Acts(user[u]) \/ Administers(row) \/ NeedsAdmin(req[r].todo)
                        \/ ActiveUsers # {} \/ unled'
    BY <1>1, <1>5 DEF Edit
  <2>2. user'[u] = row /\ \A v \in User : v # u => user'[v] = user[v]
    BY <1>2, <2>1
  <2>3. \/ ActiveAdmins \subseteq ActiveAdmins'
        \/ /\ Checked(r)
           /\ \A a \in ActiveAdmins : a # req[r].about => a \in ActiveAdmins'
           /\ \A q \in Request : q # r => ~ Checked(q)
    <3>1. CASE Administers(user[u]) => Administers(row)
      BY <1>3, <2>2, <3>1
    <3>2. CASE Patch(r) /\ Checked(r) /\ u = req[r].about /\ Administers(user[u])
      <4>1. \A q \in Request : q # r => ~ Checked(q)
        BY <1>1, <1>3, <3>2 DEF ActiveAdmins
      <4>2. \A a \in ActiveAdmins : a # req[r].about => a \in ActiveAdmins'
        BY <1>3, <2>2, <3>2
      <4> QED
        BY <3>2, <4>1, <4>2
    <3> QED
      BY <2>1, <3>1, <3>2
  <2>4. ActiveAdmins # {} => ActiveAdmins' # {}
    BY <1>1, <2>3 DEF AdminInv
  <2>5. ActiveUsers' # {} /\ ~ unled' => ActiveAdmins' # {}
    <3> SUFFICES ASSUME NEW v \in ActiveUsers', ~ unled' PROVE ActiveAdmins' # {}
      OBVIOUS
    <3>1. v \in User /\ Acts(user'[v])
      BY <1>3
    <3>2. ActiveUsers # {} \/ NeedsAdmin(req[r].todo) \/ v \in ActiveAdmins'
      BY <1>3, <2>1, <2>2, <3>1
    <3> QED
      BY <1>1, <2>4, <3>2 DEF AdminInv
  <2> QED
    BY <2>3, <2>4, <2>5
<1> QED
  BY <1>1, <1>4, <1>5, WorkEdits

\* A removal is only about to happen when the check found another administrator.
LEMMA ChecksFindAnother ==
  ASSUME AccountInv, PlanInv, AdminInv, NEW r \in Request, Works(r), ~ overlapped, ~ grouped,
         Checked(r)'
  PROVE  \E a \in ActiveAdmins' : a # req'[r].about
<1> DEFINE todo == req[r].todo
           u == req[r].about
<1>1. PICK rest, cred : todo # <<>> /\ Carries(r, rest, cred)
  BY WorkCarries DEF PlanInv
<1>2. /\ req'[r].todo = rest
      /\ rest # <<>> => req'[r].about = u /\ req'[r].change = req[r].change
  BY <1>1, CarriedOn
<1>3. rest # <<>> /\ Head(rest) = "patch" /\ Removes(req[r].change)
  BY <1>2 DEF Checked, Runs
<1>4. GoodRest(todo, rest) /\ todo \in Seq(Statement)
  BY <1>1, Rest DEF Carries
<1>5. rest[1] = "patch"
  BY <1>3, <1>4 DEF GoodRest
<1>6. Head(todo) \in {"readTarget", "count"}
  BY <1>3, <1>4, <1>5 DEF GoodRest
<1>7. ActiveAdmins # {}
  <2>1. Does(todo, Head(todo))
    BY <1>1, <1>4, TailShaped DEF PlanInv
  <2>2. NeedsAdmin(todo)
    BY <1>6, <2>1 DEF NeedsAdmin
  <2> QED
    BY <2>2 DEF AdminInv
<1>8. \A x : Continues(r, <<>>, x) => FALSE
  <2> SUFFICES ASSUME NEW x, Continues(r, <<>>, x) PROVE FALSE
    OBVIOUS
  <2>1. req' = [req EXCEPT ![r] = Finished]
    BY DEF Continues
  <2>2. req'[r].todo = <<>>
    BY <2>1, UnusedCall DEF AccountInv, CallsOK
  <2> QED
    BY <1>2, <1>3, <2>2
<1>9. ReadTarget(r) \/ Count(r) \/ BreaksOff(r)
  BY <1>6 DEF Works, Run, SetsUp, Issue, Rotate, Revoke, RevokeFails, SetPassword,
       SetTemp, ChangeResets, Create, Provision, RefuseProvision, WriteSetting,
       Patch, EnsureBoot, SetMode, CheckCode, WriteCode, VerifyCode, CountFailure,
       ClearCode, ActivateBoot, Runs
<1>10. CASE ReadTarget(r)
  <2>1. UNCHANGED user
    BY <1>10 DEF ReadTarget
  <2>2. ~ IsAdmin(u)
    <3> SUFFICES ASSUME IsAdmin(u) PROVE FALSE
      OBVIOUS
    <3>1. GoesTo(r, <<"count", "patch">>)
      BY <1>3, <1>10 DEF ReadTarget
    <3>2. req' = [req EXCEPT ![r] = [req[r] EXCEPT !.todo = <<"count", "patch">>, !.cred = req[r].cred]]
      BY <3>1 DEF GoesTo, Continues
    <3>3. req'[r].todo = <<"count", "patch">>
      BY <3>2 DEF AccountInv, CallsOK, Call
    <3> QED
      BY <1>2, <1>3, <3>3
  <2>3. ActiveAdmins' = ActiveAdmins /\ u \notin ActiveAdmins
    BY <2>1, <2>2 DEF ActiveAdmins, IsAdmin, Active
  <2> QED
    BY <1>2, <1>3, <1>7, <2>3
<1>11. CASE Count(r)
  <2>1. UNCHANGED user
    BY <1>11 DEF Count
  <2>2. \E a, b \in ActiveAdmins : a # b
    BY <1>8, <1>11 DEF Count, GivesUp, GoesTo
  <2>3. ActiveAdmins' = ActiveAdmins
    BY <2>1 DEF ActiveAdmins, IsAdmin, Active
  <2> QED
    BY <1>2, <1>3, <2>2, <2>3
<1>12. CASE BreaksOff(r)
  BY <1>8, <1>12 DEF BreaksOff, GivesUp, GoesTo
<1> QED
  BY <1>9, <1>10, <1>11, <1>12

LEMMA WorkKeepsAdmins ==
  ASSUME AccountInv, PlanInv, AdminInv, NEW r \in Request, Works(r)
  PROVE  AdminInv'
<1> DEFINE todo == req[r].todo
<1>1. PICK rest, cred : todo # <<>> /\ Carries(r, rest, cred)
  BY WorkCarries DEF PlanInv
<1>2. /\ \A q \in Request : q # r => req'[q] = req[q]
      /\ req'[r].todo = rest
  BY <1>1, CarriedOn
<1> SUFFICES ASSUME ~ overlapped', ~ grouped'
             PROVE  /\ ActiveUsers' # {} /\ ~ unled' => ActiveAdmins' # {}
                    /\ registration' => ActiveAdmins' # {}
                    /\ \A q \in Request :
                         /\ NeedsAdmin(req'[q].todo) => ActiveAdmins' # {}
                         /\ Checked(q)' => \E a \in ActiveAdmins' : a # req'[q].about
  BY DEF AdminInv, NeedsAdmin, Does
<1>3. /\ ~ overlapped /\ ~ grouped
      /\ \/ ActiveAdmins \subseteq ActiveAdmins'
         \/ /\ Checked(r) /\ \A a \in ActiveAdmins : a # req[r].about => a \in ActiveAdmins'
            /\ \A q \in Request : q # r => ~ Checked(q)
      /\ ActiveAdmins # {} => ActiveAdmins' # {}
      /\ ActiveUsers' # {} /\ ~ unled' => ActiveAdmins' # {}
  BY AdminsStay
<1>4. NeedsAdmin(rest) => NeedsAdmin(todo)
  <2>1. Does(todo, Head(todo)) /\ GoodRest(todo, rest)
    BY <1>1, Rest, TailShaped DEF PlanInv, Carries
  <2> QED
    BY <2>1 DEF NeedsAdmin, GoodRest
<1>5. \A q \in Request : NeedsAdmin(req'[q].todo) => ActiveAdmins' # {}
  <2> TAKE q \in Request
  <2>1. CASE q = r
    BY <1>2, <1>3, <1>4, <2>1 DEF AdminInv
  <2>2. CASE q # r
    BY <1>2, <1>3, <2>2 DEF AdminInv
  <2> QED
    BY <2>1, <2>2
<1>6. ASSUME NEW q \in Request, Checked(q)' PROVE \E a \in ActiveAdmins' : a # req'[q].about
  <2>1. CASE q = r
    BY <1>3, <1>6, <2>1, ChecksFindAnother
  <2>2. CASE q # r
    <3>1. Checked(q) /\ req'[q] = req[q]
      BY <1>2, <1>6, <2>2 DEF Checked, Runs
    <3> QED
      BY <1>3, <2>2, <3>1 DEF AdminInv
  <2> QED
    BY <2>1, <2>2
<1>7. registration' => ActiveAdmins' # {}
  <2>1. CASE UNCHANGED registration
    BY <1>3, <2>1 DEF AdminInv
  <2>2. CASE Runs(r, "setRegistration")
    <3>1. NeedsAdmin(todo)
      BY <1>1, <2>2, Rest, TailShaped DEF PlanInv, NeedsAdmin, Runs
    <3> QED
      BY <1>3, <3>1 DEF AdminInv
  <2> QED
    BY <2>1, <2>2, WorkSpares DEF WriteSetting
<1> QED
  BY <1>3, <1>5, <1>6, <1>7

LEMMA WorkKeepsSetup ==
  ASSUME AccountInv, PlanInv, AdminInv, SetupInv, NEW r \in Request, Works(r)
  PROVE  SetupInv'
<1> USE AccountsAssumption
<1> DEFINE todo == req[r].todo
<1>1. PICK rest, cred : todo # <<>> /\ Carries(r, rest, cred)
  BY WorkCarries DEF PlanInv
<1>2. /\ \A q \in Request : q # r => req'[q] = req[q]
      /\ req'[r].todo = rest
  BY <1>1, CarriedOn
<1> SUFFICES ASSUME ~ raced', ~ overlapped', ~ grouped'
             PROVE  \/ setups' = 0
                    \/ /\ setups' = 1 /\ ActiveAdmins' # {}
                       /\ \A q \in Request : ~ SettingUp(q)'
  BY DEF SetupInv
<1>3. ~ overlapped /\ ~ grouped /\ (ActiveAdmins # {} => ActiveAdmins' # {})
  BY AdminsStay
<1>4. ~ raced
  BY WorkSpares DEF ActivateBoot
<1>5. \A q \in Request : q # r => (SettingUp(q)' <=> SettingUp(q))
  BY <1>2 DEF SettingUp
<1>6. CASE UNCHANGED <<setups, raced>>
  <2>1. SettingUp(r)' => SettingUp(r)
    <3>1. Does(rest, "activateBoot") => Does(todo, "activateBoot")
      BY <1>1 DEF Carries, GoodRest
    <3> QED
      BY <1>2, <3>1 DEF SettingUp, Does
  <2> QED
    BY <1>3, <1>4, <1>5, <1>6, <2>1 DEF SetupInv
<1>7. CASE ActivateBoot(r)
  <2>1. /\ Head(todo) = "activateBoot" /\ setups' = setups + 1
        /\ user' = [user EXCEPT ![Boot] = NewUser("ADMIN", @.pw + 1)]
        /\ \A q \in Request : q # r => ~ SettingUp(q)
    BY <1>7 DEF ActivateBoot, Runs
  <2>2. todo \in Seq(Statement) /\ ActivatesOnce(todo)
    BY <1>1, Rest DEF PlanInv, Shaped
  <2>3. 1 \in DOMAIN todo /\ todo[1] = "activateBoot"
    BY <1>1, <2>1, <2>2
  <2>4. setups = 0
    BY <1>3, <1>4, <2>3 DEF SetupInv, SettingUp
  <2>5. Boot \in ActiveAdmins'
    <3>1. user'[Boot] = NewUser("ADMIN", user[Boot].pw + 1)
      BY <2>1 DEF AccountInv, RowsOK
    <3> QED
      BY <3>1 DEF ActiveAdmins, IsAdmin, Active, NewUser
  <2>6. rest = Tail(todo) \/ rest = <<>>
    <3>1. req' = [req EXCEPT ![r] = IF Tail(todo) = <<>> THEN Finished
                                    ELSE [req[r] EXCEPT !.todo = Tail(todo), !.cred = user[Boot].pw + 1]]
      BY <1>7 DEF ActivateBoot, Continues
    <3>2. CASE Tail(todo) = <<>>
      BY <1>2, <3>1, <3>2, UnusedCall DEF AccountInv, CallsOK
    <3>3. CASE Tail(todo) # <<>>
      <4> DEFINE t == Tail(todo)
                 x == user[Boot].pw + 1
      <4>1. req' = [req EXCEPT ![r] = [req[r] EXCEPT !.todo = t, !.cred = x]]
        BY <3>1, <3>3
      <4> HIDE DEF t, x
      <4>2. req'[r].todo = t
        BY <4>1 DEF AccountInv, CallsOK, Call
      <4> QED
        BY <1>2, <4>2 DEF t
    <3> QED
      BY <3>2, <3>3
  <2>7. ~ Does(Tail(todo), "activateBoot") /\ ~ Does(<<>>, "activateBoot")
    <3> HIDE DEF todo
    <3>1. /\ \A k \in DOMAIN Tail(todo) : /\ k + 1 \in DOMAIN todo /\ Tail(todo)[k] = todo[k + 1]
                                          /\ k + 1 # 1
      BY <1>1, <2>2
    <3> QED
      BY <2>2, <2>3, <3>1 DEF Does, ActivatesOnce
  <2>8. ~ SettingUp(r)'
    BY <1>2, <2>6, <2>7 DEF SettingUp, Does
  <2> QED
    BY <1>5, <2>1, <2>4, <2>5, <2>8
<1> QED
  BY <1>6, <1>7, WorkSpares

LEMMA AdminInvariance == Spec => [](AccountInv /\ PlanInv /\ AdminInv /\ SetupInv)
<1>1. AccountInv /\ PlanInv /\ AdminInv /\ SetupInv /\ [Next]_vars => AdminInv' /\ SetupInv'
  <2> SUFFICES ASSUME AccountInv, PlanInv, AdminInv, SetupInv, [Next]_vars
               PROVE  AdminInv' /\ SetupInv'
    OBVIOUS
  <2>1. ASSUME NEW r \in Request, NEW c, WellBegun(c), Start(r, c), UNCHANGED setupVars
        PROVE  AdminInv' /\ SetupInv'
    BY <2>1, StartKeepsAdmins
  <2>2. ASSUME NEW r \in Request, Works(r) PROVE AdminInv' /\ SetupInv'
    BY <2>2, WorkKeepsAdmins, WorkKeepsSetup
  <2>3. ASSUME NEW i \in DOMAIN tokens, NEW role \in Roles, FollowProvider(i, role)
        PROVE  AdminInv' /\ SetupInv'
    BY <2>3 DEF FollowProvider, settings, AdminInv, SetupInv
  <2>4. CASE UNCHANGED <<tokens, user, mode, grouped, registration, req, kept, overlapped, unled,
                         setups, raced>>
    BY <2>4 DEF AdminInv, SetupInv, ActiveAdmins, ActiveUsers, IsAdmin, Active, NeedsAdmin, Does,
                Checked, Runs, SettingUp
  <2> QED
    BY <2>1, <2>2, <2>3, <2>4, Steps DEF PlanInv
<1> QED
  BY <1>1, AdminInit, PlanInvariance, PTL DEF Spec

(***************************************************************************)
(* An installation with accounts never loses all its administrators: the   *)
(* check before each removal, the rule that the first active user becomes  *)
(* one, and the registration that stays open until then, together leave    *)
(* only the three ways out that the property names: removals that overlap, *)
(* a provider whose groups decide, and a provisioned first user who is an  *)
(* ordinary one because firstUserAdmin is off.                             *)
(***************************************************************************)
THEOREM SomebodyCanAdminister == Spec => []CanBeAdministered
<1>1. PlanInv /\ AdminInv => CanBeAdministered
  <2> SUFFICES ASSUME PlanInv, AdminInv, mode, ~ overlapped, ~ grouped, ~ unled,
                      ActiveAdmins = {}
               PROVE  Required
    BY DEF CanBeAdministered
  <2>1. ActiveUsers = {} /\ user[Boot].exists
    BY DEF PlanInv, AdminInv
  <2>2. ~ Active(Boot)
    BY <2>1, AccountsAssumption DEF ActiveUsers
  <2> QED
    BY <2>1, <2>2 DEF Required, Active
<1> QED
  BY <1>1, AdminInvariance, PTL

(***************************************************************************)
(* The first registration is completed once: it needs an installation      *)
(* without active users, and the account it activates is an administrator  *)
(* who is not taken away again; whoever was active before then makes no    *)
(* difference.                                                             *)
(***************************************************************************)
THEOREM FirstRegistrationIsOnce == Spec => []SetUpOnce
<1>1. SetupInv => SetUpOnce
  BY DEF SetupInv, SetUpOnce
<1> QED
  BY <1>1, AdminInvariance, PTL

-----------------------------------------------------------------------------
(***************************************************************************)
(* Passwords are numbered upwards, so no session and no request knows one  *)
(* that is still to come.                                                  *)
(***************************************************************************)
Obeys(t) ==
  ~ t.revoked /\ t.cred # 0 /\ ~ t.late /\ t.cred # user[t.user].pw
    => t.user \in kept \/ Revoking(t.user)

Follows(t) == t.cred <= user[t.user].pw /\ Obeys(t)

SessionInv ==
  /\ \A i \in DOMAIN tokens : Follows(tokens[i])
  /\ \A r \in Request : req[r].todo # <<>> => req[r].cred <= user[req[r].about].pw

LEMMA PasswordsGrow ==
  ASSUME AccountInv, PlanInv, NEW r \in Request, Works(r), NEW v \in User
  PROVE  /\ user[v].pw \in Nat /\ user'[v].pw \in Nat /\ user[v].pw <= user'[v].pw
         /\ \/ user'[v].pw = user[v].pw \/ user[v].pw = 0 \/ v \in kept'
            \/ v = req[r].about /\ Head(req[r].todo) \in {"setPassword", "setTemp"}
<1>1. user \in [User -> UserRow] /\ user[v].pw \in Nat
  BY ThePassword DEF AccountInv, RowsOK
<1>2. CASE UNCHANGED user
  BY <1>1, <1>2
<1>3. ASSUME NEW u \in User, NEW row, Edit(r, u, row)
      PROVE  /\ user'[v].pw \in Nat /\ user[v].pw <= user'[v].pw
             /\ \/ user'[v].pw = user[v].pw \/ user[v].pw = 0 \/ v \in kept'
                \/ v = req[r].about /\ Head(req[r].todo) \in {"setPassword", "setTemp"}
  <2>1. /\ user' = [user EXCEPT ![u] = row] /\ row.pw \in Nat /\ user[u].pw <= row.pw
        /\ row.pw = user[u].pw \/ user[u].pw = 0 \/ u \in kept'
           \/ (u = req[r].about /\ Head(req[r].todo) \in {"setPassword", "setTemp"})
    BY <1>3 DEF Edit, UserRow
  <2>2. user'[v] = IF v = u THEN row ELSE user[v]
    BY <1>1, <2>1
  <2>3. CASE v = u
    BY <2>1, <2>2, <2>3
  <2>4. CASE v # u
    BY <1>1, <2>2, <2>4
  <2> QED
    BY <2>3, <2>4
<1> QED
  BY <1>1, <1>2, <1>3, WorkEdits

\* A statement other than the revocation of its tokens lets a session go on following.
LEMMA FollowsStill ==
  ASSUME AccountInv, PlanInv, NEW r \in Request, Works(r), NEW t \in Row, Follows(t),
         ~ Revoke(r) \/ t.user # req[r].about
  PROVE  Follows(t)'
<1> DEFINE todo == req[r].todo
           v == t.user
<1>1. v \in User /\ t.cred \in Nat
  BY DEF Row
<1>2. /\ user[v].pw \in Nat /\ user'[v].pw \in Nat /\ user[v].pw <= user'[v].pw
      /\ \/ user'[v].pw = user[v].pw \/ user[v].pw = 0 \/ v \in kept'
         \/ v = req[r].about /\ Head(todo) \in {"setPassword", "setTemp"}
  BY <1>1, PasswordsGrow
<1>3. PICK rest, cred : todo # <<>> /\ Carries(r, rest, cred)
  BY WorkCarries DEF PlanInv
<1>4. /\ \A q \in Request : q # r => req'[q] = req[q]
      /\ req'[r].todo = rest
      /\ rest # <<>> => req'[r].about = req[r].about
  BY <1>3, CarriedOn
<1>5. ASSUME v = req[r].about, Does(todo, "revoke") PROVE v \in kept' \/ Revoking(v)'
  <2>1. Does(rest, "revoke") \/ v \in kept'
    BY <1>3, <1>5 DEF Carries
  <2>2. CASE Does(rest, "revoke")
    <3>1. rest # <<>> /\ req'[r].about = v
      BY <1>4, <1>5, <2>2 DEF Does
    <3> QED
      BY <1>4, <2>2, <3>1 DEF Does, Revoking
  <2> QED
    BY <2>1, <2>2
<1>6. ASSUME v \in kept \/ Revoking(v) PROVE v \in kept' \/ Revoking(v)'
  <2>1. CASE v \in kept
    BY <2>1, WorkSpares
  <2>2. ASSUME NEW q \in Request, req[q].about = v, NEW k \in DOMAIN req[q].todo,
               req[q].todo[k] = "revoke"
        PROVE  v \in kept' \/ Revoking(v)'
    <3>1. CASE q # r
      BY <1>4, <2>2, <3>1 DEF Revoking
    <3>2. CASE q = r
      BY <1>5, <2>2, <3>2 DEF Does
    <3> QED
      BY <3>1, <3>2
  <2> QED
    BY <1>6, <2>1, <2>2 DEF Revoking
<1>7. ASSUME v = req[r].about, Head(todo) \in {"setPassword", "setTemp"}
      PROVE  v \in kept' \/ Revoking(v)'
  <2>1. todo \in Seq(Statement) /\ RevokesAfterwards(todo)
    BY <1>3, Rest DEF PlanInv, Shaped
  <2>2. 1 \in DOMAIN todo /\ todo[1] = Head(todo)
    BY <1>3, <2>1
  <2>3. Does(todo, "revoke")
    BY <1>7, <2>1, <2>2 DEF RevokesAfterwards, Does
  <2> QED
    BY <1>5, <1>7, <2>3
<1>8. t.cred <= user'[v].pw
  BY <1>1, <1>2 DEF Follows
<1>9. ASSUME ~ t.revoked, t.cred # 0, ~ t.late, t.cred # user'[v].pw
      PROVE  v \in kept' \/ Revoking(v)'
  <2>1. CASE user'[v].pw = user[v].pw
    BY <1>6, <1>9, <2>1 DEF Follows, Obeys
  <2>2. CASE user[v].pw = 0
    BY <1>1, <1>9, <2>2 DEF Follows
  <2> QED
    BY <1>2, <1>7, <2>1, <2>2
<1> QED
  BY <1>8, <1>9 DEF Follows, Obeys

\* Every token is one that was there, perhaps revoked since, or a new sign-in.
LEMMA TokensFrom ==
  ASSUME AccountInv, PlanInv, NEW r \in Request, Works(r), NEW k \in DOMAIN tokens'
  PROVE  \/ \E j \in DOMAIN tokens :
              /\ tokens'[k] = tokens[j]
              /\ ~ Revoke(r) \/ tokens[j].user # req[r].about
         \/ \E j \in DOMAIN tokens : tokens'[k] = [tokens[j] EXCEPT !.revoked = TRUE]
         \/ /\ Issue(r) /\ UNCHANGED user
            /\ tokens'[k].user = req[r].about /\ tokens'[k].cred = req[r].cred
            /\ tokens'[k].late = (req[r].cred # 0 /\ req[r].cred # user[req[r].about].pw)
<1>1. /\ tokens \in Seq(Row) /\ DOMAIN tokens = 1 .. Len(tokens) /\ Len(tokens) \in Nat
      /\ \A j \in DOMAIN tokens : tokens[j] \in Row
  BY DEF AccountInv, TokenInv, Sound
<1>2. CASE Issue(r)
  <2> DEFINE c == req[r]
             new == [user |-> c.about, session |-> Len(tokens) + 1, revoked |-> FALSE,
                     cred |-> c.cred, late |-> c.cred # 0 /\ c.cred # user[c.about].pw,
                     by |-> c.by]
  <2>1. tokens' = Append(tokens, new) /\ UNCHANGED user /\ ~ Revoke(r)
    BY <1>2 DEF Issue, Issued, Revoke, Runs
  <2>2. /\ new.user = c.about /\ new.cred = c.cred
        /\ new.late = (c.cred # 0 /\ c.cred # user[c.about].pw)
    OBVIOUS
  <2> HIDE DEF new
  <2>3. k \in 1 .. Len(tokens) + 1
        /\ tokens'[k] = IF k = Len(tokens) + 1 THEN new ELSE tokens[k]
    BY <1>1, <2>1
  <2> QED
    BY <1>1, <1>2, <2>1, <2>2, <2>3
<1>3. CASE Rotate(r)
  <2> DEFINE i == req[r].item
             ended == [tokens EXCEPT ![i].revoked = TRUE]
  <2>1. /\ tokens' = IF Live(i) THEN Append(ended, tokens[i]) ELSE tokens
        /\ ~ Revoke(r) /\ i \in DOMAIN tokens
    <3>1. req[r].todo \in Seq(Statement) /\ req[r].todo # <<>> /\ Head(req[r].todo) = "rotate"
      BY <1>3, Rest DEF Rotate, Runs
    <3>2. 1 \in DOMAIN req[r].todo /\ req[r].todo[1] = "rotate"
      <4> DEFINE todo == req[r].todo
      <4> HIDE DEF todo
      <4>1. todo \in Seq(Statement) /\ todo # <<>> /\ Head(todo) = "rotate"
        BY <3>1 DEF todo
      <4>2. 1 \in DOMAIN todo /\ todo[1] = "rotate"
        BY <4>1
      <4> QED
        BY <4>2 DEF todo
    <3>3. i \in DOMAIN tokens
      BY <3>2 DEF AccountInv, CallsOK, Knows, Fits
    <3> QED
      BY <1>3, <3>1, <3>3 DEF Rotate, Rotated, Revoke, Runs
  <2>2. CASE ~ Live(i)
    BY <2>1, <2>2
  <2>3. CASE Live(i)
    <3> HIDE DEF i
    <3>1. ended = [tokens EXCEPT ![i] = [tokens[i] EXCEPT !.revoked = TRUE]]
      BY <1>1, <2>1
    <3>2. [tokens[i] EXCEPT !.revoked = TRUE] \in Row
      <4>1. tokens[i] \in Row
        BY <1>1, <2>1
      <4> QED
        BY <4>1 DEF Row
    <3>3. ended \in Seq(Row) /\ Len(ended) = Len(tokens) /\ DOMAIN ended = DOMAIN tokens
      BY <1>1, <2>1, <3>1, <3>2
    <3>4. \A j \in DOMAIN tokens :
            ended[j] = IF j = i THEN [tokens[i] EXCEPT !.revoked = TRUE] ELSE tokens[j]
      BY <1>1, <3>1
    <3>5. tokens' = Append(ended, tokens[i])
      BY <2>1, <2>3
    <3> HIDE DEF ended
    <3>6. k \in 1 .. Len(tokens) + 1
          /\ tokens'[k] = IF k = Len(tokens) + 1 THEN tokens[i] ELSE ended[k]
      BY <1>1, <3>3, <3>5
    <3>7. k = Len(tokens) + 1 \/ k \in DOMAIN tokens
      BY <1>1, <3>6
    <3> QED
      BY <1>1, <2>1, <3>4, <3>6, <3>7
  <2> QED
    BY <2>2, <2>3
<1>4. CASE Revoke(r)
  <2>1. tokens' = [i \in DOMAIN tokens |->
                     IF tokens[i].user = req[r].about THEN [tokens[i] EXCEPT !.revoked = TRUE]
                     ELSE tokens[i]]
    BY <1>4 DEF Revoke, RevokedAll
  <2> QED
    BY <2>1
<1>5. CASE UNCHANGED tokens /\ ~ Revoke(r)
  BY <1>5
<1> QED
  BY <1>2, <1>3, <1>4, <1>5, WorkSpares

LEMMA WorkKeepsSessions ==
  ASSUME AccountInv, PlanInv, SessionInv, NEW r \in Request, Works(r)
  PROVE  SessionInv'
<1>1. PICK rest, cred : req[r].todo # <<>> /\ Carries(r, rest, cred)
  BY WorkCarries DEF PlanInv
<1>2. /\ \A q \in Request : q # r => req'[q] = req[q]
      /\ req'[r].todo = rest
      /\ rest # <<>> => req'[r].about = req[r].about /\ req'[r].cred = cred
  BY <1>1, CarriedOn
<1>3. \A j \in DOMAIN tokens : tokens[j] \in Row /\ Follows(tokens[j])
  BY DEF AccountInv, TokenInv, Sound, SessionInv
<1>4. \A q \in Request : /\ req[q].cred \in Nat
                         /\ req[q].todo # <<>> => req[q].about \in User
  BY DEF AccountInv, CallsOK, Knows, Call
<1>5. \A v \in User : user[v].pw \in Nat /\ user'[v].pw \in Nat /\ user[v].pw <= user'[v].pw
  BY PasswordsGrow
<1>6. ASSUME NEW k \in DOMAIN tokens' PROVE Follows(tokens[k])'
  <2>1. ASSUME NEW j \in DOMAIN tokens, tokens'[k] = tokens[j],
               ~ Revoke(r) \/ tokens[j].user # req[r].about
        PROVE  Follows(tokens[k])'
    <3> DEFINE t == tokens[j]
    <3>1. t \in Row /\ Follows(t) /\ (~ Revoke(r) \/ t.user # req[r].about)
      BY <1>3, <2>1
    <3>2. \A x \in Row : Follows(x) /\ (~ Revoke(r) \/ x.user # req[r].about) =>
            /\ x.cred <= user'[x.user].pw
            /\ ~ x.revoked /\ x.cred # 0 /\ ~ x.late /\ x.cred # user'[x.user].pw
                 => x.user \in kept' \/ Revoking(x.user)'
      BY FollowsStill DEF Follows, Obeys
    <3> QED
      BY <2>1, <3>1, <3>2 DEF Follows, Obeys, Revoking
  <2>2. ASSUME NEW j \in DOMAIN tokens, tokens'[k] = [tokens[j] EXCEPT !.revoked = TRUE]
        PROVE  Follows(tokens[k])'
    <3> DEFINE t == tokens[j]
    <3>1. t \in Row /\ t.cred \in Nat /\ t.user \in User /\ t.cred <= user[t.user].pw
      BY <1>3 DEF Row, Follows
    <3> HIDE DEF t
    <3>2. /\ [t EXCEPT !.revoked = TRUE].revoked /\ [t EXCEPT !.revoked = TRUE].cred = t.cred
          /\ [t EXCEPT !.revoked = TRUE].user = t.user
      BY <3>1 DEF Row
    <3>3. tokens'[k].revoked /\ tokens'[k].cred = t.cred /\ tokens'[k].user = t.user
      BY <2>2, <3>2 DEF t
    <3>4. t.cred <= user'[t.user].pw
      BY <1>5, <3>1
    <3> QED
      BY <3>3, <3>4 DEF Follows, Obeys
  <2>3. ASSUME Issue(r), UNCHANGED user,
               tokens'[k].user = req[r].about, tokens'[k].cred = req[r].cred,
               tokens'[k].late = (req[r].cred # 0 /\ req[r].cred # user[req[r].about].pw)
        PROVE  Follows(tokens[k])'
    BY <1>1, <2>3 DEF SessionInv, Follows, Obeys
  <2> QED
    BY <2>1, <2>2, <2>3, TokensFrom
<1>7. ASSUME NEW q \in Request, req'[q].todo # <<>>
      PROVE  req'[q].cred <= user'[req'[q].about].pw
  <2>1. CASE q = r
    <3>1. /\ req'[r].about = req[r].about /\ req'[r].cred = cred
          /\ cred \in {req[r].cred, user'[req[r].about].pw}
      BY <1>1, <1>2, <1>7, <2>1 DEF Carries
    <3>2. req[r].cred <= user[req[r].about].pw /\ req[r].about \in User
      BY <1>1, <1>4 DEF SessionInv
    <3> QED
      BY <1>4, <1>5, <2>1, <3>1, <3>2
  <2>2. CASE q # r
    <3>1. req'[q] = req[q] /\ req[q].cred <= user[req[q].about].pw /\ req[q].about \in User
      BY <1>2, <1>4, <1>7, <2>2 DEF SessionInv
    <3> QED
      BY <1>4, <1>5, <3>1
  <2> QED
    BY <2>1, <2>2
<1> QED
  BY <1>6, <1>7 DEF SessionInv

\* A step that leaves the passwords, the tokens and the revocations under way.
LEMMA QuietKeepsSessions ==
  ASSUME AccountInv, SessionInv, UNCHANGED tokens, kept \subseteq kept',
         \A u \in User : user'[u].pw = user[u].pw,
         \A q \in Request : \/ req'[q] = req[q]
                            \/ /\ req[q].todo = <<>>
                               /\ req'[q].cred <= user[req'[q].about].pw
                               /\ req'[q].about \in User
  PROVE  SessionInv'
<1>1. \A j \in DOMAIN tokens : tokens[j] \in Row /\ Follows(tokens[j]) /\ tokens[j].user \in User
  <2> TAKE j \in DOMAIN tokens
  <2>1. tokens[j] \in Row /\ Follows(tokens[j])
    BY DEF AccountInv, TokenInv, Sound, SessionInv
  <2> QED
    BY <2>1 DEF Row
<1>2. ASSUME NEW v \in User, Revoking(v) PROVE Revoking(v)'
  <2>1. PICK q \in Request : req[q].about = v /\ \E k \in DOMAIN req[q].todo : req[q].todo[k] = "revoke"
    BY <1>2 DEF Revoking
  <2>2. req[q].todo # <<>>
    BY <2>1
  <2> QED
    BY <2>1, <2>2 DEF Revoking
<1>3. ASSUME NEW k \in DOMAIN tokens PROVE Follows(tokens[k])'
  BY <1>1, <1>2 DEF Follows, Obeys
<1>4. \A q \in Request : req'[q].todo # <<>> => req'[q].cred <= user'[req'[q].about].pw
  BY DEF SessionInv, AccountInv, CallsOK, Knows
<1> QED
  BY <1>3, <1>4 DEF SessionInv

LEMMA SessionInit == Init => SessionInv
<1> SUFFICES ASSUME Init PROVE SessionInv
  OBVIOUS
<1> USE AccountsAssumption
<1>1. \A r \in Request : req[r].todo = <<>>
  BY UnusedCall DEF Init, Common
<1>2. CASE Fresh
  <2>1. DOMAIN tokens = {}
    BY <1>2 DEF Fresh
  <2> QED
    BY <1>1, <2>1 DEF SessionInv
<1>3. CASE InUse
  <2>1. PICK other \in User \ {Boot}, role \in {"ADMIN", "USER"}, must \in BOOLEAN :
          /\ user = [u \in User |->
                       IF u = Boot THEN NewUser("ADMIN", 1)
                       ELSE IF u = other THEN [NewUser(role, 1) EXCEPT !.must = must]
                       ELSE Absent]
          /\ tokens = <<SignIn(Boot, 1, 1, Nobody), SignIn(other, 2, 1, Nobody),
                        SignIn(other, 3, 0, Boot)>>
    BY <1>3 DEF InUse
  <2>2. user[Boot].pw = 1 /\ user[other].pw = 1
    BY <2>1 DEF NewUser
  <2>3. \A u, x, c, by : SignIn(u, x, c, by).user = u /\ SignIn(u, x, c, by).cred = c
    BY DEF SignIn
  <2>4. \A k \in DOMAIN tokens : /\ tokens[k].user \in {Boot, other}
                                 /\ tokens[k].cred \in {0, 1}
    BY <2>1, <2>3
  <2>5. \A k \in DOMAIN tokens : Follows(tokens[k])
    BY <2>2, <2>4 DEF Follows, Obeys
  <2> QED
    BY <1>1, <2>5 DEF SessionInv
<1> QED
  BY <1>2, <1>3 DEF Init

(***************************************************************************)
(* A new password ends the sessions of the old one, also those that a      *)
(* refresh under way would have carried over: the revocation comes after   *)
(* the password in every plan, and until it has run, or somebody gave it   *)
(* up, the plan still holds it.                                            *)
(***************************************************************************)
THEOREM NewPasswordsEndSessions == Spec => []SessionsFollowThePassword
<1>1. AccountInv /\ PlanInv /\ SessionInv /\ [Next]_vars => SessionInv'
  <2> SUFFICES ASSUME AccountInv, PlanInv, SessionInv, [Next]_vars PROVE SessionInv'
    OBVIOUS
  <2>1. ASSUME NEW r \in Request, NEW c, WellBegun(c), Start(r, c) PROVE SessionInv'
    <3>1. /\ req'[r] = c /\ \A q \in Request : q # r => req'[q] = req[q]
          /\ UNCHANGED <<tokens, user, kept>> /\ req[r].todo = <<>>
      BY <2>1, StartSets
    <3>2. c.about \in User /\ c.cred \in {0, user[c.about].pw} /\ user[c.about].pw \in Nat
      BY <2>1, ThePassword DEF WellBegun
    <3> QED
      BY <3>1, <3>2, QuietKeepsSessions
  <2>2. ASSUME NEW r \in Request, Works(r) PROVE SessionInv'
    BY <2>2, WorkKeepsSessions
  <2>3. ASSUME NEW i \in DOMAIN tokens, NEW role \in Roles, FollowProvider(i, role)
        PROVE  SessionInv'
    <3> DEFINE u == Holder(i)
    <3>1. u \in User /\ user \in [User -> UserRow]
      BY TheHolder DEF AccountInv, RowsOK
    <3>2. user' = [user EXCEPT ![u].role = role] /\ UNCHANGED <<req, tokens, kept>>
      BY <2>3 DEF FollowProvider, history
    <3>3. \A v \in User : user'[v].pw = user[v].pw
      <4> HIDE DEF u
      <4> QED
        BY <3>1, <3>2 DEF UserRow
    <3> QED
      BY <3>2, <3>3, QuietKeepsSessions
  <2>4. CASE UNCHANGED <<tokens, user, mode, grouped, registration, req, kept, overlapped, unled,
                         setups, raced>>
    BY <2>4, QuietKeepsSessions
  <2> QED
    BY <2>1, <2>2, <2>3, <2>4, Steps DEF PlanInv
<1>2. SessionInv => SessionsFollowThePassword
  BY DEF SessionInv, Follows, Obeys, SessionsFollowThePassword, Live
<1> QED
  BY <1>1, <1>2, SessionInit, PlanInvariance, PTL DEF Spec
=============================================================================
