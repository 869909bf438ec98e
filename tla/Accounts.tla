------------------------------ MODULE Accounts -------------------------------
(***************************************************************************)
(* The account routes of the backend: signing in and out, refreshing,      *)
(* passwords, resets by link and by an administrator, e-mail changes, the  *)
(* administration of users, impersonation and the single sign-on callback. *)
(*                                                                         *)
(* A handler authenticates its request, reads the rows it decides on, and  *)
(* then runs statements one after another, none of them in a transaction   *)
(* with the next.  Those statements are the request's todo list, and any   *)
(* other request may run between two of them.  What is read together at    *)
(* the start is only tested there: a request that fails a test leaves no   *)
(* trace and is not modelled.                                              *)
(***************************************************************************)
EXTENDS SessionTokens

CONSTANTS
  Boot,     \* BOOTSTRAP_USER_ID
  Request

ASSUME AccountsAssumption == Boot \in User /\ Nobody \notin User

VARIABLES
  user,       \* the User table
  resets,     \* the PasswordResetToken table
  mode,       \* SystemConfig.authEnabled
  hybrid,     \* config.authMode: "hybrid", or "local"
  registration, \* SystemConfig.registrationEnabled
  jit,        \* SystemConfig.oidcJitProvisioningEnabled
  grouped,    \* config.oidc.adminGroups: the provider's groups make administrators
  firstAdmin, \* config.oidc.firstUserAdmin
  req,        \* the requests: whom they are about, and what is left to do
  kept,       \* history: users whose tokens some handler did not revoke
  overlapped, \* history: administrators were taken away by overlapping requests
  unled       \* history: the single sign-on let an ordinary user be the first active one

settings == <<mode, hybrid, registration, jit, grouped, firstAdmin>>
history  == <<kept, overlapped, unled>>
accountVars == <<tokens, user, resets, settings, req, kept, overlapped, unled>>

Change == {"promote", "demote", "activate", "deactivate", "mustReset"}

\* pw numbers the passwords of the user; 0 stands for no local password.
Roles == {"ADMIN", "USER"}
UserRow == [exists : BOOLEAN, active : BOOLEAN, role : Roles,
            must : BOOLEAN, pw : Nat]

Statement == {"issue", "rotate", "revoke", "setPassword", "setTemp", "spendAll",
              "addReset", "spend", "readTarget", "count", "patch", "create",
              "provision", "setRegistration", "setJit",
              "verifyCode", "countFailure", "clearCode", "checkCode", "writeCode",
              "activateBoot", "ensureBoot", "setMode"}

Call == [todo : Seq(Statement), about : User \cup {Nobody},
         by : User \cup {Nobody},   \* the impersonating administrator
         item : Nat,   \* a token, a reset link or a setup code
         cred : Nat,   \* the password that was checked
         change : Change \cup {"none"}, on : BOOLEAN, begun : BOOLEAN]

Unused == [todo |-> <<>>, by |-> Nobody, about |-> Nobody, item |-> 0, cred |-> 0,
           change |-> "none", on |-> FALSE, begun |-> FALSE]
Finished == [Unused EXCEPT !.begun = TRUE]

Active(u) == user[u].exists /\ user[u].active
IsAdmin(u) == Active(u) /\ user[u].role = "ADMIN"
ActiveUsers == {u \in User : Active(u)}
ActiveAdmins == {u \in User : IsAdmin(u)}

\* A request begins: it is about a user and will run these statements.
Begins(about, todo) ==
  [Unused EXCEPT !.todo = todo, !.about = about, !.begun = TRUE]

Start(r, call) ==
  /\ req[r] = Unused
  /\ req' = [req EXCEPT ![r] = call]
  /\ UNCHANGED <<tokens, user, resets, settings, history>>

(***************************************************************************)
(* requireAuth with a signed access token: it holds until it expires,      *)
(* whatever became of the refresh token signed next to it, as long as the  *)
(* user is active.                                                         *)
(***************************************************************************)
SignedIn(i) == mode /\ i \in DOMAIN tokens /\ Active(tokens[i].user)
Holder(i) == tokens[i].user

\* requireAuth refuses a user who must choose a password everything but that.
MayAct(i) == SignedIn(i) /\ ~ user[Holder(i)].must
MayAdminister(i) == MayAct(i) /\ user[Holder(i)].role = "ADMIN"
AsOneself(i) == tokens[i].by = Nobody

-----------------------------------------------------------------------------
(***************************************************************************)
(* How requests begin.                                                     *)
(***************************************************************************)
\* login compares the password with the row it reads.
Login(r, u) ==
  /\ mode /\ Active(u) /\ user[u].pw # 0
  /\ Start(r, [Begins(u, <<"issue">>) EXCEPT !.cred = user[u].pw])

\* register, once an administrator has opened it.
Register(r, u) ==
  /\ mode /\ registration /\ ~ user[u].exists
  /\ ActiveUsers # {} \/ ~ user[Boot].exists
  /\ Start(r, [Begins(u, <<"create", "issue">>) EXCEPT !.on = TRUE])

Refresh(r, i) ==
  /\ SignedIn(i)
  /\ Start(r, [Begins(Holder(i), <<"rotate">>) EXCEPT !.item = i])

Logout(r, i) ==
  /\ SignedIn(i)
  /\ Start(r, Begins(Holder(i), <<"revoke">>))

\* Defect: the password is changed and the sessions go on.
ChangeOnlyPassword(r, i) ==
  /\ SignedIn(i) /\ AsOneself(i) /\ user[Holder(i)].pw # 0
  /\ Start(r, Begins(Holder(i), <<"setPassword">>))

ChangePassword(r, i) ==
  /\ SignedIn(i) /\ AsOneself(i) /\ user[Holder(i)].pw # 0
  /\ Start(r, Begins(Holder(i), <<"setPassword", "revoke">>))

MustResetPassword(r, i) ==
  /\ SignedIn(i) /\ AsOneself(i) /\ user[Holder(i)].must
  /\ Start(r, Begins(Holder(i), <<"setPassword", "revoke", "issue">>))

\* The new address itself is left out; it ends the sessions and begins one.
ChangeEmail(r, i) ==
  /\ MayAct(i) /\ AsOneself(i) /\ user[Holder(i)].pw # 0
  /\ Start(r, [Begins(Holder(i), <<"revoke", "issue">>) EXCEPT
                 !.cred = user[Holder(i)].pw])

RequestReset(r, u) ==
  /\ mode /\ Active(u) /\ user[u].pw # 0
  /\ Start(r, Begins(u, <<"spendAll", "addReset">>))

ConfirmReset(r, k) ==
  /\ mode /\ k \in DOMAIN resets
  /\ ~ resets[k].used /\ Active(resets[k].user)
  /\ Start(r, [Begins(resets[k].user, <<"setPassword", "spend", "revoke">>) EXCEPT
                 !.item = k])

AdminReset(r, i, u) ==
  /\ MayAdminister(i) /\ AsOneself(i) /\ u # Holder(i) /\ user[u].exists
  /\ Start(r, Begins(u, <<"setTemp", "revoke">>))

\* An invited user of the single sign-on has no local password.  A role or a state
\* other than the default is what PATCH gives it.
CreateUser(r, i, u, withPassword) ==
  /\ MayAdminister(i) /\ ~ user[u].exists
  /\ withPassword \/ hybrid
  /\ Start(r, [Begins(u, <<"create">>) EXCEPT !.on = withPassword])

\* Nobody demotes or deactivates himself.
Removes(change) == change \in {"demote", "deactivate"}

ChangeUser(r, i, u, change) ==
  /\ MayAdminister(i) /\ user[u].exists
  /\ Removes(change) => u # Holder(i)
  /\ Start(r, [Begins(u, <<"readTarget", "patch">>) EXCEPT !.change = change])

\* POST /admins finds its user by name, and changes nothing but the role.
ChangeRole(r, i, u, change) == change \in {"promote", "demote"} /\ ChangeUser(r, i, u, change)

SetRegistration(r, i, on) ==
  /\ MayAdminister(i)
  /\ Start(r, [Begins(Holder(i), <<"setRegistration">>) EXCEPT !.on = on])

SetProvisioning(r, i, on) ==
  /\ hybrid /\ MayAdminister(i)
  /\ Start(r, [Begins(Holder(i), <<"setJit">>) EXCEPT !.on = on])

\* resolveImpersonationAdmin, and the target's row; stop-impersonation.
Impersonate(r, i, u) ==
  LET acting == IF user[Holder(i)].role = "ADMIN" THEN Holder(i) ELSE tokens[i].by IN
    /\ MayAct(i)
    /\ acting # Nobody /\ IsAdmin(acting)
    /\ u # acting /\ Active(u)
    /\ Start(r, [Begins(u, <<"issue">>) EXCEPT !.by = acting])

StopImpersonation(r, i) ==
  /\ MayAct(i) /\ ~ AsOneself(i) /\ IsAdmin(tokens[i].by)
  /\ Start(r, Begins(tokens[i].by, <<"issue">>))

\* The callback of the single sign-on: one transaction finds or creates the user.
Callback(r, u) ==
  /\ hybrid
  /\ Start(r, Begins(u, <<"provision", "issue">>))

-----------------------------------------------------------------------------
(***************************************************************************)
(* The statements.                                                         *)
(***************************************************************************)
Runs(r, statement) == req[r].todo # <<>> /\ Head(req[r].todo) = statement

\* What is left to do, for a request that knows this password by now.
Continues(r, rest, cred) ==
  req' = [req EXCEPT ![r] =
            IF rest = <<>> THEN Finished ELSE [@ EXCEPT !.todo = rest, !.cred = cred]]

GoesOn(r) == Continues(r, Tail(req[r].todo), req[r].cred)
GoesTo(r, rest) == Continues(r, rest, req[r].cred)
GivesUp(r) == GoesTo(r, <<>>)

Issue(r) ==
  LET c == req[r] IN
    /\ Runs(r, "issue")
    /\ tokens' = Issued(c.about, c.cred, c.cred # 0 /\ c.cred # user[c.about].pw, c.by)
    /\ GoesOn(r)
    /\ UNCHANGED <<user, resets, settings, history>>

Rotate(r) ==
  /\ Runs(r, "rotate")
  /\ tokens' = Rotated(req[r].item)
  /\ GoesOn(r)
  /\ UNCHANGED <<user, resets, settings, history>>

Revoke(r) ==
  /\ Runs(r, "revoke")
  /\ tokens' = RevokedAll(req[r].about)
  /\ GoesOn(r)
  /\ UNCHANGED <<user, resets, settings, history>>

\* The revocation throws: the routes that change something swallow that.
RevokeFails(r) ==
  /\ Runs(r, "revoke")
  /\ kept' = kept \cup {req[r].about}
  /\ GoesOn(r)
  /\ UNCHANGED <<tokens, user, resets, settings, overlapped, unled>>

SetPassword(r) ==
  LET u == req[r].about IN
    /\ Runs(r, "setPassword")
    /\ user' = [user EXCEPT ![u].pw = @ + 1, ![u].must = FALSE]
    /\ Continues(r, Tail(req[r].todo), user[u].pw + 1)
    /\ UNCHANGED <<tokens, resets, settings, history>>

SetTemp(r) ==
  LET u == req[r].about IN
    /\ Runs(r, "setTemp")
    /\ user' = [user EXCEPT ![u].pw = @ + 1, ![u].must = TRUE, ![u].active = TRUE]
    /\ GoesOn(r)
    /\ UNCHANGED <<tokens, resets, settings, history>>

ChangeResets(r) ==
  /\ \/ /\ Runs(r, "spendAll")
        /\ resets' = [k \in DOMAIN resets |->
                        IF resets[k].user = req[r].about
                          THEN [resets[k] EXCEPT !.used = TRUE] ELSE resets[k]]
     \/ /\ Runs(r, "addReset")
        /\ resets' = Append(resets, [user |-> req[r].about, used |-> FALSE])
     \/ /\ Runs(r, "spend")
        /\ resets' = [resets EXCEPT ![req[r].item].used = TRUE]
  /\ GoesOn(r)
  /\ UNCHANGED <<tokens, user, settings, history>>

NewUser(role, pw) ==
  [exists |-> TRUE, active |-> TRUE, role |-> role, must |-> FALSE, pw |-> pw]

\* user.create; the address is unique.
Create(r) ==
  LET u == req[r].about
      pw == IF req[r].on THEN 1 ELSE 0 IN
    /\ Runs(r, "create")
    /\ IF user[u].exists
         THEN GivesUp(r) /\ UNCHANGED user
         ELSE /\ user' = [user EXCEPT ![u] = NewUser("USER", pw)]
              /\ Continues(r, Tail(req[r].todo), pw)
    /\ UNCHANGED <<tokens, resets, settings, history>>

\* An account that is linked or has the address is taken, another one created;
\* the first active user of all becomes an administrator if firstUserAdmin says so.
Provision(r) ==
  LET u == req[r].about IN
    /\ Runs(r, "provision")
    /\ IF user[u].exists THEN user[u].active ELSE jit
    /\ \E role \in Roles :
         \/ /\ user[u].exists
            /\ grouped \/ role = user[u].role
            /\ user' = [user EXCEPT ![u].role = role]
         \/ /\ ~ user[u].exists
            /\ grouped \/ role = IF ActiveUsers = {} /\ firstAdmin THEN "ADMIN" ELSE "USER"
            /\ user' = [user EXCEPT ![u] = NewUser(role, 0)]
    /\ unled' = (unled \/ (ActiveUsers = {} /\ user'[u].role = "USER"))
    /\ GoesOn(r)
    /\ UNCHANGED <<tokens, resets, settings, kept, overlapped>>

\* "account_inactive" and "provisioning_disabled".
RefuseProvision(r) ==
  /\ Runs(r, "provision")
  /\ IF user[req[r].about].exists THEN ~ user[req[r].about].active ELSE ~ jit
  /\ GivesUp(r)
  /\ UNCHANGED <<tokens, user, resets, settings, history>>

(***************************************************************************)
(* reconcileRoleFromOidcGroups: every request with a token of the single   *)
(* sign-on gives its user the role that the groups in the token ask for.   *)
(* The groups are those of the sign-in, and may ask for either role.       *)
(***************************************************************************)
FollowProvider(i, role) ==
  /\ grouped /\ SignedIn(i)
  /\ AsOneself(i) /\ tokens[i].cred = 0
  /\ user' = [user EXCEPT ![Holder(i)].role = role]
  /\ UNCHANGED <<tokens, resets, settings, req, history>>

WriteSetting(r) ==
  /\ \/ /\ Runs(r, "setRegistration")
        /\ registration' = req[r].on
        /\ UNCHANGED jit
     \/ /\ Runs(r, "setJit")
        /\ jit' = req[r].on
        /\ UNCHANGED registration
  /\ GoesOn(r)
  /\ UNCHANGED <<tokens, user, resets, mode, hybrid, grouped, firstAdmin, history>>

-----------------------------------------------------------------------------
(***************************************************************************)
(* The change of a user: the target is read; when that makes it a removal  *)
(* of an administrator, the active ones are counted; then comes the update.*)
(***************************************************************************)
ReadTarget(r) ==
  LET u == req[r].about IN
    /\ Runs(r, "readTarget")
    /\ GoesTo(r, IF IsAdmin(u) /\ Removes(req[r].change) THEN <<"count", "patch">>
                                                          ELSE <<"patch">>)
    /\ UNCHANGED <<tokens, user, resets, settings, history>>

\* Defect: the check counts the target as well.
CountAny(r) ==
  /\ Runs(r, "count")
  /\ IF ActiveAdmins # {} THEN GoesOn(r) ELSE GivesUp(r)
  /\ UNCHANGED <<tokens, user, resets, settings, history>>

\* "There must be at least one active admin".
Count(r) ==
  /\ Runs(r, "count")
  /\ IF \E a, b \in ActiveAdmins : a # b THEN GoesOn(r) ELSE GivesUp(r)
  /\ UNCHANGED <<tokens, user, resets, settings, history>>

Changed(row, change) ==
  CASE change = "promote"    -> [row EXCEPT !.role = "ADMIN"]
    [] change = "demote"     -> [row EXCEPT !.role = "USER"]
    [] change = "activate"   -> [row EXCEPT !.active = TRUE]
    [] change = "deactivate" -> [row EXCEPT !.active = FALSE]
    [] change = "mustReset"  -> [row EXCEPT !.must = TRUE]

\* A removal whose check is over.
Checked(r) == Runs(r, "patch") /\ Removes(req[r].change)

Patch(r) ==
  LET u == req[r].about IN
    /\ Runs(r, "patch")
    /\ user' = [user EXCEPT ![u] = Changed(@, req[r].change)]
    /\ overlapped' = (overlapped \/ (/\ Checked(r) /\ IsAdmin(u)
                                     /\ \E q \in Request \ {r} : Checked(q)))
    /\ GoesOn(r)
    /\ UNCHANGED <<tokens, resets, settings, kept, unled>>

\* A statement throws, or the process ends: the rest is not done.
BreaksOff(r) ==
  /\ req[r].todo # <<>>
  /\ kept' = kept \cup {req[r].about : k \in {j \in DOMAIN req[r].todo :
                                               req[r].todo[j] = "revoke"}}
  /\ GivesUp(r)
  /\ UNCHANGED <<tokens, user, resets, settings, overlapped, unled>>
=============================================================================
