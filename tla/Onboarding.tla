----------------------------- MODULE Onboarding ------------------------------
(***************************************************************************)
(* How an installation gets its first administrator: the choice whether to *)
(* use accounts (onboarding-choice), the switch between the modes          *)
(* (auth-enabled), the setup code that is written to the log, and the      *)
(* first registration, next to everything else that Accounts lets requests *)
(* do.  The cache of the mode is left out: requests read the row.          *)
(***************************************************************************)
EXTENDS Accounts

CONSTANT MaxAttempts   \* bootstrapSetupCodeMaxAttempts

ASSUME OnboardingAssumption == MaxAttempts \in Nat \ {0}

VARIABLES
  onboarded,  \* SystemConfig.authOnboardingCompleted
  code,       \* the setup code: its number (0 for none) and its failed attempts
  codes,      \* how many setup codes there have been
  setups,     \* history: how often the first registration was completed
  raced       \* history: two first registrations overlapped

setupVars == <<onboarded, code, codes, setups, raced>>
vars == <<accountVars, setupVars>>

Code == [number : Nat, failed : Nat, expired : BOOLEAN]
NoCode == [number |-> 0, failed |-> 0, expired |-> FALSE]

\* Defect: only the mode and the account are looked at.
RequiredWheneverOn == mode /\ user[Boot].exists

\* shouldRequireBootstrapSetupCode; the same test opens the first registration.
Required == mode /\ user[Boot].exists /\ ~ user[Boot].active /\ ActiveUsers = {}

-----------------------------------------------------------------------------
\* A registration on an installation without active users; given is what was
\* typed, 0 for a mistake.
FirstRegister(r, given) ==
  /\ Required
  /\ Start(r, [Begins(Boot, <<"verifyCode", "activateBoot", "issue">>) EXCEPT
                 !.item = given])
  /\ UNCHANGED setupVars

NeedsChoice == ~ mode /\ ActiveUsers = {} /\ ~ onboarded

Onboard(r, on) ==
  /\ ~ hybrid /\ NeedsChoice
  /\ Start(r, [Begins(Boot, IF on THEN <<"ensureBoot", "setMode", "checkCode">>
                                  ELSE <<"setMode">>) EXCEPT !.on = on])
  /\ UNCHANGED setupVars

\* Without accounts everybody acts as the bootstrap account, which requireAuth
\* creates when it is missing.
SwitchMode(r, i, on) ==
  /\ ~ hybrid
  /\ IF mode
       THEN /\ MayAdminister(i)
            /\ Start(r, [Begins(Boot, <<"setMode">>) EXCEPT !.on = on])
       ELSE /\ i = 0 /\ (user[Boot].exists => user[Boot].role = "ADMIN")
            /\ Start(r, [Begins(Boot, <<"ensureBoot", "setMode">> \o
                                   IF on THEN <<"checkCode">> ELSE <<>>) EXCEPT !.on = on])
  /\ UNCHANGED setupVars

-----------------------------------------------------------------------------
EnsureBoot(r) ==
  /\ Runs(r, "ensureBoot")
  /\ user' = IF user[Boot].exists THEN user
             ELSE [user EXCEPT ![Boot] = [exists |-> TRUE, active |-> FALSE,
                                          role |-> "ADMIN", must |-> TRUE, pw |-> 0]]
  /\ GoesOn(r)
  /\ UNCHANGED <<tokens, resets, settings, history, setupVars>>

\* upsertAuthModeState
SetMode(r) ==
  /\ Runs(r, "setMode")
  /\ mode' = req[r].on
  /\ onboarded' = TRUE
  /\ GoesOn(r)
  /\ UNCHANGED <<tokens, user, resets, hybrid, registration, jit, grouped, firstAdmin,
                 history, code, codes, setups, raced>>

\* issueBootstrapSetupCodeIfRequired: read, then write; also when the server starts.
CheckCode(r) ==
  /\ Runs(r, "checkCode")
  /\ GoesTo(r, IF Required THEN <<"writeCode">> ELSE <<>>)
  /\ UNCHANGED <<tokens, user, resets, settings, history, setupVars>>

WriteCode(r) ==
  /\ Runs(r, "writeCode")
  /\ codes' = codes + 1
  /\ code' = [NoCode EXCEPT !.number = codes + 1]
  /\ GoesOn(r)
  /\ UNCHANGED <<tokens, user, resets, settings, history, onboarded, setups, raced>>

StartServer(r) ==
  /\ Start(r, Begins(Boot, <<"checkCode">>))
  /\ UNCHANGED setupVars

\* bootstrapSetupCodeTtlMs has passed.
Expire ==
  /\ code.number # 0 /\ ~ code.expired
  /\ code' = [code EXCEPT !.expired = TRUE]
  /\ UNCHANGED <<accountVars, onboarded, codes, setups, raced>>

(***************************************************************************)
(* verifyBootstrapSetupCode: the row is read, the answer is decided on     *)
(* it, and the update follows in a statement of its own.                   *)
(***************************************************************************)
Usable == code.number # 0 /\ ~ code.expired /\ code.failed < MaxAttempts

VerifyCode(r) ==
  /\ Runs(r, "verifyCode")
  /\ GoesTo(r, IF ~ Usable THEN <<"checkCode">>
               ELSE IF req[r].item # code.number THEN <<"countFailure">>
               ELSE <<"clearCode">> \o Tail(req[r].todo))
  /\ UNCHANGED <<tokens, user, resets, settings, history, setupVars>>

CountFailure(r) ==
  /\ Runs(r, "countFailure")
  /\ code' = [code EXCEPT !.failed = @ + 1]
  /\ GoesOn(r)
  /\ UNCHANGED <<tokens, user, resets, settings, history, onboarded, codes, setups, raced>>

ClearCode(r) ==
  /\ Runs(r, "clearCode")
  /\ code' = NoCode
  /\ GoesOn(r)
  /\ UNCHANGED <<tokens, user, resets, settings, history, onboarded, codes, setups, raced>>

\* The bootstrap account becomes the first administrator, with its password.
\* One that it has by now is replaced, and no session of it revoked.
SettingUp(r) == \E k \in DOMAIN req[r].todo : req[r].todo[k] = "activateBoot"

ActivateBoot(r) ==
  /\ Runs(r, "activateBoot")
  /\ user' = [user EXCEPT ![Boot] = NewUser("ADMIN", @.pw + 1)]
  /\ Continues(r, Tail(req[r].todo), user[Boot].pw + 1)
  /\ setups' = setups + 1
  /\ raced' = (raced \/ \E q \in Request \ {r} : SettingUp(q))
  /\ kept' = IF user[Boot].pw = 0 THEN kept ELSE kept \cup {Boot}
  /\ UNCHANGED <<tokens, resets, settings, overlapped, unled, onboarded, code, codes>>

-----------------------------------------------------------------------------
(***************************************************************************)
(* A fresh installation, with or without accounts; and one in use, with    *)
(* two accounts that are signed in.                                        *)
(***************************************************************************)
Absent == [exists |-> FALSE, active |-> FALSE, role |-> "USER", must |-> FALSE, pw |-> 0]

Common ==
  /\ hybrid \in BOOLEAN /\ jit \in BOOLEAN /\ grouped \in BOOLEAN /\ firstAdmin \in BOOLEAN
  /\ jit \/ grouped \/ ~ firstAdmin => hybrid
  /\ req = [r \in Request |-> Unused]
  /\ kept = {} /\ overlapped = FALSE /\ unled = FALSE
  /\ code = NoCode /\ codes = 0 /\ raced = FALSE

Fresh ==
  /\ mode = hybrid /\ onboarded = FALSE /\ registration = FALSE
  /\ \E there \in BOOLEAN :
       /\ hybrid => there
       /\ user = [u \in User |->
                    IF u = Boot /\ there
                      THEN [exists |-> TRUE, active |-> FALSE, role |-> "ADMIN",
                            must |-> TRUE, pw |-> 0]
                      ELSE Absent]
  /\ tokens = <<>> /\ resets = <<>> /\ setups = 0

SignIn(u, s, cred, by) ==
  [user |-> u, session |-> s, revoked |-> FALSE, cred |-> cred, late |-> FALSE, by |-> by]

\* The other account may be impersonated, have a reset link and a password
\* that it must change.
InUse ==
  /\ mode = TRUE /\ onboarded = TRUE /\ registration = FALSE
  /\ \E other \in User \ {Boot}, role \in {"ADMIN", "USER"}, must \in BOOLEAN :
       /\ user = [u \in User |->
                    IF u = Boot THEN NewUser("ADMIN", 1)
                    ELSE IF u = other THEN [NewUser(role, 1) EXCEPT !.must = must]
                    ELSE Absent]
       /\ tokens = <<SignIn(Boot, 1, 1, Nobody), SignIn(other, 2, 1, Nobody),
                     SignIn(other, 3, 0, Boot)>>
       /\ resets = <<[user |-> other, used |-> FALSE]>>
  /\ setups = 1

Init == Common /\ (Fresh \/ InUse)

Begin(r) ==
  \/ \E u \in User : Login(r, u) \/ Register(r, u) \/ RequestReset(r, u) \/ Callback(r, u)
  \/ \E k \in DOMAIN resets : ConfirmReset(r, k)
  \/ \E i \in DOMAIN tokens :
       \/ Refresh(r, i) \/ Logout(r, i)
       \/ ChangePassword(r, i) \/ MustResetPassword(r, i) \/ ChangeEmail(r, i)
       \/ StopImpersonation(r, i)
       \/ \E u \in User :
            \/ AdminReset(r, i, u) \/ Impersonate(r, i, u)
            \/ \E change \in Change :
                 ChangeUser(r, i, u, change) \/ ChangeRole(r, i, u, change)
            \/ \E withPassword \in BOOLEAN : CreateUser(r, i, u, withPassword)
       \/ \E on \in BOOLEAN : SetRegistration(r, i, on) \/ SetProvisioning(r, i, on)

Run(r) ==
  \/ Issue(r) \/ Rotate(r) \/ Revoke(r) \/ RevokeFails(r)
  \/ SetPassword(r) \/ SetTemp(r) \/ ChangeResets(r)
  \/ Create(r) \/ Provision(r) \/ RefuseProvision(r) \/ WriteSetting(r)
  \/ ReadTarget(r) \/ Count(r) \/ Patch(r) \/ BreaksOff(r)

SetUp(r) ==
  \/ \E given \in {0, code.number} : FirstRegister(r, given)
  \/ \E on \in BOOLEAN : Onboard(r, on) \/ \E i \in {0} \cup DOMAIN tokens : SwitchMode(r, i, on)
  \/ StartServer(r)
  \/ EnsureBoot(r) \/ SetMode(r) \/ CheckCode(r) \/ WriteCode(r)
  \/ VerifyCode(r) \/ CountFailure(r) \/ ClearCode(r) \/ ActivateBoot(r)

Next ==
  \/ \E r \in Request : (Begin(r) \/ Run(r)) /\ UNCHANGED setupVars
  \/ \E r \in Request : SetUp(r)
  \/ \E i \in DOMAIN tokens, role \in Roles : FollowProvider(i, role) /\ UNCHANGED setupVars
  \/ Expire

Spec == Init /\ [][Next]_vars

-----------------------------------------------------------------------------
TypeOK ==
  /\ tokens \in Seq(Row)
  /\ user \in [User -> UserRow]
  /\ resets \in Seq([user : User, used : BOOLEAN])
  /\ mode \in BOOLEAN /\ hybrid \in BOOLEAN
  /\ registration \in BOOLEAN /\ jit \in BOOLEAN /\ grouped \in BOOLEAN /\ firstAdmin \in BOOLEAN
  /\ req \in [Request -> Call]
  /\ kept \subseteq User /\ overlapped \in BOOLEAN /\ unled \in BOOLEAN
  /\ onboarded \in BOOLEAN /\ code \in Code /\ codes \in Nat
  /\ setups \in Nat /\ raced \in BOOLEAN

(***************************************************************************)
(* An installation with accounts can always be administered: there is an   *)
(* active administrator, or nobody is active yet and the first             *)
(* registration is open.  The exceptions are those the code leaves: two    *)
(* requests that take administrators away and overlap; a provider whose    *)
(* groups make nobody an administrator; and, with firstUserAdmin turned    *)
(* off, a single sign-on that lets an ordinary user be the first active    *)
(* one, which closes the first registration to everybody.                  *)
(***************************************************************************)
CanBeAdministered ==
  mode => (ActiveAdmins # {} \/ Required \/ overlapped \/ grouped \/ unled)

\* The first registration is completed once, whatever becomes of the users
\* afterwards, unless two of them overlapped, or overlapping requests or the
\* provider's groups had taken all administrators away.
SetUpOnce == setups <= 1 \/ raced \/ overlapped \/ grouped

Revoking(u) ==
  \E r \in Request : req[r].about = u /\
     \E k \in DOMAIN req[r].todo : req[r].todo[k] = "revoke"

(***************************************************************************)
(* Once a request that changes a password has done its work, no session    *)
(* that somebody opened with an earlier password can be refreshed any      *)
(* more: also not by a refresh that ran in between.  Left out are the      *)
(* sign-ins that had their password checked before and were recorded after *)
(* the change, and the users in kept: a handler failed to revoke their     *)
(* tokens, or the first registration replaced a password that the          *)
(* bootstrap account had by then.                                          *)
(***************************************************************************)
SessionsFollowThePassword ==
  \A i \in DOMAIN tokens :
    LET t == tokens[i] IN
      Live(i) /\ t.cred # 0 /\ ~ t.late /\ t.cred # user[t.user].pw
        => t.user \in kept \/ Revoking(t.user)

(***************************************************************************)
(* The table of refresh tokens keeps its promise under concurrent          *)
(* refreshes, sign-outs and password changes: a session has one token that *)
(* works, or it has ended for good.                                        *)
(***************************************************************************)
SL == INSTANCE SessionLife WITH open <- OpenSessions, ended <- EndedSessions

ImplementsSessionLife == SL!Spec
=============================================================================
