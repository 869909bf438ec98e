------------------------------ MODULE AdminPage ------------------------------
(***************************************************************************)
(* The administration page of one administrator: the table of users, the   *)
(* switches of access control, and the form of the login rate limit that   *)
(* saves itself.  What the server decides about a user is in Accounts;     *)
(* here it matters when its answers reach the page, and in which order.    *)
(*                                                                         *)
(* Left out: messages, passwords, impersonation (SignOn), the collections  *)
(* of the side bar, and what other administrators do at the same time.     *)
(***************************************************************************)
EXTENDS Naturals, Sequences

CONSTANTS
  Account,      \* users other than the administrator
  UserCall,     \* calls about users that may be under way at once
  Switch,       \* self-sign-up and auto-provisioning
  Limit,        \* settings of the rate limit that the form can show
  Unset,        \* nothing shown, none saved, no account
  MaxDoings,   \* bound on what the administrator does
  MaxLost       \* bound on requests that fail or whose answer is lost

ASSUME AdminConstants == Unset \notin Limit \cup Account /\ MaxDoings \in Nat /\ MaxLost \in Nat

VARIABLES
  users,     \* users[a]: a's row on the server, << >> or <<[active, reset]>>
  table,     \* table[a]: the rows that the page shows of a
  userCall,  \* userCall[c]: a call about users, [kind, who, row, stamp, rows]
  turns,     \* [served, seen]: calls served, and the latest whose answer arrived
  resetting, \* resetPasswordLoadingId
  flags,     \* stored, shown and call of the switches
  limit,     \* the rate limit: stored on the server, and the form
  doings     \* [clicks, lost, crossed, early]: bounds and excuses

usersPart  == <<users, table, userCall, turns, resetting>>
adminPage  == <<users, table, userCall, turns, resetting, flags, limit, doings>>

Row     == [active : BOOLEAN, reset : BOOLEAN]
NoUserCall  == [kind |-> "none", who |-> Unset, row |-> <<>>, stamp |-> 0, rows |-> <<>>]
NewRow  == [active |-> TRUE, reset |-> TRUE]

AdminInit ==
  /\ users \in [Account -> {<<>>, <<[active |-> TRUE, reset |-> FALSE]>>}]
  /\ table = [a \in Account |-> <<>>]
  /\ userCall = [c \in UserCall |-> NoUserCall]
  /\ turns = [served |-> 0, seen |-> 0]
  /\ resetting = Unset
  /\ \E on \in [Switch -> BOOLEAN] : flags =
       [stored |-> on, shown |-> on, known |-> FALSE, call |-> [of |-> Unset, to |-> FALSE, stage |-> "none", answer |-> on]]
  /\ \E l, m \in Limit : limit = [stored |-> l, shown |-> m, saved |-> Unset, armed |-> Unset, wish |-> Unset,
                                       call |-> [kind |-> "none", value |-> Unset, stage |-> "none"]]
  /\ doings = [clicks |-> 0, lost |-> 0, crossed |-> FALSE, early |-> FALSE]

Acts == doings.clicks < MaxDoings /\ doings' = [doings EXCEPT !.clicks = @ + 1]
Trouble == doings.lost < MaxLost

----------------------------------------------------------------------------
(* The table of users.                                                     *)

Sends(c, call) == userCall[c] = NoUserCall /\ userCall' = [userCall EXCEPT ![c] = call]

\* Opening the page, and Refresh.
LoadUsers(c) ==
  /\ Acts /\ Sends(c, [NoUserCall EXCEPT !.kind = "list"])
  /\ UNCHANGED <<users, table, turns, resetting, flags, limit>>

\* A button of a row asks for the opposite of what the row shows.
PatchUser(c, a) ==
  /\ table[a] # <<>>
  /\ \E row \in {[table[a][1] EXCEPT !.active = ~ @], [table[a][1] EXCEPT !.reset = ~ @]} :
       Sends(c, [NoUserCall EXCEPT !.kind = "patch", !.who = a, !.row = <<table[a][1], row>>])
  /\ Acts
  /\ UNCHANGED <<users, table, turns, resetting, flags, limit>>

CreateUser(c, a) ==
  /\ Sends(c, [NoUserCall EXCEPT !.kind = "create", !.who = a])
  /\ Acts
  /\ UNCHANGED <<users, table, turns, resetting, flags, limit>>

ResetUser(c, a) ==
  /\ table[a] # <<>> /\ resetting # a
  /\ Sends(c, [NoUserCall EXCEPT !.kind = "reset", !.who = a])
  /\ resetting' = a
  /\ Acts
  /\ UNCHANGED <<users, table, turns, flags, limit>>

\* The request names one field; the others stay as the server has them.
Patched(row, from, to) ==
  [active |-> IF from.active # to.active THEN to.active ELSE row.active,
   reset  |-> IF from.reset # to.reset THEN to.reset ELSE row.reset]

\* What the server makes of call k; a user that exists is not created again.
Permits(k) == CASE k.kind = "create" -> users[k.who] = <<>>
                 [] k.kind \in {"patch", "reset"} -> users[k.who] # <<>>
                 [] OTHER -> TRUE

UsersAfter(k) ==
  CASE k.kind = "create" -> [users EXCEPT ![k.who] = <<NewRow>>]
    [] k.kind = "patch"  -> [users EXCEPT ![k.who] = <<Patched(@[1], k.row[1], k.row[2])>>]
    [] k.kind = "reset"  -> [users EXCEPT ![k.who] = <<[@[1] EXCEPT !.reset = TRUE]>>]
    [] OTHER             -> users

ServeUsers(c) ==
  LET k == userCall[c] IN
  /\ k.kind # "none" /\ k.stamp = 0 /\ Permits(k)
  /\ users' = UsersAfter(k)
  /\ turns' = [turns EXCEPT !.served = @ + 1]
  /\ userCall' = [userCall EXCEPT ![c].stamp = turns.served + 1, ![c].rows = users']
  /\ UNCHANGED <<table, resetting, flags, limit, doings>>

\* Defect: the row is shown as the request asked for it.
ShowAsAsked(k) ==
  CASE k.kind = "list"   -> k.rows
    [] k.kind = "patch"  -> [table EXCEPT ![k.who] = [i \in DOMAIN @ |-> k.row[2]]]
    [] k.kind = "create" -> [table EXCEPT ![k.who] = @ \o k.rows[k.who]]
    [] OTHER             -> table

\* A list replaces the table, a changed row its rows, a new one is appended.
Show(k) ==
  CASE k.kind = "list"   -> k.rows
    [] k.kind = "patch"  -> [table EXCEPT ![k.who] = [i \in DOMAIN @ |-> k.rows[k.who][1]]]
    [] k.kind = "create" -> [table EXCEPT ![k.who] = @ \o k.rows[k.who]]
    [] OTHER             -> table

\* After a reset the list is loaded, and only then the button is free again.
UsersAnswered(c) ==
  LET k == userCall[c] IN
  /\ k.stamp > 0
  /\ table' = Show(k)
  /\ turns' = [turns EXCEPT !.seen = IF k.stamp > @ THEN k.stamp ELSE @]
  /\ doings' = [doings EXCEPT !.crossed = @ \/ k.stamp < turns.seen]
  /\ userCall' = [userCall EXCEPT ![c] =
       IF k.kind = "reset" THEN [NoUserCall EXCEPT !.kind = "list", !.who = k.who] ELSE NoUserCall]
  /\ resetting' = IF k.kind = "list" /\ k.who # Unset THEN Unset ELSE resetting
  /\ UNCHANGED <<users, flags, limit>>

\* Refused, failed, or done without the page hearing of it.
UsersFail(c) ==
  LET k == userCall[c] IN
  /\ k.kind # "none" /\ (Permits(k) => Trouble)
  /\ doings' = [doings EXCEPT !.lost = IF k.stamp = 0 /\ ~ Permits(k) THEN @ ELSE @ + 1,
                              !.crossed = @ \/ k.stamp > 0 \/ (k.kind = "list" /\ k.who # Unset)]
  /\ userCall' = [userCall EXCEPT ![c] = NoUserCall]
  /\ resetting' = IF k.who # Unset /\ k.kind \in {"reset", "list"} THEN Unset ELSE resetting
  /\ UNCHANGED <<users, table, turns, flags, limit>>

UsersNext == \E c \in UserCall :
  \/ LoadUsers(c) \/ ServeUsers(c) \/ UsersAnswered(c) \/ UsersFail(c)
  \/ \E a \in Account : PatchUser(c, a) \/ CreateUser(c, a) \/ ResetUser(c, a)

----------------------------------------------------------------------------
(* The switches: one call at a time, the buttons wait for its answer.      *)

AskFlags(of, to) ==
  /\ flags.call.stage = "none" /\ Acts
  /\ flags' = [flags EXCEPT !.call = [of |-> of, to |-> to, stage |-> "sent", answer |-> flags.stored]]
  /\ UNCHANGED <<usersPart, limit>>

LoadSwitches == ~ flags.known /\ AskFlags(Unset, FALSE)

Flip(s) == flags.known /\ AskFlags(s, ~ flags.shown[s])

ServeFlags ==
  LET k == flags.call
      after == [s \in Switch |-> IF s = k.of THEN k.to ELSE flags.stored[s]]
  IN  /\ k.stage = "sent"
      /\ flags' = [flags EXCEPT !.stored = after, !.call.stage = "served", !.call.answer = after]
      /\ UNCHANGED <<usersPart, limit, doings>>

FlagsAnswered ==
  LET k == flags.call IN
  /\ k.stage = "served"
  /\ flags' = [flags EXCEPT !.known = TRUE, !.call.stage = "none",
                 !.shown = [s \in Switch |-> IF k.of \in {Unset, s} THEN k.answer[s] ELSE @[s]]]
  /\ UNCHANGED <<usersPart, limit, doings>>

FlagsFail ==
  /\ flags.call.stage # "none" /\ Trouble
  /\ doings' = [doings EXCEPT !.lost = @ + 1, !.crossed = @ \/ flags.call.stage = "served"]
  /\ flags' = [flags EXCEPT !.call.stage = "none"]
  /\ UNCHANGED <<usersPart, limit>>

SwitchNext == LoadSwitches \/ ServeFlags \/ FlagsAnswered \/ FlagsFail \/ \E s \in Switch : Flip(s)

----------------------------------------------------------------------------
(* The form of the login rate limit.  A change is saved 900 ms after the   *)
(* last one, unless a save is under way: armed is what the timer would     *)
(* save.  The effects run after every change of the state.                 *)

\* Defect: the timer that is running is not started again.
ArmOnce(form) ==
  [form EXCEPT !.armed = IF form.saved # Unset /\ form.shown # form.saved /\ form.call.stage = "none"
                         THEN (IF @ = Unset THEN form.shown ELSE @) ELSE Unset]

Effects(form) ==
  [form EXCEPT !.armed = IF form.saved # Unset /\ form.shown # form.saved /\ form.call.stage = "none"
                         THEN form.shown ELSE Unset]

LimitCall(kind, value, stage) == [kind |-> kind, value |-> value, stage |-> stage]

LoadConfig ==
  /\ limit.call.stage = "none" /\ limit.saved = Unset /\ Acts
  /\ limit' = [limit EXCEPT !.call = LimitCall("load", Unset, "sent")]
  /\ UNCHANGED <<usersPart, flags>>

EditLimit(v) ==
  /\ limit.shown # v /\ doings.clicks < MaxDoings
  /\ limit' = Effects([limit EXCEPT !.shown = v, !.wish = v])
  /\ doings' = [doings EXCEPT !.clicks = @ + 1, !.early = @ \/ limit.saved = Unset \/ limit.call.stage # "none"]
  /\ UNCHANGED <<usersPart, flags>>

SaveConfig ==
  /\ limit.armed # Unset
  /\ limit' = [limit EXCEPT !.armed = Unset, !.call = LimitCall("save", limit.armed, "sent")]
  /\ UNCHANGED <<usersPart, flags, doings>>

ServeLimit ==
  LET after == IF limit.call.kind = "save" THEN limit.call.value ELSE limit.stored IN
  /\ limit.call.stage = "sent"
  /\ limit' = [limit EXCEPT !.stored = after, !.call.stage = "served", !.call.value = after]
  /\ UNCHANGED <<usersPart, flags, doings>>

\* What the server has replaces what the form shows, later changes included.
LimitAnswered ==
  /\ limit.call.stage = "served"
  /\ limit' = Effects([limit EXCEPT !.shown = limit.call.value, !.saved = limit.call.value, !.call.stage = "none"])
  /\ UNCHANGED <<usersPart, flags, doings>>

\* The form is still dirty: the effects start the timer again.
LimitFails ==
  /\ limit.call.stage # "none" /\ Trouble
  /\ limit' = Effects([limit EXCEPT !.call.stage = "none"])
  /\ doings' = [doings EXCEPT !.lost = @ + 1]
  /\ UNCHANGED <<usersPart, flags>>

LimitNext == LoadConfig \/ SaveConfig \/ ServeLimit \/ LimitAnswered \/ LimitFails \/ \E v \in Limit : EditLimit(v)

----------------------------------------------------------------------------
(* When nothing is under way, the page shows what the server has: every    *)
(* user of the table once and as it is, unless the answers to two calls    *)
(* about users crossed or one was lost (Admin.tsx:152, :192); the switches *)
(* as they are set; and the rate limit that is stored - the one entered    *)
(* last, unless it was entered before the form was loaded or during a      *)
(* save, whose answer overwrites it (useLoginRateLimitSettings.ts:114).    *)
(* When the answer to a save is lost and the old value is entered again,   *)
(* the form is content with a value that the server has replaced.          *)
TableIsTrue ==
  turns.seen > 0 /\ (\A c \in UserCall : userCall[c] = NoUserCall) /\ ~ doings.crossed
    => \A a \in Account : table[a] # <<>> => table[a] = users[a]

SwitchesAreTrue == flags.known /\ flags.call.stage = "none" /\ ~ doings.crossed => flags.shown = flags.stored

FormIsTrue ==
  limit.saved # Unset /\ limit.call.stage = "none" /\ limit.armed = Unset =>
    /\ limit.shown = limit.stored \/ (doings.lost > 0 /\ limit.wish = limit.saved)
    /\ limit.wish # Unset /\ ~ doings.early => limit.shown = limit.wish

QuietAdminPageIsTrue == TableIsTrue /\ SwitchesAreTrue /\ FormIsTrue
=============================================================================
