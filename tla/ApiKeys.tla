------------------------------- MODULE ApiKeys -------------------------------
(***************************************************************************)
(* The API keys of an account: the routes that list, create and revoke     *)
(* them (accountApiKeyRoutes.ts), what a request with a key may do         *)
(* (middleware/auth.ts, apiKeys.ts), and the card of the profile page that *)
(* shows them (ApiKeysCard.tsx).  Tokens, names and dates are left out; a  *)
(* token is shown once, in the answer to its creation.                     *)
(***************************************************************************)
EXTENDS Naturals, FiniteSets

CONSTANTS
  Key, Scope,
  KeyCall,                 \* the calls of the card
  MaxPresses, MaxRefusals  \* bounds

ASSUME KeyAssumption == MaxPresses \in Nat /\ MaxRefusals \in Nat /\ Scope # {}

VARIABLES
  account,  \* [active, mustReset]
  keys,     \* the ApiKey rows: [made, revoked, scopes]
  keyCall,
  keyCard,  \* the state of ApiKeysCard
  presses, refusals,
  known     \* history: the keys whose token this browser was told

apiKeys == <<account, keys, keyCall, keyCard, presses, refusals, known>>

NoCall == [stage |-> "idle"]
NoKey  == [made |-> FALSE, revoked |-> FALSE, scopes |-> {}]
Made   == {k \in Key : keys[k].made}

Closed == [open |-> FALSE]

KeysInit ==
  /\ \E reset \in BOOLEAN : account = [active |-> TRUE, mustReset |-> reset]
  /\ keys = [k \in Key |-> NoKey]
  /\ keyCall = [c \in KeyCall |-> NoCall]
  /\ keyCard = Closed
  /\ presses = 0 /\ refusals = 0
  /\ known = {}

-----------------------------------------------------------------------------
(***************************************************************************)
(* A request with a key: authenticateApiKey, authorizeApiKeyRequest, and   *)
(* the check that follows.  The row and its user are one read.             *)
(***************************************************************************)
Accepts(k, s) ==
  /\ keys[k].made /\ ~ keys[k].revoked
  /\ account.active
  /\ s \in keys[k].scopes
  /\ ~ account.mustReset

-----------------------------------------------------------------------------
(***************************************************************************)
(* The card.  Its calls may outlive it; mine is whether they do not.       *)
(***************************************************************************)
Press == presses < MaxPresses /\ presses' = presses + 1

Calls(kind, k, scopes) ==
  \E c \in KeyCall :
    /\ keyCall[c] = NoCall
    /\ keyCall' = [keyCall EXCEPT ![c] = [stage |-> "asked", kind |-> kind, key |-> k,
                                          scopes |-> scopes, mine |-> TRUE]]

\* unloaded and doubtful are history: the list, or a revocation, has failed; or
\* one that an earlier card began is still under way.
Card == [open |-> TRUE, loading |-> TRUE, busy |-> FALSE, rows |-> [k \in {} |-> FALSE],
         scopes |-> Scope, confirm |-> {}, error |-> FALSE, unloaded |-> FALSE,
         doubtful |-> \E c \in KeyCall : keyCall[c] # NoCall /\ keyCall[c].kind = "revoke"]

\* rows: for each listed key, whether it is shown as revoked.
OpenCard ==
  /\ Press /\ ~ keyCard.open
  /\ IF account.mustReset THEN keyCard' = [Card EXCEPT !.loading = FALSE] /\ UNCHANGED keyCall
     ELSE keyCard' = Card /\ Calls("list", "none", {})
  /\ UNCHANGED <<account, keys, refusals, known>>

LeaveCard ==
  /\ keyCard.open
  /\ keyCard' = Closed
  /\ keyCall' = [c \in KeyCall |-> IF keyCall[c] = NoCall THEN NoCall ELSE [keyCall[c] EXCEPT !.mine = FALSE]]
  /\ UNCHANGED <<account, keys, presses, refusals, known>>

\* handleApiKeyScopeChange
Toggle(s) ==
  /\ Press /\ keyCard.open /\ ~ account.mustReset
  /\ LET next == IF s \in keyCard.scopes THEN keyCard.scopes \ {s} ELSE keyCard.scopes \cup {s} IN
       keyCard' = [keyCard EXCEPT !.scopes = next, !.error = next = {}]
  /\ UNCHANGED <<account, keys, keyCall, refusals, known>>

\* Defect: a key may be created while the list is loading.
MayCreateAnyTime == keyCard.open /\ ~ account.mustReset /\ ~ keyCard.busy /\ keyCard.scopes # {}

MayCreate == keyCard.open /\ ~ account.mustReset /\ ~ keyCard.loading /\ ~ keyCard.busy /\ keyCard.scopes # {}

\* handleCreateApiKey
CreateKey(k) ==
  /\ Press /\ MayCreate
  /\ k \notin Made /\ \A c \in KeyCall : keyCall[c] # NoCall => keyCall[c].key # k
  /\ keyCard' = [keyCard EXCEPT !.busy = TRUE, !.error = FALSE]
  /\ Calls("create", k, keyCard.scopes)
  /\ UNCHANGED <<account, keys, refusals, known>>

\* The button of a row, and the dialog that asks once more.
AskToRevoke(k) ==
  /\ Press /\ keyCard.open /\ ~ keyCard.busy /\ ~ keyCard.loading
  /\ k \in DOMAIN keyCard.rows /\ ~ keyCard.rows[k]
  /\ keyCard' = [keyCard EXCEPT !.confirm = {k}]
  /\ UNCHANGED <<account, keys, keyCall, refusals, known>>

CancelRevoke ==
  /\ keyCard.open /\ keyCard.confirm # {}
  /\ keyCard' = [keyCard EXCEPT !.confirm = {}]
  /\ UNCHANGED <<account, keys, keyCall, presses, refusals, known>>

\* handleRevokeApiKey; the dialog stays until the answer, and may be confirmed again.
RevokeKey(k) ==
  /\ Press /\ keyCard.open /\ k \in keyCard.confirm
  /\ keyCard' = [keyCard EXCEPT !.busy = TRUE, !.error = FALSE]
  /\ Calls("revoke", k, {})
  /\ UNCHANGED <<account, keys, refusals, known>>

-----------------------------------------------------------------------------
(***************************************************************************)
(* GET, POST and DELETE /auth/api-keys.                                    *)
(***************************************************************************)
ServeKeys(c) ==
  LET call == keyCall[c] IN
    /\ call.stage = "asked" /\ account.active /\ ~ account.mustReset
    /\ keys' = CASE call.kind = "create" ->
                      [keys EXCEPT ![call.key] = [made |-> TRUE, revoked |-> FALSE, scopes |-> call.scopes]]
                 [] call.kind = "revoke" -> [keys EXCEPT ![call.key].revoked = TRUE]
                 [] OTHER -> keys
    /\ keyCall' = [keyCall EXCEPT ![c] =
                     [stage |-> "done", kind |-> call.kind, key |-> call.key, mine |-> call.mine,
                      rows |-> [k \in Made |-> keys[k].revoked]]]
    /\ UNCHANGED <<account, keyCard, presses, refusals, known>>

Settle(c) == keyCall' = [keyCall EXCEPT ![c] = NoCall]

KeysListed(c) ==
  /\ keyCall[c].stage = "done" /\ keyCall[c].kind = "list"
  /\ keyCard' = IF keyCall[c].mine THEN [keyCard EXCEPT !.rows = keyCall[c].rows, !.loading = FALSE] ELSE keyCard
  /\ Settle(c)
  /\ UNCHANGED <<account, keys, presses, refusals, known>>

KeyCreated(c) ==
  LET k == keyCall[c].key IN
    /\ keyCall[c].stage = "done" /\ keyCall[c].kind = "create"
    /\ IF keyCall[c].mine
         THEN /\ keyCard' = [keyCard EXCEPT !.rows = [j \in DOMAIN @ \cup {k} |-> IF j = k THEN FALSE ELSE @[j]],
                                            !.scopes = Scope, !.busy = FALSE]
              /\ known' = known \cup {k}
         ELSE UNCHANGED <<keyCard, known>>
    /\ Settle(c)
    /\ UNCHANGED <<account, keys, presses, refusals>>

KeyRevoked(c) ==
  LET k == keyCall[c].key IN
    /\ keyCall[c].stage = "done" /\ keyCall[c].kind = "revoke"
    /\ keyCard' = IF keyCall[c].mine
                    THEN [keyCard EXCEPT !.rows = [j \in DOMAIN @ |-> @[j] \/ j = k],
                                         !.busy = FALSE, !.confirm = {}]
                    ELSE keyCard
    /\ Settle(c)
    /\ UNCHANGED <<account, keys, presses, refusals, known>>

\* The call is refused, the impersonated session's among others, or the call
\* or its answer is lost.
KeyCallFails(c) ==
  LET call == keyCall[c] IN
    /\ call # NoCall
    /\ refusals < MaxRefusals /\ refusals' = refusals + 1
    /\ keyCard' = IF ~ call.mine THEN keyCard
                  ELSE IF call.kind = "list" THEN [keyCard EXCEPT !.loading = FALSE, !.error = TRUE, !.unloaded = TRUE]
                  ELSE [keyCard EXCEPT !.busy = FALSE, !.error = TRUE, !.doubtful = @ \/ call.kind = "revoke",
                                       !.confirm = IF call.kind = "revoke" THEN {} ELSE @]
    /\ Settle(c)
    /\ UNCHANGED <<account, keys, presses, known>>

-----------------------------------------------------------------------------
\* An administrator, or the owner in another browser; see Accounts.
Deactivate ==
  /\ Press /\ account.active
  /\ account' = [account EXCEPT !.active = FALSE]
  /\ UNCHANGED <<keys, keyCall, keyCard, refusals, known>>

\* The password is changed on the page of the card, which signs out.
ResetPassword ==
  /\ keyCard.open /\ account.mustReset
  /\ account' = [account EXCEPT !.mustReset = FALSE]
  /\ keyCard' = Closed
  /\ UNCHANGED <<keys, keyCall, presses, refusals, known>>

KeysNext ==
  \/ OpenCard \/ LeaveCard \/ CancelRevoke \/ Deactivate \/ ResetPassword
  \/ \E s \in Scope : Toggle(s)
  \/ \E k \in Key : CreateKey(k) \/ AskToRevoke(k) \/ RevokeKey(k)
  \/ \E c \in KeyCall :
       ServeKeys(c) \/ KeysListed(c) \/ KeyCreated(c) \/ KeyRevoked(c) \/ KeyCallFails(c)

-----------------------------------------------------------------------------
(***************************************************************************)
(* The card tells which keys work.  Every key that would be accepted and   *)
(* whose token this browser was told is listed as active, so that it can   *)
(* be revoked, unless the list could not be loaded; no key that is listed  *)
(* as revoked is accepted; and one that is listed as active is, as far as  *)
(* the account goes, unless a revocation failed or was under way when the  *)
(* list was read: the card cannot know.                                    *)
(***************************************************************************)
CardTellsWhatWorks ==
  keyCard.open /\ ~ keyCard.loading /\ ~ account.mustReset =>
    LET listed == DOMAIN keyCard.rows
        works(k) == \E s \in Scope : Accepts(k, s) IN
      /\ \A k \in known : works(k) /\ ~ keyCard.unloaded => k \in listed /\ ~ keyCard.rows[k]
      /\ \A k \in listed : keyCard.rows[k] => ~ works(k)
      /\ account.active /\ ~ keyCard.doubtful /\ (\A c \in KeyCall : keyCall[c] = NoCall) =>
           \A k \in listed : ~ keyCard.rows[k] => works(k)
=============================================================================
