--------------------------- MODULE DrawingAccess ----------------------------
(***************************************************************************)
(* Who may see and edit one drawing: the owner, DrawingPermission rows,    *)
(* the share of the collection that the drawing lies in, and the           *)
(* "anyone with the link" policy.  The routes of drawingSharingRoutes.ts   *)
(* and collections.ts change these; getDrawingAccess of authz/sharing.ts   *)
(* reads them in three separate queries (see LiveRoom).                    *)
(***************************************************************************)
EXTENDS Integers, FiniteSets

CONSTANTS
  User,         \* accounts
  Owner,        \* the account that the drawing belongs to
  Nobody,       \* a visitor who is not signed in
  LinkRequest,  \* the link policies that the owner may create
  MaxChanges    \* bound: changes of the sharing rows

ASSUME SharingAssumption ==
  /\ Owner \in User
  /\ Nobody \notin User
  /\ MaxChanges \in Nat

VARIABLES
  exists,   \* the drawing has not been deleted
  direct,   \* DrawingPermission.permission of each account
  role,     \* each account in the drawing's collection: CollectionShare.role, "owner"
  links,    \* the DrawingLinkShare rows that are neither revoked nor expired
  linking,  \* where the handler of each link request is
  changes   \* changes made so far

sharing == <<exists, direct, role, links, linking, changes>>

Permission == {"view", "edit"}
Access     == {"none", "owner"} \cup Permission
Principal  == User \cup {Nobody}

accessRank ==
  [a \in Access |->
     CASE a = "owner" -> 3 [] a = "edit" -> 2 [] a = "view" -> 1 [] OTHER -> 0]

maxAccess(a, b) == IF accessRank[a] >= accessRank[b] THEN a ELSE b

canView(a) == accessRank[a] >= accessRank["view"]
canEdit(a) == accessRank[a] >= accessRank["edit"]

\* "orderBy: { createdAt: 'desc' }": the newest active policy counts.
LinkAccess ==
  IF links = {} THEN "none"
  ELSE (CHOOSE l \in links : \A k \in links : k.id <= l.id).permission

DirectAccess(p) ==
  IF ~ exists \/ p = Nobody THEN "none"
  ELSE IF p = Owner THEN "owner" ELSE direct[p]

\* The collection is looked at only when there is no permission of one's own.
CollectionAccess(p) == IF ~ exists \/ p = Nobody THEN "none" ELSE role[p]

Effective(p) ==
  maxAccess(IF DirectAccess(p) = "none" THEN CollectionAccess(p) ELSE DirectAccess(p),
            LinkAccess)

\* Collaborations as they may have come about: a drawing that was shared with
\* accounts or by a link, or one that lies in the collection of another account.
Shared ==
  /\ direct \in [User -> {"none"} \cup Permission]
  /\ direct[Owner] = "none"
  /\ role = [u \in User |-> "none"]
  /\ \/ links = {}
     \/ \E p \in Permission : links = {[id |-> 0, permission |-> p]}

Hosted ==
  /\ direct = [u \in User |-> "none"]
  /\ \E host \in User \ {Owner} :
       role = [u \in User |-> IF u = host THEN "owner" ELSE "none"]
  /\ links = {}

SharingInit ==
  /\ exists = TRUE
  /\ Shared \/ Hosted
  /\ linking = [q \in LinkRequest |-> "idle"]
  /\ changes = 0

Change == exists /\ changes < MaxChanges /\ changes' = changes + 1

\* POST /drawings/:id/permissions, DELETE /drawings/:id/permissions/:permId
Grant(u, permission) ==
  /\ Change
  /\ u # Owner
  /\ direct' = [direct EXCEPT ![u] = permission]
  /\ UNCHANGED <<exists, role, links, linking>>

RevokeGrant(u) ==
  /\ Change
  /\ direct[u] # "none"
  /\ direct' = [direct EXCEPT ![u] = "none"]
  /\ UNCHANGED <<exists, role, links, linking>>

\* POST and PATCH /collections/:id/shares, DELETE /collections/:id/shares/:userId
ShareCollection(u, permission) ==
  /\ Change
  /\ u # Owner /\ role[u] # "owner"
  /\ role' = [role EXCEPT ![u] = permission]
  /\ UNCHANGED <<exists, direct, links, linking>>

UnshareCollection(u) ==
  /\ Change
  /\ role[u] \in Permission
  /\ role' = [role EXCEPT ![u] = "none"]
  /\ UNCHANGED <<exists, direct, links, linking>>

\* DELETE /collections/:id, one transaction: the drawing lies in no collection.
\* The same when its owner moves it out (PUT /drawings/:id).
DropCollection ==
  /\ Change
  /\ role' = [u \in User |-> "none"]
  /\ UNCHANGED <<exists, direct, links, linking>>

(***************************************************************************)
(* POST /drawings/:id/link-shares: revoke what is active, then create.     *)
(***************************************************************************)
RevokeActiveLinks(q) ==
  /\ Change
  /\ linking[q] = "idle"
  /\ links' = {}
  /\ linking' = [linking EXCEPT ![q] = "revoked"]
  /\ UNCHANGED <<exists, direct, role>>

CreateLink(q, permission) ==
  /\ linking[q] = "revoked"
  /\ linking' = [linking EXCEPT ![q] = "done"]
  /\ links' = IF exists
                THEN links \cup {[id |-> 1 + Cardinality({r \in LinkRequest : linking[r] = "done"}),
                                  permission |-> permission]}
                ELSE links   \* the foreign key refuses it
  /\ UNCHANGED <<exists, direct, role, changes>>

\* DELETE /drawings/:id/link-shares/:shareId, or expiresAt passes.
EndLink(l) ==
  /\ Change
  /\ links' = links \ {l}
  /\ UNCHANGED <<exists, direct, role, linking>>

\* DELETE /drawings/:id; permissions and link shares go by cascade.
DeleteDrawing ==
  /\ Change
  /\ exists' = FALSE
  /\ direct' = [u \in User |-> "none"]
  /\ links' = {}
  /\ UNCHANGED <<role, linking>>

SharingStep ==
  \/ \E u \in User, p \in Permission : Grant(u, p) \/ ShareCollection(u, p)
  \/ \E u \in User : RevokeGrant(u) \/ UnshareCollection(u)
  \/ DropCollection \/ DeleteDrawing
  \/ \E q \in LinkRequest : RevokeActiveLinks(q) \/ \E p \in Permission : CreateLink(q, p)
  \/ \E l \in links : EndLink(l)

\* Some row that gives access was withdrawn or lowered by this step.
Lowered(old, new) == accessRank[new] < accessRank[old]

Withdrawal ==
  \/ \E p \in Principal :
       \/ Lowered(DirectAccess(p), DirectAccess(p)')
       \/ Lowered(CollectionAccess(p), CollectionAccess(p)')
  \/ Lowered(LinkAccess, LinkAccess')

SharingTypeOK ==
  /\ exists \in BOOLEAN
  /\ direct \in [User -> Access]
  /\ role \in [User -> Access]
  /\ links \subseteq [id : Nat, permission : Permission]
  /\ linking \in [LinkRequest -> {"idle", "revoked", "done"}]
  /\ changes \in 0 .. MaxChanges
=============================================================================
