----------------------------- MODULE ShareDialog -----------------------------
(***************************************************************************)
(* The dialogs in which an owner shares a drawing (ShareModal.tsx with its *)
(* sections) or a collection (ShareCollectionModal.tsx), and the routes    *)
(* behind them (drawingSharingRoutes.ts, collections.ts).  A handler of a  *)
(* dialog makes several calls, one after the other, and ends with a read   *)
(* of the rows; the spinner lets clicks through, so that handlers overlap. *)
(* Who may open what by these rows is DrawingAccess.                       *)
(***************************************************************************)
EXTENDS Naturals, FiniteSets, Sequences

CONSTANTS
  Person,     \* the accounts there are to share with
  ShareTask,  \* the handlers that may be under way
  MaxShares,  \* bound: what the owner does
  MaxLosses   \* bound: calls that are refused, fail or are lost

ASSUME ShareAssumption == MaxShares \in Nat /\ MaxLosses \in Nat

VARIABLES
  granted,   \* DrawingPermission.permission, or CollectionShare.role
  policies,  \* the DrawingLinkShare rows: [right, active, lapsed], the newest last
  dialog,    \* what is shared, and the state of its modal
  task,
  shares, losses,
  readsServed, \* history: how many reads were served
  crossed    \* history: two new links were under way at once

sharingDialog == <<granted, policies, dialog, task, shares, losses, readsServed, crossed>>

Right == {"view", "edit"}
NoRows == [people |-> [p \in Person |-> "none"], link |-> 0, stamp |-> 0]
Free == [stage |-> "free"]

Unrevoked == {i \in DOMAIN policies : policies[i].active}
Unexpired(links) == {i \in links : ~ policies[i].lapsed}

\* activeLink: the newest of some rows, 0 for none.
Newest(links) == IF links = {} THEN 0 ELSE CHOOSE i \in links : \A j \in links : j <= i

ShareInit ==
  /\ granted \in [Person -> {"none", "view"}]
  /\ policies = <<>>
  /\ \E what \in {"drawing", "collection"} :
       dialog = [what |-> what, open |-> FALSE, rows |-> NoRows, error |-> FALSE,
                 linkPermission |-> "view", searching |-> FALSE, results |-> {}]
  /\ task = [t \in ShareTask |-> Free]
  /\ shares = 0 /\ losses = 0 /\ readsServed = 0
  /\ crossed = FALSE

-----------------------------------------------------------------------------
(***************************************************************************)
(* A handler is the sequence of its calls, the first of them on its way or *)
(* answered.  It begins with setError(null), and so does refresh.          *)
(***************************************************************************)
ReadRows(clears) == [call |-> "read", clears |-> clears]
Creates(plan) == \E i \in DOMAIN plan : plan[i].call = "createLink"

Launch(plan) ==
  \E t \in ShareTask : task[t] = Free /\ task' = [task EXCEPT ![t] = [stage |-> "asked", plan |-> plan]]

Act == shares < MaxShares /\ shares' = shares + 1

Handling(plan) ==
  /\ Act /\ dialog.open
  /\ Launch(plan)
  /\ dialog' = [dialog EXCEPT !.error = FALSE,
                 !.linkPermission = IF Head(plan).call = "createLink" THEN Head(plan).right ELSE @]
  /\ crossed' = (crossed \/ (Creates(plan) /\ \E t \in ShareTask : task[t] # Free /\ Creates(task[t].plan)))
  /\ UNCHANGED <<granted, policies, losses, readsServed>>

Open ==
  /\ Act /\ ~ dialog.open
  /\ Launch(<<ReadRows(FALSE)>>)
  /\ dialog' = [dialog EXCEPT !.open = TRUE, !.error = FALSE, !.linkPermission = "view",
                              !.searching = FALSE, !.results = {}]
  /\ UNCHANGED <<granted, policies, losses, readsServed, crossed>>

Close ==
  /\ dialog.open
  /\ dialog' = [dialog EXCEPT !.open = FALSE, !.searching = FALSE]
  /\ UNCHANGED <<granted, policies, task, shares, losses, readsServed, crossed>>

-----------------------------------------------------------------------------
(***************************************************************************)
(* People.  A search is dropped when the text changes or the dialog        *)
(* closes; for a collection the server leaves out who is in it already.    *)
(***************************************************************************)
Type ==
  /\ dialog.open /\ ~ dialog.searching
  /\ dialog' = [dialog EXCEPT !.searching = TRUE]
  /\ UNCHANGED <<granted, policies, task, shares, losses, readsServed, crossed>>

Joined == {p \in Person : granted[p] # "none"}
Resolved == IF dialog.what = "collection" THEN Person \ Joined ELSE Person

Found ==
  /\ dialog.searching
  /\ \E found \in {{}, Resolved} : dialog' = [dialog EXCEPT !.searching = FALSE, !.results = found]
  /\ UNCHANGED <<granted, policies, task, shares, losses, readsServed, crossed>>

\* The calls of handleAdd, handleRoleChange and handleRemove, as of the drawing's
\* handlers; a role is changed only if the row is there.
Adding(p, r)   == <<[call |-> "grant", person |-> p, right |-> r], ReadRows(TRUE)>>
Changing(p, r) ==
  <<[call |-> IF dialog.what = "drawing" THEN "grant" ELSE "patch", person |-> p, right |-> r], ReadRows(FALSE)>>
Removing(p)    == <<[call |-> "revoke", person |-> p], ReadRows(FALSE)>>

Offered(p) == p \in dialog.results
HasRow(p)  == dialog.rows.people[p] # "none"

\* handleAddUser, handleUpdateUserPermission, handleRevokeUser
AddUser(p, r)    == Offered(p) /\ Handling(Adding(p, r))
UpdateUser(p, r) == HasRow(p) /\ Handling(Changing(p, r))
RevokeUser(p)    == HasRow(p) /\ Handling(Removing(p))

-----------------------------------------------------------------------------
(***************************************************************************)
(* The link of a drawing.  Another right or another expiry is another row; *)
(* the right that is set on the way is what the next choice starts from.   *)
(***************************************************************************)
\* handleUpdateLink
UpdateLink(r) ==
  LET old == dialog.rows.link
      revoke == IF old = 0 THEN <<>> ELSE <<[call |-> "revokeLink", link |-> old, next |-> r]>> IN
    /\ dialog.what = "drawing"
    /\ Handling(revoke \o <<[call |-> "createLink", right |-> r], ReadRows(FALSE)>>)

\* "Anyone with the link", the expiry, and the right, which is offered when there is a link.
ChooseLink ==
  \/ UpdateLink(dialog.linkPermission)
  \/ dialog.rows.link # 0 /\ \E r \in Right : UpdateLink(r)

\* handleRevokeLink
RevokeLink ==
  /\ dialog.rows.link # 0
  /\ Handling(<<[call |-> "revokeLink", link |-> dialog.rows.link, next |-> "same"], ReadRows(FALSE)>>)

-----------------------------------------------------------------------------
(***************************************************************************)
(* The routes.                                                             *)
(***************************************************************************)
Call(t) == Head(task[t].plan)
Asks(t, calls) == task[t].stage = "asked" /\ Call(t).call \in calls
Reaches(t, stage) == task' = [task EXCEPT ![t].stage = stage]

\* An upsert, a change of a row that is there, a deletion.
RowAfter(c) == IF c.call = "revoke" THEN "none" ELSE c.right

ServePeople(t) ==
  LET c == Call(t) IN
    /\ Asks(t, {"grant", "patch", "revoke"})
    /\ c.call = "patch" => c.person \in Joined
    /\ granted' = [granted EXCEPT ![c.person] = RowAfter(c)]
    /\ Reaches(t, "done")
    /\ UNCHANGED <<policies, dialog, shares, losses, readsServed, crossed>>

Revoked(links) ==
  [i \in DOMAIN policies |-> [policies[i] EXCEPT !.active = @ /\ i \notin links]]

ServeRevokeLink(t) ==
  /\ Asks(t, {"revokeLink"})
  /\ policies' = Revoked({Call(t).link})
  /\ Reaches(t, "done")
  /\ UNCHANGED <<granted, dialog, shares, losses, readsServed, crossed>>

\* Defect: the policies before are not revoked.
KeepLinks(t) ==
  /\ Asks(t, {"createLink"})
  /\ Reaches(t, "creating")
  /\ UNCHANGED <<granted, policies, dialog, shares, losses, readsServed, crossed>>

\* POST /drawings/:id/link-shares is two statements: revoke all, create one.
RevokeLinks(t) ==
  /\ Asks(t, {"createLink"})
  /\ policies' = Revoked(Unrevoked)
  /\ Reaches(t, "creating")
  /\ UNCHANGED <<granted, dialog, shares, losses, readsServed, crossed>>

CreateLinkRow(t) ==
  /\ task[t].stage = "creating"
  /\ policies' = Append(policies, [right |-> Call(t).right, active |-> TRUE, lapsed |-> FALSE])
  /\ Reaches(t, "done")
  /\ UNCHANGED <<granted, dialog, shares, losses, readsServed, crossed>>

\* GET /drawings/:id/sharing, GET /collections/:id/shares
ServeRead(t) ==
  /\ Asks(t, {"read"})
  /\ readsServed' = readsServed + 1
  /\ task' = [task EXCEPT ![t] = [stage |-> "read", plan |-> @.plan, people |-> granted,
                                  links |-> Unrevoked, stamp |-> readsServed']]
  /\ UNCHANGED <<granted, policies, dialog, shares, losses, crossed>>

Lapse(i) ==
  /\ i \in Unexpired(Unrevoked)
  /\ policies' = [policies EXCEPT ![i].lapsed = TRUE]
  /\ UNCHANGED <<granted, dialog, task, shares, losses, readsServed, crossed>>

-----------------------------------------------------------------------------
(***************************************************************************)
(* Back in the dialog.                                                     *)
(***************************************************************************)
Replied(t) ==
  LET c == Call(t)  rest == Tail(task[t].plan) IN
    /\ task[t].stage = "done"
    /\ task' = [task EXCEPT ![t] = [stage |-> "asked", plan |-> rest]]
    /\ dialog' = [dialog EXCEPT
          !.error = @ /\ Head(rest).call # "read",
          !.linkPermission = IF c.call = "revokeLink" /\ c.next # "same" THEN c.next ELSE @]
    /\ UNCHANGED <<granted, policies, shares, losses, readsServed, crossed>>

Cleared(c, results) == IF c.clears THEN {} ELSE results

Refreshed(t) ==
  LET link == Newest(Unexpired(task[t].links)) IN
    /\ task[t].stage = "read"
    /\ dialog' = [dialog EXCEPT
          !.rows = [people |-> task[t].people, link |-> link, stamp |-> task[t].stamp],
          !.linkPermission = IF dialog.open /\ link # 0 THEN policies[link].right ELSE @,
          !.searching = @ /\ ~ Call(t).clears,
          !.results = Cleared(Call(t), @)]
    /\ task' = [task EXCEPT ![t] = Free]
    /\ UNCHANGED <<granted, policies, shares, losses, readsServed, crossed>>

\* A call is refused (the drawing, the account or the row is gone), fails on the
\* server, or is lost, and so may be its answer.
CallFails(t) ==
  /\ task[t] # Free
  /\ \/ Asks(t, {"patch"}) /\ Call(t).person \notin Joined /\ UNCHANGED losses
     \/ losses < MaxLosses /\ losses' = losses + 1
  /\ task' = [task EXCEPT ![t] = Free]
  /\ dialog' = [dialog EXCEPT !.error = TRUE,
                  !.searching = @ /\ ~ (Call(t).call = "read" /\ Call(t).clears),
                  !.results = IF Call(t).call = "read" THEN Cleared(Call(t), @) ELSE @]
  /\ UNCHANGED <<granted, policies, shares, readsServed, crossed>>

ShareNext ==
  \/ Open \/ Close \/ Type \/ Found \/ ChooseLink \/ RevokeLink
  \/ \E p \in Person : RevokeUser(p) \/ \E r \in Right : AddUser(p, r) \/ UpdateUser(p, r)
  \/ \E i \in DOMAIN policies : Lapse(i)
  \/ \E t \in ShareTask :
       \/ ServePeople(t) \/ ServeRevokeLink(t) \/ RevokeLinks(t) \/ CreateLinkRow(t) \/ ServeRead(t)
       \/ Replied(t) \/ Refreshed(t) \/ CallFails(t)

-----------------------------------------------------------------------------
(***************************************************************************)
(* When nothing is under way and no error is shown, the dialog shows who   *)
(* has access: the people and their rights as they are stored, and the one *)
(* link there is, so that "Restricted" is the truth and takes away all     *)
(* there is to take away.  Excepted is what the dialog cannot tell: a      *)
(* newer list that was overtaken by the answer it shows, a link that has   *)
(* expired since, and two new links made at once, which leave two active   *)
(* policies although the route means to keep one.                          *)
(***************************************************************************)
QuietDialogShowsTheAccess ==
  dialog.open /\ ~ dialog.error /\ (\A t \in ShareTask : task[t] = Free) /\ dialog.rows.stamp = readsServed =>
    LET live == Unexpired(Unrevoked)  link == dialog.rows.link IN
      /\ dialog.rows.people = granted
      /\ link = Newest(live) \/ (link # 0 /\ policies[link].lapsed)
      /\ crossed \/ live \subseteq {link}
=============================================================================
