# ExcaliDash: formal models of a shared drawing

ExcaliDash (this repository) is a self-hosted dashboard and collaborative editor for
Excalidraw drawings: an Express/Prisma backend with a socket.io server (`backend/`)
and a React frontend (`frontend/`).  This directory holds TLA+ models of the parts in
which several requests, pages and timers work on the same state, the TLC runs that
check them on small instances, and TLAPS proofs of what holds for every size.

Every definition is translated from the source; `PROJECT.json` gives the file and lines
of each.  An action is one stretch of code between two `await`s (backend) or one
callback (frontend), because that is the unit that node and the browser run without
interruption.

## The system: inventory

| part | state it keeps | operations | interacts with |
| --- | --- | --- | --- |
| Drawing routes and history (`routes/dashboard/drawing*.ts`) | `Drawing` row (elements, appState, files, version), `DrawingSnapshot` rows | GET, PUT with an optimistic version, DELETE, restore, snapshot clean-up, POST, duplicate | storage manager and import (other writers of the row), editor (HTTP), files |
| Storage manager (`routes/storage.ts`, `storage/plans.ts`) | the same row, S3 objects | trim, deletion of orphaned files | sockets: `drawing-server-update` |
| Editor persistence (`useEditorPersistence`, `useEditorCommands`, `useEditorBroadcast`, `Editor.tsx`) | canvas, throttle, debounce, chain of saves, believed version | autosave, Ctrl+S, Back, conflict retry, reload | PUT, collaboration |
| Editor collaboration (`useEditorCollaboration`, `utils/sync.ts`, `useEditorElementTracking`) | known element stamps, pending remote elements | broadcast, merge at the next frame, presence | socket server |
| Realtime server (`server/socket.ts`) | rooms, presence, access cache of a socket | join-room, element-update, cursor-move, user-activity, disconnect | sharing |
| Sharing (`authz/sharing.ts`, `drawingSharingRoutes.ts`) | permissions, link shares | grant, revoke, effective access | every drawing route, sockets |
| Collections, trash, library | collection rows, trash flag | create, rename, delete, move | drawings list |
| Drawings list cache (`server/drawingsCache.ts`) | result per user and query | fill, clear | drawing routes, dashboard page |
| Login sessions (`auth/coreRoutes.ts`, `api/auth.ts`) | refresh-token rows, cookies, stored user | login, refresh with rotation, logout | admin, password change |
| Bootstrap (`auth/bootstrapSetupCode.ts`, register) | one-time code, attempts, first administrator | register, verify | admin |
| Passwords, profile, API keys | users, reset tokens, keys | reset, change, create, revoke | sessions |
| Administration (`auth/admin*.ts`, `Admin.tsx`) | users, roles, settings, impersonation | create, update, deactivate | sessions |
| Authentication mode (`auth/authMode.ts`) | cached mode | read, switch | middleware, sockets |
| Single sign-on (`auth/oidc*.ts`) | identities, flow cookie | start, callback | sessions |
| Browser pages before the editor (`AuthContext`, `ProtectedRoute`, `Login`, `Dashboard`, ...) | what a tab knows of the session, cookies it shares with other tabs | load, sign in and out, act as another user, list, move | account and drawing routes |
| Request tokens (`server/csrf.ts`, `api/auth.ts`) | cookie, token per tab | fetch, write, retry | every write |
| Files and object storage (`fileProcessing.ts`, `s3.ts`) | S3 objects, file rows | upload, copy, delete | drawing routes, storage manager |
| Dialogs (sharing, storage, API keys, update check) | rows read before, requests under way | list, change, list again | their routes |
| Import and export, backups | archives, backup files | export, merge, copy, prune | drawings, collections |
| Voice copilot (`copilot/realtime.ts`, `CopilotPanel.tsx`) | connection, microphone | start, cancel, talk | voice service, editor |
| UI, deployment | | | |

### What is hard about it, and what makes each part correct

* **One row, many writers.**  PUT, restore, trim, orphan deletion and import all read the
  row, wait (for S3, for access checks) and write it.  Correct: a version number names
  one scene; at most one of the saves with one base version wins; what a checked save
  replaces stays in the history.
* **One page, many timers.**  Throttle (100 ms), debounce (1 s), a promise chain, a retry
  after 409, Ctrl+S and Back all lead to saves, over a network that loses and delays.
  Correct: a page's saves take effect in order and once; a quiet page is saved; Back
  leaves only a saved drawing; the queue cannot wedge.
* **Many pages, no server state.**  The socket server keeps no scene; convergence rests on
  the merge rule and on what each page believes the others know.  Correct: quiet pages
  show the same; no element goes back; every change arrives.
* **Check then act.**  Last administrator, one-time setup code, single active link share,
  refresh rotation: all read, wait and update.  Correct: the guarded quantity holds
  under concurrency.
* **Caches.**  Access (1.5 s), drawings list, authentication mode: an answer computed
  before a change may be stored after it.
* **Partial failure.**  S3 objects and rows are written one after another, and so are the
  statements of every account route: what one request leaves half done another finds.
* **One browser, several tabs.**  Cookies are shared and answers are late: two tabs refresh
  one token, sign out under each other, start the provider's flow twice.  Correct: a
  session that lives is not lost, one that ended stays ended.
* **Panels that read, act and read again.**  Two calls of a dialog overlap, or one fails.
  Correct: at rest a dialog shows the rows, and a confirmation does what it said.

The full list, line by line, is under `hazards` in `PROJECT.json`.

## Modules

| module | models |
| --- | --- |
| `StoragePlans` | the scene, `buildTrimPlan`, `buildOrphanDeletePlan` |
| `DrawingStore` | one row, its history, all handlers that work on it, await by await |
| `VersionLog` | abstract: an append-only log with an atomic compare-and-set; `DrawingStore` implements it |
| `EditorSaves` | pages of one drawing, their timers and saves, the network, the trim notice |
| `SceneSync` | pages of one drawing, broadcast, relay, merge, autosave |
| `SnapshotGuards`, `OpenEditor` | the guards against empty scenes, and the one mounted editor that opens several drawings |
| `DrawingAccess`, `LiveRoom` | the rows that share a drawing and `getDrawingAccess`; the socket server for one drawing, which extends it |
| `SessionTokens` | the refresh-token table, one operator per statement |
| `SessionLife` | abstract: a session begins once and ends for good; `Accounts` and `Onboarding` implement it |
| `Accounts`, `Onboarding` | every account route, statement by statement; how an installation gets its administrator |
| `TabSessions` | the refresh interceptor and the sign-out of several tabs, over `SessionTokens` |
| `CsrfTokens`, `SignOn` | tokens of writes; the pages of a browser on their way to a session, over `CsrfTokens` |
| `Library`, `Dashboard` | folders, lists and their cache; the dashboard page over them |
| `ObjectStore` | images in bucket, records and rows, over `StoragePlans` |
| `VoiceCopilot` | the voice client and its panel |
| `ShareDialog`, `StorageDialog`, `ApiKeys`, `UpdateCheck`, `AdminPage` | a panel each, with its routes |
| `Archive`, `Imports`, `Backups` | export and merge-import; files imported in the browser; scheduled backups |
| `DrawingStoreProofs`, `EditorSavesProofs`, `SceneProofs`, `LiveRoomProofs`, `SessionTokensProofs`, `AccountsProofs`, `TabSessionsProofs`, `PanelProofs` | inductive invariants and theorems |
| `MCDrawingStore`, `MCEditorSaves`, `MCLiveRoom`, `MCAccounts`, `MCTabSessions`, `MCDashboard`, `MCObjectStore`, `MCOpenEditor`, `MCSignOn`, `MCPanels` | instances for TLC |

## Runs

| run | instance and bounds | distinct states |
| --- | --- | --- |
| `drawing_store` | three requests of any kind on one drawing with two image elements | 227 868 |
| `editor_page` | one page, two changes, one explicit save, one trim, one late request; and two pages that exchange two changes | 78 893 |
| `scene_sync` | two editors, one element, two changes, two updates on a wire, mishaps late, reconnect, reorder | 1 138 542 |
| `room` | three connections without changes of rights; and one with a join, two updates and two changes of rights, TTL 2 | 1 196 415 |
| `accounts` | three users, two requests of any kind at once, one attempt at a setup code | 92 666 |
| `tab_sessions` | two tabs, two calls, one expiry, one sign-out, two sessions | 346 922 |
| `dashboard` | a page, another tab, another user; three requests, one of which may fail; one collection, pages of two | 1 612 008 |
| `object_store` | two drawings, two files, three requests, one failing statement or command | 192 327 |
| `open_editor` | two drawings that start differently, two openings, three acts, two saves that wait | 2 124 347 |
| `copilot` | two clients, two mounts, two acts | 477 395 |
| `sign_on` | two tabs, two acts of the user (one where only the provider signs in), one failing request, every mode of the installation | 709 311 |
| `panels` | one panel at a time: two overlapping calls, up to four steps, one or two failures | 2 681 816 |

What each shows is in the section of its module; the one sentence is `about` in
`PROJECT.json`.  Every property has a mutant there: a plausible slip in one mapped definition
under which TLC finds the property violated in the same run.

## DrawingStore

State: `exists`, `version`, `scene`, `snapshots` are the database; `pc`, `call`, `seen`
are the locals of each suspended handler (what it was asked, the row it read); `reply` is
what it answered; `log` is a history variable, the scene written at each version.

| action | code |
| --- | --- |
| `Get` | GET /drawings/:id |
| `RejectStalePut`, `LoadPut` | PUT up to its transaction: access, version check, file processing |
| `CommitPut`, `RollBackPut`, `AnswerConflict` | the transaction (snapshot, conditional `updateMany`), its rollback, the second read for the 409 |
| `WriteMetadata`, `AnswerMetadata` | PUT without scene columns |
| `LoadRestore`, `BackUpRestore`, `CommitRestore` | restore: three statements, no transaction |
| `LoadTrim`, `LoadOrphans`, `CommitCleanup` | storage clean-ups |
| `LoadDelete`, `CommitDelete` | DELETE with its cascade |
| `CleanUpSnapshots` | hourly clean-up in `index.ts` |
| `Refuse`, `Fail`, `RowGone` | error answers before, during and because of a deleted row |

Abstractions: an element is known by identity, whether it is soft-deleted and which file
it shows; files are their ids; a snapshot's age is its number.  The PUT transaction is
atomic (SQLite runs one write transaction at a time).  The clean-up's two-day window is
assumed longer than the gap between a restore's two writes.

`VersionLog` states what a client may rely on.  In `DrawingStore` a save with a base is many
steps; `ImplementsVersionLog` says that they amount to one compare-and-set: in one
step the log grows and the replaced entry enters the history, or the client is told a
version that is not its base.  The mapping takes `history` from the snapshots' stamps and
`base` from the body of the PUT.

Run: `drawing_store` checks the invariants and the refinement, with three
requests of any kind in all interleavings, versions 1 and 2 as bases, and patches that
replace everything, everything but files, or nothing.  Three requests are needed for a
save between the two writes of a restore, or for two saves with a third that moves the
version.  Each scene column has two values, so an overwrite is visible, and the image
elements cover a live and a soft-deleted one.

What it shows.  A version number names one scene for every holder of it; a save with a
base leaves what it replaces in the history; a scene that a save or a restore removes from row
and history was written after that handler read the row, and the handler has no version
condition.  This says nothing of the trim and of the deletion of orphaned files, which make no
snapshot: what they replace is gone, stale or not.  Two stronger readings are defined in
the module and do not hold: `RestoreIsReversible` (a save between a restore's backup and its
update is lost) and `TrimKeepsNewerVersion` (so is one between a trim's read and its write).

## EditorSaves

State: the server's `version`, `scene` and the list `writes` of accepted saves; requests
that their page gave up on (`late`); per page its `mode`, `canvas`, believed version `ver`,
the throttle's `trailing` call, the `debounce`, the chain of saves `queue` with the
`flight` of its head; `said` is what Ctrl+S told the user.  A drawing is abstracted to
marks that are absent, live or soft-deleted.

| action | code |
| --- | --- |
| `Fetch`, `Show` | `useEditorSceneLoader`, `setExcalidrawAPI` |
| `Edit`, `TrailingFires` | `handleCanvasChange`, `broadcastChanges` with its throttle, `emitChanges` |
| `PeerChanges` | a peer's elements, merged and not saved |
| `AutosaveFires`, `SaveShortcut`, `BackClean`, `BackSaves`, `Navigate` | the ways to a save or away |
| `Send`, `ServerSaves`, `ServerConflicts`, `TakeSaved`, `Retry`, `TakeConflict`, `TakeFailure` | `persistScene` and the chain |
| `LoseRequest`, `LoseReply`, `LateArrives` | the network |
| `Trim`, `ReloadOnUpdate`, `CloseTab` | `notifyServerStateChange`, reload, closing |

Run: `editor_page` is about one of two things.  Either one page with one mark makes two
changes, saves once explicitly, is trimmed once, over a network that may hold back one
request: two edits are what a lost last edit needs (one held back, one sent); one explicit
save beside the autosaves makes the chain longer than one; one late request is what a
duplicate needs.  Or two pages exchange their changes by `SceneSync` without mishaps, for
the liveness of the exchange.

Fairness: timers fire, the page's chain and the requests go on; a request either is
answered or fails (the browser reports it); in the exchange, frames and throttles fire, the
server answers, messages of a connection that stays up arrive.  No fairness is assumed for
the user or for losses.

What it shows.  Saves of a page take effect in order and once; a quiet page is saved; Back
leaves only a saved drawing; no save waits for ever and Back ends; every change, or a newer
one, arrives at the other page.  Two readings that do not hold are kept as definitions:
`ShortcutReportsTruth` (Ctrl+S reports success for a failed save) and `TrimmedStaysTrimmed`
(a save in flight during a trim brings the trimmed elements back).

## SceneSync

State per page: `canvas`; `known` (`elementVersionMap`, the stamps as last sent or received);
`held`, the scene captured by the throttle; `pending`, what arrived since the last frame;
`unsaved`, what its autosave will write; the updates between it and the server
(`relaying`, `arriving`); `mode` (closed, fetched, joined, mute after a reconnect).  An element
is its stamp: version, time of change, nonce.  Files, element order and cursors are left
out, and so is a change of content under an unchanged stamp.

| action | code |
| --- | --- |
| `Fetch`, `Join`, `Reconnect` | loading, `join-room`, a socket that comes back as another |
| `Edit` | Excalidraw (external): version + 1, the time, a new nonce |
| `Report`, `EmitNothing`, `EmitChanges` | `handleCanvasChange`, throttle, `emitChanges` with `hasElementChanged` |
| `Relay` | the server's `element-update` |
| `Arrive`, `Flush` | the pending map and `flushRemoteUpdates` with `reconcileElements` |
| `Autosave` | the debounced save, conflicts overwritten by the retry (`EditorSaves` has the details) |

Excalidraw calls `onChange` after a scene was set by `updateScene`; this external fact is
what lets a page whose element won a merge send it again, and it is the fairness
condition on `Report`.

What may go wrong between pages is a constant, `Mishap`: a page joins "late", after others
have edited (the scene is read before the room is joined); a connection breaks and
"reconnect"s as a socket that never emits `join-room`; access lookups of the server
"reorder" updates; two pages change one element in one "instant" (a tie goes to the remote
element on both sides).  `mishaps` records which have happened.  The code repairs none of
them by itself: with any one of them there are quiet pages that differ (each was seen as
a counterexample of the property without its exception), so `QuietMeansConverged` speaks of
behaviours without mishaps.  `NothingGoesBack` has no exception.  `Saving` says whether the
autosaves are followed.

Run: `scene_sync` has two editors, one element, two changes, two updates on the wire, the
mishaps late, reconnect and reorder, and autosaves.  An update that replaces a newer one in
the pending map, or loses a merge and is made good by the other editor, needs two editors
and two changes of one element.  The run leaves "instant" out, as an accident that the code
does not try to handle; the theorems allow it.

What it shows.  Elements never go back; where nothing went wrong, quiet pages are equal.
`ChangesPersist`, a reading of the tests' "should persist drawing changes", does not hold
and is kept as a definition: two pages that show both of two changes may leave only one in
the database, because each autosave writes the scene of its page as a whole.

## DrawingAccess and LiveRoom

`DrawingAccess` holds the rows that decide who may see and edit one drawing: `exists`,
`direct` (DrawingPermission), `role` (CollectionShare of the drawing's collection), `links`
(active link shares).  `linking` is where each handler of POST link-shares is: it revokes
and creates in two statements.  Users come and go only through rights; the set of
accounts is fixed.

| action | code |
| --- | --- |
| `Grant`, `RevokeGrant` | `/drawings/:id/permissions` |
| `ShareCollection`, `UnshareCollection` | `/collections/:id/shares` |
| `DropCollection` | DELETE /collections/:id, or the drawing moved out of its collection |
| `RevokeActiveLinks`, `CreateLink`, `EndLink` | `/drawings/:id/link-shares`, and expiry |
| `DeleteDrawing` | DELETE /drawings/:id with its cascade |

`LiveRoom` extends it with the socket server and the pages' view of presence: `conn`,
`principal`, `entry` (the access a connection was granted, and when), `room`, `users` (the
presence list), `work` (where the handler of each event is suspended), `page` (the id a
page knows itself by, the last list it got, the peers it shows) and `clock`.

| action | code |
| --- | --- |
| `Connect` | `io.use`, `connection`; the page's own id (account, or the browser's) |
| `UseCached`, `AskDatabase`, `Ignore` | join-room and element-update up to the access lookup |
| `ReadDirect`, `ReadCollection`, `ReadLink` | the queries of `getDrawingAccess`; the last one ends the lookup (`Remember`, `Decide`) |
| `ReadAccount` | the name of the account, then the presence list, broadcast and acknowledgement |
| `FailJoin`, `ServerEnds` | a query throws in join-room (caught) and in element-update (not caught: node ends) |
| `Activity` | user-activity |
| `Disconnect` | disconnect; handlers of the connection go on |

Abstractions.  Messages of one connection arrive in order and a page's handler of them
reads nothing else, so a page is shown as it is after it handled everything sent to it.
The owner's and the permission query are one action (the owner of a drawing does not
change, and its permission rows go with it), and so are the queries for the collection: a
drawing that moves to another collection between those is not followed, and `role` holds
the shares of the collection that it lies in.  That collection may belong to another
account than the drawing (a guest created it there), which then counts as an owner.  cursor-move changes nothing
on the server.  The TTL of 1.5 s is `TTL` ticks.

Run: `room` is in one of two situations.

* Three connections (of an account, of the same account, of visitors, of browsers while
  authentication is off) join, leave and fail, while nobody edits and no right changes.
  Three are needed for two tabs of one person and somebody who watches.
* One connection makes a join and two updates, whose lookups overlap, during two changes of
  the rows, among them the replacement of the link policy in its two statements.
  Connections do not read each other's entries, so one is enough; two updates are what makes
  lookups overwrite each other; TTL 2 and time up to 2 give hits on fresh and on ageing
  entries, and let an entry expire while a lookup runs.

What it shows.  A person is listed once, and only while connected, with one exception:
who leaves while the join waits for the database is listed afterwards, and stays
(`early`).  A second tab takes the entry of the first (`replaced`).  `WithdrawnEditsStop`
is stated with `MayEdit`, any row that allows the edit: a lookup reads its sources at
different times and may combine a permission row that is gone with a newer link policy,
so the access it finds need not be one that `Effective` had at any instant.
`EntitledAreHeard` excepts pages that saw a withdrawal, because one refusal deletes the
entry and every later update is then ignored without a lookup until the page joins again.

## SessionTokens, Accounts and Onboarding

A handler of an account route authenticates its request, reads the rows it decides on, and
then runs statements one after another, none of them in one transaction with the next.  A
request in the model is that list of statements, its `todo`; any other request may run between
two of them.  What a handler reads at its start is only tested there.

| action | code |
| --- | --- |
| `Begin` (`Login`, `Register`, `Refresh`, `Logout`, `ChangePassword`, `MustResetPassword`, `ChangeEmail`, `RequestReset`, `ConfirmReset`, `AdminReset`, `CreateUser`, `ChangeUser`, `SetRegistration`, `SetProvisioning`, `Impersonate`, `StopImpersonation`, `Callback`) | what each route reads, tests and then has to do |
| `Issue`, `Rotate`, `Revoke`, `RevokeFails` | statements on `RefreshToken` (operators of `SessionTokens`) |
| `SetPassword`, `SetTemp`, `ChangeResets`, `Create`, `Provision`, `WriteSetting`, `ReadTarget`, `Count`, `Patch` | the other statements; `Count` is the last-administrator check, `Patch` the update behind it |
| `SetUp` (`Onboard`, `SwitchMode`, `EnsureBoot`, `SetMode`, `StartServer`, `WriteCode`, `VerifyCode`, `CountFailure`, `ClearCode`, `ActivateBoot`, `Expire`) | onboarding choice, switch of the mode, setup code, first registration |
| `FollowProvider` | a middleware that takes the role from the provider's groups |
| `BreaksOff` | a statement that throws |

`SessionLife` states what a client may rely on: a session begins once, one refresh token of it
works at a time, and once ended it never opens again.

Run: `accounts`, two requests of any kind at once, on a fresh installation and on one in use,
with and without single sign-on, in either value of `firstAdmin`; every statement may fail.  Two requests are what a check
and an act of one with a statement of the other between them needs.

What it shows.  `CanBeAdministered`, `SetUpOnce` and `SessionsFollowThePassword` hold but for what the
code leaves open, each a history variable with a reason: `overlapped` (two requests that take
administrators away both pass the count), `grouped` (the provider's groups decide,
DEPLOYMENT.md:149), `unled` (with `OIDC_FIRST_USER_ADMIN=false`, `firstAdmin` in the model, a
single sign-on makes an ordinary user the first active one, which closes the first
registration: nobody can administer that installation), `raced` (two first registrations), `kept` (a handler failed to revoke
the tokens of a user, or the first registration replaced a password that the bootstrap
account had by then).  The last case was found by the proof: it needs four or five requests,
more than the run has.

## TabSessions

The tabs of one browser share cookies.  State: `jar` (the tokens in the cookies), `view` per tab,
its `call`s, `refreshing` (its `refreshPromise`), the `wire`.

| action | code |
| --- | --- |
| `Send`, `CallArrives`, `Refresh`, `RefreshArrives` | the interceptor of `api/auth.ts`: 401, the shared refresh of a tab, the retry, the probe of `/auth/me` |
| `LoadArrives`, `Login`, `LoginArrives`, `Logout`, `LogoutArrives` | `AuthContext.tsx`, `Login.tsx` |
| `AnswerCall`, `AnswerRefresh`, `AnswerLogin`, `AnswerLogout` | the server, with the cookies of when the request was sent |
| `Expire`, `Lose` | the access token's time, the network |

Run: `tab_sessions`, two tabs with two calls in every order of answers, one expiry, one lost
message, a sign-out and a new sign-in.

What it shows.  Nobody leaves a session that lives, unless two tabs refreshed with one token
(`raced`), an answer was lost (`lost`) or a sign-out did not know its user (`anonymous`).  A
sign-out ends every token of its session, unless a refresh was under way at that moment:
`gone` holds the sessions that a sign-out ended with none under way.

## CsrfTokens and SignOn

`CsrfTokens` has the cookie that names the browser, the tokens that the server issues for it,
and in each tab the token it keeps, the shared fetch of one, the writes and their one retry.
`SignOn` has the pages of a browser on the way to a session: what a page asks when it loads,
where `ProtectedRoute`, `Login`, `Register` and `AuthSetupChoice` send it, the forms, the
provider's flow with its cookie, acting as another user, and sign-out.  A request carries the
cookies of when it was sent; the server's answer and what the page does with it are one step.

Run: `sign_on`, two tabs from their first request on, in every mode of the installation.  Where only
the provider signs in, the tabs start with a session (`MCInit`) and the user does one thing
(`MCNext`): two tabs that both go through the provider are as many states as all the rest.

What it shows.  `LastFlowSucceeds`: a sign-in that the user completes at the provider is not lost
unless another start or callback came in the way (`spoiled`: the flow cookie is one).
`PagesShowTheSession`: a page at rest that heard of the session since it last changed (`current`)
and had no failed request (`failed`) shows that session, where it is to be shown.  Its own
sign-in tells a page only if it was not loading, did not show the choice, and was not inside
while another tab acted as somebody (`Hears`).  `WritesGetThrough`: no write
is refused for its token, unless the cookie changed while it asked for another (`unlucky`).
While modelling: after the first registration `bootstrapRequired` stays true in the page, so
that a sign-out lands on `/register`; a page that shows the choice stays there when its
sign-in is answered; the banner of a page that is inside does not ask again; and two
verifications of the banner may overtake each other.  Left out: the forced password change and visitors of share links.

## Library and Dashboard

`Library` is the server: moves, copies, deletions, dropped collections, the list route in three
steps (check, cache lookup, query and store) and the cache's invalidation after each write.
`Dashboard` is one page of it, with its list, its further pages, its changes that are shown
before they are answered and undone or refreshed when they fail; beside it another tab and
another user who may create in a shared collection.

Run: `dashboard`, with lists of two, three requests, one of which may fail.

What it shows.  `CachedListsAreCurrent`: what the cache holds is what a query would give, unless
the query straddled a change.  `QuietPageShowsTheView`: a page at rest shows drawings of its
view, knows their number, and the first of them in order as long as it took none away
(`shortened`), if it was told of every change after its list was read (`trusted`).

## ObjectStore

Bucket, `S3File` rows and `Drawing` rows are written one after another by saves, creations,
duplicates, restores, trims, orphan deletions and deletions; each statement and each S3
command is a step of its own and may fail.

Run: `object_store`, two drawings, two files, three requests, one failure.

What it shows.  `ShownImagesAreServed`: uploads come before the row and copies own their
objects; excepted (`stale`) are scenes from before a clean-up that come back.
`NothingIsLeftBehind`: a deleted drawing leaves nothing in the bucket, unless (`stranded`)
removing failed, a save was uploading meanwhile, or the creation failed; and a trim that
nothing disturbs leaves only what is shown.

## SnapshotGuards and OpenEditor

The editor mounts once and opens drawings one after another.  `OpenEditor` has the opening
(fetch, hydration of the refs, the canvas taking the scene up and reporting empty scenes
meanwhile), the user's changes, the history panel's previews, and the saves behind the guards.

Run: `open_editor`, two openings of one or two drawings that start differently, three acts
beside another writer.

What it shows.  `EmptiedOnPurpose`: a drawing that shows something is emptied only by a user who
erased it.  Excepted are blind saves (a version that a conflict named, or none), a page on
which two openings overlapped (the late answer fills the refs with another drawing, and the
guards compare with that), and a previewed version in which what the drawing shows is marked
deleted: the guards take it for the user's own deletion (seen with four acts).
`QuietMeansMine`: at rest the user has his own scene before him and in the database; its
comment lists the exceptions.  A new element has an id that no scene of any drawing has:
Excalidraw draws ids at random.

## VoiceCopilot

Each start makes a client, which goes on when it is cancelled.  State: the `client`s with the
await each is at, the `panel` with its refs, what the user holds down.

Run: `copilot`, two clients, two mounts, two acts.  Fairness: requests settle, the microphone
prompt has its six seconds, tools return, the idle timer fires; `Offer` only while the
client is open.

What it shows.  `PanelControlsItsClient`: a connection and an open microphone belong to the
client that the panel can stop; the panel shows that client; the microphone hears only while
it is meant to.  Excepted are a start cancelled before it was connected, a prompt answered
after the client gave it up, a release that no handler heard (`stuck`).  `EverySessionEnds`: every
connection is closed in the end.

## Panels and jobs

Run: `panels`, one of them at a time; releases 1.0.0 and 2.0.0, up to five steps, a
schedule and a calendar of one morning.

* `ShareDialog`: handlers are sequences of calls that end with a read, and overlap.
  `QuietDialogShowsTheAccess`: a dialog at rest shows the rows, unless a link lapsed or two
  creations crossed (`crossed`).  The search for users is one step; expiry options and the
  loading flag are left out.
* `StorageDialog`: `DeletionsAreConfirmed`.  The confirmation is only drawn over the dialog: boxes,
  buttons and backdrop work on under it and during a deletion, so these actions have no guard
  on it, and closing and opening again may happen next to an answer that is still to come.  A
  list that arrives late ticks what the owner had unticked: *which* unused files go is settled
  only by Confirm, and no property says more.  The route reads the row and writes it later
  (`dated`).
* `ApiKeys`: `CardTellsWhatWorks`.  A key that the card lists works exactly as it says; tokens
  and names are left out.
* `UpdateCheck`: `UpdatesAreTrue`.  `Compare` of versions agrees with a reference order on a sample
  (an `ASSUME`); the server's cache has one entry for two channels; late answers are
  followed.  Behaviours beyond two ticks or three clicks keep to one channel and do not fail:
  four clicks of one channel are what an answer for another list (`mixed`) takes.  The first
  of the card's calls to end makes "Check Now" available again while another is under way.
  An answer is at most ten minutes old, but twenty when a 304 was applied to an older list
  than it was about (`mixed`): that the ten do not always hold was found by the proof.
* `Archive`: `ImportRestores`.  The import looks up each drawing, uploads, then writes all in one
  transaction that looks again.  A drawing of mine in another's shared collection is pulled
  into "Unorganized"; no snapshot is taken and the version is set back to that of the
  archive, which `DrawingStore` therefore excludes.  Each user imports once.  A legacy database
  is merged alike, but ensures the trash only for a drawing whose `collectionId` is "trash".
* `Backups`: `BackupsAreReplacedFirst`.  A value's step is ignored (`5/10` is 5), day of month and day of
  week must both match, a late tick skips a second; files are deleted only past their retention
  (DEPLOYMENT.md:218) and never the newest whole one.
* `AdminPage`: `QuietAdminPageIsTrue`.  Edits of the rate limit during a save are overwritten by
  its answer; failing saves are repeated every 900 ms; a form that could not be loaded never
  saves and says "All changes saved": these are its exceptions.
* `Imports`: `ImportsKeepTheirWord`.  Counts add up to the drawings made, and drawings of one name
  are filed together.  Any JSON object that is dropped imports as an empty drawing; a failed
  request ends its member with one failure counted.

## Bounds

Every bound is a constant of a module (`MaxEdits`, `MaxSaves`, `MaxWait`, `MaxChanges`, `MaxTime`,
`MaxFail`, `MaxActs`, ..., the sets of requests, pages, tabs, connections and elements) and
appears in a guard, never in a property.  The runs exhaust the state space within them.
`CHECK_DEADLOCK FALSE` is set where the system may stop: requests are used once, edits are
bounded, tabs close.

## What is proved

Every theorem holds for any values of the constants that satisfy the named assumptions (the
`...Assumption` or `...Constants` of each module, `NullAssumption` in `DrawingStore`, `IdsApart`
in `Archive`), which TLC evaluates in the runs; the numbers of requests, users, tabs, pages, elements, sockets and
steps are arbitrary.  All theorems are of the form `Spec => []P` or `Spec => [][A]_vars`, and
follow from an inductive invariant with one lemma per action or group of actions.

* **`DrawingStoreProofs`** (4533 obligations): `Invariance`, `TypeCorrect`, `VersionsNameScenes`,
  `CheckedSaveDestroysNothing`, `OnlyStaleWritersLose`, `RoutesImplementLog`; and, about
  `ObjectStore`, `ImagesAreServed` and `NothingStays`.
  `VersionNamesOneScene` alone is not inductive: a handler that commits writes what it *read*,
  so `IInv` says of every place that keeps a (version, scene) pair (row, history, suspended
  handler, answer) that it is an entry of the log (`RowInv`, `HistoryInv`, `SeenInv`,
  `ReplyInv`), and of every suspended handler what it knows of its request (`CallInv`).  For the last two
  theorems `FullInv` adds what a restore's backup is (`BackUpInv`) and what the client of a
  suspended PUT was told (`TalkInv`); the refinement of `VersionLog` is proved step by step.
  `StoreInv`, about `ObjectStore`: an image goes through many hands before a row shows it, so
  `StoreServes` says of the row, of its history and of what every handler is going to write
  under which conditions its files are stored (`Kept`: no clean-up since it was current), and
  of a handler that uploads, that every file it will name is stored or still to come
  (`Coming`).  A clean-up removes nothing that its plan keeps, as long as the row is the
  one it was planned from and no other clean-up is under way (`CleanupFits`).  What is left of
  a drawing that is gone has a handler that still removes it (`LeftOversAreCleared`), and
  a trim knows at each stage what it has not listed yet (`TrimsFit`).  Each action is one
  step of one handler on one drawing; what such a step must respect (`StepFits`) is proved for
  every action, that it keeps what the others know only once (`StepKeeps`).
* **`EditorSavesProofs`** (1049): `EditorInvariance`, `SavesInOrder`, `QuietPagesAreSaved`,
  `BackWaitsForItsSave`.  That writes are in order is not inductive: `AppliedInv` says that the
  server has of a page only saves that are over, and that of the queue's head only when its
  request was applied or given up; `LateInv`, that a request which nobody waits for is of a save
  that is over, and that as long as the server would accept it nothing later of that page has
  been applied.  Both rest on the numbers of the queue (`QueueInv`) and on nobody believing in
  a version to come (`VersionInv`): the next write makes every earlier base stale.  `ChangeInv`
  follows the last local change from the throttle to the debounce, into the queue and onto the server.
* **`SceneProofs`** (4620): `TypeInvariance`, `NobodyGoesBack`, `SyncInvariance`, `RoomsConverge`,
  and, about `OpenEditor`, `NoDrawingIsEmptied` and `TheUserHasHisScene`.  That nothing goes back
  needs only types and the order of stamps, whatever mishaps occur.  Convergence does not: while `mishaps` is empty, `SyncInv` says that stamps are
  made once (`StampsInv`), that updates on a wire are made of stamps their sender shows
  (`WireInv`), that what a page holds, sent and knows is never ahead of its canvas and what is
  relayed to it rises (`PageInv`), that before the first change all pages show what is saved
  (`FreshInv`), and that every element has a *last word* (`WordInv`): a stamp that every
  page in the room shows, or a newer one, or is going to hear last; any newer state is owed by
  an editor's page that shows it; and some page says nothing older.  Relaying an update makes
  it the last word.  When nothing is under way nothing is owed, so that the last word is
  what all show.
  `OpenInv`, about the mounted editor: the guards decide when a save starts, by the refs, so
  it relates the refs to the row: a version that was read or given to a save names the scene
  the page takes for persisted as long as the server still has it (`VersionFits`), and a save
  that the server would accept on such a version empties nothing by accident (`FlightFits`).
  Without previews, what is captured and not meant deletes only what was deleted when the
  drawing was opened (`ScenesFit`), so that the guards do not take it for a deletion.  The
  proof corrected property and run: when two openings overlap, the refs may be of one drawing
  and the saves for another, which no instance showed whose drawings start alike.
  `MineInv` adds what the user has before him.  A change is captured only if the list looks
  different from the one captured last, so the invariant names that scene (`LastSeen`, which
  the code keeps only as the two refs of the comparison) and follows it: it is what waits last,
  or nothing waits and the row shows it (`WaitFits`); while no preview is on the canvas it is
  the user's own scene (`SeenFits`).  A guard could still hold it back.  None does, because
  whatever a baseline shows is on the canvas, if only as deleted (`LiveFits`), or the drawing
  was opened blank and nothing was drawn since (`BlankFits`).  The attempt corrected the model:
  elements are drawn with ids that no scene has yet (`NewId`).  Without that, an element that
  was in an earlier version could be drawn anew, and the list would look as it did when
  that version was shown, so that the change would not be captured.
* **`LiveRoomProofs`** (2405): `PresenceInvariance`, `PresenceHolds`, `PagesAgree`,
  `RightsInvariance`, `EntitledAreLetIn`, `EditsStop`, `PanelIsInControl`.
  `PresenceInv`: that one person has one entry rests on entries bearing the id of their
  connection (`NamedByConnection`), that id depends on what the page was told (`Views`), a page
  that was acknowledged gets later lists only because it is in the room, and a join that waits
  for its account got there before (`WaitingInRoom`); that a ghost left early needs that whoever
  is gone with a join under way was seen leaving (`LeftEarly`).
  `RightsInv`: the three queries of a lookup read at different times, so it says what each
  suspended lookup has promised by then (`Heard`), that a principal from whom nothing was
  withdrawn still has what it had (`Untouched`), what a cached entry is worth and since when
  (`Entries`), and when each edit was last allowed (`EditsDated`).
  `CopilotInv`, about the voice co-pilot: a client the panel has let go of has nothing open and
  will have nothing to report, except what was under way when it was disconnected (`LetGo`);
  the panel shows its own client (`PanelFits`); an open microphone that is to be pushed is
  muted by the next effect (`MicrophoneFits`).
* **`SessionTokensProofs`** (190): what each statement on the table does to each session.
* **`AccountsProofs`** (2896): `AccountsTypeCorrect`, `SessionsEndForGood` (the refinement of `SessionLife`),
  `SomebodyCanAdminister`, `FirstRegistrationIsOnce`, `NewPasswordsEndSessions`.  `AccountInv` says what a
  suspended handler knows (whose token, which row); `PlanInv` says in which order
  statements stand in a `todo`: the check right before the removal (`AdminInv`; that later registrations are open implies an
  administrator, too), the code before
  the activation (`SetupInv`), the revocation after the password (`SessionInv`).
* **`TabSessionsProofs`** (4018): `SignOutIsFinal`, from `TabInv` (which cookies a message carries, that
  sessions in `gone` have no working token, no message that would set one of theirs), and
  `NobodyIsThrownOut`, from `SessionInv`.  While the first session goes on, `StayInv` says that
  whoever refreshes holds the token that works or was beaten to it by another tab, that the
  token of an answered refresh works and is nobody's yet, and that a call that goes again bears
  a cookie and is not refused; `Waits`, that a sign-out that was answered has ended the
  session, so that one which was asked for does not leave `StayInv` behind.  `WritesPass`, from
  `CsrfInv`: a write is under way once at most, a token is asked for with the cookie there is,
  and a write that goes again bears what the server accepts; steps of `SignOn` are steps or
  stutters of `CsrfTokens`.  `FlowsSucceed`, from `FlowInv`: who is at the provider has a flow of
  his own that no callback names yet and that the cookie holds (`OwnFlows`), and a callback
  left with the cookie of its flow (`CallbacksKeep`), unless the flow was spoiled.
  `PagesAreTrue`, from `SignOnInv`: a page that loads waits for exactly one answer of its
  loading, one that leaves at most for where it goes, and any other stands where it would go
  (`PageIsOK`); a page in `current` shows whose session the cookies hold (`ShowsIt`), or what
  it waits for will tell (`WillTell`: the answer to `me` may be 401, but then a refresh
  follows that finds the session alive); and its banner claims what is so or has asked about
  the session that the cookies hold (`Claims`).  A step either leaves session and cookies as
  they were (`Calm`), and then what a page shows or waits for stays true, or it leaves only
  the tab in `current` that was told.  The attempt corrected model and property, which the
  bounds had hidden: with a third act of the user TLC, too, shows a page that is signed in
  while it is inside already and another tab acts as somebody, and whose banner does not ask again.
* **`PanelProofs`** (6252), one theorem for each panel and job, each with an invariant of its own:
  * `CacheIsCurrent` from `CacheInv` (what a suspended read knows), `OldBackupsAreReplaced` from
    `BackupsInv`, `ImportsRestore` from `ArchiveInv`.
  * `EveryDeletionIsConfirmed`: `StorageInv` says that the dialog is busy exactly while a deletion or
    the list that follows it is under way, also one of an earlier opening (`OneDeletion`), that a
    typed name is that of the action asked for (`NameStands`), and that what is stored is shown or
    its list on the way (`ListIsComing`).
  * `CardsTellTheTruth`: `KeysInv` says that the list the card waits for is the first it will
    show, and that a key revoked by the user and still shown as active has its answer on the way.
  * `UpdatesTellTheTruth`: `UpdatesInv` dates every suspended call and the cache entry: an answer
    is as old as the call that dates it and names the latest of a list that stood since.
    The proof corrected the property.  A 304 may be applied to the older list that a slow
    call left in the cache after a quicker one; such an answer (`mixed`) is good for twenty
    minutes, not ten, and TLC shows that it does exceed ten.
  * `AccessIsShown`: `ShareInv` says that there is one link at most, and none while the next one is
    created (`OneLink`); every handler ends with a read, so either a read is to come or the last
    one saw the rows (`ReadsFollow`).
  * `AdminPageIsTrue`: `AdminInv` says of each row of the table that it is the server's, or that a
    served call has not been answered yet, or that calls crossed; of each switch and of the form
    what its last answer and its next save carry.
  * `ImportsAreKept`: `ImportsInv` counts without induction: each file is *at* one entry
    (`Spot`), behind it lies what was answered or given up, before it nothing was made; a drawing
    that was made and not answered is in flight, so that nothing is counted twice.

`PROJECT.json` lists the theorems with the properties they state.

## Model-checked only

Out of the proof system's reach: liveness (`NothingWaitsForEver`, `EveryChangeArrives`,
`EverySessionEnds`), and `QuietPageShowsTheView`, which rests on how long the sorted and
filtered lists of the view are (induction over data).

## Not modelled

The cache of the authentication mode (`authMode.ts`; the models read the row); the tools and
the text proxy of the copilot, each a function of one call; new users whose invitation fixes
another role or state; the user's shape library, one row replaced as a whole; usage figures
of the storage manager, which only read; configuration; sanitising and redirects, which look
at single requests; rendering, translations, themes; export formats; deployment files.  An
import over an existing drawing sets its version back: it is in `Archive`, and the theorems of
`DrawingStore` exclude it.  The reasons are with each component in `PROJECT.json`.

## Plan for what is left

In `SignOn`, the server's answer and what the page does with it as two steps, as `TabSessions`
has them; the routes of the user's shape library; the cache of the authentication mode.
