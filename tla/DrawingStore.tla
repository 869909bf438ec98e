---------------------------- MODULE DrawingStore ----------------------------
(***************************************************************************)
(* One row of the Drawing table, its DrawingSnapshot rows, and the HTTP    *)
(* requests that work on them concurrently: GET and PUT /drawings/:id,     *)
(* POST .../history/:snapshotId/restore, POST .../trim, DELETE             *)
(* .../files/orphans and DELETE /drawings/:id, and the hourly snapshot     *)
(* clean-up of index.ts.                                                   *)
(*                                                                         *)
(* A handler is an async function: between two awaits it runs alone, and   *)
(* every await lets other handlers run.  Each action below is one such     *)
(* segment, from one database access up to the next.  A request is used    *)
(* once; its answer stays in reply.                                        *)
(***************************************************************************)
EXTENDS StoragePlans, Naturals, Sequences

CONSTANTS
  Request,         \* the requests that may be made
  Payload,         \* the scene patches a PUT body may carry
  PayloadVersion,  \* the version numbers a PUT body may carry
  Null             \* an absent field

Part == {"elements", "appState", "files"}

(***************************************************************************)
(* A patch names the scene columns that an UPDATE statement assigns.       *)
(***************************************************************************)
Patch == [parts : SUBSET Part, scene : Scene]

ASSUME RequestAssumption ==
  /\ Payload \subseteq Patch
  /\ PayloadVersion \subseteq Nat
  /\ Null \notin Nat

VARIABLES
  exists,     \* the row is in the table
  version,    \* Drawing.version
  scene,      \* Drawing.elements, appState and files
  snapshots,  \* the drawing's DrawingSnapshot rows
  nextId,     \* creation order of snapshots (their createdAt)
  pc,         \* where each request's handler is suspended
  call,       \* what each handler was asked, and what it is going to write
  seen,       \* the row as each handler read it
  reply,      \* the answers
  log         \* history variable: the scene written at each version

vars == <<exists, version, scene, snapshots, nextId, pc, call, seen, reply, log>>

row == <<exists, version, scene, log>>

Kind == {"get", "put", "restore", "trim", "orphans", "delete"}

Stamp == [version : Nat, scene : Scene]

Snapshot == [id : Nat, version : Nat, scene : Scene]

(***************************************************************************)
(* base is payload.version; patch is what the handler will assign.         *)
(***************************************************************************)
Call == [kind : Kind, base : Nat \cup {Null}, patch : Patch]

ASSUME NullAssumption == Null \notin Call

(***************************************************************************)
(* "ok" answers carry the row, "conflict" is the 409 VERSION_CONFLICT with *)
(* its currentVersion, "done" is a 200 that carries no row, and "error" is *)
(* every other status.                                                     *)
(***************************************************************************)
Reply == [status : {"ok"}, version : Nat, scene : Scene]
         \cup [status : {"conflict"}, version : Nat \cup {Null}]
         \cup [status : {"none", "done", "error"}]

NoReply == [status |-> "none"]
Error   == [status |-> "error"]
Done    == [status |-> "done"]
OK(v, s)    == [status |-> "ok", version |-> v, scene |-> s]
Conflict(v) == [status |-> "conflict", version |-> v]

Current == [version |-> version, scene |-> scene]

Stamps(S) == {[version |-> x.version, scene |-> x.scene] : x \in S}

Apply(s, patch) ==
  [elements |-> IF "elements" \in patch.parts THEN patch.scene.elements ELSE s.elements,
   appState |-> IF "appState" \in patch.parts THEN patch.scene.appState ELSE s.appState,
   files    |-> IF "files" \in patch.parts THEN patch.scene.files ELSE s.files]

IsSceneUpdate(patch) == patch.parts # {}

-----------------------------------------------------------------------------
(***************************************************************************)
(* Database statements.                                                    *)
(***************************************************************************)
CreateSnapshot(stamp) ==
  /\ exists   \* foreign key drawingId
  /\ snapshots' = snapshots \cup
       {[id |-> nextId, version |-> stamp.version, scene |-> stamp.scene]}
  /\ nextId' = nextId + 1

\* Defect: the scene is replaced under the version it has.
OverwriteInPlace(patch) ==
  /\ exists
  /\ scene' = Apply(scene, patch)
  /\ UNCHANGED <<exists, version, log>>

\* UPDATE ... SET <patch>, version = version + 1
UpdateScene(patch) ==
  /\ exists
  /\ version' = version + 1
  /\ scene' = Apply(scene, patch)
  /\ log' = Append(log, scene')
  /\ UNCHANGED exists

(***************************************************************************)
(* Control: a handler suspends at an await, or answers.                    *)
(***************************************************************************)
Suspended(r) == pc[r] \notin {"idle", "answered"}

Suspend(r, from, to) ==
  /\ pc[r] = from
  /\ pc' = [pc EXCEPT ![r] = to]
  /\ UNCHANGED reply

Answer(r, from, answer) ==
  /\ pc[r] = from
  /\ pc' = [pc EXCEPT ![r] = "answered"]
  /\ reply' = [reply EXCEPT ![r] = answer]
  /\ seen' = [seen EXCEPT ![r] = Null]

\* The first read of the row: the handler keeps what it saw in a local.
Load(r, kind, base, patch) ==
  /\ exists
  /\ Suspend(r, "idle", "loaded")
  /\ call' = [call EXCEPT ![r] = [kind |-> kind, base |-> base, patch |-> patch]]
  /\ seen' = [seen EXCEPT ![r] = Current]
  /\ UNCHANGED <<row, snapshots, nextId>>

-----------------------------------------------------------------------------
(***************************************************************************)
(* A fresh row: POST /drawings creates it at the schema's default version. *)
(***************************************************************************)
Init ==
  /\ exists = TRUE
  /\ version = 1
  /\ scene \in {p.scene : p \in {q \in Payload : q.parts = Part}}
  /\ snapshots = {}
  /\ nextId = 1
  /\ pc = [r \in Request |-> "idle"]
  /\ call = [r \in Request |-> Null]
  /\ seen = [r \in Request |-> Null]
  /\ reply = [r \in Request |-> NoReply]
  /\ log = <<scene>>

(***************************************************************************)
(* Refused before anything is read or written: no access, no such drawing, *)
(* an invalid body, a wrong confirmName, a snapshot that does not exist,   *)
(* files that are still shown.                                             *)
(***************************************************************************)
Refuse(r) ==
  /\ Answer(r, "idle", Error)
  /\ UNCHANGED <<row, snapshots, nextId, call>>

(***************************************************************************)
(* An await that throws after the row was read: an S3 upload or delete, a  *)
(* database error, a collection the drawing may not be moved to.           *)
(***************************************************************************)
Fail(r) ==
  /\ Suspended(r)
  /\ Answer(r, pc[r], Error)
  /\ UNCHANGED <<row, snapshots, nextId, call>>

\* The same, certain to happen: the row has gone, and the statement throws
\* (foreign key of a snapshot, record to update not found) or answers 404.
RowGone(r) ==
  /\ pc[r] \in {"loaded", "backedUp"}
  /\ ~ exists
  /\ Answer(r, pc[r], Error)
  /\ UNCHANGED <<row, snapshots, nextId, call>>

\* GET /drawings/:id
Get(r) ==
  /\ exists
  /\ Answer(r, "idle", OK(version, scene))
  /\ UNCHANGED <<row, snapshots, nextId, call>>

-----------------------------------------------------------------------------
(***************************************************************************)
(* PUT /drawings/:id.                                                      *)
(***************************************************************************)
StaleBase(patch, base) ==
  IsSceneUpdate(patch) /\ base # Null /\ base # version

RejectStalePut(r, patch, base) ==
  /\ exists
  /\ StaleBase(patch, base)
  /\ Answer(r, "idle", Conflict(version))
  /\ call' = [call EXCEPT ![r] = [kind |-> "put", base |-> base, patch |-> patch]]
  /\ UNCHANGED <<row, snapshots, nextId>>

LoadPut(r, patch, base) ==
  /\ ~ StaleBase(patch, base)
  /\ Load(r, "put", base, patch)

\* Defect: the version was checked when the row was read, and is not again.
CommitPutUnchecked(r) ==
  /\ pc[r] = "loaded" /\ call[r].kind = "put"
  /\ IsSceneUpdate(call[r].patch)
  /\ CreateSnapshot(seen[r])
  /\ UpdateScene(call[r].patch)
  /\ Answer(r, "loaded", OK(version', scene'))
  /\ UNCHANGED call

\* The transaction: snapshot what was read, then the conditional update.
CommitPut(r) ==
  /\ pc[r] = "loaded" /\ call[r].kind = "put"
  /\ IsSceneUpdate(call[r].patch)
  /\ call[r].base \in {Null, version}
  /\ CreateSnapshot(seen[r])
  /\ UpdateScene(call[r].patch)
  /\ Answer(r, "loaded", OK(version', scene'))
  /\ UNCHANGED call

\* The update matches no row: the transaction, snapshot included, rolls back.
RollBackPut(r) ==
  /\ pc[r] = "loaded" /\ call[r].kind = "put"
  /\ IsSceneUpdate(call[r].patch)
  /\ exists
  /\ call[r].base \notin {Null, version}
  /\ Suspend(r, "loaded", "rolledBack")
  /\ UNCHANGED <<row, snapshots, nextId, call, seen>>

\* The version is read again, after the rollback, for the 409.
AnswerConflict(r) ==
  /\ Answer(r, "rolledBack", Conflict(IF exists THEN version ELSE Null))
  /\ UNCHANGED <<row, snapshots, nextId, call>>

\* A PUT of the name, the collection or the preview alone keeps the version.
WriteMetadata(r) ==
  /\ pc[r] = "loaded" /\ call[r].kind = "put"
  /\ ~ IsSceneUpdate(call[r].patch)
  /\ exists
  /\ Suspend(r, "loaded", "written")
  /\ UNCHANGED <<row, snapshots, nextId, call, seen>>

AnswerMetadata(r) ==
  /\ Answer(r, "written", IF exists THEN OK(version, scene) ELSE Error)
  /\ UNCHANGED <<row, snapshots, nextId, call>>

-----------------------------------------------------------------------------
(***************************************************************************)
(* POST /drawings/:id/history/:snapshotId/restore: three statements, not   *)
(* in a transaction, and an update without a version condition.            *)
(***************************************************************************)
LoadRestore(r) ==
  \E s \in snapshots :
    Load(r, "restore", Null, [parts |-> Part, scene |-> s.scene])

\* Defect: the backup is skipped.
SkipBackUp(r) ==
  /\ pc[r] = "loaded" /\ call[r].kind = "restore"
  /\ Suspend(r, "loaded", "backedUp")
  /\ UNCHANGED <<row, snapshots, nextId, call, seen>>

BackUpRestore(r) ==
  /\ pc[r] = "loaded" /\ call[r].kind = "restore"
  /\ Suspend(r, "loaded", "backedUp")
  /\ CreateSnapshot(seen[r])
  /\ UNCHANGED <<row, call, seen>>

CommitRestore(r) ==
  /\ pc[r] = "backedUp"
  /\ UpdateScene(call[r].patch)
  /\ Answer(r, "backedUp", OK(version', scene'))
  /\ UNCHANGED <<snapshots, nextId, call>>

(***************************************************************************)
(* POST /drawings/:id/trim and DELETE /drawings/:id/files/orphans: the     *)
(* plan is made from the row as first read and written back as it is.      *)
(***************************************************************************)
LoadTrim(r) ==
  Load(r, "trim", Null, [parts |-> {"elements", "files"}, scene |-> TrimPlan(scene)])

LoadOrphans(r, fileIds) ==
  /\ fileIds # {}
  /\ BlockedIds(scene, fileIds) = {}
  /\ Load(r, "orphans", Null,
          [parts |-> {"elements", "files"}, scene |-> OrphanDeletePlan(scene, fileIds)])

CommitCleanup(r) ==
  /\ pc[r] = "loaded" /\ call[r].kind \in {"trim", "orphans"}
  /\ UpdateScene(call[r].patch)
  /\ Answer(r, "loaded", Done)
  /\ UNCHANGED <<snapshots, nextId, call>>

(***************************************************************************)
(* DELETE /drawings/:id; the snapshots go by cascade.                      *)
(***************************************************************************)
LoadDelete(r) ==
  Load(r, "delete", Null, [parts |-> {}, scene |-> scene])

CommitDelete(r) ==
  /\ pc[r] = "loaded" /\ call[r].kind = "delete"
  /\ exists
  /\ exists' = FALSE
  /\ snapshots' = {}
  /\ Answer(r, "loaded", Done)
  /\ UNCHANGED <<version, scene, log, nextId, call>>

(***************************************************************************)
(* The hourly clean-up removes the snapshots older than                    *)
(* SNAPSHOT_RETENTION_MS.  That window, two days, outlasts the moment      *)
(* between the two writes of a restore.                                    *)
(***************************************************************************)
CleanUpSnapshots ==
  /\ \A r \in Request : pc[r] # "backedUp"
  /\ \E s \in snapshots : snapshots' = {t \in snapshots : t.id > s.id}
  /\ UNCHANGED <<row, nextId, pc, call, seen, reply>>

Step(r) ==
  \/ Refuse(r) \/ Fail(r) \/ RowGone(r) \/ Get(r)
  \/ \E p \in Payload, v \in PayloadVersion \cup {Null} :
       RejectStalePut(r, p, v) \/ LoadPut(r, p, v)
  \/ CommitPut(r) \/ RollBackPut(r) \/ AnswerConflict(r)
  \/ WriteMetadata(r) \/ AnswerMetadata(r)
  \/ LoadRestore(r) \/ BackUpRestore(r) \/ CommitRestore(r)
  \/ LoadTrim(r) \/ CommitCleanup(r)
  \/ \E F \in SUBSET FileId : LoadOrphans(r, F)
  \/ LoadDelete(r) \/ CommitDelete(r)

Next == CleanUpSnapshots \/ \E r \in Request : Step(r)

Spec == Init /\ [][Next]_vars

-----------------------------------------------------------------------------
TypeOK ==
  /\ exists \in BOOLEAN
  /\ version \in Nat
  /\ scene \in Scene
  /\ snapshots \subseteq Snapshot
  /\ nextId \in Nat
  /\ pc \in [Request -> {"idle", "loaded", "backedUp", "rolledBack", "written", "answered"}]
  /\ call \in [Request -> Call \cup {Null}]
  /\ seen \in [Request -> Stamp \cup {Null}]
  /\ reply \in [Request -> Reply]
  /\ log \in Seq(Scene)

(***************************************************************************)
(* Everything that anyone was ever shown as "the drawing at version v":    *)
(* the row, its history, what a suspended handler read, the answers.       *)
(***************************************************************************)
Shown ==
  {Current}
  \cup Stamps(snapshots)
  \cup {seen[r] : r \in {q \in Request : Suspended(q)}}
  \cup Stamps({reply[r] : r \in {q \in Request : reply[q].status = "ok"}})

(***************************************************************************)
(* A version number names one scene, for ever: whoever holds version v     *)
(* (an editor, a history entry, a handler about to write) holds the scene  *)
(* that was written as v.  The optimistic lock rests on this, and it takes *)
(* every writer of a scene column to bump the version.                     *)
(***************************************************************************)
VersionNamesOneScene ==
  \A x \in Shown : x.version \in DOMAIN log /\ x.scene = log[x.version]

(***************************************************************************)
(* A save that names its base version destroys nothing: the scene it       *)
(* replaces, the current one at the moment of the update and not the one   *)
(* read earlier, is in the history when the update commits.                *)
(***************************************************************************)
Replaces(r) == pc[r] # "answered" /\ pc'[r] = "answered" /\ version' # version

CheckedSaveKeepsReplacedScene ==
  [][\A r \in Request :
       Replaces(r) /\ call[r].kind = "put" /\ call[r].base # Null =>
         Current \in Stamps(snapshots')]_vars

(***************************************************************************)
(* A save or a restore removes a scene from the drawing and its history    *)
(* together only when it has no version check and somebody wrote the scene *)
(* after it read the row.  The storage clean-ups are left out: they make   *)
(* no snapshot, so what they replace is lost even if they are not stale.   *)
(***************************************************************************)
OnlyStaleOverwriteLosesScene ==
  [][\A r \in Request :
       /\ Replaces(r)
       /\ call[r].kind \in {"put", "restore"}
       /\ Current \notin Stamps(snapshots')
       => seen[r].version < version]_vars

(***************************************************************************)
(* The routes implement the append-only log of VersionLog: a save with a   *)
(* base version is one atomic compare-and-set although its handler reads,  *)
(* checks, uploads, writes and reads again with awaits in between, and the *)
(* history never holds an entry that the drawing did not go through.       *)
(***************************************************************************)
SaveBase(r) ==
  IF call[r] # Null /\ call[r].kind = "put" /\ IsSceneUpdate(call[r].patch)
    THEN call[r].base ELSE Null

Abstract == INSTANCE VersionLog WITH
  Client  <- Request,
  history <- Stamps(snapshots),
  base    <- [r \in Request |-> SaveBase(r)],
  answer  <- reply

ImplementsVersionLog == Abstract!Spec

-----------------------------------------------------------------------------
(***************************************************************************)
(* What the comments of the code say of the writers without a version      *)
(* check.                                                                  *)
(***************************************************************************)

(***************************************************************************)
(* "Snapshot current state before restoring (so restore is reversible)"    *)
(* (drawingHistoryRoutes.ts:116): what a restore replaces is in the        *)
(* history.                                                                *)
(***************************************************************************)
RestoreIsReversible ==
  [][\A r \in Request :
       Replaces(r) /\ call[r].kind = "restore" => Current \in Stamps(snapshots')]_vars

(***************************************************************************)
(* "bump version so concurrent editors get a VERSION_CONFLICT and reload,  *)
(* instead of having their newer version silently overwritten"             *)
(* (storage.ts:139): a trim never replaces a version newer than the one it *)
(* was planned from.                                                       *)
(***************************************************************************)
TrimKeepsNewerVersion ==
  [][\A r \in Request :
       Replaces(r) /\ call[r].kind = "trim" => seen[r].version = version]_vars
=============================================================================
