------------------------- MODULE DrawingStoreProofs -------------------------
(***************************************************************************)
(* Theorems about DrawingStore, for every set of requests, payloads and    *)
(* scenes, and about ObjectStore, for every set of drawings and handlers.  *)
(***************************************************************************)
EXTENDS DrawingStore, ObjectStore, TLAPS

(***************************************************************************)
(* The inductive invariant.  RowInv ties the row to the end of the log;    *)
(* the other three say, of each place where a (version, scene) pair is     *)
(* kept, that it is an entry of the log; CallInv is what a handler knows   *)
(* about its own request while it is suspended.                            *)
(***************************************************************************)
RowInv ==
  /\ version = Len(log)
  /\ version >= 1
  /\ scene = log[version]

HistoryInv ==
  \A s \in snapshots : s.version \in 1..Len(log) /\ s.scene = log[s.version]

SeenInv ==
  \A r \in Request : Suspended(r) =>
    /\ seen[r] \in Stamp
    /\ seen[r].version \in 1..Len(log)
    /\ seen[r].scene = log[seen[r].version]

ReplyInv ==
  \A r \in Request : reply[r].status = "ok" =>
    /\ reply[r] \in [status : {"ok"}, version : Nat, scene : Scene]
    /\ reply[r].version \in 1..Len(log)
    /\ reply[r].scene = log[reply[r].version]

CallInv ==
  \A r \in Request : Suspended(r) =>
    /\ call[r] \in Call
    /\ (call[r].kind = "put" /\ IsSceneUpdate(call[r].patch) /\ call[r].base # Null)
         => seen[r].version = call[r].base
    /\ pc[r] = "backedUp" => call[r].kind = "restore"

IInv == TypeOK /\ RowInv /\ HistoryInv /\ SeenInv /\ ReplyInv /\ CallInv

-----------------------------------------------------------------------------
(***************************************************************************)
(* Scenes stay scenes.                                                     *)
(***************************************************************************)
LEMMA ApplyType ==
  ASSUME NEW s \in Scene, NEW p \in Patch
  PROVE  Apply(s, p) \in Scene
BY DEF Apply, Patch, Scene

\* The scene that buildTrimPlan leaves has the type of a scene.
LEMMA TrimPlanType ==
  ASSUME NEW s \in Scene
  PROVE  TrimPlan(s) \in Scene
BY DEF TrimPlan, Scene

\* The scene that buildOrphanDeletePlan leaves.
LEMMA OrphanDeletePlanType ==
  ASSUME NEW s \in Scene, NEW F
  PROVE  OrphanDeletePlan(s, F) \in Scene
BY DEF OrphanDeletePlan, Scene

(***************************************************************************)
(* Appending to the log keeps the entries it already has.                  *)
(***************************************************************************)
LEMMA AppendKeeps ==
  ASSUME NEW s \in Scene, log \in Seq(Scene)
  PROVE  /\ Append(log, s) \in Seq(Scene)
         /\ Len(Append(log, s)) = Len(log) + 1
         /\ Append(log, s)[Len(log) + 1] = s
         /\ \A v \in 1..Len(log) : Append(log, s)[v] = log[v]
OBVIOUS

(***************************************************************************)
(* A handler that reads the row and suspends keeps the invariant, whatever *)
(* it is going to write, if a base version it checked is the current one.  *)
(***************************************************************************)
LEMMA LoadKeepsIInv ==
  ASSUME IInv,
         NEW r \in Request, NEW kind \in Kind, NEW base \in Nat \cup {Null},
         NEW patch \in Patch,
         Load(r, kind, base, patch),
         (kind = "put" /\ IsSceneUpdate(patch) /\ base # Null) => base = version
  PROVE  IInv'
<1>. USE DEF Load, Suspend, Suspended, row
<1>1. Current \in Stamp
  BY DEF IInv, TypeOK, Current, Stamp
<1>2. TypeOK'
  BY <1>1 DEF IInv, TypeOK, Call
<1>3. RowInv' /\ HistoryInv' /\ ReplyInv'
  BY DEF IInv, RowInv, HistoryInv, ReplyInv
<1>4. SeenInv'
  BY <1>1 DEF IInv, TypeOK, RowInv, SeenInv, Current
<1>5. CallInv'
  BY DEF IInv, TypeOK, CallInv, Call, Current
<1>. QED
  BY <1>2, <1>3, <1>4, <1>5 DEF IInv

(***************************************************************************)
(* So does a handler that answers, if the row and the history are left     *)
(* alone and the answer, when it carries the row, carries the current one. *)
(***************************************************************************)
LEMMA AnswerKeepsIInv ==
  ASSUME IInv,
         NEW r \in Request, NEW from, NEW a \in Reply,
         Answer(r, from, a),
         UNCHANGED <<row, snapshots, nextId>>,
         call' \in [Request -> Call \cup {Null}],
         \A q \in Request \ {r} : call'[q] = call[q],
         a.status = "ok" => exists /\ a = OK(version, scene)
  PROVE  IInv'
<1>. USE DEF Answer, row
<1>1. TypeOK'
  BY DEF IInv, TypeOK
<1>2. RowInv' /\ HistoryInv'
  BY DEF IInv, RowInv, HistoryInv
<1>3. SeenInv'
  BY DEF IInv, TypeOK, SeenInv, Suspended
<1>4. ReplyInv'
  BY DEF IInv, TypeOK, RowInv, ReplyInv, OK
<1>5. CallInv'
  BY DEF IInv, TypeOK, CallInv, Suspended
<1>. QED
  BY <1>1, <1>2, <1>3, <1>4, <1>5 DEF IInv

(***************************************************************************)
(* The history gains at most an entry of the log.                          *)
(***************************************************************************)
LEMMA HistoryGains ==
  ASSUME IInv, NEW x \in Stamp,
         x.version \in 1..Len(log), x.scene = log[x.version],
         UNCHANGED <<snapshots, nextId>> \/ CreateSnapshot(x)
  PROVE  /\ snapshots' \subseteq Snapshot
         /\ nextId' \in Nat
         /\ \A s \in snapshots' : s.version \in 1..Len(log) /\ s.scene = log[s.version]
<1>1. CASE UNCHANGED <<snapshots, nextId>>
  BY <1>1 DEF IInv, TypeOK, HistoryInv
<1>2. CASE CreateSnapshot(x)
  <2> DEFINE new == [id |-> nextId, version |-> x.version, scene |-> x.scene]
  <2>1. snapshots' = snapshots \cup {new} /\ nextId' = nextId + 1
    BY <1>2 DEF CreateSnapshot
  <2>2. new \in Snapshot
    BY DEF IInv, TypeOK, Snapshot, Stamp
  <2>. QED
    BY <2>1, <2>2 DEF IInv, TypeOK, HistoryInv
<1>. QED
  BY <1>1, <1>2

(***************************************************************************)
(* A handler that passes from one await to the next keeps it too; a        *)
(* restore does so after it has put what it read into the history.         *)
(***************************************************************************)
LEMMA SuspendKeepsIInv ==
  ASSUME IInv,
         NEW r \in Request,
         NEW to \in {"backedUp", "rolledBack", "written"},
         Suspend(r, "loaded", to),
         to = "backedUp" => call[r].kind = "restore",
         \/ UNCHANGED <<snapshots, nextId>>
         \/ CreateSnapshot(seen[r]),
         UNCHANGED <<row, call, seen>>
  PROVE  IInv'
<1>1. seen[r] \in Stamp /\ seen[r].version \in 1..Len(log) /\ seen[r].scene = log[seen[r].version]
  BY DEF IInv, SeenInv, Suspend, Suspended
<1>2. snapshots' \subseteq Snapshot /\ nextId' \in Nat /\ HistoryInv'
  BY <1>1, HistoryGains DEF HistoryInv, row
<1>3. TypeOK'
  BY <1>2 DEF IInv, TypeOK, Suspend, row
<1>4. RowInv' /\ ReplyInv'
  BY DEF IInv, RowInv, ReplyInv, Suspend, row
<1>5. SeenInv' /\ CallInv'
  BY DEF IInv, TypeOK, SeenInv, CallInv, Suspend, Suspended, row
<1>. QED
  BY <1>2, <1>3, <1>4, <1>5 DEF IInv

(***************************************************************************)
(* And a handler that commits: the row becomes the next entry of the log,  *)
(* and the history gains at most an entry that the handler had read.       *)
(***************************************************************************)
LEMMA CommitKeepsIInv ==
  ASSUME IInv,
         NEW r \in Request, NEW from, NEW a \in Reply,
         Suspended(r),
         UpdateScene(call[r].patch),
         Answer(r, from, a),
         a.status = "ok" => a = OK(version', scene'),
         \/ UNCHANGED <<snapshots, nextId>>
         \/ CreateSnapshot(seen[r]),
         UNCHANGED call
  PROVE  IInv'
<1>. USE DEF Answer
<1>1. /\ scene' \in Scene
      /\ version' = Len(log')
      /\ log' \in Seq(Scene)
      /\ Len(log') = Len(log) + 1
      /\ log'[version'] = scene'
      /\ \A v \in 1..Len(log) : log'[v] = log[v]
  BY ApplyType, AppendKeeps DEF IInv, TypeOK, RowInv, CallInv, Call, UpdateScene
<1>2. seen[r] \in Stamp /\ seen[r].version \in 1..Len(log) /\ seen[r].scene = log[seen[r].version]
  BY DEF IInv, SeenInv
<1>3. /\ snapshots' \subseteq Snapshot
      /\ nextId' \in Nat
      /\ HistoryInv'
  BY <1>1, <1>2, HistoryGains DEF HistoryInv, IInv
<1>4. TypeOK'
  BY <1>1, <1>3 DEF IInv, TypeOK, UpdateScene
<1>5. RowInv'
  BY <1>1 DEF IInv, RowInv
<1>6. SeenInv'
  BY <1>1 DEF IInv, TypeOK, SeenInv, Suspended
<1>7. ReplyInv'
  BY <1>1 DEF IInv, TypeOK, RowInv, ReplyInv, OK
<1>8. CallInv'
  BY DEF IInv, TypeOK, CallInv, Suspended
<1>. QED
  BY <1>3, <1>4, <1>5, <1>6, <1>7, <1>8 DEF IInv

\* A new drawing satisfies the invariant.
LEMMA InitIInv == Init => IInv
<1> SUFFICES ASSUME Init PROVE IInv
  OBVIOUS
<1>1. scene \in Scene
  BY RequestAssumption DEF Init, Patch
<1>. QED
  BY <1>1 DEF Init, IInv, TypeOK, RowInv, HistoryInv, SeenInv, ReplyInv, CallInv,
              Suspended, Reply, NoReply

\* No step of a handler, of a clean-up or of a failure breaks the invariant.
THEOREM StepKeepsIInv == IInv /\ [Next]_vars => IInv'
<1> SUFFICES ASSUME IInv, [Next]_vars PROVE IInv'
  OBVIOUS
<1>1. ASSUME NEW r \in Request, Step(r) PROVE IInv'
  <2>1. CASE Refuse(r)
    BY <2>1, AnswerKeepsIInv DEF Refuse, Error, Reply, IInv, TypeOK
  <2>2. CASE Fail(r)
    BY <2>2, AnswerKeepsIInv DEF Fail, Error, Reply, IInv, TypeOK
  <2>3. CASE RowGone(r)
    BY <2>3, AnswerKeepsIInv DEF RowGone, Error, Reply, IInv, TypeOK
  <2>4. CASE Get(r)
    BY <2>4, AnswerKeepsIInv DEF Get, OK, Reply, IInv, TypeOK
  <2>5. ASSUME NEW p \in Payload, NEW v \in PayloadVersion \cup {Null},
               RejectStalePut(r, p, v)
        PROVE  IInv'
    <3>1. [kind |-> "put", base |-> v, patch |-> p] \in Call
      BY RequestAssumption DEF Call, Kind
    <3>. QED
      BY <2>5, <3>1, AnswerKeepsIInv
         DEF RejectStalePut, Conflict, Reply, IInv, TypeOK
  <2>6. ASSUME NEW p \in Payload, NEW v \in PayloadVersion \cup {Null},
               LoadPut(r, p, v)
        PROVE  IInv'
    BY <2>6, LoadKeepsIInv, RequestAssumption DEF LoadPut, StaleBase, Kind
  <2>7. CASE CommitPut(r)
    <3>1. OK(version', scene') \in Reply
      BY <2>7, ApplyType
         DEF CommitPut, UpdateScene, OK, Reply, IInv, TypeOK, CallInv, Call, Suspended
    <3>. QED
      BY <2>7, <3>1, CommitKeepsIInv DEF CommitPut, Suspended
  <2>8. CASE RollBackPut(r)
    BY <2>8, SuspendKeepsIInv DEF RollBackPut, row
  <2>9. CASE AnswerConflict(r)
    BY <2>9, AnswerKeepsIInv DEF AnswerConflict, Conflict, Reply, IInv, TypeOK
  <2>10. CASE WriteMetadata(r)
    BY <2>10, SuspendKeepsIInv DEF WriteMetadata
  <2>11. CASE AnswerMetadata(r)
    BY <2>11, AnswerKeepsIInv DEF AnswerMetadata, OK, Error, Reply, IInv, TypeOK
  <2>12. CASE LoadRestore(r)
    <3>1. PICK s \in snapshots :
            Load(r, "restore", Null, [parts |-> Part, scene |-> s.scene])
      BY <2>12 DEF LoadRestore
    <3>2. [parts |-> Part, scene |-> s.scene] \in Patch
      BY DEF Patch, IInv, TypeOK, Snapshot
    <3>. QED
      BY <3>1, <3>2, LoadKeepsIInv DEF Kind
  <2>13. CASE BackUpRestore(r)
    BY <2>13, SuspendKeepsIInv DEF BackUpRestore
  <2>14. CASE CommitRestore(r)
    <3>1. OK(version', scene') \in Reply
      BY <2>14, ApplyType
         DEF CommitRestore, UpdateScene, OK, Reply, IInv, TypeOK, CallInv, Call, Suspended
    <3>. QED
      BY <2>14, <3>1, CommitKeepsIInv DEF CommitRestore, Suspended
  <2>15. CASE LoadTrim(r)
    <3>1. [parts |-> {"elements", "files"}, scene |-> TrimPlan(scene)] \in Patch
      BY TrimPlanType DEF Patch, Part, IInv, TypeOK
    <3>. QED
      BY <2>15, <3>1, LoadKeepsIInv DEF LoadTrim, Kind
  <2>16. ASSUME NEW F \in SUBSET FileId, LoadOrphans(r, F)
         PROVE  IInv'
    <3>1. [parts |-> {"elements", "files"}, scene |-> OrphanDeletePlan(scene, F)] \in Patch
      BY OrphanDeletePlanType DEF Patch, Part, IInv, TypeOK
    <3>. QED
      BY <2>16, <3>1, LoadKeepsIInv DEF LoadOrphans, Kind
  <2>17. CASE CommitCleanup(r)
    <3>1. Done \in Reply /\ Done.status # "ok"
      BY DEF Done, Reply
    <3>. QED
      BY <2>17, <3>1, CommitKeepsIInv DEF CommitCleanup, Suspended
  <2>18. CASE LoadDelete(r)
    <3>1. [parts |-> {}, scene |-> scene] \in Patch
      BY DEF Patch, IInv, TypeOK
    <3>. QED
      BY <2>18, <3>1, LoadKeepsIInv DEF LoadDelete, Kind
  <2>19. CASE CommitDelete(r)
    BY <2>19 DEF CommitDelete, Answer, Done, Reply, Suspended, IInv, TypeOK,
                 RowInv, HistoryInv, SeenInv, ReplyInv, CallInv
  <2>. QED
    BY <1>1, <2>1, <2>2, <2>3, <2>4, <2>5, <2>6, <2>7, <2>8, <2>9, <2>10, <2>11,
       <2>12, <2>13, <2>14, <2>15, <2>16, <2>17, <2>18, <2>19 DEF Step
<1>2. CASE CleanUpSnapshots
  BY <1>2 DEF CleanUpSnapshots, row, Suspended, IInv, TypeOK, RowInv, HistoryInv,
              SeenInv, ReplyInv, CallInv
<1>3. CASE UNCHANGED vars
  BY <1>3 DEF vars, Suspended, IInv, TypeOK, RowInv, HistoryInv, SeenInv, ReplyInv, CallInv
<1>. QED
  BY <1>1, <1>2, <1>3 DEF Next

\* The inductive invariant holds in every state of the drawing routes.
THEOREM Invariance == Spec => []IInv
BY InitIInv, StepKeepsIInv, PTL DEF Spec

-----------------------------------------------------------------------------
(***************************************************************************)
(* Every variable keeps to its type; in particular no interleaving makes a *)
(* handler write something that is not a scene.                            *)
(***************************************************************************)
THEOREM TypeCorrect == Spec => []TypeOK
BY Invariance, PTL DEF IInv

(***************************************************************************)
(* A version number names one scene: the row, the history, every suspended *)
(* handler and every answer agree on what the drawing was at version v.    *)
(***************************************************************************)
THEOREM VersionsNameScenes == Spec => []VersionNamesOneScene
<1>1. IInv => VersionNamesOneScene
  <2> SUFFICES ASSUME IInv, NEW x \in Shown
               PROVE  x.version \in DOMAIN log /\ x.scene = log[x.version]
    BY DEF VersionNamesOneScene
  <2>1. DOMAIN log = 1..Len(log)
    BY DEF IInv, TypeOK
  <2>2. CASE x = Current
    BY <2>1, <2>2 DEF Current, IInv, RowInv, TypeOK
  <2>3. CASE x \in Stamps(snapshots)
    BY <2>1, <2>3 DEF Stamps, IInv, HistoryInv
  <2>4. CASE \E r \in Request : Suspended(r) /\ x = seen[r]
    BY <2>1, <2>4 DEF IInv, SeenInv
  <2>5. CASE \E r \in Request :
               /\ reply[r].status = "ok"
               /\ x = [version |-> reply[r].version, scene |-> reply[r].scene]
    BY <2>1, <2>5 DEF IInv, ReplyInv
  <2>. QED
    BY <2>2, <2>3, <2>4, <2>5 DEF Shown, Stamps
<1>. QED
  BY <1>1, Invariance, PTL

(***************************************************************************)
(* Only these steps answer a request and move the version.                 *)
(***************************************************************************)
LEMMA ReplacesCommits ==
  ASSUME TypeOK, Next, NEW r \in Request, Replaces(r)
  PROVE  CommitPut(r) \/ CommitRestore(r) \/ CommitCleanup(r)
<1>1. PICK q \in Request : Step(q)
  BY DEF Next, CleanUpSnapshots, Replaces, row
<1>2. CommitPut(q) \/ CommitRestore(q) \/ CommitCleanup(q)
  BY <1>1 DEF Step, Replaces, row, Refuse, Fail, RowGone, Get, RejectStalePut,
              LoadPut, Load, RollBackPut, AnswerConflict, WriteMetadata,
              AnswerMetadata, LoadRestore, BackUpRestore, LoadTrim, LoadOrphans,
              LoadDelete, CommitDelete
<1>3. q = r
  BY <1>2 DEF CommitPut, CommitRestore, CommitCleanup, Answer, Replaces, TypeOK
<1>. QED
  BY <1>2, <1>3

(***************************************************************************)
(* A save that names its base version destroys nothing: what it replaces   *)
(* is in the history when its transaction commits.                         *)
(***************************************************************************)
THEOREM CheckedSaveDestroysNothing == Spec => CheckedSaveKeepsReplacedScene
<1> DEFINE Keeps == \A r \in Request :
             Replaces(r) /\ call[r].kind = "put" /\ call[r].base # Null =>
               Current \in Stamps(snapshots')
<1>1. IInv /\ [Next]_vars => [Keeps]_vars
  <2> SUFFICES ASSUME IInv, Next, NEW r \in Request,
                      Replaces(r), call[r].kind = "put", call[r].base # Null
               PROVE  Current \in Stamps(snapshots')
    BY DEF vars
  <2>1. CommitPut(r)
    BY ReplacesCommits DEF IInv, CallInv, Suspended, CommitRestore, CommitCleanup
  <2>2. seen[r].version = version /\ seen[r].scene = scene
    BY <2>1 DEF CommitPut, Suspended, IInv, CallInv, SeenInv, RowInv
  <2> DEFINE backup == [id |-> nextId, version |-> seen[r].version, scene |-> seen[r].scene]
  <2>3. backup \in snapshots'
    BY <2>1 DEF CommitPut, CreateSnapshot
  <2>4. [version |-> backup.version, scene |-> backup.scene] = Current
    BY <2>2 DEF Current
  <2>. QED
    BY <2>3, <2>4 DEF Stamps
<1>. QED
  BY <1>1, Invariance, PTL DEF Spec, CheckedSaveKeepsReplacedScene

-----------------------------------------------------------------------------
(***************************************************************************)
(* What the two remaining results need besides.  A restore that is about   *)
(* to commit has what it read in the history: the history only shrinks     *)
(* when the row goes, or by a clean-up that waits for it.                  *)
(***************************************************************************)
BackUpInv ==
  \A r \in Request : pc[r] = "backedUp" /\ exists => seen[r] \in Stamps(snapshots)

(***************************************************************************)
(* What a request has said and been told, at each point of its handler.    *)
(* A transaction that rolled back did so on a version that is past.        *)
(***************************************************************************)
TalkInv ==
  \A r \in Request :
    /\ pc[r] = "idle" => call[r] = Null
    /\ pc[r] # "answered" => reply[r] = NoReply
    /\ pc[r] = "rolledBack" =>
         /\ call[r].kind = "put" /\ IsSceneUpdate(call[r].patch)
         /\ call[r].base \in Nat
         /\ call[r].base < Len(log)

FullInv == IInv /\ BackUpInv /\ TalkInv

\* Whatever is added to the history, what was in it stays in it.
LEMMA StampsGrow ==
  ASSUME NEW x, CreateSnapshot(x)
  PROVE  /\ Stamps(snapshots) \subseteq Stamps(snapshots')
         /\ Stamps(snapshots') = Stamps(snapshots) \cup
              {[version |-> x.version, scene |-> x.scene]}
<1> DEFINE new == [id |-> nextId, version |-> x.version, scene |-> x.scene]
<1>1. \A S : Stamps(S \cup {new}) =
               Stamps(S) \cup {[version |-> x.version, scene |-> x.scene]}
  <2> SUFFICES ASSUME NEW S, NEW y
               PROVE  y \in Stamps(S \cup {new}) <=>
                        y \in Stamps(S) \/ y = [version |-> x.version, scene |-> x.scene]
    OBVIOUS
  <2>1. /\ new.version = x.version /\ new.scene = x.scene
        /\ \A s : s \in S \cup {new} <=> s \in S \/ s = new
    OBVIOUS
  <2> HIDE DEF new
  <2>. QED
    BY <2>1 DEF Stamps
<1>2. snapshots' = snapshots \cup {new}
  BY DEF CreateSnapshot
<1> HIDE DEF new
<1>. QED
  BY <1>1, <1>2

\* A stamp is its version and its scene.
LEMMA StampEta ==
  ASSUME NEW x \in Stamp
  PROVE  x = [version |-> x.version, scene |-> x.scene]
BY DEF Stamp

(***************************************************************************)
(* A step of one request leaves where the others are, and what they were   *)
(* asked, read and told.                                                   *)
(***************************************************************************)
Alone(r) ==
  /\ pc' \in [Request -> {"idle", "loaded", "backedUp", "rolledBack", "written", "answered"}]
  /\ \A q \in Request \ {r} :
       pc'[q] = pc[q] /\ call'[q] = call[q] /\ seen'[q] = seen[q] /\ reply'[q] = reply[q]

LEMMA StepIsAlone ==
  ASSUME TypeOK, NEW r \in Request, Step(r)
  PROVE  Alone(r)
BY DEF TypeOK, Step, Alone, Refuse, Fail, RowGone, Get, RejectStalePut, LoadPut, Load,
       CommitPut, RollBackPut, AnswerConflict, WriteMetadata, AnswerMetadata, LoadRestore,
       BackUpRestore, CommitRestore, LoadTrim, CommitCleanup, LoadOrphans, LoadDelete,
       CommitDelete, Answer, Suspend

\* Only a deletion shortens the history in a request's step, and it takes the row.
LEMMA StepKeepsHistory ==
  ASSUME NEW r \in Request, Step(r)
  PROVE  exists' => exists /\ Stamps(snapshots) \subseteq Stamps(snapshots')
<1>1. ASSUME NEW x, CreateSnapshot(x) PROVE Stamps(snapshots) \subseteq Stamps(snapshots')
  BY <1>1, StampsGrow
<1>2. CASE UNCHANGED snapshots
  BY <1>2 DEF Stamps, Step, Refuse, Fail, RowGone, Get, RejectStalePut, LoadPut, Load,
       CommitPut, RollBackPut, AnswerConflict, WriteMetadata, AnswerMetadata, LoadRestore,
       BackUpRestore, CommitRestore, LoadTrim, CommitCleanup, LoadOrphans, LoadDelete,
       CommitDelete, UpdateScene, row
<1>3. CASE CommitPut(r) \/ BackUpRestore(r)
  BY <1>1, <1>3 DEF CommitPut, BackUpRestore, UpdateScene, row
<1>4. CASE CommitDelete(r)
  BY <1>4 DEF CommitDelete
<1>. QED
  BY <1>2, <1>3, <1>4
     DEF Step, Refuse, Fail, RowGone, Get, RejectStalePut, LoadPut, Load,
       RollBackPut, AnswerConflict, WriteMetadata, AnswerMetadata, LoadRestore,
       CommitRestore, LoadTrim, CommitCleanup, LoadOrphans, LoadDelete

\* The log only grows.
LEMMA StepKeepsLog ==
  ASSUME IInv, NEW r \in Request, Step(r)
  PROVE  Len(log) <= Len(log')
<1>1. CASE UNCHANGED log
  BY <1>1 DEF IInv, TypeOK
<1>2. CASE \E q \in Request : Suspended(q) /\ UpdateScene(call[q].patch)
  BY <1>2, ApplyType, AppendKeeps DEF UpdateScene, IInv, TypeOK, CallInv, Call
<1>. QED
  BY <1>1, <1>2
     DEF Step, Refuse, Fail, RowGone, Get, RejectStalePut, LoadPut, Load,
       CommitPut, RollBackPut, AnswerConflict, WriteMetadata, AnswerMetadata, LoadRestore,
       BackUpRestore, CommitRestore, LoadTrim, CommitCleanup, LoadOrphans, LoadDelete,
       CommitDelete, Answer, Suspend, Suspended, row

\* No step breaks the part about backups.
LEMMA StepKeepsBackUpInv == IInv /\ BackUpInv /\ [Next]_vars => BackUpInv'
<1> SUFFICES ASSUME IInv, BackUpInv, [Next]_vars PROVE BackUpInv'
  OBVIOUS
<1>1. ASSUME NEW r \in Request, Step(r) PROVE BackUpInv'
  <2> SUFFICES ASSUME NEW q \in Request, pc'[q] = "backedUp", exists'
               PROVE  seen'[q] \in Stamps(snapshots')
    BY DEF BackUpInv
  <2>1. exists /\ Stamps(snapshots) \subseteq Stamps(snapshots')
    BY <1>1, StepKeepsHistory
  <2>2. CASE q # r
    BY <1>1, <2>1, <2>2, StepIsAlone DEF IInv, Alone, BackUpInv
  <2>3. CASE q = r
    <3>1. BackUpRestore(r)
      BY <1>1, <2>3
         DEF Step, Refuse, Fail, RowGone, Get, RejectStalePut, LoadPut, Load,
           CommitPut, RollBackPut, AnswerConflict, WriteMetadata, AnswerMetadata,
           LoadRestore, CommitRestore, LoadTrim, CommitCleanup, LoadOrphans,
           LoadDelete, CommitDelete, Answer, Suspend, IInv, TypeOK
    <3>2. seen[r] \in Stamp /\ seen' = seen
      BY <3>1 DEF BackUpRestore, Suspend, IInv, SeenInv, Suspended
    <3>. QED
      BY <2>3, <3>1, <3>2, StampsGrow, StampEta DEF BackUpRestore
  <2>. QED
    BY <2>2, <2>3
<1>2. CASE CleanUpSnapshots
  BY <1>2 DEF CleanUpSnapshots, BackUpInv
<1>3. CASE UNCHANGED vars
  BY <1>3 DEF vars, BackUpInv, Stamps
<1>. QED
  BY <1>1, <1>2, <1>3 DEF Next

\* Nor the part about what was said.
LEMMA StepKeepsTalkInv == IInv /\ TalkInv /\ [Next]_vars => TalkInv'
<1> SUFFICES ASSUME IInv, TalkInv, [Next]_vars PROVE TalkInv'
  OBVIOUS
<1>1. ASSUME NEW r \in Request, Step(r) PROVE TalkInv'
  <2>1. Len(log) \in Nat /\ Len(log') \in Nat /\ Len(log) <= Len(log')
    BY <1>1, StepKeepsLog, StepKeepsIInv DEF Next, IInv, TypeOK
  <2> SUFFICES ASSUME NEW q \in Request
               PROVE  /\ pc'[q] = "idle" => call'[q] = Null
                      /\ pc'[q] # "answered" => reply'[q] = NoReply
                      /\ pc'[q] = "rolledBack" =>
                           /\ call'[q].kind = "put" /\ IsSceneUpdate(call'[q].patch)
                           /\ call'[q].base \in Nat
                           /\ call'[q].base < Len(log')
    BY DEF TalkInv, IsSceneUpdate
  <2>2. CASE q # r
    BY <1>1, <2>1, <2>2, StepIsAlone DEF IInv, Alone, TalkInv
  <2>3. CASE q = r
    <3>1. pc[r] # "answered" /\ pc'[r] # "idle"
      BY <1>1
         DEF Step, Refuse, Fail, RowGone, Get, RejectStalePut, LoadPut, Load,
           CommitPut, RollBackPut, AnswerConflict, WriteMetadata, AnswerMetadata,
           LoadRestore, BackUpRestore, CommitRestore, LoadTrim, CommitCleanup,
           LoadOrphans, LoadDelete, CommitDelete, Answer, Suspend, Suspended, IInv, TypeOK
    <3>2. pc'[r] # "answered" => reply' = reply
      BY <1>1
         DEF Step, Refuse, Fail, RowGone, Get, RejectStalePut, LoadPut, Load,
           CommitPut, RollBackPut, AnswerConflict, WriteMetadata, AnswerMetadata,
           LoadRestore, BackUpRestore, CommitRestore, LoadTrim, CommitCleanup,
           LoadOrphans, LoadDelete, CommitDelete, Answer, Suspend, IInv, TypeOK
    <3>3. ASSUME pc'[r] = "rolledBack"
          PROVE  /\ call'[r].kind = "put" /\ IsSceneUpdate(call'[r].patch)
                 /\ call'[r].base \in Nat
                 /\ call'[r].base < Len(log')
      <4>1. RollBackPut(r)
        BY <1>1, <3>3
           DEF Step, Refuse, Fail, RowGone, Get, RejectStalePut, LoadPut, Load,
             CommitPut, AnswerConflict, WriteMetadata, AnswerMetadata,
             LoadRestore, BackUpRestore, CommitRestore, LoadTrim, CommitCleanup,
             LoadOrphans, LoadDelete, CommitDelete, Answer, Suspend, IInv, TypeOK
      <4>2. /\ call[r] \in Call
            /\ seen[r].version = call[r].base
            /\ seen[r].version \in 1..Len(log)
            /\ call[r].base # Len(log)
        BY <4>1 DEF RollBackPut, IInv, RowInv, CallInv, SeenInv, Suspended
      <4>. QED
        BY <4>1, <4>2, <2>1 DEF RollBackPut, row
    <3>. QED
      BY <2>3, <3>1, <3>2, <3>3 DEF TalkInv
  <2>. QED
    BY <2>2, <2>3
<1>2. CASE CleanUpSnapshots
  BY <1>2 DEF CleanUpSnapshots, TalkInv, row
<1>3. CASE UNCHANGED vars
  BY <1>3 DEF vars, TalkInv
<1>. QED
  BY <1>1, <1>2, <1>3 DEF Next

\* The whole invariant holds in every state of the drawing routes.
LEMMA FullInvariance == Spec => []FullInv
<1>1. Init => FullInv
  BY InitIInv DEF Init, FullInv, BackUpInv, TalkInv
<1>2. FullInv /\ [Next]_vars => FullInv'
  BY StepKeepsIInv, StepKeepsBackUpInv, StepKeepsTalkInv DEF FullInv
<1>. QED
  BY <1>1, <1>2, PTL DEF Spec

(***************************************************************************)
(* A save or a restore takes content out of the drawing and its history    *)
(* together only when it replaces, without a version check, a scene that   *)
(* was written after it read the row: the backup that it makes is          *)
(* otherwise the very scene that it replaces, and the clean-up of old      *)
(* snapshots does not take it in between.  The trim and the deletion of    *)
(* orphaned files make no backup: the theorem says nothing of them.        *)
(***************************************************************************)
THEOREM OnlyStaleWritersLose == Spec => OnlyStaleOverwriteLosesScene
<1> DEFINE Stale == \A r \in Request :
             /\ Replaces(r)
             /\ call[r].kind \in {"put", "restore"}
             /\ Current \notin Stamps(snapshots')
             => seen[r].version < version
<1>1. FullInv /\ [Next]_vars => [Stale]_vars
  <2> SUFFICES ASSUME FullInv, Next, NEW r \in Request, Replaces(r),
                      call[r].kind \in {"put", "restore"},
                      Current \notin Stamps(snapshots')
               PROVE  seen[r].version < version
    BY DEF vars
  <2>1. CommitPut(r) \/ CommitRestore(r)
    BY ReplacesCommits DEF FullInv, IInv, CommitCleanup
  <2>2. /\ seen[r] \in Stamp
        /\ seen[r].version \in 1..version
        /\ seen[r].version = version => seen[r] = Current
    BY <2>1, StampEta
       DEF CommitPut, CommitRestore, Suspended, FullInv, IInv, SeenInv, RowInv, Current
  <2>3. seen[r] \in Stamps(snapshots')
    <3>1. CASE CommitPut(r)
      BY <3>1, <2>2, StampsGrow, StampEta DEF CommitPut
    <3>2. CASE CommitRestore(r)
      BY <3>2 DEF CommitRestore, UpdateScene, FullInv, BackUpInv, Stamps
    <3>. QED
      BY <2>1, <3>1, <3>2
  <2>. QED
    BY <2>2, <2>3 DEF FullInv, IInv, TypeOK
<1>. QED
  BY <1>1, FullInvariance, PTL DEF Spec, OnlyStaleOverwriteLosesScene

-----------------------------------------------------------------------------
(***************************************************************************)
(* The refinement of VersionLog.  Bases is what the abstract log sees of   *)
(* the requests; every step of the routes is one of its steps or none.     *)
(***************************************************************************)
Bases == [r \in Request |-> SaveBase(r)]

\* A request that is not a save with a version says nothing to the log.
LEMMA BasesUnchanged ==
  ASSUME UNCHANGED call
  PROVE  UNCHANGED Bases
BY DEF Bases, SaveBase, IsSceneUpdate

\* A request that was idle names the base it was sent with, or none.
LEMMA BasesNamed ==
  ASSUME TypeOK, TalkInv, NEW r \in Request, pc[r] = "idle",
         NEW kind \in Kind, NEW b \in Nat \cup {Null}, NEW patch \in Patch,
         call' = [call EXCEPT ![r] = [kind |-> kind, base |-> b, patch |-> patch]]
  PROVE  /\ Bases[r] = Null
         /\ Bases'[r] = IF kind = "put" /\ IsSceneUpdate(patch) THEN b ELSE Null
         /\ Bases' = [Bases EXCEPT ![r] = Bases'[r]]
<1>1. call[r] = Null /\ call'[r] = [kind |-> kind, base |-> b, patch |-> patch]
  BY DEF TypeOK, TalkInv
<1>2. call'[r] # Null
  BY <1>1, NullAssumption DEF Call
<1>3. Bases[r] = Null
  BY <1>1 DEF Bases, SaveBase
<1>4. Bases'[r] = IF kind = "put" /\ IsSceneUpdate(patch) THEN b ELSE Null
  BY <1>1, <1>2 DEF Bases, SaveBase, IsSceneUpdate
<1>5. \A q \in Request \ {r} : Bases'[q] = Bases[q]
  BY DEF Bases, SaveBase, IsSceneUpdate, TypeOK
<1>. QED
  BY <1>3, <1>4, <1>5 DEF Bases

\* A stamp that the invariant vouches for is an entry of the log.
LEMMA SeenIsEntry ==
  ASSUME IInv, NEW r \in Request, Suspended(r)
  PROVE  /\ seen[r].version \in DOMAIN log
         /\ [version |-> seen[r].version, scene |-> seen[r].scene]
              = Abstract!Entry(seen[r].version)
BY DEF IInv, TypeOK, SeenInv, Abstract!Entry

\* An answer in the routes is an answer to the log's client.
LEMMA AnswerTells ==
  ASSUME TypeOK, TalkInv, NEW r \in Request, NEW from, NEW a,
         from # "answered", Answer(r, from, a)
  PROVE  Abstract!Tell(r, a)
BY DEF Answer, TypeOK, TalkInv, NoReply, Abstract!Tell, Abstract!Pending

(***************************************************************************)
(* Reading the row is the moment a save names its base, and otherwise      *)
(* nothing that the log sees.                                              *)
(***************************************************************************)
LEMMA LoadIssues ==
  ASSUME FullInv, NEW r \in Request, NEW kind \in Kind, NEW b \in Nat \cup {Null},
         NEW patch \in Patch, Load(r, kind, b, patch)
  PROVE  Abstract!Issue(r) \/ UNCHANGED Abstract!vars
<1>1. pc[r] = "idle" /\ UNCHANGED <<exists, log, snapshots, reply>>
  BY DEF Load, Suspend, row
<1>2. Abstract!Pending(r)
  BY <1>1 DEF FullInv, TalkInv, NoReply, Abstract!Pending
<1>3. /\ Bases[r] = Null
      /\ Bases'[r] = IF kind = "put" /\ IsSceneUpdate(patch) THEN b ELSE Null
      /\ Bases' = [Bases EXCEPT ![r] = Bases'[r]]
  BY <1>1, BasesNamed DEF Load, FullInv, IInv
<1>4. CASE Bases'[r] = Null
  <2>1. Bases' = Bases
    BY <1>3, <1>4 DEF Bases
  <2>. QED
    BY <1>1, <2>1 DEF Abstract!vars, Stamps, Bases
<1>5. CASE Bases'[r] # Null
  <2>1. Bases'[r] \in Nat
    BY <1>3, <1>5
  <2>2. Abstract!NameBase(r)
    BY <1>3, <2>1 DEF Abstract!NameBase, Bases
  <2>. QED
    BY <1>1, <1>2, <2>2 DEF Abstract!Issue, Stamps
<1>. QED
  BY <1>4, <1>5

(***************************************************************************)
(* The transaction of a save: with a base version it is the successful     *)
(* compare-and-set, without one an overwrite that backs up what was read.  *)
(***************************************************************************)
LEMMA CommitPutRefines ==
  ASSUME FullInv, NEW r \in Request, CommitPut(r)
  PROVE  \E s \in Scene : Abstract!CheckedSave(r, s) \/ Abstract!Overwrite(r, s)
<1>1. /\ pc[r] = "loaded" /\ Suspended(r) /\ exists
      /\ call[r] \in Call /\ call[r].kind = "put" /\ IsSceneUpdate(call[r].patch)
      /\ call[r].base \in {Null, version}
      /\ CreateSnapshot(seen[r])
      /\ UNCHANGED <<exists, call>>
  BY DEF CommitPut, Suspended, UpdateScene, FullInv, IInv, CallInv
<1>2. /\ scene' \in Scene
      /\ log' = Append(log, scene')
      /\ version = Len(log) /\ Len(log) \in Nat
      /\ version' = Len(log')
  BY <1>1, ApplyType, AppendKeeps
     DEF CommitPut, UpdateScene, FullInv, IInv, TypeOK, RowInv, Call
<1>3. UNCHANGED Bases
  BY <1>1, BasesUnchanged
<1>4. Bases[r] = call[r].base
  BY <1>1, NullAssumption DEF Bases, SaveBase
<1>5. Abstract!Tell(r, [status |-> "ok", version |-> Len(log'), scene |-> scene'])
  BY <1>2, AnswerTells DEF CommitPut, OK, FullInv, IInv
<1>6. /\ seen[r].version \in DOMAIN log
      /\ Stamps(snapshots') = Stamps(snapshots) \cup {Abstract!Entry(seen[r].version)}
  BY <1>1, SeenIsEntry, StampsGrow DEF FullInv
<1>7. CASE call[r].base = Null
  BY <1>1, <1>2, <1>3, <1>4, <1>5, <1>6, <1>7 DEF Abstract!Overwrite, Bases
<1>8. CASE call[r].base = version /\ call[r].base # Null
  <2>1. seen[r].version = Len(log)
    BY <1>1, <1>2, <1>8 DEF FullInv, IInv, CallInv
  <2>. QED
    BY <1>1, <1>2, <1>3, <1>4, <1>5, <1>6, <1>8, <2>1 DEF Abstract!CheckedSave, Bases
<1>. QED
  BY <1>1, <1>7, <1>8

(***************************************************************************)
(* The other writers name no version: the log sees them overwrite.         *)
(***************************************************************************)
LEMMA OverwriteRefines ==
  ASSUME FullInv, NEW r \in Request, CommitRestore(r) \/ CommitCleanup(r)
  PROVE  \E s \in Scene : Abstract!Overwrite(r, s)
<1>1. /\ pc[r] \in {"loaded", "backedUp"} /\ Suspended(r) /\ exists
      /\ call[r] \in Call /\ call[r].kind # "put"
      /\ UpdateScene(call[r].patch)
      /\ UNCHANGED <<exists, call, snapshots>>
  BY DEF CommitRestore, CommitCleanup, Suspended, UpdateScene, FullInv, IInv, CallInv
<1>2. /\ scene' \in Scene
      /\ log' = Append(log, scene')
      /\ 1 \in DOMAIN log
      /\ version' = Len(log')
  BY <1>1, ApplyType, AppendKeeps
     DEF UpdateScene, FullInv, IInv, TypeOK, RowInv, Call
<1>3. UNCHANGED Bases /\ Bases[r] = Null
  BY <1>1, BasesUnchanged DEF Bases, SaveBase
<1>4. \/ Abstract!Tell(r, [status |-> "ok", version |-> Len(log'), scene |-> scene'])
      \/ Abstract!Tell(r, [status |-> "done"])
  BY <1>2, AnswerTells DEF CommitRestore, CommitCleanup, OK, Done, FullInv, IInv
<1>5. UNCHANGED Stamps(snapshots)
  BY <1>1 DEF Stamps
<1>. QED
  BY <1>1, <1>2, <1>3, <1>4, <1>5 DEF Abstract!Overwrite, Bases

(***************************************************************************)
(* A rejected save tells a version that is not the one it was based on,    *)
(* whether it was rejected when the row was read or by the transaction.    *)
(***************************************************************************)
LEMMA RejectRefines ==
  ASSUME FullInv, NEW r \in Request,
         NEW p \in Payload, NEW v \in PayloadVersion \cup {Null}, RejectStalePut(r, p, v)
  PROVE  Abstract!Conflict(r)
<1>1. /\ pc[r] = "idle" /\ exists /\ UNCHANGED <<exists, log, snapshots>>
      /\ IsSceneUpdate(p) /\ v # Null /\ v # Len(log)
      /\ p \in Patch /\ v \in Nat \cup {Null}
  BY RequestAssumption
     DEF RejectStalePut, StaleBase, Answer, row, FullInv, IInv, RowInv
<1>2. /\ Bases[r] = Null /\ Bases'[r] = v
      /\ Bases' = [Bases EXCEPT ![r] = Bases'[r]]
  BY <1>1, BasesNamed DEF RejectStalePut, FullInv, IInv, Kind
<1>3. Abstract!NameBase(r) /\ Bases'[r] # Len(log)
  BY <1>1, <1>2 DEF Abstract!NameBase, Bases
<1>4. Abstract!Tell(r, [status |-> "conflict", version |-> Len(log)])
  BY AnswerTells DEF RejectStalePut, Conflict, FullInv, IInv, RowInv
<1>. QED
  BY <1>1, <1>3, <1>4 DEF Abstract!Conflict, Bases, Stamps

LEMMA LateConflictRefines ==
  ASSUME FullInv, NEW r \in Request, AnswerConflict(r)
  PROVE  Abstract!Conflict(r)
<1>1. /\ pc[r] = "rolledBack" /\ UNCHANGED <<exists, log, snapshots, call>>
      /\ Len(log) \in Nat
      /\ call[r].kind = "put" /\ IsSceneUpdate(call[r].patch)
      /\ call[r] \in Call
      /\ call[r].base \in Nat /\ call[r].base # Len(log)
  BY DEF AnswerConflict, Answer, row, FullInv, TalkInv, IInv, TypeOK, CallInv, Suspended
<1>2. UNCHANGED Bases
  BY <1>1, BasesUnchanged
<1>3. Bases[r] = call[r].base
  BY <1>1, NullAssumption DEF Bases, SaveBase
<1>4. Abstract!NameBase(r) /\ Bases'[r] # Len(log)
  BY <1>1, <1>2, <1>3, RequestAssumption DEF Abstract!NameBase, Bases
<1>5. Abstract!Tell(r, [status |-> "conflict", version |-> IF exists THEN Len(log) ELSE Null])
  BY AnswerTells DEF AnswerConflict, Conflict, FullInv, IInv, RowInv
<1>. QED
  BY <1>1, <1>4, <1>5 DEF Abstract!Conflict, Bases, Stamps

\* Every step of a request is a step of the log, or none that it sees.
LEMMA StepRefines ==
  ASSUME FullInv, NEW r \in Request, Step(r)
  PROVE  Abstract!Next \/ UNCHANGED Abstract!vars
<1>1. CASE Refuse(r) \/ Fail(r) \/ RowGone(r) \/ (AnswerMetadata(r) /\ ~ exists)
  <2>1. Abstract!Tell(r, Error)
    BY <1>1, AnswerTells
       DEF Refuse, Fail, RowGone, AnswerMetadata, Suspended, FullInv, IInv
  <2>2. UNCHANGED <<exists, log, Stamps(snapshots), Bases>>
    BY <1>1, BasesUnchanged DEF Refuse, Fail, RowGone, AnswerMetadata, row, Stamps
  <2>. QED
    BY <2>1, <2>2 DEF Abstract!Next, Abstract!GiveUp, Error, Bases
<1>2. CASE Get(r) \/ (AnswerMetadata(r) /\ exists)
  <2>1. Abstract!Tell(r, OK(version, scene))
    BY <1>2, AnswerTells DEF Get, AnswerMetadata, FullInv, IInv
  <2>2. UNCHANGED <<exists, log, Stamps(snapshots), Bases>> /\ exists
    BY <1>2, BasesUnchanged DEF Get, AnswerMetadata, row, Stamps
  <2>3. version = Len(log) /\ scene = log[Len(log)]
    BY DEF FullInv, IInv, RowInv
  <2>. QED
    BY <2>1, <2>2, <2>3 DEF Abstract!Next, Abstract!Read, OK, Bases
<1>3. ASSUME NEW p \in Payload, NEW v \in PayloadVersion \cup {Null},
             RejectStalePut(r, p, v) \/ LoadPut(r, p, v)
      PROVE  Abstract!Next \/ UNCHANGED Abstract!vars
  BY <1>3, RejectRefines, LoadIssues, RequestAssumption
     DEF LoadPut, Kind, Abstract!Next
<1>4. CASE CommitPut(r)
  BY <1>4, CommitPutRefines DEF Abstract!Next
<1>5. CASE RollBackPut(r) \/ WriteMetadata(r)
  <2>1. UNCHANGED <<exists, log, Stamps(snapshots), Bases, reply>>
    BY <1>5, BasesUnchanged DEF RollBackPut, WriteMetadata, Suspend, row, Stamps
  <2>. QED
    BY <2>1 DEF Abstract!vars, Bases
<1>6. CASE AnswerConflict(r)
  BY <1>6, LateConflictRefines DEF Abstract!Next
<1>7. CASE LoadRestore(r) \/ LoadTrim(r) \/ LoadDelete(r)
  <2>1. \A x \in snapshots : [parts |-> Part, scene |-> x.scene] \in Patch
    BY DEF Patch, FullInv, IInv, TypeOK, Snapshot
  <2>2. /\ [parts |-> {"elements", "files"}, scene |-> TrimPlan(scene)] \in Patch
        /\ [parts |-> {}, scene |-> scene] \in Patch
    BY TrimPlanType DEF Patch, Part, FullInv, IInv, TypeOK
  <2>. QED
    BY <1>7, <2>1, <2>2, LoadIssues
       DEF LoadRestore, LoadTrim, LoadDelete, Kind, Abstract!Next
<1>8. ASSUME NEW F \in SUBSET FileId, LoadOrphans(r, F)
      PROVE  Abstract!Next \/ UNCHANGED Abstract!vars
  <2>1. [parts |-> {"elements", "files"}, scene |-> OrphanDeletePlan(scene, F)] \in Patch
    BY OrphanDeletePlanType DEF Patch, Part, FullInv, IInv, TypeOK
  <2>. QED
    BY <1>8, <2>1, LoadIssues DEF LoadOrphans, Kind, Abstract!Next
<1>9. CASE BackUpRestore(r)
  <2>1. Abstract!Pending(r)
    BY <1>9 DEF BackUpRestore, Suspend, FullInv, TalkInv, NoReply, Abstract!Pending
  <2>2. /\ seen[r].version \in DOMAIN log
        /\ Stamps(snapshots') = Stamps(snapshots) \cup {Abstract!Entry(seen[r].version)}
    BY <1>9, SeenIsEntry, StampsGrow DEF BackUpRestore, Suspend, Suspended, FullInv
  <2>3. UNCHANGED <<exists, log, Bases, reply>> /\ exists
    BY <1>9, BasesUnchanged DEF BackUpRestore, Suspend, CreateSnapshot, row
  <2>. QED
    BY <2>1, <2>2, <2>3 DEF Abstract!Next, Abstract!BackUp, Bases
<1>10. CASE CommitRestore(r) \/ CommitCleanup(r)
  BY <1>10, OverwriteRefines DEF Abstract!Next
<1>11. CASE CommitDelete(r)
  <2>1. Abstract!Tell(r, Done)
    BY <1>11, AnswerTells DEF CommitDelete, FullInv, IInv
  <2>2. UNCHANGED <<log, Bases>> /\ Stamps(snapshots') = {}
    BY <1>11, BasesUnchanged DEF CommitDelete, Stamps
  <2>. QED
    BY <1>11, <2>1, <2>2 DEF CommitDelete, Abstract!Next, Abstract!Remove, Done, Bases
<1>. QED
  BY <1>1, <1>2, <1>3, <1>4, <1>5, <1>6, <1>7, <1>8, <1>9, <1>10, <1>11 DEF Step

(***************************************************************************)
(* The routes implement the append-only log: whatever their handlers do    *)
(* between their awaits, each client sees one atomic compare-and-set, and  *)
(* the history never holds an entry that the drawing did not go through.   *)
(***************************************************************************)
THEOREM RoutesImplementLog == Spec => ImplementsVersionLog
<1>1. Init => Abstract!Init
  BY RequestAssumption DEF Init, Abstract!Init, Stamps, SaveBase, NoReply, Patch
<1>2. FullInv /\ [Next]_vars => [Abstract!Next]_(Abstract!vars)
  <2> SUFFICES ASSUME FullInv, [Next]_vars
               PROVE  Abstract!Next \/ UNCHANGED Abstract!vars
    OBVIOUS
  <2>1. CASE \E r \in Request : Step(r)
    BY <2>1, StepRefines
  <2>2. CASE CleanUpSnapshots
    <3>1. /\ Stamps(snapshots') \in SUBSET Stamps(snapshots)
          /\ UNCHANGED <<exists, log, Bases, reply>>
      BY <2>2, BasesUnchanged DEF CleanUpSnapshots, Stamps, row
    <3>. QED
      BY <3>1 DEF Abstract!Next, Abstract!Forget, Bases
  <2>3. CASE UNCHANGED vars
    BY <2>3, BasesUnchanged DEF vars, Abstract!vars, Stamps, Bases
  <2>. QED
    BY <2>1, <2>2, <2>3 DEF Next
<1>. QED
  BY <1>1, <1>2, FullInvariance, PTL DEF Spec, ImplementsVersionLog, Abstract!Spec

-----------------------------------------------------------------------------
(***************************************************************************)
(* ObjectStore, for every set of drawings, handlers, files and elements,   *)
(* and any number of failures.  The inductive invariant StoreInv has four  *)
(* parts.  StoreShape: the types, the stages of each kind of request, and  *)
(* that the id of a new drawing has one maker.  LeftOversAreCleared: what  *)
(* is left of a drawing that is gone has a handler that still removes it,  *)
(* or that will create the drawing.  TrimsFit: what a trim knows of the    *)
(* bucket and of the records at each of its stages.  StoreServes: of each  *)
(* image that is or may come to be in a row - the row, its history, and    *)
(* what each handler is going to write - under which conditions its files  *)
(* are stored.                                                             *)
(***************************************************************************)
\* What rows, images and handlers can be.
Plain == CHOOSE a \in AppState : TRUE
StoredImage ==
  [scene : [elements : SUBSET Element, appState : {Plain}, files : SUBSET FileId],
   home : [FileId -> Drawing]]
StoredRow == [exists : BOOLEAN, version : Nat, image : StoredImage]
CallKind == {"save", "create", "duplicate", "restore", "trim", "orphans", "delete"}
Handling ==
  [stage : {"asked", "running", "recorded", "dropped", "deleted"}, kind : CallKind,
   drawing : Drawing, source : Drawing, image : StoredImage, inline : SUBSET FileId, keep : BOOLEAN,
   files : SUBSET FileId, base : Nat, seen : StoredRow,
   todo : SUBSET ({"put", "copy", "record", "remove"} \X FileId), failed : BOOLEAN, again : BOOLEAN,
   since : Nat, read : Nat, tidy : BOOLEAN]

StoreTypes ==
  /\ rows \in [Drawing -> StoredRow]
  /\ past \in [Drawing -> SUBSET [image : StoredImage, epoch : Nat]]
  /\ bucket \in SUBSET (Drawing \X FileId) /\ records \in SUBSET (Drawing \X FileId)
  /\ DOMAIN req = Handler
  /\ \A r \in Handler : req[r] \in {Idle, Ended} \/ req[r] \in Handling
  /\ epoch \in [Drawing -> Nat] /\ stale \in [Drawing -> BOOLEAN]
  /\ stranded \in [Drawing -> BOOLEAN]

New == {"create", "duplicate"}

\* The commands of each kind, and its stages.
StageFits(x) ==
  /\ x.stage # "running" => x.todo = {} /\ ~ x.failed
  /\ x.kind \in {"save", "create"} => \A c \in x.todo : c[1] \in {"put", "record"}
  /\ x.kind = "duplicate" => \A c \in x.todo : c[1] \in {"copy", "record"}
  /\ x.kind \in Cleanup \cup {"delete"} => ~ x.failed /\ \A c \in x.todo : c[1] = "remove"
  /\ x.kind \in {"save", "duplicate"} => x.stage \in {"asked", "running"}
  /\ x.kind = "create" => x.stage = "running"
  /\ x.kind = "restore" => x.stage = "asked"
  /\ x.kind \in Cleanup => x.stage \in {"asked", "recorded", "running", "dropped"}
  /\ x.kind = "delete" => x.stage \in {"asked", "deleted", "running"}
  /\ x.kind # "duplicate" => x.source = x.drawing

\* A drawing that is new belongs to the one handler that makes it.
PlaceFits(x) ==
  /\ x.kind \in New => rows[x.drawing].version = 0
  /\ x.kind \notin New => rows[x.drawing].version > 0 /\ x.base <= rows[x.drawing].version
  /\ x.kind = "duplicate" => rows[x.source].version > 0
  /\ x.kind = "delete" /\ x.stage # "asked" => ~ rows[x.drawing].exists

RowFits(d) ==
  /\ rows[d].exists => rows[d].version > 0
  /\ rows[d].version = 0 => past[d] = {} /\ \A f \in FileId : rows[d].image.home[f] = d

OneMaker ==
  \A q, r \in Handler :
    Busy(q) /\ Busy(r) /\ req[q].kind \in New /\ req[r].kind \in New
    /\ req[q].drawing = req[r].drawing => q = r

StoreShape ==
  /\ StoreTypes /\ OneMaker
  /\ \A d \in Drawing : RowFits(d)
  /\ \A r \in Handler : Busy(r) => StageFits(req[r]) /\ PlaceFits(req[r])

-----------------------------------------------------------------------------
\* A handler that removes, or comes to show, all there is of a drawing without a row.
Clears(x, d) ==
  /\ x.drawing = d
  /\ \/ x.kind \in New /\ x.stage = "running"
     \/ x.kind = "delete" /\ x.stage = "deleted"
     \/ /\ x.kind = "delete" /\ x.stage = "running"
        /\ \A f \in Under(bucket, d) : <<"remove", f>> \in x.todo

LeftOversAreCleared ==
  /\ \A d \in Drawing : ~ rows[d].exists /\ ~ stranded[d] /\ Under(bucket \cup records, d) # {} =>
       \E r \in Handler : Busy(r) /\ Clears(req[r], d)
  /\ \A r \in Handler : Busy(r) /\ req[r].kind \in New /\ req[r].failed => stranded[req[r].drawing]

\* What an undisturbed trim knows: in the end only what it shows is left.
TrimFits(x) ==
  LET shown == ShownFiles(x.image.scene) d == x.drawing IN
  x.kind = "trim" /\ x.tidy =>
    /\ x.stage \in {"recorded", "running"} => Under(records, d) \subseteq shown \cup x.files
    /\ x.stage = "running" => \A f \in Under(bucket, d) : f \in shown \/ <<"remove", f>> \in x.todo
    /\ x.stage = "dropped" => Under(records, d) \subseteq shown /\ Under(bucket, d) \subseteq shown

TrimsFit == \A r \in Handler : Busy(r) => TrimFits(req[r])

-----------------------------------------------------------------------------
\* The condition of ShownImagesAreServed.
Servable(d) == rows[d].exists /\ ~ stale[d] /\ ~ Cleaning(d)

Owned(d, i, files) == \A f \in files : i.home[f] = d /\ <<d, f>> \in bucket /\ <<d, f>> \in records

\* The image i, as of epoch e of d: it is all there, unless a clean-up began since.
Kept(d, i, e) ==
  /\ e <= epoch[d]
  /\ e = epoch[d] /\ Servable(d) =>
       ShownFiles(i.scene) \subseteq i.scene.files /\ Owned(d, i, i.scene.files)

\* A file that is stored already, or that a command of the handler stores.
Coming(x, f) ==
  /\ x.image.home[f] = x.drawing
  /\ \/ <<"put", f>> \in x.todo \/ <<"copy", f>> \in x.todo
     \/ <<"record", f>> \in x.todo /\ <<x.drawing, f>> \in bucket
     \/ <<x.drawing, f>> \in bucket /\ <<x.drawing, f>> \in records

\* What a handler has read of the row, while its version is the same.
SeenFits(x) ==
  LET now == rows[x.drawing] IN
  x.kind \notin New =>
    /\ x.seen.version <= now.version
    /\ x.seen.version = now.version => x.seen.image = now.image

\* A save for the version it names: what it shows is in its map, stored or coming.
SaveFits(x) ==
  LET d == x.drawing  now == rows[d]  s == x.image.scene IN
  x.kind = "save" =>
    /\ x.since <= epoch[d] /\ \A f \in x.inline : x.image.home[f] = d
    /\ x.stage = "running" => x.seen.version = x.base
    /\ ~ x.again /\ x.base = now.version /\ Servable(d) => x.since = epoch[d]
    /\ ~ x.again /\ x.base = now.version /\ x.keep =>
         ShownFiles(s) \subseteq ShownFiles(now.image.scene) \cup now.image.scene.files
    /\ ~ x.keep =>
         /\ x.since = epoch[d] /\ Servable(d) =>
              ShownFiles(s) \subseteq s.files /\ Owned(d, x.image, s.files \ x.inline)
         /\ x.stage = "running" /\ ~ x.failed /\ Servable(d) /\ x.base = now.version =>
              \A f \in x.inline : Coming(x, f)

RestoreFits(x) ==
  x.kind = "restore" => Kept(x.drawing, x.image, x.since) /\ Kept(x.drawing, x.seen.image, x.read)

\* A new drawing: its images are there, or coming.
MakerFits(x) ==
  /\ x.kind = "duplicate" /\ x.stage = "asked" => Kept(x.source, x.image, x.since)
  /\ x.kind \in New /\ x.stage = "running" /\ ~ stale[x.drawing] /\ ~ x.failed =>
       /\ ShownFiles(x.image.scene) \subseteq x.image.scene.files
       /\ \A f \in x.image.scene.files : Coming(x, f)

SoleCleaner(r, d) == \A q \in Handler : Cleans(q) /\ req[q].drawing = d => q = r

\* A clean-up removes nothing that its plan keeps.
CleanupFits(x, r) ==
  LET d == x.drawing  now == rows[d]  s == x.image.scene IN
  x.kind \in Cleanup =>
    /\ x.kind = "trim" => s.files \subseteq ShownFiles(s)
    /\ \A f \in s.files : f \notin x.files /\ <<"remove", f>> \notin x.todo
    /\ x.seen.version = now.version =>
         /\ ShownFiles(s) \subseteq ShownFiles(now.image.scene)
         /\ ShownFiles(s) \cap now.image.scene.files \subseteq s.files
         /\ s.files \subseteq now.image.scene.files
         /\ x.image.home = now.image.home
    /\ x.stage \in {"running", "dropped"} /\ x.seen.version = now.version
       /\ now.exists /\ ~ stale[d] /\ SoleCleaner(r, d) =>
         ShownFiles(s) \subseteq s.files /\ Owned(d, x.image, s.files)

StoreServes ==
  /\ \A d \in Drawing : Kept(d, rows[d].image, epoch[d])
  /\ \A d \in Drawing : \A p \in past[d] : Kept(d, p.image, p.epoch)
  /\ \A r \in Handler : Busy(r) =>
       /\ SeenFits(req[r]) /\ SaveFits(req[r]) /\ RestoreFits(req[r]) /\ MakerFits(req[r])
       /\ CleanupFits(req[r], r)

StoreInv == StoreShape /\ LeftOversAreCleared /\ TrimsFit /\ StoreServes

-----------------------------------------------------------------------------
LEMMA UnderIs ==
  ASSUME NEW keys, keys \subseteq Drawing \X FileId, NEW d
  PROVE  \A f : f \in Under(keys, d) <=> <<d, f>> \in keys
<1>1. \A k \in keys : k = <<k[1], k[2]>>
  OBVIOUS
<1> QED
  BY <1>1 DEF Under

LEMMA ShownIs ==
  ASSUME NEW s, NEW f
  PROVE  f \in ShownFiles(s) <=>
           \E e \in s.elements : e \in DOMAIN ImageFile /\ e \notin Deleted /\ ImageFile[e] = f
  BY DEF ShownFiles, CollectReferencedFileIds

LEMMA BusyIs ==
  ASSUME StoreTypes, NEW r \in Handler
  PROVE  Busy(r) <=> req[r] \in Handling
  BY DEF StoreTypes, Busy, Idle, Ended, Handling

-----------------------------------------------------------------------------
\* What a step of a handler does to the others: only tidy may be lost.
Steady(x, y) ==
  /\ y \in Handling
  /\ y.stage = x.stage /\ y.kind = x.kind /\ y.drawing = x.drawing /\ y.source = x.source
  /\ y.image = x.image /\ y.inline = x.inline /\ y.keep = x.keep /\ y.files = x.files
  /\ y.base = x.base /\ y.seen = x.seen /\ y.todo = x.todo /\ y.failed = x.failed
  /\ y.again = x.again /\ y.since = x.since /\ y.read = x.read /\ (y.tidy => x.tidy)

OthersWait(r) ==
  \A q \in Handler \ {r} : IF Busy(q) THEN Steady(req[q], req'[q]) ELSE req'[q] = req[q]

\* Nothing happens to a drawing; nothing new comes to it; nothing is taken from it.
SameAt(c) ==
  /\ rows'[c] = rows[c] /\ past'[c] = past[c] /\ epoch'[c] = epoch[c]
  /\ stale'[c] = stale[c] /\ stranded'[c] = stranded[c]
  /\ \A f \in FileId : (<<c, f>> \in bucket' <=> <<c, f>> \in bucket)
                       /\ (<<c, f>> \in records' <=> <<c, f>> \in records)

Lighter(c) ==
  \A f \in FileId : (<<c, f>> \in bucket' => <<c, f>> \in bucket)
                    /\ (<<c, f>> \in records' => <<c, f>> \in records)

Heavier(c) ==
  \A f \in FileId : (<<c, f>> \in bucket => <<c, f>> \in bucket')
                    /\ (<<c, f>> \in records => <<c, f>> \in records')

\* A drawing that can be served afterwards could be served before, or has been written since.
Calm(c) ==
  /\ rows'[c].version >= rows[c].version
  /\ rows'[c].version = rows[c].version => rows'[c].image = rows[c].image
  /\ epoch'[c] >= epoch[c]
  /\ rows[c].version > 0 =>
       /\ rows'[c].exists => rows[c].exists
       /\ stale[c] => stale'[c]
       /\ epoch'[c] = epoch[c] /\ Servable(c)' => Servable(c) /\ Heavier(c)
       /\ epoch'[c] # epoch[c] /\ Servable(c)' => rows'[c].version > rows[c].version

\* The other clean-ups: who is alone afterwards was before.
PlansWait(r, d) ==
  \A q \in Handler \ {r} :
    Cleans(q) /\ req[q].drawing = d /\ rows'[d].version = rows[d].version
    /\ rows'[d].exists /\ ~ stale'[d] /\ SoleCleaner(q, d)' =>
      rows[d].exists /\ ~ stale[d] /\ SoleCleaner(q, d) /\ Heavier(d)

\* The left-overs of a drawing that is gone.
Swept(r, d) ==
  \/ rows'[d].exists \/ stranded'[d]
  \/ \A f \in FileId : <<d, f>> \notin bucket' /\ <<d, f>> \notin records'
  \/ Busy(r)' /\ Clears(req[r], d)'
  \/ Lighter(d) /\ ~ rows[d].exists /\ ~ stranded[d] /\ ~ Clears(req[r], d)

\* What holds of the handler itself.
Fits(r) ==
  LET x == req[r] IN
    /\ StageFits(x) /\ PlaceFits(x) /\ TrimFits(x)
    /\ x.kind \in New /\ x.failed => stranded[x.drawing]
    /\ SeenFits(x) /\ SaveFits(x) /\ RestoreFits(x) /\ MakerFits(x) /\ CleanupFits(x, r)

StepFits(r, d) ==
  /\ StoreTypes' /\ OthersWait(r)
  /\ \A c \in Drawing \ {d} : SameAt(c)
  /\ Calm(d) /\ PlansWait(r, d) /\ Swept(r, d)
  /\ Lighter(d) \/ \A q \in Handler \ {r} : Busy(q) /\ req[q].kind \in Cleanup /\ req[q].drawing = d => ~ req'[q].tidy
  /\ stranded[d] => stranded'[d]
  /\ RowFits(d)' /\ Kept(d, rows[d].image, epoch[d])'
  /\ \A p \in past'[d] : p \in past[d] \/ Kept(d, p.image, p.epoch)'
  /\ Busy(r)' => /\ req'[r].kind = req[r].kind /\ req'[r].drawing = d /\ req'[r].source = req[r].source
                 /\ Fits(r)'

LEMMA KeptStays ==
  ASSUME StoreTypes, StoreTypes', NEW c \in Drawing, Calm(c), rows[c].version > 0,
         NEW i \in StoredImage, NEW e \in Nat, Kept(c, i, e)
  PROVE  Kept(c, i, e)'
<1>1. epoch[c] \in Nat /\ epoch'[c] \in Nat /\ i.scene.files \subseteq FileId
  BY DEF StoreTypes, StoredImage
<1>2. e <= epoch'[c]
  BY <1>1 DEF Calm, Kept
<1>3. ASSUME e = epoch'[c], Servable(c)'
      PROVE  ShownFiles(i.scene) \subseteq i.scene.files /\ Owned(c, i, i.scene.files)'
  <2>1. epoch'[c] = epoch[c] /\ Servable(c) /\ Heavier(c)
    BY <1>1, <1>3 DEF Calm, Kept
  <2>2. ShownFiles(i.scene) \subseteq i.scene.files /\ Owned(c, i, i.scene.files)
    BY <1>3, <2>1 DEF Kept
  <2> QED
    BY <1>1, <2>1, <2>2 DEF Owned, Heavier
<1> QED
  BY <1>2, <1>3 DEF Kept

\* What another handler needs to know of the step.
Meanwhile(r, q, d) ==
  /\ q # r /\ Busy(q) /\ Busy(r) /\ d = req[r].drawing /\ StoreShape /\ StoreServes
  /\ StoreTypes' /\ OthersWait(r)
  /\ \A c \in Drawing \ {d} : SameAt(c)
  /\ Calm(d) /\ PlansWait(r, d)
  /\ Busy(r)' => req'[r].kind = req[r].kind /\ req'[r].drawing = d

LEMMA OtherIs ==
  ASSUME NEW r \in Handler, NEW q \in Handler, NEW d, Meanwhile(r, q, d)
  PROVE  /\ req[q] \in Handling /\ req'[q] \in Handling /\ Steady(req[q], req'[q])
         /\ req[r] \in Handling /\ Busy(q)'
<1>1. req[q] \in Handling /\ req[r] \in Handling
  BY BusyIs DEF Meanwhile, StoreShape
<1>2. Steady(req[q], req'[q])
  BY DEF Meanwhile, OthersWait
<1> QED
  BY <1>1, <1>2 DEF Steady, Busy, Handling

LEMMA CleaningElsewhere ==
  ASSUME NEW r \in Handler, NEW q \in Handler, NEW d, Meanwhile(r, q, d), NEW c \in Drawing \ {d}
  PROVE  /\ Cleaning(c)' <=> Cleaning(c)
         /\ \A p \in Handler : (Cleans(p) /\ req[p].drawing = c)' <=> (Cleans(p) /\ req[p].drawing = c)
<1>1. \A p \in Handler : (Cleans(p) /\ req[p].drawing = c)' <=> (Cleans(p) /\ req[p].drawing = c)
  <2> SUFFICES ASSUME NEW p \in Handler
               PROVE  (Cleans(p) /\ req[p].drawing = c)' <=> (Cleans(p) /\ req[p].drawing = c)
    OBVIOUS
  <2>1. CASE p = r
    BY <2>1 DEF Meanwhile, Cleans, At
  <2>2. CASE p # r /\ ~ Busy(p)
    BY <2>2 DEF Meanwhile, OthersWait, Cleans, At, Busy
  <2>3. CASE p # r /\ Busy(p)
    <3>1. Steady(req[p], req'[p])
      BY <2>3 DEF Meanwhile, OthersWait
    <3> QED
      BY <3>1 DEF Steady, Cleans, At, Busy
  <2> QED
    BY <2>1, <2>2, <2>3
<1> QED
  BY <1>1 DEF Cleaning

LEMMA CalmElsewhere ==
  ASSUME NEW r \in Handler, NEW q \in Handler, NEW d, Meanwhile(r, q, d), NEW c \in Drawing
  PROVE  Calm(c)
<1>1. CASE c = d
  BY <1>1 DEF Meanwhile
<1>2. CASE c # d
  <2>1. SameAt(c) /\ (Cleaning(c)' <=> Cleaning(c))
    BY <1>2, CleaningElsewhere DEF Meanwhile
  <2>2. rows[c].version \in Nat /\ epoch[c] \in Nat
    BY DEF Meanwhile, StoreShape, StoreTypes, StoredRow
  <2> QED
    BY <2>1, <2>2 DEF SameAt, Calm, Servable, Heavier
<1> QED
  BY <1>1, <1>2

LEMMA MakersApart ==
  ASSUME NEW r \in Handler, NEW q \in Handler, NEW d, Meanwhile(r, q, d)
  PROVE  req[q].kind \in New => req[q].drawing # d
<1>1. CASE req[r].kind \in New
  BY <1>1 DEF Meanwhile, StoreShape, OneMaker
<1>2. CASE req[r].kind \notin New
  BY <1>2 DEF Meanwhile, StoreShape, PlaceFits
<1> QED
  BY <1>1, <1>2

LEMMA OtherShape ==
  ASSUME NEW r \in Handler, NEW q \in Handler, NEW d, Meanwhile(r, q, d)
  PROVE  StageFits(req[q])' /\ PlaceFits(req[q])'
<1>x. PICK x : x = req[q]
  OBVIOUS
<1>y. PICK y : y = req'[q]
  OBVIOUS
<1>1. Steady(x, y) /\ x \in Handling
  BY <1>x, <1>y, OtherIs
<1>2. StageFits(x) /\ PlaceFits(x)
  BY <1>x DEF Meanwhile, StoreShape
<1>3. StageFits(y)
  BY <1>1, <1>2 DEF Steady, StageFits
<1>4. x.drawing \in Drawing /\ x.source \in Drawing /\ x.base \in Nat
  BY <1>1 DEF Handling
<1>5. Calm(x.drawing) /\ Calm(x.source)
  BY <1>4, CalmElsewhere
<1>6. \A c \in Drawing : rows[c].version \in Nat /\ rows'[c].version \in Nat
  BY DEF Meanwhile, StoreShape, StoreTypes, StoredRow
<1>7. x.kind \in New => rows'[x.drawing] = rows[x.drawing]
  BY <1>x, <1>4, MakersApart DEF Meanwhile, SameAt
<1>8. PlaceFits(x)'
  BY <1>2, <1>4, <1>5, <1>6, <1>7 DEF PlaceFits, Calm
<1>9. PlaceFits(y)'
  BY <1>1, <1>8 DEF Steady, PlaceFits
<1> QED
  BY <1>3, <1>9, <1>y DEF StageFits, PlaceFits

LEMMA OtherSaves ==
  ASSUME NEW r \in Handler, NEW q \in Handler, NEW d, Meanwhile(r, q, d)
  PROVE  SeenFits(req[q])' /\ SaveFits(req[q])' /\ RestoreFits(req[q])'
<1>x. PICK x : x = req[q]
  OBVIOUS
<1>y. PICK y : y = req'[q]
  OBVIOUS
<1>d. PICK g : g = x.drawing
  OBVIOUS
<1>1. Steady(x, y) /\ x \in Handling /\ PlaceFits(x)
  BY <1>x, <1>y, OtherIs DEF Meanwhile, StoreShape
<1>2. SeenFits(x) /\ SaveFits(x) /\ RestoreFits(x)
  BY <1>x DEF Meanwhile, StoreServes
<1>3. /\ g \in Drawing /\ x.image \in StoredImage /\ x.seen \in StoredRow
      /\ x.seen.image \in StoredImage
      /\ x.base \in Nat /\ x.since \in Nat /\ x.read \in Nat /\ x.inline \subseteq FileId
      /\ x.image.scene.files \subseteq FileId /\ x.seen.version \in Nat
  BY <1>1, <1>d DEF Handling, StoredRow, StoredImage
<1>4. Calm(g)
  BY <1>3, CalmElsewhere
<1>5. /\ rows[g].version \in Nat /\ rows'[g].version \in Nat /\ epoch[g] \in Nat
      /\ epoch'[g] \in Nat
      /\ StoreTypes /\ StoreTypes'
  BY <1>3 DEF Meanwhile, StoreShape, StoreTypes, StoredRow
<1>6. SeenFits(x)'
  <2> SUFFICES ASSUME x.kind \notin New
               PROVE  /\ x.seen.version <= rows'[g].version
                      /\ x.seen.version = rows'[g].version => x.seen.image = rows'[g].image
    BY <1>d DEF SeenFits
  <2> QED
    BY <1>d, <1>2, <1>3, <1>4, <1>5 DEF SeenFits, Calm
<1>7. RestoreFits(x)'
  <2> SUFFICES ASSUME x.kind = "restore"
               PROVE  Kept(g, x.image, x.since)' /\ Kept(g, x.seen.image, x.read)'
    BY <1>d DEF RestoreFits
  <2>1. Kept(g, x.image, x.since) /\ Kept(g, x.seen.image, x.read) /\ rows[g].version > 0
    BY <1>1, <1>2, <1>d DEF RestoreFits, PlaceFits, New
  <2> QED
    BY <1>3, <1>4, <1>5, <2>1, KeptStays
<1>8. SaveFits(x)'
  <2> SUFFICES ASSUME x.kind = "save" PROVE SaveFits(x)'
    BY DEF SaveFits
  <2>1. rows[g].version > 0 /\ x.base <= rows[g].version
    BY <1>1, <1>d DEF PlaceFits, New
  <2>2. Servable(g)' /\ x.base = rows'[g].version =>
          rows'[g].version = rows[g].version /\ epoch'[g] = epoch[g] /\ Servable(g) /\ Heavier(g)
                                             /\ rows'[g].image = rows[g].image
    BY <1>3, <1>4, <1>5, <2>1 DEF Calm
  <2>3. x.base = rows'[g].version => x.base = rows[g].version /\ rows'[g].image = rows[g].image
    BY <1>3, <1>4, <1>5, <2>1 DEF Calm
  <2>4. x.since <= epoch[g] /\ epoch[g] <= epoch'[g]
    BY <1>2, <1>4, <1>d DEF SaveFits, Calm
  <2>5. Servable(g)' /\ x.since = epoch'[g] => x.since = epoch[g] /\ Servable(g) /\ Heavier(g)
    BY <1>3, <1>4, <1>5, <2>1, <2>4 DEF Calm
  <2>6. ~ x.keep =>
         /\ x.since = epoch'[g] /\ Servable(g)' =>
              /\ ShownFiles(x.image.scene) \subseteq x.image.scene.files
              /\ Owned(g, x.image, x.image.scene.files \ x.inline)'
         /\ x.stage = "running" /\ ~ x.failed /\ Servable(g)' /\ x.base = rows'[g].version =>
              \A f \in x.inline : Coming(x, f)'
    <3>1. ASSUME ~ x.keep, x.since = epoch'[g], Servable(g)'
          PROVE  /\ ShownFiles(x.image.scene) \subseteq x.image.scene.files
                 /\ Owned(g, x.image, x.image.scene.files \ x.inline)'
      <4>1. /\ ShownFiles(x.image.scene) \subseteq x.image.scene.files
            /\ Owned(g, x.image, x.image.scene.files \ x.inline)
        BY <1>2, <1>d, <2>5, <3>1 DEF SaveFits
      <4> QED
        BY <1>3, <2>5, <3>1, <4>1 DEF Owned, Heavier
    <3>2. ASSUME ~ x.keep, x.stage = "running", ~ x.failed, Servable(g)', x.base = rows'[g].version,
                 NEW f \in x.inline
          PROVE  Coming(x, f)'
      <4>1. Coming(x, f)
        BY <1>2, <1>d, <2>2, <3>2 DEF SaveFits
      <4> QED
        BY <1>3, <1>d, <2>2, <3>2, <4>1 DEF Coming, Heavier
    <3> QED
      BY <3>1, <3>2
  <2>7. /\ x.stage = "running" => x.seen.version = x.base
        /\ ~ x.again /\ x.base = rows'[g].version /\ Servable(g)' => x.since = epoch'[g]
        /\ ~ x.again /\ x.base = rows'[g].version /\ x.keep =>
             ShownFiles(x.image.scene) \subseteq ShownFiles(rows'[g].image.scene) \cup rows'[g].image.scene.files
    BY <1>2, <1>d, <2>2, <2>3 DEF SaveFits
  <2>8. x.since <= epoch'[g] /\ \A f \in x.inline : x.image.home[f] = g
    BY <1>2, <1>d, <1>3, <1>5, <2>4 DEF SaveFits
  <2> QED
    BY <1>d, <2>6, <2>7, <2>8 DEF SaveFits
<1>9. SeenFits(y)' /\ SaveFits(y)' /\ RestoreFits(y)'
  <2>1. SeenFits(y)' /\ RestoreFits(y)'
    BY <1>1, <1>6, <1>7 DEF Steady, SeenFits, RestoreFits
  <2>2. SaveFits(y)'
    BY <1>1, <1>8 DEF Steady, SaveFits, Coming
  <2> QED
    BY <2>1, <2>2
<1> QED
  BY <1>9, <1>y DEF SeenFits, SaveFits, RestoreFits, Coming

LEMMA OtherMakes ==
  ASSUME NEW r \in Handler, NEW q \in Handler, NEW d, Meanwhile(r, q, d)
  PROVE  /\ MakerFits(req[q])'
         /\ (req[q].kind \in New /\ req[q].failed => stranded[req[q].drawing])
            => (req[q].kind \in New /\ req[q].failed => stranded[req[q].drawing])'
<1>x. PICK x : x = req[q]
  OBVIOUS
<1>y. PICK y : y = req'[q]
  OBVIOUS
<1>1. Steady(x, y) /\ x \in Handling /\ PlaceFits(x)
  BY <1>x, <1>y, OtherIs DEF Meanwhile, StoreShape
<1>2. MakerFits(x)
  BY <1>x DEF Meanwhile, StoreServes
<1>3. /\ x.drawing \in Drawing /\ x.source \in Drawing /\ x.image \in StoredImage
      /\ x.since \in Nat /\ x.image.scene.files \subseteq FileId
  BY <1>1 DEF Handling, StoredImage
<1>4. Calm(x.source) /\ StoreTypes /\ StoreTypes'
  BY <1>3, CalmElsewhere DEF Meanwhile, StoreShape
<1>5. x.kind \in New => SameAt(x.drawing)
  BY <1>x, <1>3, MakersApart DEF Meanwhile
<1>6. ASSUME x.kind = "duplicate", x.stage = "asked"
      PROVE  Kept(x.source, x.image, x.since)'
  <2>1. Kept(x.source, x.image, x.since) /\ rows[x.source].version > 0
    BY <1>1, <1>2, <1>6 DEF MakerFits, PlaceFits
  <2> QED
    BY <1>3, <1>4, <2>1, KeptStays
<1>7. ASSUME x.kind \in New, x.stage = "running", ~ stale'[x.drawing], ~ x.failed
      PROVE  /\ ShownFiles(x.image.scene) \subseteq x.image.scene.files
             /\ \A f \in x.image.scene.files : Coming(x, f)'
  <2>1. ~ stale[x.drawing] /\ SameAt(x.drawing)
    BY <1>5, <1>7 DEF SameAt
  <2>2. /\ ShownFiles(x.image.scene) \subseteq x.image.scene.files
        /\ \A f \in x.image.scene.files : Coming(x, f)
    BY <1>2, <1>7, <2>1 DEF MakerFits
  <2> QED
    BY <1>3, <2>1, <2>2 DEF SameAt, Coming
<1>8. MakerFits(x)'
  BY <1>6, <1>7 DEF MakerFits
<1>9. MakerFits(y)'
  BY <1>1, <1>8 DEF Steady, MakerFits, Coming
<1>10. (x.kind \in New /\ x.failed => stranded[x.drawing]) => (y.kind \in New /\ y.failed => stranded'[y.drawing])
  BY <1>1, <1>5 DEF Steady, SameAt
<1> QED
  BY <1>x, <1>y, <1>9, <1>10 DEF MakerFits, Coming

LEMMA OtherCleans ==
  ASSUME NEW r \in Handler, NEW q \in Handler, NEW d, Meanwhile(r, q, d)
  PROVE  CleanupFits(req[q], q)'
<1>x. PICK x : x = req[q]
  OBVIOUS
<1>y. PICK y : y = req'[q]
  OBVIOUS
<1>d. PICK g : g = x.drawing
  OBVIOUS
<1>1. Steady(x, y) /\ x \in Handling /\ PlaceFits(x)
  BY <1>x, <1>y, OtherIs DEF Meanwhile, StoreShape
<1>2. CleanupFits(x, q) /\ SeenFits(x)
  BY <1>x DEF Meanwhile, StoreServes
<1>3. /\ g \in Drawing /\ x.image \in StoredImage /\ x.seen.version \in Nat
      /\ x.image.scene.files \subseteq FileId
      /\ rows[g].version \in Nat /\ rows'[g].version \in Nat /\ epoch[g] \in Nat
      /\ epoch'[g] \in Nat
  BY <1>1, <1>d DEF Handling, StoredRow, StoredImage, Meanwhile, StoreShape, StoreTypes
<1>4. Calm(g)
  BY <1>3, CalmElsewhere
<1>5. SUFFICES ASSUME x.kind \in Cleanup PROVE CleanupFits(x, q)'
  <2>1. CleanupFits(x, q)' => CleanupFits(y, q)'
    BY <1>1 DEF Steady, CleanupFits, SoleCleaner
  <2> QED
    BY <1>5, <1>y, <2>1 DEF CleanupFits
<1>6. x.seen.version <= rows[g].version /\ rows[g].version > 0
  BY <1>1, <1>2, <1>5, <1>d DEF SeenFits, PlaceFits, Cleanup, New
<1>7. x.seen.version = rows'[g].version =>
        x.seen.version = rows[g].version /\ rows'[g].image = rows[g].image
  BY <1>3, <1>4, <1>6 DEF Calm
<1>8. ASSUME x.stage \in {"running", "dropped"}, x.seen.version = rows'[g].version, rows'[g].exists,
             ~ stale'[g], SoleCleaner(q, g)'
      PROVE  /\ ShownFiles(x.image.scene) \subseteq x.image.scene.files
             /\ Owned(g, x.image, x.image.scene.files)'
  <2>1. Cleans(q) /\ req[q].drawing = g
    BY <1>1, <1>5, <1>8, <1>x, <1>d DEF Cleans, At, Meanwhile
  <2>2. rows[g].exists /\ ~ stale[g] /\ SoleCleaner(q, g) /\ Heavier(g)
    <3>1. CASE g = d
      BY <1>7, <1>8, <2>1, <3>1 DEF Meanwhile, PlansWait
    <3>2. CASE g # d
      <4>1. SameAt(g) /\ g \in Drawing \ {d}
        BY <1>3, <3>2 DEF Meanwhile
      <4>2. SoleCleaner(q, g)
        BY <1>8, <4>1, CleaningElsewhere DEF SoleCleaner
      <4> QED
        BY <1>8, <4>1, <4>2 DEF SameAt, Heavier
    <3> QED
      BY <3>1, <3>2
  <2>3. /\ ShownFiles(x.image.scene) \subseteq x.image.scene.files
        /\ Owned(g, x.image, x.image.scene.files)
    BY <1>2, <1>5, <1>7, <1>8, <1>d, <2>2 DEF CleanupFits
  <2> QED
    BY <1>3, <2>2, <2>3 DEF Owned, Heavier
<1>9. /\ x.kind = "trim" => x.image.scene.files \subseteq ShownFiles(x.image.scene)
      /\ \A f \in x.image.scene.files : f \notin x.files /\ <<"remove", f>> \notin x.todo
      /\ x.seen.version = rows'[g].version =>
         /\ ShownFiles(x.image.scene) \subseteq ShownFiles(rows'[g].image.scene)
         /\ ShownFiles(x.image.scene) \cap rows'[g].image.scene.files \subseteq x.image.scene.files
         /\ x.image.scene.files \subseteq rows'[g].image.scene.files
         /\ x.image.home = rows'[g].image.home
  BY <1>2, <1>5, <1>7, <1>d DEF CleanupFits
<1> QED
  BY <1>d, <1>8, <1>9 DEF CleanupFits

LEMMA OtherTrims ==
  ASSUME NEW r \in Handler, NEW q \in Handler, NEW d, Meanwhile(r, q, d), TrimFits(req[q]),
         Lighter(d)
         \/ (req[q].kind \in Cleanup /\ req[q].drawing = d => ~ req'[q].tidy)
  PROVE  TrimFits(req[q])'
<1>x. PICK x : x = req[q]
  OBVIOUS
<1>y. PICK y : y = req'[q]
  OBVIOUS
<1>d. PICK g : g = x.drawing
  OBVIOUS
<1>1. Steady(x, y) /\ x \in Handling /\ g \in Drawing
  BY <1>x, <1>y, <1>d, OtherIs DEF Handling
<1>2. bucket \subseteq Drawing \X FileId /\ records \subseteq Drawing \X FileId
      /\ bucket' \subseteq Drawing \X FileId /\ records' \subseteq Drawing \X FileId
  BY DEF Meanwhile, StoreShape, StoreTypes
<1>3. SUFFICES ASSUME y.kind = "trim", y.tidy PROVE TrimFits(y)'
  BY <1>y DEF TrimFits
<1>4. Lighter(g)
  BY <1>1, <1>3, <1>x, <1>y, <1>d DEF Meanwhile, SameAt, Lighter, Steady, Cleanup
<1>5. /\ \A f : f \in Under(bucket', g) <=> <<g, f>> \in bucket'
      /\ \A f : f \in Under(records', g) <=> <<g, f>> \in records'
      /\ \A f : f \in Under(bucket, g) <=> <<g, f>> \in bucket
      /\ \A f : f \in Under(records, g) <=> <<g, f>> \in records
  BY <1>2, UnderIs
<1>6. /\ Under(bucket', g) \subseteq Under(bucket, g)
      /\ Under(records', g) \subseteq Under(records, g)
  <2> SUFFICES ASSUME NEW f
               PROVE  /\ <<g, f>> \in bucket' => <<g, f>> \in bucket
                      /\ <<g, f>> \in records' => <<g, f>> \in records
    BY <1>5
  <2> QED
    BY <1>2, <1>4 DEF Lighter
<1>7. x.kind = "trim" /\ x.tidy /\ TrimFits(x)
  BY <1>1, <1>3, <1>x DEF Steady
<1>8. /\ x.stage \in {"recorded", "running"} => Under(records', g) \subseteq ShownFiles(x.image.scene) \cup x.files
      /\ x.stage = "running" =>
           \A f \in Under(bucket', g) : f \in ShownFiles(x.image.scene) \/ <<"remove", f>> \in x.todo
      /\ x.stage = "dropped" => /\ Under(records', g) \subseteq ShownFiles(x.image.scene)
                                /\ Under(bucket', g) \subseteq ShownFiles(x.image.scene)
  BY <1>6, <1>7, <1>d DEF TrimFits
<1>9. /\ y.stage = x.stage /\ y.image = x.image /\ y.files = x.files /\ y.todo = x.todo
      /\ y.drawing = g
  BY <1>1, <1>d DEF Steady
<1> QED
  BY <1>8, <1>9 DEF TrimFits

\* A step that fits keeps the invariant.
LEMMA StepKeeps ==
  ASSUME StoreInv, NEW r \in Handler, Busy(r), NEW d, d = req[r].drawing, StepFits(r, d)
  PROVE  StoreInv'
<1>1. /\ req[r] \in Handling /\ d \in Drawing /\ StoreTypes /\ StoreTypes'
      /\ PlaceFits(req[r])
  <2>1. StoreTypes /\ StoreTypes' /\ req[r] \in Handling
    BY BusyIs DEF StoreInv, StoreShape, StepFits
  <2> QED
    BY <2>1 DEF StoreInv, StoreShape, Handling
<1>2. ASSUME NEW q \in Handler, q # r, Busy(q) PROVE Meanwhile(r, q, d)
  BY <1>1, <1>2 DEF StoreInv, StepFits, Meanwhile
<1>3. ASSUME NEW q \in Handler, q # r
      PROVE  /\ Busy(q)' <=> Busy(q)
             /\ Busy(q) => Steady(req[q], req'[q])
  <2>1. CASE Busy(q)
    BY <1>2, <1>3, <2>1, OtherIs
  <2>2. CASE ~ Busy(q)
    BY <1>3, <2>2 DEF StepFits, OthersWait, Busy
  <2> QED
    BY <2>1, <2>2
<1>4. ASSUME NEW c \in Drawing PROVE Calm(c) /\ (c # d => SameAt(c))
  <2>1. CASE c = d
    BY <2>1 DEF StepFits
  <2>2. CASE c # d
    <3>1. SameAt(c)
      BY <2>2 DEF StepFits
    <3>2. (Cleaning(c)' <=> Cleaning(c))
      <4>1. ASSUME NEW q \in Handler
            PROVE  (Cleans(q) /\ req[q].drawing = c)' <=> (Cleans(q) /\ req[q].drawing = c)
        <5>1. CASE q = r
          BY <1>1, <2>2, <5>1 DEF StepFits, Cleans, At
        <5>2. CASE q # r /\ ~ Busy(q)
          BY <1>3, <5>2 DEF Cleans, At
        <5>3. CASE q # r /\ Busy(q)
          BY <1>3, <5>3 DEF Cleans, At, Steady
        <5> QED
          BY <5>1, <5>2, <5>3
      <4> QED
        BY <4>1 DEF Cleaning
    <3>3. rows[c].version \in Nat /\ epoch[c] \in Nat
      BY <1>1 DEF StoreTypes, StoredRow
    <3> QED
      BY <2>2, <3>1, <3>2, <3>3 DEF SameAt, Calm, Servable, Heavier
  <2> QED
    BY <2>1, <2>2
<1>5. StoreShape'
  <2>1. ASSUME NEW c \in Drawing PROVE RowFits(c)'
    <3>1. CASE c = d
      BY <3>1 DEF StepFits
    <3>2. CASE c # d
      BY <1>4, <3>2 DEF SameAt, RowFits, StoreInv, StoreShape
    <3> QED
      BY <3>1, <3>2
  <2>2. ASSUME NEW q \in Handler, Busy(q)' PROVE StageFits(req[q])' /\ PlaceFits(req[q])'
    <3>1. CASE q = r
      BY <2>2, <3>1 DEF StepFits, Fits
    <3>2. CASE q # r
      BY <1>2, <1>3, <2>2, <3>2, OtherShape
    <3> QED
      BY <3>1, <3>2
  <2>3. OneMaker'
    <3>1. \A q \in Handler : Busy(q)' =>
            Busy(q) /\ req'[q].kind = req[q].kind /\ req'[q].drawing = req[q].drawing
      BY <1>3 DEF StepFits, Steady
    <3> QED
      BY <3>1 DEF OneMaker, StoreInv, StoreShape
  <2> QED
    BY <1>1, <2>1, <2>2, <2>3 DEF StoreShape
<1>6. LeftOversAreCleared'
  <2>1. ASSUME NEW c \in Drawing, ~ rows'[c].exists, ~ stranded'[c],
               Under(bucket \cup records, c)' # {}
        PROVE  \E q \in Handler : Busy(q)' /\ Clears(req[q], c)'
    <3>b. /\ bucket \subseteq Drawing \X FileId /\ records \subseteq Drawing \X FileId
          /\ bucket' \subseteq Drawing \X FileId /\ records' \subseteq Drawing \X FileId
      BY <1>1 DEF StoreTypes
    <3>u. /\ \A f : f \in Under(bucket', c) <=> <<c, f>> \in bucket'
          /\ \A f : f \in Under(bucket, c) <=> <<c, f>> \in bucket
          /\ \A f : f \in Under(bucket' \cup records', c) <=> <<c, f>> \in bucket' \cup records'
          /\ \A f : f \in Under(bucket \cup records, c) <=> <<c, f>> \in bucket \cup records
      BY <3>b, UnderIs
    <3>1. CASE c = d /\ Busy(r)' /\ Clears(req[r], d)'
      BY <3>1
    <3>2. ASSUME c = d, ~ (Busy(r)' /\ Clears(req[r], d)')
          PROVE  Lighter(d) /\ ~ rows[d].exists /\ ~ stranded[d] /\ ~ Clears(req[r], d)
      <4>1. \E f \in FileId : <<d, f>> \in bucket' \/ <<d, f>> \in records'
        BY <2>1, <3>2, <3>b, <3>u
      <4> QED
        BY <2>1, <3>2, <4>1 DEF StepFits, Swept
    <3>3. CASE c = d => Lighter(d) /\ ~ rows[d].exists /\ ~ stranded[d] /\ ~ Clears(req[r], d)
      <4>1. Lighter(c) /\ ~ rows[c].exists /\ ~ stranded[c]
        BY <1>4, <2>1, <3>3 DEF SameAt, Lighter
      <4>2. Under(bucket \cup records, c) # {}
        <5>1. PICK f : f \in Under(bucket' \cup records', c)
          BY <2>1
        <5>2. f \in FileId /\ (<<c, f>> \in bucket' \/ <<c, f>> \in records')
          BY <3>b, <3>u, <5>1
        <5> QED
          BY <3>u, <4>1, <5>2 DEF Lighter
      <4>3. PICK q \in Handler : Busy(q) /\ Clears(req[q], c)
        BY <4>1, <4>2 DEF StoreInv, LeftOversAreCleared
      <4>4. q # r
        BY <1>1, <3>3, <4>3 DEF Clears
      <4>5. Busy(q)' /\ Steady(req[q], req'[q])
        BY <1>3, <4>3, <4>4
      <4>6. \A f \in Under(bucket', c) : f \in Under(bucket, c)
        <5> SUFFICES ASSUME NEW f, <<c, f>> \in bucket' PROVE <<c, f>> \in bucket
          BY <3>u
        <5> QED
          BY <3>b, <4>1 DEF Lighter
      <4>7. Clears(req[q], c)'
        BY <4>3, <4>5, <4>6 DEF Clears, Steady
      <4> QED
        BY <4>5, <4>7
    <3> QED
      BY <3>1, <3>2, <3>3
  <2>2. ASSUME NEW q \in Handler, Busy(q)', (req[q].kind \in New /\ req[q].failed)'
        PROVE  stranded'[req'[q].drawing]
    <3>1. CASE q = r
      BY <2>2, <3>1 DEF StepFits, Fits
    <3>2. CASE q # r
      <4>1. Busy(q) /\ Meanwhile(r, q, d)
        BY <1>2, <1>3, <2>2, <3>2
      <4>2. req[q].kind \in New /\ req[q].failed => stranded[req[q].drawing]
        BY <4>1 DEF StoreInv, LeftOversAreCleared
      <4> QED
        BY <2>2, <4>1, <4>2, OtherMakes
    <3> QED
      BY <3>1, <3>2
  <2> QED
    BY <2>1, <2>2 DEF LeftOversAreCleared
<1>7. TrimsFit'
  <2> SUFFICES ASSUME NEW q \in Handler, Busy(q)' PROVE TrimFits(req[q])'
    BY DEF TrimsFit
  <2>1. CASE q = r
    BY <2>1 DEF StepFits, Fits
  <2>2. CASE q # r
    <3>1. Busy(q) /\ Meanwhile(r, q, d) /\ TrimFits(req[q])
      BY <1>2, <1>3, <2>2 DEF StoreInv, TrimsFit
    <3>2. Lighter(d) \/ (req[q].kind \in Cleanup /\ req[q].drawing = d => ~ req'[q].tidy)
      BY <2>2, <3>1 DEF StepFits
    <3> QED
      BY <3>1, <3>2, OtherTrims
  <2> QED
    BY <2>1, <2>2
<1>8. StoreServes'
  <2>1. ASSUME NEW c \in Drawing PROVE Kept(c, rows[c].image, epoch[c])'
    <3>1. CASE c = d
      BY <3>1 DEF StepFits
    <3>2. CASE c # d /\ rows[c].version > 0
      <4>1. Kept(c, rows[c].image, epoch[c]) /\ rows[c].image \in StoredImage /\ epoch[c] \in Nat
        BY <1>1 DEF StoreInv, StoreServes, StoreTypes, StoredRow
      <4>2. PICK i, e : i = rows[c].image /\ e = epoch[c]
        OBVIOUS
      <4>3. Kept(c, i, e) /\ i \in StoredImage /\ e \in Nat
        BY <4>1, <4>2
      <4>4. Kept(c, i, e)'
        BY <1>1, <1>4, <3>2, <4>3, KeptStays
      <4>5. i = rows'[c].image /\ e = epoch'[c]
        BY <1>4, <3>2, <4>2 DEF SameAt
      <4> QED
        BY <4>4, <4>5 DEF Kept, Owned
    <3>3. CASE c # d /\ ~ rows[c].version > 0
      <4>1. ~ rows[c].exists /\ rows'[c] = rows[c] /\ epoch'[c] = epoch[c] /\ epoch[c] \in Nat
        BY <1>1, <1>4, <3>3 DEF StoreInv, StoreShape, RowFits, SameAt, StoreTypes
      <4> QED
        BY <4>1 DEF Kept, Servable
    <3> QED
      BY <3>1, <3>2, <3>3
  <2>2. ASSUME NEW c \in Drawing, NEW p \in past'[c] PROVE Kept(c, p.image, p.epoch)'
    <3>1. p \in past[c] => Kept(c, p.image, p.epoch)'
      <4> SUFFICES ASSUME p \in past[c] PROVE Kept(c, p.image, p.epoch)'
        OBVIOUS
      <4>1. p.image \in StoredImage /\ p.epoch \in Nat /\ Kept(c, p.image, p.epoch)
        BY <1>1 DEF StoreInv, StoreServes, StoreTypes
      <4>2. rows[c].version > 0
        BY <1>1 DEF StoreInv, StoreShape, RowFits, StoreTypes, StoredRow
      <4> QED
        BY <1>1, <1>4, <4>1, <4>2, KeptStays
    <3>2. CASE c = d
      BY <3>1, <3>2 DEF StepFits
    <3>3. CASE c # d
      BY <1>4, <3>1, <3>3 DEF SameAt
    <3> QED
      BY <3>2, <3>3
  <2>3. ASSUME NEW q \in Handler, Busy(q)'
        PROVE  /\ SeenFits(req[q])' /\ SaveFits(req[q])' /\ RestoreFits(req[q])' /\ MakerFits(req[q])'
               /\ CleanupFits(req[q], q)'
    <3>1. CASE q = r
      BY <2>3, <3>1 DEF StepFits, Fits
    <3>2. CASE q # r
      <4>1. Busy(q) /\ Meanwhile(r, q, d)
        BY <1>2, <1>3, <2>3, <3>2
      <4> QED
        BY <4>1, OtherSaves, OtherMakes, OtherCleans
    <3> QED
      BY <3>1, <3>2
  <2> QED
    BY <2>1, <2>2, <2>3 DEF StoreServes
<1> QED
  BY <1>5, <1>6, <1>7, <1>8 DEF StoreInv

-----------------------------------------------------------------------------
\* A request that comes in.
LEMMA StartKeeps ==
  ASSUME StoreInv, NEW r \in Handler, NEW started \in Handling, Start(r, started),
         ~ started.failed, started.kind \in Cleanup => started.stage = "asked",
         started.kind \in New => \A q \in Handler : Busy(q) => req[q].drawing # started.drawing,
         StageFits(started), PlaceFits(started), TrimFits(started), SeenFits(started),
         SaveFits(started),
         RestoreFits(started), MakerFits(started), CleanupFits(started, r)
  PROVE  StoreInv'
<1>1. /\ UNCHANGED <<rows, past, bucket, records, fails, epoch, stale, stranded>>
      /\ req[r] = Idle /\ ~ Busy(r) /\ DOMAIN req' = Handler /\ req'[r] = started
      /\ \A q \in Handler : q # r => req'[q] = req[q]
      /\ StoreTypes
  BY DEF Start, Becomes, Busy, Idle, StoreInv, StoreShape, StoreTypes
<1>2. /\ Busy(r)' /\ \A q \in Handler : q # r => (Busy(q)' <=> Busy(q))
  BY <1>1 DEF Busy, Handling
<1>3. StoreTypes'
  BY <1>1 DEF StoreTypes
<1>4. \A q \in Handler : Cleans(q)' <=> Cleans(q)
  <2>1. ~ Cleans(r) /\ ~ Cleans(r)'
    BY <1>1 DEF Cleans, At
  <2> QED
    BY <1>1, <1>2, <2>1 DEF Cleans, At
<1>5. \A c : (Cleaning(c)' <=> Cleaning(c)) /\ (Servable(c)' <=> Servable(c))
  <2>1. \A c : Cleaning(c)' <=> Cleaning(c)
    <3>1. ~ Cleans(r)
      BY <1>1 DEF Cleans, At
    <3> QED
      BY <1>1, <1>4, <3>1 DEF Cleaning
  <2> QED
    BY <1>1, <2>1 DEF Servable
<1>6. \A q \in Handler : \A c : SoleCleaner(q, c)' <=> SoleCleaner(q, c)
  <2>1. ~ Cleans(r)
    BY <1>1 DEF Cleans, At
  <2> QED
    BY <1>1, <1>4, <2>1 DEF SoleCleaner
<1>7. \A c, i, e : Kept(c, i, e)' <=> Kept(c, i, e)
  BY <1>1, <1>5 DEF Kept, Owned
<1>8. StoreShape'
  <2>1. \A c \in Drawing : RowFits(c)'
    BY <1>1 DEF StoreInv, StoreShape, RowFits
  <2>2. \A q \in Handler : Busy(q)' => StageFits(req[q])' /\ PlaceFits(req[q])'
    BY <1>1, <1>2 DEF StoreInv, StoreShape, StageFits, PlaceFits
  <2>3. OneMaker'
    BY <1>1, <1>2 DEF StoreInv, StoreShape, OneMaker
  <2> QED
    BY <1>3, <2>1, <2>2, <2>3 DEF StoreShape
<1>9. LeftOversAreCleared'
  <2>1. ASSUME NEW c \in Drawing,
               (~ rows[c].exists /\ ~ stranded[c] /\ Under(bucket \cup records, c) # {})'
        PROVE  \E q \in Handler : Busy(q)' /\ Clears(req[q], c)'
    <3>1. PICK q \in Handler : Busy(q) /\ Clears(req[q], c)
      BY <1>1, <2>1 DEF StoreInv, LeftOversAreCleared
    <3> QED
      BY <1>1, <1>2, <3>1 DEF Clears
  <2>2. \A q \in Handler : Busy(q)' /\ (req[q].kind \in New /\ req[q].failed)' => stranded'[req'[q].drawing]
    BY <1>1, <1>2 DEF StoreInv, LeftOversAreCleared
  <2> QED
    BY <2>1, <2>2 DEF LeftOversAreCleared
<1>10. TrimsFit'
  <2>1. \A q \in Handler : Busy(q)' => TrimFits(req[q])'
    BY <1>1, <1>2 DEF StoreInv, TrimsFit, TrimFits
  <2> QED
    BY <2>1 DEF TrimsFit
<1>11. \A x : /\ SeenFits(x) => SeenFits(x)'
              /\ SaveFits(x) => SaveFits(x)'
              /\ RestoreFits(x) => RestoreFits(x)'
              /\ MakerFits(x) => MakerFits(x)'
              /\ \A q \in Handler : CleanupFits(x, q) => CleanupFits(x, q)'
  <2> SUFFICES ASSUME NEW x
               PROVE  /\ SeenFits(x) => SeenFits(x)'
                      /\ SaveFits(x) => SaveFits(x)'
                      /\ RestoreFits(x) => RestoreFits(x)'
                      /\ MakerFits(x) => MakerFits(x)'
                      /\ \A q \in Handler : CleanupFits(x, q) => CleanupFits(x, q)'
    OBVIOUS
  <2>1. SeenFits(x) => SeenFits(x)'
    BY <1>1 DEF SeenFits
  <2>2. SaveFits(x) => SaveFits(x)'
    BY <1>1, <1>5 DEF SaveFits, Owned, Coming
  <2>3. RestoreFits(x) => RestoreFits(x)'
    BY <1>7 DEF RestoreFits
  <2>4. MakerFits(x) => MakerFits(x)'
    BY <1>1, <1>7 DEF MakerFits, Coming
  <2>5. \A q \in Handler : CleanupFits(x, q) => CleanupFits(x, q)'
    BY <1>1, <1>6 DEF CleanupFits, Owned
  <2> QED
    BY <2>1, <2>2, <2>3, <2>4, <2>5
<1>12. StoreServes'
  <2>1. /\ \A c \in Drawing : Kept(c, rows[c].image, epoch[c])'
        /\ \A c \in Drawing : \A p \in past'[c] : Kept(c, p.image, p.epoch)'
    BY <1>1, <1>5 DEF StoreInv, StoreServes, Kept, Owned
  <2>2. ASSUME NEW q \in Handler, Busy(q)'
        PROVE  /\ SeenFits(req[q])' /\ SaveFits(req[q])' /\ RestoreFits(req[q])' /\ MakerFits(req[q])'
               /\ CleanupFits(req[q], q)'
    <3>1. PICK x : x = req'[q]
      OBVIOUS
    <3>2. SeenFits(x) /\ SaveFits(x) /\ RestoreFits(x) /\ MakerFits(x) /\ CleanupFits(x, q)
      BY <1>1, <1>2, <2>2, <3>1 DEF StoreInv, StoreServes
    <3>3. SeenFits(x)' /\ SaveFits(x)' /\ RestoreFits(x)' /\ MakerFits(x)' /\ CleanupFits(x, q)'
      BY <1>11, <3>2
    <3> QED
      BY <3>1, <3>3 DEF SeenFits, SaveFits, RestoreFits, MakerFits, CleanupFits, Coming
  <2> QED
    BY <2>1, <2>2 DEF StoreServes
<1> QED
  BY <1>8, <1>9, <1>10, <1>12 DEF StoreInv

LEMMA NewCallIs ==
  ASSUME StoreTypes, NEW kind \in CallKind, NEW d \in Drawing, NEW image \in StoredImage,
         NEW inline \in SUBSET FileId, NEW keep \in BOOLEAN,
         NEW x, x = NewCall(kind, d, image, inline, keep)
  PROVE    /\ x \in Handling
           /\ x.stage = "asked" /\ x.kind = kind /\ x.drawing = d /\ x.source = d /\ x.image = image
           /\ x.inline = inline /\ x.keep = keep /\ x.files = {} /\ x.base = rows[d].version
           /\ x.seen = rows[d] /\ x.todo = {} /\ x.failed = FALSE /\ x.again = FALSE
           /\ x.since = epoch[d] /\ x.read = epoch[d] /\ x.tidy = TRUE
<1>1. rows[d] \in StoredRow /\ rows[d].version \in Nat /\ epoch[d] \in Nat
  BY DEF StoreTypes, StoredRow
<1> QED
  BY <1>1 DEF NewCall, Handling

LEMMA ImagesAre ==
  ASSUME NEW f, NEW deleted \in BOOLEAN
  PROVE  /\ Images(f, deleted) \subseteq Element
         /\ \A e \in Images(f, deleted) : e \in DOMAIN ImageFile /\ ImageFile[e] = f /\ (e \in Deleted <=> deleted)
  BY SceneAssumption DEF Images

LEMMA Redrawn ==
  ASSUME NEW image \in StoredImage, NEW E \in SUBSET Element
  PROVE  LET i == [image EXCEPT !.scene.elements = E] IN
           /\ i \in StoredImage /\ i.home = image.home /\ i.scene.files = image.scene.files
           /\ i.scene.elements = E
<1>1. image.scene \in [elements : SUBSET Element, appState : {Plain}, files : SUBSET FileId]
  BY DEF StoredImage
<1>2. [image.scene EXCEPT !.elements = E] \in [elements : SUBSET Element, appState : {Plain}, files : SUBSET FileId]
      /\ [image.scene EXCEPT !.elements = E].files = image.scene.files
      /\ [image.scene EXCEPT !.elements = E].elements = E
  BY <1>1
<1> QED
  BY <1>1, <1>2 DEF StoredImage

LEMMA RowIs ==
  ASSUME StoreTypes, NEW d \in Drawing
  PROVE  /\ rows[d] \in StoredRow /\ rows[d].version \in Nat /\ epoch[d] \in Nat
         /\ rows[d].image \in StoredImage /\ rows[d].image.home \in [FileId -> Drawing]
         /\ rows[d].image.scene.files \subseteq FileId
         /\ rows[d].image.scene.elements \subseteq Element
         /\ rows[d].exists \in BOOLEAN
  BY DEF StoreTypes, StoredRow, StoredImage

HomedAt(d, image, files) == \A f \in files : image.home[f] = d

\* A page saves what it draws, for the row that it has read.
LEMMA SaveStarts ==
  ASSUME StoreInv, NEW r \in Handler, NEW d \in Drawing, rows[d].exists,
         NEW image \in StoredImage, NEW inline \in SUBSET FileId, NEW keep \in BOOLEAN,
         Start(r, NewCall("save", d, image, inline, keep)),
         keep => ShownFiles(image.scene) \subseteq
                   ShownFiles(rows[d].image.scene) \cup rows[d].image.scene.files,
         HomedAt(d, image, inline),
         ~ keep /\ Servable(d) => /\ ShownFiles(image.scene) \subseteq image.scene.files
                            /\ Owned(d, image, image.scene.files \ inline)
  PROVE  StoreInv'
<1>1. StoreTypes /\ rows[d].version > 0
  BY DEF StoreInv, StoreShape, RowFits
<1>x. PICK x : x = NewCall("save", d, image, inline, keep)
  OBVIOUS
<1>2. /\ x \in Handling
      /\ x.stage = "asked" /\ x.kind = "save" /\ x.drawing = d /\ x.source = d /\ x.image = image
      /\ x.inline = inline /\ x.keep = keep /\ x.base = rows[d].version
      /\ x.seen = rows[d] /\ x.todo = {} /\ x.failed = FALSE /\ x.again = FALSE
      /\ x.since = epoch[d]
  <2>1. "save" \in CallKind
    BY DEF CallKind
  <2> QED
    BY <1>1, <1>x, <2>1, RowIs DEF NewCall, Handling
<1>3. rows[d].version \in Nat /\ epoch[d] \in Nat
  BY <1>1, RowIs
<1>4. StageFits(x) /\ PlaceFits(x) /\ TrimFits(x)
  BY <1>1, <1>2, <1>3 DEF StageFits, PlaceFits, TrimFits, Cleanup, New
<1>5. SeenFits(x) /\ SaveFits(x)
  BY <1>2, <1>3 DEF SeenFits, SaveFits, HomedAt
<1>6. /\ RestoreFits(x) /\ MakerFits(x) /\ CleanupFits(x, r) /\ x.kind \notin New
      /\ x.kind \notin Cleanup
  BY <1>2 DEF RestoreFits, MakerFits, CleanupFits, Cleanup, New
<1> QED
  BY <1>2, <1>4, <1>5, <1>6, <1>x, StartKeeps

LEMMA AddedTo ==
  ASSUME NEW s \in [elements : SUBSET Element, appState : {Plain}, files : SUBSET FileId],
         NEW E \in SUBSET Element, NEW F \in SUBSET FileId
  PROVE  LET t == [s EXCEPT !.elements = @ \cup E, !.files = @ \cup F] IN
           /\ t \in [elements : SUBSET Element, appState : {Plain}, files : SUBSET FileId]
           /\ t.elements = s.elements \cup E /\ t.files = s.files \cup F
<1> DEFINE u == [s EXCEPT !.elements = @ \cup E]
<1>1. /\ u \in [elements : SUBSET Element, appState : {Plain}, files : SUBSET FileId]
      /\ u.elements = s.elements \cup E /\ u.files = s.files
  OBVIOUS
<1>2. [s EXCEPT !.elements = @ \cup E, !.files = @ \cup F] = [u EXCEPT !.files = @ \cup F]
  OBVIOUS
<1> HIDE DEF u
<1>3. /\ [u EXCEPT !.files = @ \cup F] \in [elements : SUBSET Element, appState : {Plain}, files : SUBSET FileId]
      /\ [u EXCEPT !.files = @ \cup F].elements = u.elements
      /\ [u EXCEPT !.files = @ \cup F].files = u.files \cup F
  BY <1>1
<1> QED
  BY <1>1, <1>2, <1>3

LEMMA ShownMore ==
  ASSUME NEW s, NEW t, NEW f, t.elements = s.elements \cup Images(f, FALSE), NEW g \in ShownFiles(t)
  PROVE  g \in ShownFiles(s) \cup {f}
<1>1. PICK e \in t.elements : e \in DOMAIN ImageFile /\ e \notin Deleted /\ ImageFile[e] = g
  BY ShownIs
<1>2. e \in Images(f, FALSE) => ImageFile[e] = f
  BY DEF Images
<1> QED
  BY <1>1, <1>2, ShownIs

LEMMA SaveKeeps ==
  ASSUME StoreInv, NEW r \in Handler, NEW d \in Drawing, NEW f \in FileId, Save(r, d, f)
  PROVE  StoreInv'
<1> DEFINE image == rows[d].image
           s == image.scene
           added == [scene |-> [s EXCEPT !.elements = @ \cup Images(f, FALSE), !.files = @ \cup {f}],
                     home |-> [image.home EXCEPT ![f] = d]]
           drawn(E) == [image EXCEPT !.scene.elements = E]
<1>1. /\ image \in StoredImage /\ image.home \in [FileId -> Drawing] /\ s.files \subseteq FileId
      /\ s.elements \subseteq Element /\ rows[d].exists
      /\ s \in [elements : SUBSET Element, appState : {Plain}, files : SUBSET FileId]
  BY RowIs DEF StoreInv, StoreShape, Save, StoredImage
<1>2. Servable(d) => ShownFiles(s) \subseteq s.files /\ Owned(d, image, s.files)
  <2>1. Kept(d, image, epoch[d])
    BY DEF StoreInv, StoreServes
  <2> QED
    BY <2>1 DEF Kept
<1>3. /\ Images(f, FALSE) \subseteq Element /\ Images(f, TRUE) \subseteq Element
      /\ \A e \in Images(f, FALSE) : ImageFile[e] = f
      /\ \A e \in Images(f, TRUE) : e \in Deleted
  BY ImagesAre
<1>4. CASE f \notin s.files /\ Start(r, NewCall("save", d, added, {f}, FALSE))
  <2> DEFINE t == [s EXCEPT !.elements = @ \cup Images(f, FALSE), !.files = @ \cup {f}]
  <2>1. /\ t \in [elements : SUBSET Element, appState : {Plain}, files : SUBSET FileId]
        /\ t.elements = s.elements \cup Images(f, FALSE) /\ t.files = s.files \cup {f}
    BY <1>1, <1>3, AddedTo
  <2>2. added = [scene |-> t, home |-> [image.home EXCEPT ![f] = d]]
    OBVIOUS
  <2> HIDE DEF t
  <2>3. added \in StoredImage /\ added.scene = t /\ added.home = [image.home EXCEPT ![f] = d]
    BY <1>1, <2>1, <2>2 DEF StoredImage
  <2> HIDE DEF added
  <2>4. Servable(d) => ShownFiles(t) \subseteq t.files /\ Owned(d, added, t.files \ {f})
    <3>1. \A g \in ShownFiles(t) : g \in ShownFiles(s) \cup {f}
      BY <2>1, ShownMore
    <3>2. \A g \in t.files \ {f} : g \in s.files /\ g \in FileId /\ added.home[g] = image.home[g]
      BY <1>1, <2>1, <2>3
    <3> QED
      BY <1>2, <2>1, <3>1, <3>2 DEF Owned
  <2>5. HomedAt(d, added, {f})
    BY <1>1, <2>3 DEF HomedAt
  <2> QED
    BY <1>1, <1>4, <2>3, <2>4, <2>5, SaveStarts
<1>5. CASE /\ f \in ShownFiles(s)
           /\ Start(r, NewCall("save", d, drawn((s.elements \ Images(f, FALSE)) \cup Images(f, TRUE)), {}, TRUE))
  <2> DEFINE E == (s.elements \ Images(f, FALSE)) \cup Images(f, TRUE)
  <2>1. E \in SUBSET Element
    BY <1>1, <1>3
  <2>2. drawn(E) \in StoredImage /\ drawn(E).scene.elements = E
    BY <1>1, <2>1, Redrawn
  <2>3. ASSUME NEW g \in ShownFiles(drawn(E).scene) PROVE g \in ShownFiles(s)
    <3>1. PICK e \in E : e \in DOMAIN ImageFile /\ e \notin Deleted /\ ImageFile[e] = g
      BY <2>2, ShownIs
    <3> QED
      BY <1>3, <3>1, ShownIs
  <2>4. HomedAt(d, drawn(E), {})
    BY DEF HomedAt
  <2> QED
    BY <1>1, <1>5, <2>2, <2>3, <2>4, SaveStarts
<1>6. CASE /\ f \in s.files
           /\ Start(r, NewCall("save", d, drawn((s.elements \ Images(f, TRUE)) \cup Images(f, FALSE)), {}, TRUE))
  <2> DEFINE E == (s.elements \ Images(f, TRUE)) \cup Images(f, FALSE)
  <2>1. E \in SUBSET Element
    BY <1>1, <1>3
  <2>2. drawn(E) \in StoredImage /\ drawn(E).scene.elements = E
    BY <1>1, <2>1, Redrawn
  <2>3. ASSUME NEW g \in ShownFiles(drawn(E).scene) PROVE g \in ShownFiles(s) \cup {f}
    <3>1. PICK e \in E : e \in DOMAIN ImageFile /\ e \notin Deleted /\ ImageFile[e] = g
      BY <2>2, ShownIs
    <3> QED
      BY <1>3, <3>1, ShownIs
  <2>4. HomedAt(d, drawn(E), {})
    BY DEF HomedAt
  <2> QED
    BY <1>1, <1>6, <2>2, <2>3, <2>4, SaveStarts
<1> QED
  BY <1>4, <1>5, <1>6 DEF Save

LEMMA CreateKeeps ==
  ASSUME StoreInv, NEW r \in Handler, NEW d \in Drawing, NEW f \in FileId, Create(r, d, f)
  PROVE  StoreInv'
<1> DEFINE image == rows[d].image
           drawn == [image EXCEPT !.scene.elements = Images(f, FALSE), !.scene.files = {f}]
           asked == NewCall("create", d, drawn, {f}, FALSE)
           started == [asked EXCEPT !.stage = "running", !.todo = {<<"put", f>>}]
<1>1. /\ StoreTypes /\ rows[d].version = 0 /\ About(d) = {}
      /\ Start(r, started)
  BY DEF StoreInv, StoreShape, Create, Fresh
<1>2. /\ image \in StoredImage
      /\ image.scene \in [elements : SUBSET Element, appState : {Plain}, files : SUBSET FileId]
      /\ Images(f, FALSE) \in SUBSET Element
  BY <1>1, RowIs, ImagesAre DEF StoredImage
<1>3. /\ drawn \in StoredImage /\ drawn.home = image.home
      /\ drawn.scene.files = {f} /\ drawn.scene.elements = Images(f, FALSE)
  <2> DEFINE i == [image EXCEPT !.scene.elements = Images(f, FALSE)]
  <2>1. i \in StoredImage /\ i.home = image.home /\ i.scene.elements = Images(f, FALSE)
        /\ i.scene \in [elements : SUBSET Element, appState : {Plain}, files : SUBSET FileId]
    BY <1>2, Redrawn DEF StoredImage
  <2>2. drawn = [i EXCEPT !.scene.files = {f}]
    BY <1>2 DEF StoredImage
  <2>3. [i.scene EXCEPT !.files = {f}] \in [elements : SUBSET Element, appState : {Plain}, files : SUBSET FileId]
        /\ [i.scene EXCEPT !.files = {f}].files = {f}
        /\ [i.scene EXCEPT !.files = {f}].elements = i.scene.elements
    BY <2>1
  <2> HIDE DEF i
  <2>4. [i EXCEPT !.scene.files = {f}] = [i EXCEPT !.scene = [i.scene EXCEPT !.files = {f}]]
    BY <2>1 DEF StoredImage
  <2>5. PICK t : t = [i.scene EXCEPT !.files = {f}]
    OBVIOUS
  <2>6. /\ [i EXCEPT !.scene = t] \in StoredImage /\ [i EXCEPT !.scene = t].scene = t
        /\ [i EXCEPT !.scene = t].home = i.home
    BY <2>1, <2>3, <2>5 DEF StoredImage
  <2> QED
    BY <2>1, <2>2, <2>3, <2>4, <2>5, <2>6
<1> HIDE DEF drawn
<1>4. /\ asked \in Handling /\ asked.stage = "asked" /\ asked.kind = "create" /\ asked.drawing = d
      /\ asked.source = d /\ asked.image = drawn /\ asked.failed = FALSE
  <2>1. "create" \in CallKind
    BY DEF CallKind
  <2> QED
    BY <1>1, <1>3, <2>1, RowIs DEF NewCall, Handling
<1> HIDE DEF asked
<1>5. /\ started \in Handling /\ started.stage = "running" /\ started.kind = "create"
      /\ started.drawing = d
      /\ started.source = d /\ started.image = drawn /\ started.failed = FALSE
      /\ started.todo = {<<"put", f>>}
  <2>1. PICK T : T = {<<"put", f>>}
    OBVIOUS
  <2>2. T \in SUBSET ({"put", "copy", "record", "remove"} \X FileId)
    BY <2>1
  <2>3. started = [asked EXCEPT !.stage = "running", !.todo = T]
    BY <2>1
  <2> HIDE DEF started
  <2> QED
    BY <1>4, <2>1, <2>2, <2>3 DEF Handling
<1>x. PICK x : x = started
  OBVIOUS
<1> HIDE DEF started
<1>6. StageFits(x) /\ PlaceFits(x) /\ TrimFits(x)
  BY <1>1, <1>5, <1>x DEF StageFits, PlaceFits, TrimFits, New, Cleanup
<1>7. SeenFits(x) /\ SaveFits(x) /\ RestoreFits(x) /\ CleanupFits(x, r) /\ x.kind \notin Cleanup
  BY <1>5, <1>x DEF SeenFits, SaveFits, RestoreFits, CleanupFits, Cleanup, New
<1>8. MakerFits(x)
  <2>1. \A g \in ShownFiles(drawn.scene) : g = f
    <3> SUFFICES ASSUME NEW g \in ShownFiles(drawn.scene) PROVE g = f
      OBVIOUS
    <3>1. PICK e \in drawn.scene.elements : ImageFile[e] = g
      BY ShownIs
    <3> QED
      BY <1>3, <3>1, ImagesAre
  <2>2. image.home[f] = d
    BY <1>1 DEF StoreInv, StoreShape, RowFits
  <2> QED
    BY <1>3, <1>5, <1>x, <2>1, <2>2 DEF MakerFits, Coming, New
<1>9. \A q \in Handler : Busy(q) => req[q].drawing # d
  BY <1>1 DEF About
<1> QED
  BY <1>1, <1>5, <1>6, <1>7, <1>8, <1>9, <1>x, StartKeeps

LEMMA DuplicateKeeps ==
  ASSUME StoreInv, NEW r \in Handler, NEW o \in Drawing, NEW d \in Drawing, Duplicate(r, o, d)
  PROVE  StoreInv'
<1> DEFINE asked == NewCall("duplicate", o, rows[o].image, {}, FALSE)
           started == [asked EXCEPT !.drawing = d]
<1>1. /\ StoreTypes /\ rows[d].version = 0 /\ About(d) = {} /\ rows[o].version > 0
      /\ Start(r, started)
  BY DEF StoreInv, StoreShape, Duplicate, Fresh, RowFits
<1>4. /\ asked \in Handling /\ asked.stage = "asked" /\ asked.kind = "duplicate" /\ asked.source = o
      /\ asked.image = rows[o].image /\ asked.failed = FALSE /\ asked.todo = {}
      /\ asked.since = epoch[o]
  <2>1. "duplicate" \in CallKind
    BY DEF CallKind
  <2> QED
    BY <1>1, <2>1, RowIs DEF NewCall, Handling
<1> HIDE DEF asked
<1>5. /\ started \in Handling /\ started.stage = "asked" /\ started.kind = "duplicate"
      /\ started.drawing = d
      /\ started.source = o /\ started.image = rows[o].image /\ started.failed = FALSE
      /\ started.todo = {}
      /\ started.since = epoch[o]
  BY <1>4 DEF Handling
<1>x. PICK x : x = started
  OBVIOUS
<1> HIDE DEF started
<1>6. StageFits(x) /\ PlaceFits(x) /\ TrimFits(x)
  BY <1>1, <1>5, <1>x DEF StageFits, PlaceFits, TrimFits, New, Cleanup
<1>7. SeenFits(x) /\ SaveFits(x) /\ RestoreFits(x) /\ CleanupFits(x, r) /\ x.kind \notin Cleanup
  BY <1>5, <1>x DEF SeenFits, SaveFits, RestoreFits, CleanupFits, Cleanup, New
<1>8. MakerFits(x)
  BY <1>5, <1>x DEF MakerFits, StoreInv, StoreServes
<1>9. \A q \in Handler : Busy(q) => req[q].drawing # d
  BY <1>1 DEF About
<1> QED
  BY <1>1, <1>5, <1>6, <1>7, <1>8, <1>9, <1>x, StartKeeps

LEMMA RestoreKeeps ==
  ASSUME StoreInv, NEW r \in Handler, NEW d \in Drawing, Restore(r, d)
  PROVE  StoreInv'
<1>p. PICK p \in past[d] : Start(r, [NewCall("restore", d, p.image, {}, FALSE) EXCEPT !.since = p.epoch])
  BY DEF Restore
<1> DEFINE asked == NewCall("restore", d, p.image, {}, FALSE)
           started == [asked EXCEPT !.since = p.epoch]
<1>1. /\ StoreTypes /\ rows[d].version > 0 /\ p.image \in StoredImage /\ p.epoch \in Nat
      /\ Start(r, started) /\ Kept(d, p.image, p.epoch) /\ Kept(d, rows[d].image, epoch[d])
  BY <1>p DEF StoreInv, StoreShape, StoreServes, StoreTypes, Restore, RowFits
<1>4. /\ asked \in Handling /\ asked.stage = "asked" /\ asked.kind = "restore" /\ asked.source = d
      /\ asked.drawing = d /\ asked.image = p.image /\ asked.failed = FALSE /\ asked.todo = {}
      /\ asked.read = epoch[d] /\ asked.seen = rows[d] /\ asked.base = rows[d].version
  <2>1. "restore" \in CallKind
    BY DEF CallKind
  <2> QED
    BY <1>1, <2>1, RowIs DEF NewCall, Handling
<1> HIDE DEF asked
<1>5. /\ started \in Handling /\ started.stage = "asked" /\ started.kind = "restore"
      /\ started.drawing = d
      /\ started.source = d /\ started.image = p.image /\ started.failed = FALSE
      /\ started.todo = {}
      /\ started.since = p.epoch /\ started.read = epoch[d] /\ started.seen = rows[d]
      /\ started.base = rows[d].version
  BY <1>1, <1>4 DEF Handling
<1>x. PICK x : x = started
  OBVIOUS
<1> HIDE DEF started
<1>v. rows[d].version \in Nat
  BY <1>1, RowIs
<1>6. StageFits(x) /\ PlaceFits(x) /\ TrimFits(x)
  BY <1>1, <1>v, <1>5, <1>x DEF StageFits, PlaceFits, TrimFits, New, Cleanup
<1>7. /\ SeenFits(x) /\ SaveFits(x) /\ MakerFits(x) /\ CleanupFits(x, r) /\ x.kind \notin Cleanup
      /\ x.kind \notin New
  BY <1>5, <1>v, <1>x DEF SeenFits, SaveFits, MakerFits, CleanupFits, Cleanup, New
<1>8. RestoreFits(x)
  BY <1>1, <1>5, <1>x DEF RestoreFits
<1> QED
  BY <1>1, <1>5, <1>6, <1>7, <1>8, <1>x, StartKeeps

LEMMA DeleteKeeps ==
  ASSUME StoreInv, NEW r \in Handler, NEW d \in Drawing, Delete(r, d)
  PROVE  StoreInv'
<1> DEFINE started == NewCall("delete", d, rows[d].image, {}, FALSE)
<1>1. StoreTypes /\ rows[d].version > 0 /\ Start(r, started)
  BY DEF StoreInv, StoreShape, Delete, RowFits
<1>5. /\ started \in Handling /\ started.stage = "asked" /\ started.kind = "delete"
      /\ started.drawing = d
      /\ started.source = d /\ started.image = rows[d].image /\ started.failed = FALSE
      /\ started.todo = {}
      /\ started.seen = rows[d] /\ started.base = rows[d].version
  <2>1. "delete" \in CallKind
    BY DEF CallKind
  <2> QED
    BY <1>1, <2>1, RowIs DEF NewCall, Handling
<1>x. PICK x : x = started
  OBVIOUS
<1> HIDE DEF started
<1>v. rows[d].version \in Nat
  BY <1>1, RowIs
<1>6. StageFits(x) /\ PlaceFits(x) /\ TrimFits(x)
  BY <1>1, <1>v, <1>5, <1>x DEF StageFits, PlaceFits, TrimFits, New, Cleanup
<1>7. /\ SeenFits(x) /\ SaveFits(x) /\ RestoreFits(x) /\ MakerFits(x) /\ CleanupFits(x, r)
      /\ x.kind \notin Cleanup /\ x.kind \notin New
  BY <1>5, <1>v, <1>x DEF SeenFits, SaveFits, RestoreFits, MakerFits, CleanupFits, Cleanup, New
<1> QED
  BY <1>1, <1>5, <1>6, <1>7, <1>x, StartKeeps

\* A clean-up is planned from the row that is there.
LEMMA CleanupStarts ==
  ASSUME StoreInv, NEW r \in Handler, NEW d \in Drawing, rows[d].exists, NEW started \in Handling,
         Start(r, started),
         started.stage = "asked", started.kind \in Cleanup, started.drawing = d, started.source = d,
         ~ started.failed, started.todo = {},
         started.seen = rows[d], started.base = rows[d].version,
         started.image.home = rows[d].image.home,
         NEW s, s = started.image.scene, NEW t, t = rows[d].image.scene,
         started.kind = "trim" => s.files \subseteq ShownFiles(s),
         s.files \subseteq t.files, s.files \cap started.files = {},
         ShownFiles(s) \subseteq ShownFiles(t), ShownFiles(s) \cap t.files \subseteq s.files
  PROVE  StoreInv'
<1>1. StoreTypes /\ rows[d].version > 0 /\ rows[d].version \in Nat
  BY RowIs DEF StoreInv, StoreShape, RowFits
<1>6. StageFits(started) /\ PlaceFits(started) /\ TrimFits(started)
  BY <1>1 DEF StageFits, PlaceFits, TrimFits, New, Cleanup
<1>7. /\ SeenFits(started) /\ SaveFits(started) /\ RestoreFits(started) /\ MakerFits(started)
      /\ started.kind \notin New
  BY <1>1 DEF SeenFits, SaveFits, RestoreFits, MakerFits, Cleanup, New
<1>8. CleanupFits(started, r)
  BY DEF CleanupFits
<1> QED
  BY <1>6, <1>7, <1>8, StartKeeps

LEMMA Replanned ==
  ASSUME NEW image \in StoredImage,
         NEW s \in [elements : SUBSET Element, appState : {Plain}, files : SUBSET FileId]
  PROVE  LET i == [image EXCEPT !.scene = s] IN i \in StoredImage /\ i.scene = s /\ i.home = image.home
BY DEF StoredImage

LEMMA TrimKeeps ==
  ASSUME StoreInv, NEW r \in Handler, NEW d \in Drawing, Trim(r, d)
  PROVE  StoreInv'
<1> DEFINE image == rows[d].image
           t == image.scene
           s == TrimPlan(t)
           planned == [image EXCEPT !.scene = s]
           started == NewCall("trim", d, planned, {}, FALSE)
<1>1. StoreTypes /\ rows[d].exists /\ Start(r, started)
  BY DEF StoreInv, StoreShape, Trim
<1>2. /\ image \in StoredImage
      /\ t \in [elements : SUBSET Element, appState : {Plain}, files : SUBSET FileId]
  BY <1>1, RowIs DEF StoredImage
<1>3. /\ s \in [elements : SUBSET Element, appState : {Plain}, files : SUBSET FileId]
      /\ s.elements = t.elements \ Deleted
      /\ s.files = t.files \cap CollectReferencedFileIds(t.elements \ Deleted, FALSE)
  BY <1>2 DEF TrimPlan
<1> HIDE DEF s
<1>4. planned \in StoredImage /\ planned.scene = s /\ planned.home = image.home
  BY <1>2, <1>3, Replanned
<1> HIDE DEF planned
<1>5. /\ started \in Handling /\ started.stage = "asked" /\ started.kind = "trim"
      /\ started.drawing = d
      /\ started.source = d /\ started.image = planned /\ started.failed = FALSE
      /\ started.todo = {} /\ started.files = {}
      /\ started.seen = rows[d] /\ started.base = rows[d].version
  <2>1. "trim" \in CallKind
    BY DEF CallKind
  <2> QED
    BY <1>1, <1>4, <2>1, RowIs DEF NewCall, Handling
<1>6. ShownFiles(s) = ShownFiles(t) /\ s.files = t.files \cap ShownFiles(t)
  <2>1. ShownFiles(s) = CollectReferencedFileIds(t.elements \ Deleted, FALSE)
    BY <1>3 DEF ShownFiles
  <2>2. CollectReferencedFileIds(t.elements \ Deleted, FALSE) = ShownFiles(t)
    BY DEF ShownFiles, CollectReferencedFileIds
  <2> QED
    BY <1>3, <2>1, <2>2
<1> HIDE DEF started
<1> QED
  BY <1>1, <1>4, <1>5, <1>6, CleanupStarts DEF Cleanup

LEMMA OrphansKeep ==
  ASSUME StoreInv, NEW r \in Handler, NEW d \in Drawing, NEW F \in SUBSET FileId, Orphans(r, d, F)
  PROVE  StoreInv'
<1> DEFINE image == rows[d].image
           t == image.scene
           s == OrphanDeletePlan(t, F)
           planned == [image EXCEPT !.scene = s]
           asked == NewCall("orphans", d, planned, {}, FALSE)
           started == [asked EXCEPT !.files = F]
<1>1. StoreTypes /\ rows[d].exists /\ Start(r, started) /\ F \cap ShownFiles(t) = {}
  BY DEF StoreInv, StoreShape, Orphans, BlockedIds, ShownFiles
<1>2. /\ image \in StoredImage
      /\ t \in [elements : SUBSET Element, appState : {Plain}, files : SUBSET FileId]
  BY <1>1, RowIs DEF StoredImage
<1>3. /\ s \in [elements : SUBSET Element, appState : {Plain}, files : SUBSET FileId]
      /\ s.elements \subseteq t.elements /\ s.files = t.files \ F
  BY <1>2 DEF OrphanDeletePlan
<1> HIDE DEF s
<1>4. planned \in StoredImage /\ planned.scene = s /\ planned.home = image.home
  BY <1>2, <1>3, Replanned
<1> HIDE DEF planned
<1>5. /\ asked \in Handling /\ asked.stage = "asked" /\ asked.kind = "orphans" /\ asked.drawing = d
      /\ asked.source = d /\ asked.image = planned /\ asked.failed = FALSE /\ asked.todo = {}
      /\ asked.seen = rows[d] /\ asked.base = rows[d].version
  <2>1. "orphans" \in CallKind
    BY DEF CallKind
  <2> QED
    BY <1>1, <1>4, <2>1, RowIs DEF NewCall, Handling
<1> HIDE DEF asked
<1>6. /\ started \in Handling /\ started.stage = "asked" /\ started.kind = "orphans"
      /\ started.drawing = d
      /\ started.source = d /\ started.image = planned /\ started.failed = FALSE
      /\ started.todo = {} /\ started.files = F
      /\ started.seen = rows[d] /\ started.base = rows[d].version
  BY <1>5 DEF Handling
<1>7. \A f \in ShownFiles(s) : f \in ShownFiles(t)
  BY <1>3, ShownIs
<1> HIDE DEF started
<1> QED
  BY <1>1, <1>3, <1>4, <1>6, <1>7, CleanupStarts DEF Cleanup

FitsAs(x, r) ==
  /\ StageFits(x) /\ PlaceFits(x) /\ TrimFits(x)
  /\ SeenFits(x) /\ SaveFits(x) /\ RestoreFits(x) /\ MakerFits(x) /\ CleanupFits(x, r)

LEMMA HandlerFits ==
  ASSUME StoreInv, NEW r \in Handler, Busy(r), NEW x, x = req[r]
  PROVE  /\ FitsAs(x, r) /\ x \in Handling /\ StoreTypes /\ x.drawing \in Drawing /\ x.source \in Drawing
         /\ x.kind \in New /\ x.failed => stranded[x.drawing]
<1>1. StoreTypes /\ x \in Handling
  BY BusyIs DEF StoreInv, StoreShape
<1>2. FitsAs(x, r)
  BY DEF StoreInv, StoreShape, TrimsFit, StoreServes, FitsAs
<1> QED
  BY <1>1, <1>2 DEF Handling, StoreInv, LeftOversAreCleared

\* Who cleans, when a step changes one handler and the rest but loses what it knows.
LEMMA WhoCleans ==
  ASSUME NEW r \in Handler, Busy(r), NEW d, OthersWait(r)
  PROVE  /\ \A q \in Handler \ {r} :
              /\ Busy(q)' <=> Busy(q)
              /\ (Cleans(q) /\ req[q].drawing = d)' <=> (Cleans(q) /\ req[q].drawing = d)
         /\ SoleCleaner(r, d)' <=> SoleCleaner(r, d)
<1>1. ASSUME NEW q \in Handler \ {r}
      PROVE  /\ Busy(q)' <=> Busy(q)
             /\ (Cleans(q) /\ req[q].drawing = d)' <=> (Cleans(q) /\ req[q].drawing = d)
  <2>1. CASE ~ Busy(q)
    BY <2>1 DEF OthersWait, Busy, Cleans, At
  <2>2. CASE Busy(q)
    <3>1. Steady(req[q], req'[q])
      BY <2>2 DEF OthersWait
    <3> QED
      BY <2>2, <3>1 DEF Steady, Busy, Cleans, At
  <2> QED
    BY <2>1, <2>2
<1> QED
  BY <1>1 DEF SoleCleaner

LEMMA OthersStay ==
  ASSUME StoreInv, NEW r \in Handler, NEW y, Becomes(r, y), y = Ended \/ y \in Handling
  PROVE  /\ req'[r] = y /\ DOMAIN req' = Handler /\ OthersWait(r)
         /\ \A q \in Handler : req'[q] \in {Idle, Ended} \/ req'[q] \in Handling
         /\ Busy(r)' <=> y \in Handling
<1>1. /\ req'[r] = y /\ DOMAIN req' = Handler
      /\ \A q \in Handler \ {r} : req'[q] = req[q]
      /\ StoreTypes
  BY DEF StoreInv, StoreShape, StoreTypes, Becomes
<1>2. \A q \in Handler : req'[q] \in {Idle, Ended} \/ req'[q] \in Handling
  BY <1>1 DEF StoreTypes
<1>3. ASSUME NEW q \in Handler \ {r}, Busy(q) PROVE Steady(req[q], req'[q])
  <2>1. req[q] \in Handling /\ req'[q] = req[q]
    BY <1>1, <1>3, BusyIs
  <2> QED
    BY <2>1 DEF Steady
<1>4. OthersWait(r)
  BY <1>1, <1>3 DEF OthersWait
<1>5. Busy(r)' <=> y \in Handling
  BY <1>1 DEF Busy, Ended, Handling
<1> QED
  BY <1>1, <1>2, <1>4, <1>5

\* Steps of one handler that touch nothing else than its own state.
LEMMA OwnStepKeeps ==
  ASSUME StoreInv, NEW r \in Handler, Busy(r), NEW d, d = req[r].drawing,
         NEW y, Becomes(r, y), y = Ended \/ y \in Handling,
         UNCHANGED <<rows, past, bucket, records, epoch>>,
         stale' \in [Drawing -> BOOLEAN], stranded' \in [Drawing -> BOOLEAN],
         \A c \in Drawing \ {d} : stale'[c] = stale[c] /\ stranded'[c] = stranded[c],
         stale[d] => stale'[d], stranded[d] => stranded'[d],
         y \in Handling => /\ y.kind = req[r].kind /\ y.drawing = d /\ y.source = req[r].source
                           /\ FitsAs(y, r) /\ (y.kind \in New /\ y.failed => stranded'[d]),
         Cleans(r) /\ rows[d].exists /\ ~ stale'[d] =>
           y \in Handling /\ y.stage \in {"running", "dropped"},
         Clears(req[r], d) /\ ~ rows[d].exists /\ ~ stranded'[d] => y \in Handling /\ Clears(y, d)
  PROVE  StoreInv'
<1>1. /\ req[r] \in Handling /\ StoreTypes /\ d \in Drawing
  BY HandlerFits
<1>2. /\ req'[r] = y /\ DOMAIN req' = Handler /\ OthersWait(r)
      /\ \A q \in Handler : req'[q] \in {Idle, Ended} \/ req'[q] \in Handling
      /\ Busy(r)' <=> y \in Handling
  BY OthersStay
<1>3. StoreTypes'
  BY <1>1, <1>2 DEF StoreTypes
<1>4. \A c \in Drawing \ {d} : SameAt(c)
  BY DEF SameAt
<1>5. Cleans(r) /\ rows[d].exists /\ ~ stale'[d] => Cleans(r)' /\ req'[r].drawing = d
  <2> SUFFICES ASSUME Cleans(r), rows[d].exists, ~ stale'[d] PROVE Cleans(r)' /\ req'[r].drawing = d
    OBVIOUS
  <2>1. /\ y \in Handling /\ y.kind = req[r].kind /\ y.drawing = d
        /\ y.stage \in {"running", "dropped"}
    OBVIOUS
  <2> QED
    BY <1>2, <2>1 DEF Cleans, At
<1>6. rows[d].exists /\ ~ stale'[d] /\ Cleaning(d) => Cleaning(d)'
  <2> SUFFICES ASSUME rows[d].exists, ~ stale'[d], NEW q \in Handler, Cleans(q), req[q].drawing = d
               PROVE Cleaning(d)'
    BY DEF Cleaning
  <2>1. Cleans(q)' /\ req'[q].drawing = d
    BY <1>2, <1>5, WhoCleans
  <2> QED
    BY <2>1 DEF Cleaning
<1>7. Servable(d)' => Servable(d)
  BY <1>6 DEF Servable
<1>8. Calm(d)
  BY <1>1, <1>7 DEF Calm, Heavier, StoreTypes, StoredRow
<1>9. PlansWait(r, d)
  <2>h. Heavier(d)
    BY DEF Heavier
  <2>s. SUFFICES ASSUME NEW q \in Handler \ {r}, rows'[d].exists, ~ stale'[d], SoleCleaner(q, d)'
               PROVE  rows[d].exists /\ ~ stale[d] /\ SoleCleaner(q, d) /\ Heavier(d)
    BY DEF PlansWait
  <2>1. ASSUME NEW p \in Handler, Cleans(p), req[p].drawing = d PROVE p = q
    <3>1. Cleans(p)' /\ req'[p].drawing = d
      BY <1>2, <1>5, <2>1, <2>s, WhoCleans
    <3> QED
      BY <2>s, <3>1 DEF SoleCleaner
  <2> QED
    BY <2>1, <2>h, <2>s DEF SoleCleaner
<1>10. Swept(r, d) /\ Lighter(d)
  <2>1. Lighter(d)
    BY DEF Lighter
  <2>2. Clears(req[r], d) /\ ~ rows[d].exists /\ ~ stranded'[d] => Busy(r)' /\ Clears(req[r], d)'
    <3> SUFFICES ASSUME y \in Handling, Clears(y, d) PROVE Busy(r)' /\ Clears(req[r], d)'
      OBVIOUS
    <3> QED
      BY <1>2 DEF Clears
  <2> QED
    BY <2>1, <2>2 DEF Swept
<1>11. RowFits(d)'
  BY <1>1 DEF StoreInv, StoreShape, RowFits
<1>12. \A c, i, e : Kept(c, i, e) /\ (Servable(c)' => Servable(c)) => Kept(c, i, e)'
  BY DEF Kept, Owned
<1>13. Kept(d, rows[d].image, epoch[d])'
  <2>1. Kept(d, rows[d].image, epoch[d])
    BY <1>1 DEF StoreInv, StoreServes
  <2> QED
    BY <1>7, <2>1 DEF Kept, Owned
<1>14. ASSUME y \in Handling PROVE Fits(r)'
  <2>1. /\ y.kind = req[r].kind /\ y.drawing = d /\ y.source \in Drawing
        /\ StageFits(y) /\ PlaceFits(y) /\ TrimFits(y) /\ SeenFits(y) /\ SaveFits(y)
        /\ RestoreFits(y)
        /\ MakerFits(y) /\ CleanupFits(y, r) /\ (y.kind \in New /\ y.failed => stranded'[d])
    BY <1>14 DEF FitsAs, Handling
  <2>2. StageFits(y)' /\ PlaceFits(y)' /\ TrimFits(y)' /\ SeenFits(y)'
    BY <2>1 DEF StageFits, PlaceFits, TrimFits, SeenFits
  <2>3. SaveFits(y)'
    BY <1>7, <2>1 DEF SaveFits, Owned, Coming
  <2>4. RestoreFits(y)'
    BY <1>7, <1>12, <2>1 DEF RestoreFits
  <2>5. MakerFits(y)'
    <3>1. y.kind = "duplicate" => (Servable(y.source)' => Servable(y.source))
      <4>1. CASE y.source = d
        BY <1>7, <4>1
      <4>2. CASE y.source # d
        <5> SUFFICES ASSUME y.kind = "duplicate", Cleaning(y.source) PROVE Cleaning(y.source)'
          BY <1>4, <2>1, <4>2 DEF Servable, SameAt
        <5>1. PICK q \in Handler : Cleans(q) /\ req[q].drawing = y.source
          BY DEF Cleaning
        <5>2. q # r
          BY <4>2, <5>1
        <5> QED
          BY <1>2, <5>1, <5>2, WhoCleans DEF Cleaning
      <4> QED
        BY <4>1, <4>2
    <3>2. y.kind = "duplicate" /\ y.stage = "asked" => Kept(y.source, y.image, y.since)'
      BY <1>12, <2>1, <3>1 DEF MakerFits
    <3>3. stale'[y.drawing] \/ ~ stale[y.drawing]
      BY <2>1
    <3> QED
      BY <2>1, <3>2, <3>3 DEF MakerFits, Coming
  <2>6. CleanupFits(y, r)'
    <3>1. SoleCleaner(r, d)' <=> SoleCleaner(r, d)
      BY <1>2, WhoCleans
    <3> QED
      BY <2>1, <3>1 DEF CleanupFits, Owned
  <2>7. PICK z : z = y
    OBVIOUS
  <2>8. /\ StageFits(z)' /\ PlaceFits(z)' /\ TrimFits(z)' /\ SeenFits(z)' /\ SaveFits(z)'
        /\ RestoreFits(z)'
        /\ MakerFits(z)' /\ CleanupFits(z, r)'
        /\ (z.kind \in New /\ z.failed => stranded'[z.drawing])
    BY <2>1, <2>2, <2>3, <2>4, <2>5, <2>6, <2>7
  <2>9. req'[r] = z
    BY <1>2, <2>7
  <2> QED
    BY <2>8, <2>9 DEF Fits, StageFits, PlaceFits, TrimFits, SeenFits, SaveFits, RestoreFits,
         MakerFits,
                      CleanupFits, Coming
<1>15. \A p \in past'[d] : p \in past[d]
  OBVIOUS
<1>16. StepFits(r, d)
  BY <1>2, <1>3, <1>4, <1>8, <1>9, <1>10, <1>11, <1>13, <1>14, <1>15 DEF StepFits
<1> QED
  BY <1>16, StepKeeps

\* A handler that ends.
LEMMA FinishKeeps ==
  ASSUME StoreInv, NEW r \in Handler, Busy(r), NEW d, d = req[r].drawing, Finish(r),
         UNCHANGED <<rows, past, bucket, records, epoch, stale, stranded>>,
         Cleans(r) => ~ rows[d].exists, ~ Clears(req[r], d) \/ stranded[d]
  PROVE  StoreInv'
<1>1. Ended \notin Handling /\ Becomes(r, Ended) /\ StoreTypes
  BY HandlerFits DEF Ended, Handling, Finish
<1>2. stale' \in [Drawing -> BOOLEAN] /\ stranded' \in [Drawing -> BOOLEAN]
  BY <1>1 DEF StoreTypes
<1> QED
  BY <1>1, <1>2, OwnStepKeeps

LEMMA GiveUpKeeps ==
  ASSUME StoreInv, NEW r \in Handler, GiveUp(r)
  PROVE  StoreInv'
<1> DEFINE x == req[r]
           d == x.drawing
<1>1. /\ Busy(r) /\ x.failed /\ Finish(r)
      /\ UNCHANGED <<rows, past, bucket, records, epoch, stale, stranded>>
  BY DEF GiveUp
<1>2. FitsAs(x, r) /\ (x.kind \in New => stranded[d])
  BY <1>1, HandlerFits
<1>3. ~ Cleans(r)
  BY <1>1, <1>2 DEF FitsAs, StageFits, Cleans, At
<1>4. ~ Clears(x, d) \/ stranded[d]
  BY <1>1, <1>2 DEF FitsAs, StageFits, Clears
<1>5. PICK e : e = d
  OBVIOUS
<1> QED
  BY <1>1, <1>3, <1>4, <1>5, FinishKeeps

LEMMA HandlerFailsKeeps ==
  ASSUME StoreInv, NEW r \in Handler, HandlerFails(r)
  PROVE  StoreInv'
<1>d. PICK d : d = req[r].drawing
  OBVIOUS
<1>1. /\ Busy(r) /\ Becomes(r, Ended) /\ UNCHANGED <<rows, past, bucket, records, epoch>>
      /\ stale' = [stale EXCEPT ![d] = @ \/ Cleans(r)]
      /\ stranded' = [stranded EXCEPT ![d] = @ \/ (req[r].kind \in {"create", "duplicate", "delete"} /\ req[r].stage # "asked")]
  BY <1>d DEF HandlerFails, Finish
<1>2. StoreTypes /\ d \in Drawing /\ FitsAs(req[r], r)
  BY <1>1, <1>d, HandlerFits
<1>3. Ended \notin Handling
  BY DEF Ended, Handling
<1>4. Cleans(r) \in BOOLEAN
  BY DEF Cleans, At
<1>5. /\ stale' \in [Drawing -> BOOLEAN] /\ stranded' \in [Drawing -> BOOLEAN]
      /\ \A c \in Drawing \ {d} : stale'[c] = stale[c] /\ stranded'[c] = stranded[c]
      /\ stale'[d] = (stale[d] \/ Cleans(r))
      /\ stranded'[d] = (stranded[d] \/ (req[r].kind \in {"create", "duplicate", "delete"} /\ req[r].stage # "asked"))
  BY <1>1, <1>2, <1>4 DEF StoreTypes
<1>6. Clears(req[r], d) => stranded'[d]
  BY <1>2, <1>5 DEF Clears, New
<1>7. (Cleans(r) => stale'[d]) /\ (stale[d] => stale'[d]) /\ (stranded[d] => stranded'[d])
  BY <1>5
<1> QED
  BY <1>1, <1>3, <1>5, <1>6, <1>7, <1>d, OwnStepKeeps

LEMMA BreakKeeps ==
  ASSUME StoreInv, NEW r \in Handler, NEW c, Break(r, c)
  PROVE  StoreInv'
<1>d. PICK d : d = req[r].drawing
  OBVIOUS
<1>x. PICK x : x = req[r]
  OBVIOUS
<1>y. PICK y : y = [x EXCEPT !.todo = @ \ {c}, !.failed = @ \/ c[1] # "remove", !.tidy = FALSE]
  OBVIOUS
<1>1. /\ Busy(r) /\ Becomes(r, y) /\ UNCHANGED <<rows, past, bucket, records, epoch, stale>>
      /\ c \in x.todo
      /\ stranded' = [stranded EXCEPT ![d] = @ \/ x.kind \in {"create", "duplicate", "delete"}]
  BY <1>d, <1>x, <1>y DEF Break
<1>2. StoreTypes /\ x \in Handling /\ d \in Drawing /\ FitsAs(x, r) /\ x.drawing = d
  BY <1>1, <1>d, <1>x, HandlerFits
<1>3. /\ y \in Handling /\ y.todo = x.todo \ {c} /\ y.failed = (x.failed \/ c[1] # "remove")
      /\ y.tidy = FALSE
      /\ y.stage = x.stage /\ y.kind = x.kind /\ y.drawing = d /\ y.source = x.source
      /\ y.image = x.image
      /\ y.inline = x.inline /\ y.keep = x.keep /\ y.files = x.files /\ y.base = x.base
      /\ y.seen = x.seen
      /\ y.again = x.again /\ y.since = x.since /\ y.read = x.read
  BY <1>2, <1>y DEF Handling
<1>4. /\ stale' \in [Drawing -> BOOLEAN] /\ stranded' \in [Drawing -> BOOLEAN]
      /\ \A e \in Drawing \ {d} : stale'[e] = stale[e] /\ stranded'[e] = stranded[e]
      /\ stranded'[d] = (stranded[d] \/ x.kind \in {"create", "duplicate", "delete"})
  BY <1>1, <1>2 DEF StoreTypes
<1>5. FitsAs(y, r)
  <2>1. /\ StageFits(y) /\ x.stage = "running"
        /\ (x.kind \in {"save", "create", "duplicate"} => y.failed)
    <3>1. StageFits(x)
      BY <1>2 DEF FitsAs
    <3>2. x.stage = "running"
      BY <1>1, <3>1 DEF StageFits
    <3>3. x.kind \in {"save", "create", "duplicate"} => c[1] # "remove"
      BY <1>1, <3>1 DEF StageFits
    <3>4. x.kind \in Cleanup \cup {"delete"} => ~ y.failed
      BY <1>1, <1>2, <1>3, <3>1 DEF StageFits, Handling
    <3>7. \A b \in y.todo : b \in x.todo
      BY <1>3
    <3>5. y.failed <=> (x.failed \/ c[1] # "remove")
      BY <1>3
    <3>8. y.kind = x.kind /\ y.stage = x.stage /\ y.source = x.source /\ y.drawing = x.drawing
      BY <1>2, <1>3
    <3>6. StageFits(y)
      BY <3>1, <3>2, <3>4, <3>7, <3>8 DEF StageFits
    <3> QED
      BY <3>2, <3>3, <3>5, <3>6
  <2>2. PlaceFits(y) /\ TrimFits(y) /\ SeenFits(y) /\ RestoreFits(y)
    BY <1>2, <1>3 DEF FitsAs, PlaceFits, TrimFits, SeenFits, RestoreFits
  <2>3. SaveFits(y) /\ MakerFits(y)
    BY <1>2, <1>3, <2>1 DEF FitsAs, SaveFits, MakerFits, New
  <2>4. CleanupFits(y, r)
    BY <1>2, <1>3 DEF FitsAs, CleanupFits
  <2> QED
    BY <2>1, <2>2, <2>3, <2>4 DEF FitsAs
<1>6. Cleans(r) => y.stage \in {"running", "dropped"}
  BY <1>3, <1>x DEF Cleans, At
<1>7. /\ Clears(x, d) => stranded'[d]
      /\ y.kind \in New => stranded'[d]
  BY <1>3, <1>4 DEF Clears, New
<1> QED
  BY <1>1, <1>2, <1>3, <1>4, <1>5, <1>6, <1>7, <1>d, <1>x, OwnStepKeeps

\* A step of a handler that leaves a mark on nothing.
LEMMA MoveKeeps ==
  ASSUME StoreInv, NEW r \in Handler, Busy(r), NEW x, x = req[r], NEW y \in Handling, Becomes(r, y),
         UNCHANGED <<rows, past, bucket, records, epoch, stale, stranded>>,
         y.kind = x.kind, y.drawing = x.drawing, y.source = x.source, y.failed = x.failed,
         FitsAs(y, r), ~ Cleans(r), Clears(x, x.drawing) => Clears(y, x.drawing)
  PROVE  StoreInv'
<1>1. PICK d : d = x.drawing
  OBVIOUS
<1>2. StoreTypes /\ (x.kind \in New /\ x.failed => stranded[d])
  BY <1>1, HandlerFits
<1>3. stale' \in [Drawing -> BOOLEAN] /\ stranded' \in [Drawing -> BOOLEAN]
  BY <1>2 DEF StoreTypes
<1> QED
  BY <1>1, <1>2, <1>3, OwnStepKeeps

LEMMA ConflictKeeps ==
  ASSUME StoreInv, NEW r \in Handler, Busy(r), NEW x, x = req[r], x.kind = "save", x.todo = {},
         ~ x.failed, Conflicts(r)
  PROVE  StoreInv'
<1>d. PICK d : d = x.drawing
  OBVIOUS
<1>u. UNCHANGED <<rows, past, bucket, records, epoch, stale, stranded>>
  BY DEF Conflicts
<1>c. ~ Cleans(r) /\ ~ Clears(x, d)
  BY DEF Cleans, At, Clears, Cleanup, New
<1>1. CASE rows[d].exists /\ ~ x.again
  <2>y. PICK y : y = [x EXCEPT !.stage = "asked", !.base = rows[d].version, !.again = TRUE]
    OBVIOUS
  <2>1. Becomes(r, y)
    BY <1>1, <1>d, <2>y DEF Conflicts
  <2>2. StoreTypes /\ x \in Handling /\ d \in Drawing /\ FitsAs(x, r) /\ rows[d].version \in Nat
    BY <1>d, HandlerFits, RowIs
  <2>3. /\ y \in Handling /\ y.stage = "asked" /\ y.base = rows[d].version /\ y.again = TRUE
        /\ y.kind = x.kind /\ y.drawing = x.drawing /\ y.source = x.source /\ y.image = x.image
        /\ y.inline = x.inline /\ y.keep = x.keep /\ y.files = x.files /\ y.seen = x.seen
        /\ y.todo = x.todo
        /\ y.failed = x.failed /\ y.since = x.since /\ y.read = x.read
    BY <2>2, <2>y DEF Handling
  <2>4. StageFits(y) /\ PlaceFits(y) /\ TrimFits(y) /\ SeenFits(y)
    BY <1>d, <2>2, <2>3 DEF FitsAs, StageFits, PlaceFits, TrimFits, SeenFits, New, Cleanup
  <2>5. SaveFits(y) /\ RestoreFits(y) /\ MakerFits(y) /\ CleanupFits(y, r)
    BY <2>2, <2>3 DEF FitsAs, SaveFits, RestoreFits, MakerFits, CleanupFits, New, Cleanup
  <2> QED
    BY <1>c, <1>d, <1>u, <2>1, <2>3, <2>4, <2>5, MoveKeeps DEF FitsAs
<1>2. CASE ~ (rows[d].exists /\ ~ x.again)
  <2>1. Finish(r)
    BY <1>2, <1>d DEF Conflicts
  <2> QED
    BY <1>c, <1>d, <1>u, <2>1, FinishKeeps
<1> QED
  BY <1>1, <1>2

LEMMA CheckKeeps ==
  ASSUME StoreInv, NEW r \in Handler, CheckSave(r)
  PROVE  StoreInv'
<1>x. PICK x : x = req[r]
  OBVIOUS
<1>d. PICK d : d = x.drawing
  OBVIOUS
<1>1. Busy(r) /\ x.kind = "save" /\ x.stage = "asked"
  BY <1>x DEF CheckSave, At
<1>2. /\ StoreTypes /\ x \in Handling /\ d \in Drawing /\ FitsAs(x, r) /\ rows[d] \in StoredRow
      /\ rows[d].version \in Nat
  BY <1>1, <1>x, <1>d, HandlerFits, RowIs
<1>3. x.todo = {} /\ ~ x.failed /\ ~ Cleans(r) /\ ~ Clears(x, d)
  BY <1>1, <1>2, <1>x DEF FitsAs, StageFits, Cleans, At, Clears, Cleanup, New
<1>4. CASE ~ IsCurrent(r)
  BY <1>1, <1>3, <1>4, <1>x, ConflictKeeps DEF CheckSave
<1>5. CASE IsCurrent(r)
  <2>t. PICK T : T = {<<"put", f>> : f \in x.inline}
    OBVIOUS
  <2>y. PICK y : y = [x EXCEPT !.stage = "running", !.seen = rows[d], !.todo = T]
    OBVIOUS
  <2>1. /\ Becomes(r, y) /\ UNCHANGED <<rows, past, bucket, records, epoch, stale, stranded>>
        /\ x.base = rows[d].version
    BY <1>5, <1>x, <1>d, <2>t, <2>y DEF CheckSave, IsCurrent
  <2>2. x.inline \subseteq FileId /\ T \in SUBSET ({"put", "copy", "record", "remove"} \X FileId)
    BY <1>2, <2>t DEF Handling
  <2>3. /\ y \in Handling /\ y.stage = "running" /\ y.seen = rows[d] /\ y.todo = T
        /\ y.kind = x.kind /\ y.drawing = x.drawing /\ y.source = x.source /\ y.image = x.image
        /\ y.inline = x.inline /\ y.keep = x.keep /\ y.files = x.files /\ y.base = x.base
        /\ y.again = x.again
        /\ y.failed = x.failed /\ y.since = x.since /\ y.read = x.read
    BY <1>2, <2>2, <2>y DEF Handling
  <2>4. StageFits(y)
    BY <1>1, <1>2, <1>3, <2>3, <2>t DEF FitsAs, StageFits, New, Cleanup
  <2>5. PlaceFits(y) /\ TrimFits(y) /\ SeenFits(y)
    BY <1>1, <1>d, <1>2, <2>3 DEF FitsAs, PlaceFits, TrimFits, SeenFits, New, Cleanup
  <2>6. SaveFits(y)
    <3>1. SaveFits(x)
      BY <1>2 DEF FitsAs
    <3>2. \A f \in x.inline : Coming(y, f)
      BY <1>1, <2>3, <2>t, <3>1 DEF SaveFits, Coming
    <3> QED
      BY <1>1, <1>d, <2>1, <2>3, <3>1, <3>2 DEF SaveFits
  <2>7. RestoreFits(y) /\ MakerFits(y) /\ CleanupFits(y, r)
    BY <1>1, <2>3 DEF RestoreFits, MakerFits, CleanupFits, New, Cleanup
  <2> QED
    BY <1>1, <1>3, <1>d, <1>x, <2>1, <2>3, <2>4, <2>5, <2>6, <2>7, MoveKeeps DEF FitsAs
<1> QED
  BY <1>4, <1>5

LEMMA ReadKeeps ==
  ASSUME StoreInv, NEW r \in Handler, ReadRecords(r)
  PROVE  StoreInv'
<1>x. PICK x : x = req[r]
  OBVIOUS
<1>d. PICK d : d = x.drawing
  OBVIOUS
<1>f. PICK F : F = Under(records, d) \ ShownFiles(x.image.scene)
  OBVIOUS
<1>y. PICK y : y = [x EXCEPT !.stage = "recorded", !.files = F]
  OBVIOUS
<1>1. /\ Busy(r) /\ x.kind = "trim" /\ x.stage = "asked" /\ Becomes(r, y)
      /\ UNCHANGED <<rows, past, bucket, records, epoch, stale, stranded>>
  BY <1>x, <1>d, <1>f, <1>y DEF ReadRecords, At
<1>2. StoreTypes /\ x \in Handling /\ d \in Drawing /\ FitsAs(x, r)
  BY <1>1, <1>x, <1>d, HandlerFits
<1>3. F \subseteq FileId
  <2>1. \A f \in Under(records, d) : <<d, f>> \in records
    BY <1>2, UnderIs DEF StoreTypes
  <2> QED
    BY <1>2, <1>f, <2>1 DEF StoreTypes
<1>4. /\ y \in Handling /\ y.stage = "recorded" /\ y.files = F /\ y.todo = x.todo
      /\ y.kind = x.kind /\ y.drawing = x.drawing /\ y.source = x.source /\ y.image = x.image
      /\ y.inline = x.inline /\ y.keep = x.keep /\ y.base = x.base /\ y.again = x.again
      /\ y.seen = x.seen
      /\ y.failed = x.failed /\ y.since = x.since /\ y.read = x.read /\ y.tidy = x.tidy
  BY <1>2, <1>3, <1>y DEF Handling
<1>5. x.todo = {} /\ ~ x.failed /\ ~ Cleans(r) /\ ~ Clears(x, d)
  BY <1>1, <1>2, <1>x DEF FitsAs, StageFits, Cleans, At, Clears, Cleanup, New
<1>6. StageFits(y) /\ PlaceFits(y) /\ TrimFits(y) /\ SeenFits(y)
  BY <1>1, <1>d, <1>f, <1>2, <1>4 DEF FitsAs, StageFits, PlaceFits, TrimFits, SeenFits, New, Cleanup
<1>7. SaveFits(y) /\ RestoreFits(y) /\ MakerFits(y)
  BY <1>1, <1>4 DEF SaveFits, RestoreFits, MakerFits, New
<1>8. CleanupFits(y, r)
  BY <1>1, <1>2, <1>4, <1>5, <1>d, <1>f DEF FitsAs, CleanupFits, Cleanup
<1> QED
  BY <1>1, <1>4, <1>5, <1>6, <1>7, <1>8, <1>d, <1>x, MoveKeeps DEF FitsAs

LEMMA FindKeysKeeps ==
  ASSUME StoreInv, NEW r \in Handler, FindKeys(r)
  PROVE  StoreInv'
<1>x. PICK x : x = req[r]
  OBVIOUS
<1>d. PICK d : d = x.drawing
  OBVIOUS
<1>t. PICK T : T = Removals(KeysOf(d))
  OBVIOUS
<1>y. PICK y : y = [x EXCEPT !.stage = "running", !.todo = T]
  OBVIOUS
<1>1. /\ Busy(r) /\ x.kind = "delete" /\ x.stage = "deleted" /\ Becomes(r, y)
      /\ UNCHANGED <<rows, past, bucket, records, epoch, stale, stranded>>
  BY <1>x, <1>d, <1>t, <1>y DEF FindKeys, At
<1>2. StoreTypes /\ x \in Handling /\ d \in Drawing /\ FitsAs(x, r)
  BY <1>1, <1>x, <1>d, HandlerFits
<1>3. T \in SUBSET ({"put", "copy", "record", "remove"} \X FileId)
  <2>1. \A f : f \in KeysOf(d) <=> <<d, f>> \in bucket \cup records
    BY <1>2, UnderIs DEF StoreTypes, KeysOf
  <2>2. ASSUME NEW f \in KeysOf(d) PROVE f \in FileId
    <3>1. <<d, f>> \in Drawing \X FileId
      BY <1>2, <2>1, <2>2 DEF StoreTypes
    <3> QED
      BY <3>1
  <2> QED
    BY <1>t, <2>2 DEF Removals
<1>4. /\ y \in Handling /\ y.stage = "running" /\ y.files = x.files /\ y.todo = T
      /\ y.kind = x.kind /\ y.drawing = x.drawing /\ y.source = x.source /\ y.image = x.image
      /\ y.inline = x.inline /\ y.keep = x.keep /\ y.base = x.base /\ y.again = x.again
      /\ y.seen = x.seen
      /\ y.failed = x.failed /\ y.since = x.since /\ y.read = x.read /\ y.tidy = x.tidy
  BY <1>2, <1>3, <1>y DEF Handling
<1>5. x.todo = {} /\ ~ x.failed /\ ~ Cleans(r)
  BY <1>1, <1>2, <1>x DEF FitsAs, StageFits, Cleans, At, Cleanup, New
<1>6. \A c \in T : c[1] = "remove"
  BY <1>t DEF Removals
<1>7. StageFits(y) /\ PlaceFits(y) /\ TrimFits(y) /\ SeenFits(y)
  BY <1>1, <1>d, <1>2, <1>4, <1>5, <1>6 DEF FitsAs, StageFits, PlaceFits, TrimFits, SeenFits, New,
       Cleanup
<1>8. SaveFits(y) /\ RestoreFits(y) /\ MakerFits(y) /\ CleanupFits(y, r)
  BY <1>1, <1>4 DEF SaveFits, RestoreFits, MakerFits, CleanupFits, Cleanup, New
<1>9. Clears(y, d)
  <2>1. \A f : f \in Under(bucket, d) => f \in KeysOf(d)
    BY DEF KeysOf, Under
  <2>2. \A f \in Under(bucket, d) : <<"remove", f>> \in T
    BY <1>t, <2>1 DEF Removals
  <2> QED
    BY <1>1, <1>4, <1>d, <2>2 DEF Clears
<1> QED
  BY <1>1, <1>4, <1>5, <1>7, <1>8, <1>9, <1>d, <1>x, MoveKeeps DEF FitsAs

\* A handler that ends by writing the row of its drawing.
LEMMA WrittenKeeps ==
  ASSUME StoreInv, NEW r \in Handler, Busy(r), NEW d, d = req[r].drawing, Becomes(r, Ended),
         UNCHANGED <<bucket, records, stranded>>,
         NEW now \in StoredRow, rows' \in [Drawing -> StoredRow], rows'[d] = now,
         \A c \in Drawing \ {d} : rows'[c] = rows[c],
         now.exists, now.version > rows[d].version, rows[d].version > 0 => rows[d].exists,
         past' \in [Drawing -> SUBSET [image : StoredImage, epoch : Nat]],
         \A c \in Drawing \ {d} : past'[c] = past[c],
         rows[d].version = 0 => past'[d] = {}, \A p \in past'[d] : Kept(d, p.image, p.epoch),
         epoch' \in [Drawing -> Nat], \A c \in Drawing \ {d} : epoch'[c] = epoch[c],
         epoch'[d] >= epoch[d], epoch'[d] = epoch[d] => ~ Cleans(r),
         stale' \in [Drawing -> BOOLEAN], \A c \in Drawing \ {d} : stale'[c] = stale[c],
         stale[d] => stale'[d],
         ~ stale'[d] /\ SoleCleaner(r, d) =>
           /\ ShownFiles(now.image.scene) \subseteq now.image.scene.files
           /\ Owned(d, now.image, now.image.scene.files)
  PROVE  StoreInv'
<1>1. /\ StoreTypes /\ d \in Drawing /\ rows[d].version \in Nat /\ epoch[d] \in Nat
      /\ now.version \in Nat
      /\ now.image \in StoredImage
  BY HandlerFits, RowIs DEF StoredRow
<1>2. /\ req'[r] = Ended /\ DOMAIN req' = Handler /\ OthersWait(r)
      /\ \A q \in Handler : req'[q] \in {Idle, Ended} \/ req'[q] \in Handling
      /\ ~ Busy(r)'
  BY OthersStay DEF Ended, Busy
<1>3. StoreTypes'
  BY <1>1, <1>2 DEF StoreTypes
<1>4. \A c \in Drawing \ {d} : SameAt(c)
  BY DEF SameAt
<1>5. \A q \in Handler \ {r} : Cleans(q) /\ req[q].drawing = d => Cleaning(d)'
  BY <1>2, WhoCleans DEF Cleaning
<1>6. Servable(d)' => ~ stale'[d] /\ SoleCleaner(r, d)
  BY <1>5 DEF Servable, SoleCleaner
<1>7. Servable(d)' /\ epoch'[d] = epoch[d] /\ rows[d].version > 0 => Servable(d)
  BY <1>5 DEF Servable, Cleaning
<1>8. Heavier(d) /\ Lighter(d)
  BY DEF Heavier, Lighter
<1>9. Calm(d)
  BY <1>1, <1>7, <1>8 DEF Calm
<1>10. PlansWait(r, d)
  BY <1>1 DEF PlansWait
<1>11. Swept(r, d)
  BY DEF Swept
<1>12. RowFits(d)'
  BY <1>1 DEF RowFits
<1>13. Kept(d, rows[d].image, epoch[d])'
  <2>1. epoch'[d] \in Nat
    BY <1>1
  <2>2. Servable(d)' => /\ ShownFiles(now.image.scene) \subseteq now.image.scene.files
                  /\ Owned(d, now.image, now.image.scene.files)
    BY <1>6
  <2> QED
    BY <2>1, <2>2 DEF Kept, Owned
<1>14. \A p \in past'[d] : Kept(d, p.image, p.epoch)'
  <2> SUFFICES ASSUME NEW p \in past'[d] PROVE Kept(d, p.image, p.epoch)'
    OBVIOUS
  <2>1. p.image \in StoredImage /\ p.epoch \in Nat /\ rows[d].version > 0
    BY <1>1
  <2> QED
    BY <1>1, <1>3, <1>9, <2>1, KeptStays
<1>15. StepFits(r, d)
  BY <1>2, <1>3, <1>4, <1>8, <1>9, <1>10, <1>11, <1>12, <1>13, <1>14 DEF StepFits
<1> QED
  BY <1>15, StepKeeps

ArchivedAs(o, replaced, at) == \E p \in replaced : o = [image |-> p, epoch |-> at]

LEMMA ReplaceIs ==
  ASSUME StoreTypes, NEW d \in Drawing, NEW image \in StoredImage,
         NEW replaced \in SUBSET StoredImage, NEW at \in Nat,
         Replace(d, image, replaced, at)
  PROVE  /\ rows' \in [Drawing -> StoredRow] /\ rows'[d] \in StoredRow
         /\ rows'[d] = [exists |-> rows[d].exists, version |-> rows[d].version + 1, image |-> image]
         /\ \A c \in Drawing \ {d} : rows'[c] = rows[c] /\ past'[c] = past[c]
         /\ past' \in [Drawing -> SUBSET [image : StoredImage, epoch : Nat]]
         /\ \A o \in past'[d] : o \in past[d] \/ ArchivedAs(o, replaced, at)
<1>1. rows[d] \in StoredRow /\ rows[d].version \in Nat /\ rows[d].exists \in BOOLEAN
  BY RowIs DEF StoredRow
<1>r. PICK now : now = [exists |-> rows[d].exists, version |-> rows[d].version + 1, image |-> image]
  OBVIOUS
<1>2. now \in StoredRow
  BY <1>1, <1>r DEF StoredRow
<1>u. PICK u : u = [rows[d] EXCEPT !.image = image]
  OBVIOUS
<1>v. PICK v : v = [u EXCEPT !.version = @ + 1]
  OBVIOUS
<1>3. v = now
  <2>1. /\ u \in StoredRow /\ u.exists = rows[d].exists /\ u.version = rows[d].version
        /\ u.image = image
    BY <1>1, <1>u DEF StoredRow
  <2>2. /\ v \in StoredRow /\ v.exists = rows[d].exists /\ v.version = rows[d].version + 1
        /\ v.image = image
    BY <1>1, <1>v, <2>1 DEF StoredRow
  <2> QED
    BY <1>r, <2>2 DEF StoredRow
<1>4. rows' = [rows EXCEPT ![d] = now]
  <2>1. rows' = [[rows EXCEPT ![d] = u] EXCEPT ![d] = v]
    BY <1>1, <1>u, <1>v DEF Replace, StoreTypes
  <2> QED
    BY <1>3, <2>1 DEF StoreTypes
<1>5. PICK new : new = {[image |-> p, epoch |-> at] : p \in replaced}
  OBVIOUS
<1>6. new \subseteq [image : StoredImage, epoch : Nat]
  BY <1>5
<1>7. past' = [past EXCEPT ![d] = @ \cup new]
  BY <1>5 DEF Replace
<1> QED
  BY <1>2, <1>4, <1>5, <1>6, <1>7, <1>r DEF StoreTypes, ArchivedAs

Refiled(i, files, home) == [i EXCEPT !.scene.files = files, !.home = home]

LEMMA FilesKept ==
  ASSUME NEW i \in StoredImage, NEW files \in SUBSET FileId, NEW home \in [FileId -> Drawing],
         NEW image, image = Refiled(i, files, home)
  PROVE  /\ image \in StoredImage /\ image.scene.elements = i.scene.elements
         /\ image.scene.files = files /\ image.home = home
<1>1. i.scene \in [elements : SUBSET Element, appState : {Plain}, files : SUBSET FileId]
  BY DEF StoredImage
<1>s. PICK s : s = [i.scene EXCEPT !.files = files]
  OBVIOUS
<1>2. /\ s \in [elements : SUBSET Element, appState : {Plain}, files : SUBSET FileId]
      /\ s.elements = i.scene.elements /\ s.files = files
  BY <1>1, <1>s
<1>3. image = [[i EXCEPT !.scene = s] EXCEPT !.home = home]
  BY <1>s DEF StoredImage, Refiled
<1>4. [i EXCEPT !.scene = s] \in StoredImage /\ [i EXCEPT !.scene = s].scene = s
  BY <1>2 DEF StoredImage
<1>5. image \in StoredImage /\ image.scene = s /\ image.home = home
  BY <1>3, <1>4 DEF StoredImage
<1> QED
  BY <1>2, <1>5

LEMMA CommitKeeps ==
  ASSUME StoreInv, NEW r \in Handler, CommitSave(r)
  PROVE  StoreInv'
<1>x. PICK x : x = req[r]
  OBVIOUS
<1>d. PICK d : d = x.drawing
  OBVIOUS
<1>1. Busy(r) /\ x.kind = "save" /\ x.stage = "running" /\ ~ x.failed /\ x.todo = {}
  BY <1>x DEF CommitSave, Ready, At
<1>2. /\ StoreTypes /\ x \in Handling /\ d \in Drawing /\ FitsAs(x, r) /\ rows[d] \in StoredRow
      /\ rows[d].version \in Nat
      /\ epoch[d] \in Nat /\ rows[d].image \in StoredImage /\ x.image \in StoredImage
      /\ x.seen.image \in StoredImage
  <2>1. StoreTypes /\ x \in Handling /\ d \in Drawing /\ FitsAs(x, r)
    BY <1>1, <1>x, <1>d, HandlerFits
  <2> QED
    BY <2>1, RowIs DEF Handling, StoredRow
<1>3. ~ Cleans(r)
  BY <1>1, <1>x DEF Cleans, At, Cleanup
<1>4. CASE ~ IsCurrent(r)
  BY <1>1, <1>3, <1>4, <1>x, ConflictKeeps DEF CommitSave
<1>5. CASE IsCurrent(r)
  <2>i. PICK image : image = IF x.keep THEN [x.image EXCEPT !.scene.files = rows[d].image.scene.files,
                                                           !.home = rows[d].image.home]
                                       ELSE x.image
    OBVIOUS
  <2>r. PICK now : now = [exists |-> rows[d].exists, version |-> rows[d].version + 1, image |-> image]
    OBVIOUS
  <2>1. /\ rows[d].exists /\ x.base = rows[d].version
        /\ Replace(d, image, {x.seen.image}, epoch[d]) /\ Becomes(r, Ended)
        /\ stale' = [stale EXCEPT ![d] = @ \/ (x.again /\ (x.keep \/ x.since # epoch[d]))]
        /\ UNCHANGED <<bucket, records, epoch, stranded>>
    BY <1>5, <1>x, <1>d, <2>i DEF CommitSave, IsCurrent, Finish
  <2>2. image \in StoredImage /\ image.scene.elements = x.image.scene.elements
        /\ (x.keep => image.scene.files = rows[d].image.scene.files /\ image.home = rows[d].image.home)
        /\ (~ x.keep => image = x.image)
    <3>1. CASE ~ x.keep
      BY <1>2, <2>i, <3>1
    <3>2. CASE x.keep
      <4>1. /\ rows[d].image.home \in [FileId -> Drawing]
            /\ rows[d].image.scene.files \in SUBSET FileId
        BY <1>2 DEF StoredImage
      <4>2. image = [x.image EXCEPT !.scene.files = rows[d].image.scene.files, !.home = rows[d].image.home]
        BY <2>i, <3>2
      <4>3. PICK h : h = rows[d].image.home
        OBVIOUS
      <4>4. PICK F : F = rows[d].image.scene.files
        OBVIOUS
      <4>5. image = Refiled(x.image, F, h)
        BY <4>2, <4>3, <4>4 DEF Refiled
      <4>6. /\ image \in StoredImage /\ image.scene.elements = x.image.scene.elements
            /\ image.scene.files = F /\ image.home = h
        BY <1>2, <4>1, <4>3, <4>4, <4>5, FilesKept
      <4> QED
        BY <3>2, <4>3, <4>4, <4>6
    <3> QED
      BY <3>1, <3>2
  <2>3. /\ now \in StoredRow /\ rows' \in [Drawing -> StoredRow] /\ rows'[d] = now
        /\ \A c \in Drawing \ {d} : rows'[c] = rows[c] /\ past'[c] = past[c]
        /\ past' \in [Drawing -> SUBSET [image : StoredImage, epoch : Nat]]
        /\ \A o \in past'[d] : o \in past[d] \/ o = [image |-> x.seen.image, epoch |-> epoch[d]]
    <3>1. {x.seen.image} \in SUBSET StoredImage
      BY <1>2
    <3>2. \A o : ArchivedAs(o, {x.seen.image}, epoch[d]) => o = [image |-> x.seen.image, epoch |-> epoch[d]]
      BY DEF ArchivedAs
    <3>3. /\ rows' \in [Drawing -> StoredRow] /\ rows'[d] \in StoredRow /\ rows'[d] = now
          /\ \A c \in Drawing \ {d} : rows'[c] = rows[c] /\ past'[c] = past[c]
          /\ past' \in [Drawing -> SUBSET [image : StoredImage, epoch : Nat]]
      BY <1>2, <2>1, <2>2, <2>r, <3>1, ReplaceIs
    <3>4. \A o \in past'[d] : o \in past[d] \/ ArchivedAs(o, {x.seen.image}, epoch[d])
      BY <1>2, <2>1, <2>2, <2>r, <3>1, ReplaceIs
    <3> QED
      BY <3>2, <3>3, <3>4
  <2>4. /\ stale' \in [Drawing -> BOOLEAN] /\ \A c \in Drawing \ {d} : stale'[c] = stale[c]
        /\ stale'[d] <=> stale[d] \/ (x.again /\ (x.keep \/ x.since # epoch[d]))
    <3>1. x.again \in BOOLEAN /\ x.keep \in BOOLEAN
      BY <1>2 DEF Handling
    <3> QED
      BY <1>2, <2>1, <3>1 DEF StoreTypes
  <2>5. Kept(d, rows[d].image, epoch[d]) /\ SeenFits(x) /\ SaveFits(x)
    BY <1>2 DEF StoreInv, StoreServes, FitsAs
  <2>6. x.seen.image = rows[d].image
    BY <1>1, <1>d, <2>1, <2>5 DEF SeenFits, SaveFits, New
  <2>7. \A p \in past'[d] : Kept(d, p.image, p.epoch)
    <3>1. \A p \in past[d] : Kept(d, p.image, p.epoch)
      BY <1>2 DEF StoreInv, StoreServes
    <3>2. PICK p : p = [image |-> x.seen.image, epoch |-> epoch[d]]
      OBVIOUS
    <3>3. Kept(d, p.image, p.epoch)
      BY <2>5, <2>6, <3>2
    <3>4. \A o \in past'[d] : o \in past[d] \/ o = p
      BY <2>3, <3>2
    <3> QED
      BY <3>1, <3>3, <3>4
  <2>8. ASSUME ~ stale'[d], SoleCleaner(r, d)
        PROVE  /\ ShownFiles(image.scene) \subseteq image.scene.files
               /\ Owned(d, image, image.scene.files)
    <3>1. Servable(d)
      BY <1>3, <2>1, <2>4, <2>8 DEF Servable, Cleaning, SoleCleaner
    <3>2. ~ x.again \/ (~ x.keep /\ x.since = epoch[d])
      BY <2>4, <2>8
    <3>3. ShownFiles(image.scene) = ShownFiles(x.image.scene)
      BY <2>2 DEF ShownFiles
    <3>4. /\ ShownFiles(rows[d].image.scene) \subseteq rows[d].image.scene.files
          /\ Owned(d, rows[d].image, rows[d].image.scene.files)
      BY <2>5, <3>1 DEF Kept
    <3>5. CASE x.keep
      <4>1. ShownFiles(x.image.scene) \subseteq ShownFiles(rows[d].image.scene) \cup rows[d].image.scene.files
        BY <1>1, <1>d, <2>1, <2>5, <3>2, <3>5 DEF SaveFits
      <4> QED
        BY <2>2, <3>3, <3>4, <3>5, <4>1 DEF Owned
    <3>6. CASE ~ x.keep
      <4>1. x.since = epoch[d]
        BY <1>1, <1>d, <2>1, <2>5, <3>1, <3>2 DEF SaveFits
      <4>2. /\ ShownFiles(x.image.scene) \subseteq x.image.scene.files
            /\ Owned(d, x.image, x.image.scene.files \ x.inline)
            /\ \A f \in x.inline : Coming(x, f)
        BY <1>1, <1>d, <2>1, <2>5, <3>1, <3>6, <4>1 DEF SaveFits
      <4> QED
        BY <1>1, <1>d, <2>2, <3>6, <4>2 DEF Owned, Coming
    <3> QED
      BY <3>5, <3>6
  <2>9. now.exists /\ now.version > rows[d].version /\ now.image = image
    BY <1>2, <2>1, <2>r
  <2>10. rows[d].version > 0 /\ (stale[d] => stale'[d]) /\ epoch' \in [Drawing -> Nat]
    BY <1>1, <1>2, <1>d, <2>1, <2>4 DEF FitsAs, PlaceFits, New, StoreTypes
  <2> QED
    BY <1>1, <1>2, <1>3, <1>x, <1>d, <2>1, <2>3, <2>4, <2>7, <2>8, <2>9, <2>10, WrittenKeeps
<1> QED
  BY <1>4, <1>5

LEMMA CreateRowKeeps ==
  ASSUME StoreInv, NEW r \in Handler, CreateRow(r)
  PROVE  StoreInv'
<1>x. PICK x : x = req[r]
  OBVIOUS
<1>d. PICK d : d = x.drawing
  OBVIOUS
<1>r. PICK now : now = [exists |-> TRUE, version |-> 1, image |-> x.image]
  OBVIOUS
<1>1. /\ Busy(r) /\ x.kind \in New /\ x.stage = "running" /\ ~ x.failed /\ x.todo = {}
      /\ rows' = [rows EXCEPT ![d] = now] /\ Becomes(r, Ended)
      /\ UNCHANGED <<past, bucket, records, epoch, stale, stranded>>
  BY <1>x, <1>d, <1>r DEF CreateRow, Ready, At, New, Finish
<1>2. /\ StoreTypes /\ x \in Handling /\ d \in Drawing /\ FitsAs(x, r) /\ x.image \in StoredImage
  BY <1>1, <1>x, <1>d, HandlerFits DEF Handling
<1>3. rows[d].version = 0 /\ past[d] = {} /\ MakerFits(x) /\ epoch[d] \in Nat
  BY <1>1, <1>2, <1>d DEF FitsAs, PlaceFits, StoreInv, StoreShape, RowFits, StoreTypes
<1>4. ~ Cleans(r)
  BY <1>1, <1>x DEF Cleans, At, Cleanup, New
<1>5. /\ now \in StoredRow /\ rows' \in [Drawing -> StoredRow] /\ rows'[d] = now
      /\ now.image = x.image
      /\ now.exists /\ now.version > rows[d].version /\ \A c \in Drawing \ {d} : rows'[c] = rows[c]
  <2>1. now \in StoredRow /\ now.exists /\ now.version > rows[d].version /\ now.image = x.image
    BY <1>2, <1>3, <1>r DEF StoredRow
  <2> QED
    BY <1>1, <1>2, <2>1 DEF StoreTypes
<1>6. ASSUME ~ stale'[d]
      PROVE  /\ ShownFiles(now.image.scene) \subseteq now.image.scene.files
             /\ Owned(d, now.image, now.image.scene.files)
  BY <1>1, <1>3, <1>5, <1>6, <1>d DEF MakerFits, Coming, Owned
<1>7. /\ past' \in [Drawing -> SUBSET [image : StoredImage, epoch : Nat]]
      /\ epoch' \in [Drawing -> Nat] /\ stale' \in [Drawing -> BOOLEAN]
  BY <1>1, <1>2 DEF StoreTypes
<1> QED
  BY <1>1, <1>3, <1>4, <1>5, <1>6, <1>7, <1>x, <1>d, WrittenKeeps

LEMMA WriteRestoreKeeps ==
  ASSUME StoreInv, NEW r \in Handler, WriteRestore(r)
  PROVE  StoreInv'
<1>x. PICK x : x = req[r]
  OBVIOUS
<1>d. PICK d : d = x.drawing
  OBVIOUS
<1>1. Busy(r) /\ x.kind = "restore" /\ x.stage = "asked" /\ Becomes(r, Ended)
      /\ UNCHANGED <<bucket, records, epoch, stranded>>
  BY <1>x DEF WriteRestore, At, Finish
<1>2. /\ StoreTypes /\ x \in Handling /\ d \in Drawing /\ FitsAs(x, r) /\ rows[d] \in StoredRow
      /\ rows[d].version \in Nat
      /\ epoch[d] \in Nat /\ x.image \in StoredImage /\ x.seen.image \in StoredImage
      /\ x.read \in Nat
  <2>1. StoreTypes /\ x \in Handling /\ d \in Drawing /\ FitsAs(x, r)
    BY <1>1, <1>x, <1>d, HandlerFits
  <2> QED
    BY <2>1, RowIs DEF Handling, StoredRow
<1>3. ~ Cleans(r) /\ ~ Clears(x, d)
  BY <1>1, <1>x DEF Cleans, At, Cleanup, Clears, New
<1>4. CASE ~ rows[d].exists
  <2>1. Finish(r) /\ UNCHANGED <<rows, past, stale>>
    BY <1>4, <1>x, <1>d DEF WriteRestore
  <2> QED
    BY <1>1, <1>3, <1>x, <1>d, <2>1, FinishKeeps
<1>5. CASE rows[d].exists
  <2>r. PICK now : now = [exists |-> rows[d].exists, version |-> rows[d].version + 1, image |-> x.image]
    OBVIOUS
  <2>1. /\ Replace(d, x.image, {x.seen.image}, x.read)
        /\ stale' = [stale EXCEPT ![d] = @ \/ x.since # epoch[d]]
    BY <1>5, <1>x, <1>d DEF WriteRestore
  <2>3. /\ now \in StoredRow /\ rows' \in [Drawing -> StoredRow] /\ rows'[d] = now
        /\ \A c \in Drawing \ {d} : rows'[c] = rows[c] /\ past'[c] = past[c]
        /\ past' \in [Drawing -> SUBSET [image : StoredImage, epoch : Nat]]
        /\ \A o \in past'[d] : o \in past[d] \/ o = [image |-> x.seen.image, epoch |-> x.read]
    <3>1. {x.seen.image} \in SUBSET StoredImage
      BY <1>2
    <3>2. \A o : ArchivedAs(o, {x.seen.image}, x.read) => o = [image |-> x.seen.image, epoch |-> x.read]
      BY DEF ArchivedAs
    <3>3. /\ rows' \in [Drawing -> StoredRow] /\ rows'[d] \in StoredRow /\ rows'[d] = now
          /\ \A c \in Drawing \ {d} : rows'[c] = rows[c] /\ past'[c] = past[c]
          /\ past' \in [Drawing -> SUBSET [image : StoredImage, epoch : Nat]]
      BY <1>2, <2>1, <2>r, <3>1, ReplaceIs
    <3>4. \A o \in past'[d] : o \in past[d] \/ ArchivedAs(o, {x.seen.image}, x.read)
      BY <1>2, <2>1, <2>r, <3>1, ReplaceIs
    <3> QED
      BY <3>2, <3>3, <3>4
  <2>4. /\ stale' \in [Drawing -> BOOLEAN] /\ \A c \in Drawing \ {d} : stale'[c] = stale[c]
        /\ stale'[d] <=> stale[d] \/ x.since # epoch[d]
    BY <1>2, <2>1 DEF StoreTypes
  <2>5. RestoreFits(x) /\ \A p \in past[d] : Kept(d, p.image, p.epoch)
    BY <1>2 DEF StoreInv, StoreServes, FitsAs
  <2>7. \A p \in past'[d] : Kept(d, p.image, p.epoch)
    <3>2. PICK p : p = [image |-> x.seen.image, epoch |-> x.read]
      OBVIOUS
    <3>3. Kept(d, p.image, p.epoch)
      BY <1>1, <1>d, <2>5, <3>2 DEF RestoreFits
    <3>4. \A o \in past'[d] : o \in past[d] \/ o = p
      BY <2>3, <3>2
    <3> QED
      BY <2>5, <3>3, <3>4
  <2>9. now.exists /\ now.version > rows[d].version /\ now.image = x.image
    BY <1>2, <1>5, <2>r
  <2>8. ASSUME ~ stale'[d], SoleCleaner(r, d)
        PROVE  /\ ShownFiles(now.image.scene) \subseteq now.image.scene.files
               /\ Owned(d, now.image, now.image.scene.files)
    <3>1. Servable(d) /\ x.since = epoch[d]
      BY <1>3, <1>5, <2>4, <2>8 DEF Servable, Cleaning, SoleCleaner
    <3> QED
      BY <1>1, <1>d, <2>5, <2>9, <3>1 DEF RestoreFits, Kept
  <2>10. rows[d].version > 0 /\ (stale[d] => stale'[d]) /\ epoch' \in [Drawing -> Nat]
    BY <1>1, <1>2, <1>d, <2>4 DEF FitsAs, PlaceFits, New, StoreTypes
  <2> QED
    BY <1>1, <1>2, <1>3, <1>5, <1>x, <1>d, <2>3, <2>4, <2>7, <2>8, <2>9, <2>10, WrittenKeeps
<1> QED
  BY <1>4, <1>5

LEMMA WriteCleanupKeeps ==
  ASSUME StoreInv, NEW r \in Handler, WriteCleanup(r)
  PROVE  StoreInv'
<1>x. PICK x : x = req[r]
  OBVIOUS
<1>d. PICK d : d = x.drawing
  OBVIOUS
<1>1. Busy(r) /\ x.kind \in Cleanup /\ x.stage = "dropped" /\ Becomes(r, Ended)
      /\ UNCHANGED <<bucket, records, stranded>>
  BY <1>x DEF WriteCleanup, At, Finish
<1>2. /\ StoreTypes /\ x \in Handling /\ d \in Drawing /\ FitsAs(x, r) /\ rows[d] \in StoredRow
      /\ rows[d].version \in Nat
      /\ epoch[d] \in Nat /\ x.image \in StoredImage
  <2>1. StoreTypes /\ x \in Handling /\ d \in Drawing /\ FitsAs(x, r)
    BY <1>1, <1>x, <1>d, HandlerFits
  <2> QED
    BY <2>1, RowIs DEF Handling, StoredRow
<1>3. ~ Clears(x, d) /\ x.kind \notin New
  BY <1>1 DEF Cleanup, Clears, New
<1>4. CASE ~ rows[d].exists
  <2>1. Finish(r) /\ UNCHANGED <<rows, past, epoch, stale>>
    BY <1>4, <1>x, <1>d DEF WriteCleanup
  <2> QED
    BY <1>1, <1>3, <1>4, <1>x, <1>d, <2>1, FinishKeeps
<1>5. CASE rows[d].exists
  <2>r. PICK now : now = [exists |-> rows[d].exists, version |-> rows[d].version + 1, image |-> x.image]
    OBVIOUS
  <2>1. /\ Replace(d, x.image, {}, 0)
        /\ epoch' = [epoch EXCEPT ![d] = @ + 1]
        /\ stale' = [stale EXCEPT ![d] = @ \/ rows[d].version # x.seen.version]
    BY <1>5, <1>x, <1>d DEF WriteCleanup
  <2>3. /\ now \in StoredRow /\ rows' \in [Drawing -> StoredRow] /\ rows'[d] = now
        /\ \A c \in Drawing \ {d} : rows'[c] = rows[c] /\ past'[c] = past[c]
        /\ past' \in [Drawing -> SUBSET [image : StoredImage, epoch : Nat]]
        /\ \A o \in past'[d] : o \in past[d]
    <3>1. {} \in SUBSET StoredImage /\ 0 \in Nat
      OBVIOUS
    <3>2. \A o : ~ ArchivedAs(o, {}, 0)
      BY DEF ArchivedAs
    <3> QED
      BY <1>2, <2>1, <2>r, <3>1, <3>2, ReplaceIs
  <2>4. /\ stale' \in [Drawing -> BOOLEAN] /\ \A c \in Drawing \ {d} : stale'[c] = stale[c]
        /\ stale'[d] <=> stale[d] \/ rows[d].version # x.seen.version
    BY <1>2, <2>1 DEF StoreTypes
  <2>5. CleanupFits(x, r) /\ \A p \in past'[d] : Kept(d, p.image, p.epoch)
    BY <1>2, <2>3 DEF StoreInv, StoreServes, FitsAs
  <2>6. /\ epoch' \in [Drawing -> Nat] /\ epoch'[d] = epoch[d] + 1 /\ \A c \in Drawing \ {d} : epoch'[c] = epoch[c]
    BY <1>2, <2>1 DEF StoreTypes
  <2>7. epoch'[d] >= epoch[d] /\ epoch'[d] # epoch[d]
    BY <1>2, <2>6
  <2>9. now.exists /\ now.version > rows[d].version /\ now.image = x.image
    BY <1>2, <1>5, <2>r
  <2>8. ASSUME ~ stale'[d], SoleCleaner(r, d)
        PROVE  /\ ShownFiles(now.image.scene) \subseteq now.image.scene.files
               /\ Owned(d, now.image, now.image.scene.files)
    BY <1>1, <1>5, <1>d, <2>4, <2>5, <2>8, <2>9 DEF CleanupFits
  <2>10. rows[d].version > 0 /\ (stale[d] => stale'[d])
    BY <1>2, <1>3, <1>d, <2>4 DEF FitsAs, PlaceFits
  <2> QED
    BY <1>1, <1>2, <1>5, <1>x, <1>d, <2>3, <2>4, <2>5, <2>6, <2>7, <2>8, <2>9, <2>10, WrittenKeeps
<1> QED
  BY <1>4, <1>5

LEMMA FitsAfter ==
  ASSUME NEW r, NEW z, req'[r] = z, FitsAs(z, r)',
         z.kind \in New /\ z.failed => stranded'[z.drawing]
  PROVE  Fits(r)'
BY DEF Fits, FitsAs, StageFits, PlaceFits, TrimFits, SeenFits, SaveFits, RestoreFits, MakerFits,
     CleanupFits, Coming

LEMMA StillKept ==
  ASSUME StoreInv, StoreTypes', NEW d \in Drawing, Calm(d), rows'[d].image = rows[d].image,
         epoch'[d] = epoch[d],
         rows'[d].version = rows[d].version, rows'[d].exists => rows[d].exists
  PROVE  Kept(d, rows[d].image, epoch[d])'
<1>i. PICK i : i = rows[d].image
  OBVIOUS
<1>e. PICK e : e = epoch[d]
  OBVIOUS
<1>1. /\ StoreTypes /\ i \in StoredImage /\ e \in Nat /\ rows[d].version \in Nat /\ Kept(d, i, e)
      /\ (rows[d].exists => rows[d].version > 0)
  BY <1>i, <1>e, RowIs DEF StoreInv, StoreShape, StoreServes, RowFits
<1>2. Kept(d, i, e)'
  <2>1. CASE rows[d].version > 0
    BY <1>1, <2>1, KeptStays
  <2>2. CASE ~ rows[d].version > 0
    BY <1>1, <1>e, <2>2 DEF Kept, Servable
  <2> QED
    BY <2>1, <2>2
<1> QED
  BY <1>2, <1>i, <1>e DEF Kept, Owned

\* A clean-up that begins to remove.
LEMMA RemovesKeeps ==
  ASSUME StoreInv, NEW r \in Handler, Busy(r), NEW x, x = req[r], x.kind \in Cleanup,
         x.stage \in {"asked", "recorded"},
         x.kind = "trim" => x.stage = "recorded",
         NEW files \in SUBSET FileId, Removes(r, files),
         \A f \in x.image.scene.files : f \notin files,
         x.kind = "trim" => \A f \in Under(bucket, x.drawing) : f \in ShownFiles(x.image.scene) \/ f \in files
  PROVE  StoreInv'
<1>d. PICK d : d = x.drawing
  OBVIOUS
<1>t. PICK T : T = Removals(files)
  OBVIOUS
<1>y. PICK y : y = [x EXCEPT !.stage = "running", !.todo = T]
  OBVIOUS
<1>1. /\ Becomes(r, y) /\ epoch' = [epoch EXCEPT ![d] = @ + 1]
      /\ UNCHANGED <<rows, past, bucket, records, stale, stranded>>
  BY <1>d, <1>t, <1>y DEF Removes
<1>2. /\ StoreTypes /\ x \in Handling /\ d \in Drawing /\ FitsAs(x, r) /\ epoch[d] \in Nat
      /\ rows[d].version \in Nat
  <2>1. StoreTypes /\ x \in Handling /\ d \in Drawing /\ FitsAs(x, r)
    BY <1>d, HandlerFits
  <2> QED
    BY <2>1, RowIs
<1>3. /\ T \in SUBSET ({"put", "copy", "record", "remove"} \X FileId) /\ \A c \in T : c[1] = "remove"
      /\ \A f : <<"remove", f>> \in T <=> f \in files
  BY <1>t DEF Removals
<1>4. /\ y \in Handling /\ y.stage = "running" /\ y.todo = T /\ y.files = x.files
      /\ y.kind = x.kind /\ y.drawing = d /\ y.source = x.source /\ y.image = x.image
      /\ y.base = x.base /\ y.seen = x.seen /\ y.failed = x.failed /\ y.tidy = x.tidy
  BY <1>2, <1>3, <1>d, <1>y DEF Handling
<1>5. /\ req'[r] = y /\ DOMAIN req' = Handler /\ OthersWait(r) /\ Busy(r)'
      /\ \A q \in Handler : req'[q] \in {Idle, Ended} \/ req'[q] \in Handling
  BY <1>1, <1>4, OthersStay
<1>6. epoch' \in [Drawing -> Nat] /\ epoch'[d] = epoch[d] + 1 /\ \A c \in Drawing \ {d} : epoch'[c] = epoch[c]
  BY <1>1, <1>2 DEF StoreTypes
<1>7. StoreTypes' /\ \A c \in Drawing \ {d} : SameAt(c)
  BY <1>1, <1>2, <1>5, <1>6 DEF StoreTypes, SameAt
<1>8. Cleans(r)' /\ req'[r].drawing = d /\ ~ Servable(d)'
  <2>1. Cleans(r)' /\ req'[r].drawing = d
    BY <1>4, <1>5 DEF Cleans, At
  <2> QED
    BY <2>1 DEF Servable, Cleaning
<1>9. Calm(d) /\ PlansWait(r, d) /\ Lighter(d)
  <2>1. Calm(d)
    BY <1>1, <1>2, <1>6, <1>8 DEF Calm
  <2>2. PlansWait(r, d)
    BY <1>8 DEF PlansWait, SoleCleaner
  <2>3. Lighter(d)
    BY <1>1 DEF Lighter
  <2> QED
    BY <2>1, <2>2, <2>3
<1>10. Swept(r, d)
  <2>1. ~ Clears(req[r], d)
    BY DEF Clears, Cleanup, New
  <2> QED
    BY <1>1, <1>9, <2>1 DEF Swept
<1>11. RowFits(d)' /\ Kept(d, rows[d].image, epoch[d])'
  <2>1. RowFits(d)'
    BY <1>1, <1>2 DEF StoreInv, StoreShape, RowFits
  <2> QED
    BY <1>1, <1>6, <1>8, <2>1 DEF Kept
<1>12. StageFits(y)' /\ PlaceFits(y)' /\ TrimFits(y)' /\ SeenFits(y)'
  <2>1. StageFits(x) /\ PlaceFits(x) /\ TrimFits(x) /\ SeenFits(x)
    BY <1>2 DEF FitsAs
  <2>2. StageFits(y)
    BY <1>3, <1>4, <1>d, <2>1 DEF StageFits, Cleanup
  <2>3. PlaceFits(y)
    BY <1>4, <1>d, <2>1 DEF PlaceFits, Cleanup, New
  <2>4. TrimFits(y)
    BY <1>3, <1>4, <1>d, <2>1 DEF TrimFits
  <2>5. SeenFits(y)
    BY <1>4, <1>d, <2>1 DEF SeenFits
  <2> QED
    BY <1>1, <2>2, <2>3, <2>4, <2>5 DEF StageFits, PlaceFits, TrimFits, SeenFits
<1>13. SaveFits(y)' /\ RestoreFits(y)' /\ MakerFits(y)'
  BY <1>4 DEF SaveFits, RestoreFits, MakerFits, Cleanup, New
<1>14. CleanupFits(y, r)'
  <2>1. CleanupFits(x, r)
    BY <1>2 DEF FitsAs
  <2>2. ASSUME x.seen.version = rows[d].version, rows[d].exists, ~ stale[d], SoleCleaner(r, d)
        PROVE  /\ ShownFiles(x.image.scene) \subseteq x.image.scene.files
               /\ Owned(d, x.image, x.image.scene.files)
    <3>1. ~ Cleans(r)
      BY DEF Cleans, At
    <3>2. Servable(d)
      BY <2>2, <3>1 DEF Servable, Cleaning, SoleCleaner
    <3>3. /\ ShownFiles(rows[d].image.scene) \subseteq rows[d].image.scene.files
          /\ Owned(d, rows[d].image, rows[d].image.scene.files)
      BY <1>2, <3>2 DEF StoreInv, StoreServes, Kept
    <3>4. /\ ShownFiles(x.image.scene) \subseteq ShownFiles(rows[d].image.scene)
          /\ ShownFiles(x.image.scene) \cap rows[d].image.scene.files \subseteq x.image.scene.files
          /\ x.image.scene.files \subseteq rows[d].image.scene.files
          /\ x.image.home = rows[d].image.home
      BY <1>d, <2>1, <2>2 DEF CleanupFits
    <3> QED
      BY <3>3, <3>4 DEF Owned
  <2>3. SoleCleaner(r, d)' <=> SoleCleaner(r, d)
    BY <1>5, WhoCleans
  <2>4. SoleCleaner(r, d)' => SoleCleaner(r, d)
    BY <2>3
  <2>5. /\ y.kind = "trim" => y.image.scene.files \subseteq ShownFiles(y.image.scene)
        /\ \A f \in y.image.scene.files : f \notin y.files /\ <<"remove", f>> \notin y.todo
        /\ y.seen.version = rows[d].version =>
           /\ ShownFiles(y.image.scene) \subseteq ShownFiles(rows[d].image.scene)
           /\ ShownFiles(y.image.scene) \cap rows[d].image.scene.files \subseteq y.image.scene.files
           /\ y.image.scene.files \subseteq rows[d].image.scene.files
           /\ y.image.home = rows[d].image.home
    BY <1>3, <1>4, <1>d, <2>1 DEF CleanupFits
  <2>6. y.seen.version = rows[d].version /\ rows[d].exists /\ ~ stale[d] /\ SoleCleaner(r, d)' =>
          ShownFiles(y.image.scene) \subseteq y.image.scene.files /\ Owned(d, y.image, y.image.scene.files)'
    BY <1>1, <1>4, <2>2, <2>4 DEF Owned
  <2> QED
    BY <1>1, <1>4, <2>5, <2>6 DEF CleanupFits
<1>15. Fits(r)'
  <2>1. FitsAs(y, r)'
    BY <1>12, <1>13, <1>14 DEF FitsAs
  <2>2. y.kind \notin New
    BY <1>4 DEF Cleanup, New
  <2> QED
    BY <1>5, <2>1, <2>2, FitsAfter
<1>16. StepFits(r, d)
  BY <1>1, <1>4, <1>5, <1>7, <1>9, <1>10, <1>11, <1>15 DEF StepFits
<1> QED
  BY <1>16, <1>d, StepKeeps

LEMMA ListKeeps ==
  ASSUME StoreInv, NEW r \in Handler, ListObjects(r)
  PROVE  StoreInv'
<1>x. PICK x : x = req[r]
  OBVIOUS
<1>1. Busy(r) /\ x.kind = "trim" /\ x.stage = "recorded" /\ Removes(r, OrphanFiles(r))
  BY <1>x DEF ListObjects, At
<1>2. StoreTypes /\ x \in Handling /\ x.drawing \in Drawing /\ FitsAs(x, r)
  BY <1>1, <1>x, HandlerFits
<1>F. PICK F : F = OrphanFiles(r)
  OBVIOUS
<1>3. F = x.files \cup (Under(bucket, x.drawing) \ ShownFiles(x.image.scene))
  BY <1>x, <1>F DEF OrphanFiles
<1>4. F \in SUBSET FileId
  <2>1. \A f \in Under(bucket, x.drawing) : <<x.drawing, f>> \in bucket
    BY <1>2, UnderIs DEF StoreTypes
  <2>2. \A f \in Under(bucket, x.drawing) : f \in FileId
    BY <1>2, <2>1 DEF StoreTypes
  <2> QED
    BY <1>2, <1>3, <2>2 DEF Handling
<1>5. \A f \in x.image.scene.files : f \notin F
  BY <1>1, <1>2, <1>3 DEF FitsAs, CleanupFits, Cleanup
<1>6. \A f \in Under(bucket, x.drawing) : f \in ShownFiles(x.image.scene) \/ f \in F
  BY <1>3
<1>7. Removes(r, F) /\ x.kind \in Cleanup
  BY <1>1, <1>F DEF Cleanup
<1> QED
  BY <1>1, <1>4, <1>5, <1>6, <1>7, <1>x, RemovesKeeps

LEMMA FindOrphansKeeps ==
  ASSUME StoreInv, NEW r \in Handler, FindOrphans(r)
  PROVE  StoreInv'
<1>x. PICK x : x = req[r]
  OBVIOUS
<1>F. PICK F : F = x.files \cap Under(records, x.drawing)
  OBVIOUS
<1>1. Busy(r) /\ x.kind = "orphans" /\ x.stage = "asked" /\ Removes(r, F)
  BY <1>x, <1>F DEF FindOrphans, At
<1>2. StoreTypes /\ x \in Handling /\ x.drawing \in Drawing /\ FitsAs(x, r)
  BY <1>1, <1>x, HandlerFits
<1>4. F \in SUBSET FileId
  BY <1>2, <1>F DEF Handling
<1>5. x.kind \in Cleanup
  BY <1>1 DEF Cleanup
<1>6. \A f \in x.image.scene.files : f \notin F
  BY <1>2, <1>F, <1>5 DEF FitsAs, CleanupFits
<1> QED
  BY <1>1, <1>4, <1>5, <1>6, <1>x, RemovesKeeps

LEMMA DropKeeps ==
  ASSUME StoreInv, NEW r \in Handler, DropRecords(r)
  PROVE  StoreInv'
<1>x. PICK x : x = req[r]
  OBVIOUS
<1>d. PICK d : d = x.drawing
  OBVIOUS
<1>y. PICK y : y = [x EXCEPT !.stage = "dropped"]
  OBVIOUS
<1>1. /\ Busy(r) /\ x.kind \in Cleanup /\ x.stage = "running" /\ x.todo = {} /\ ~ x.failed
      /\ Becomes(r, y)
      /\ records' = records \ ({d} \X x.files)
      /\ UNCHANGED <<rows, past, bucket, epoch, stale, stranded>>
  BY <1>x, <1>d, <1>y DEF DropRecords, Ready, At
<1>2. /\ StoreTypes /\ x \in Handling /\ d \in Drawing /\ FitsAs(x, r) /\ epoch[d] \in Nat
      /\ rows[d].version \in Nat
  <2>1. StoreTypes /\ x \in Handling /\ d \in Drawing /\ FitsAs(x, r)
    BY <1>1, <1>x, <1>d, HandlerFits
  <2> QED
    BY <2>1, RowIs
<1>4. /\ y \in Handling /\ y.stage = "dropped" /\ y.todo = {} /\ y.files = x.files
      /\ y.kind = x.kind /\ y.drawing = d /\ y.source = x.source /\ y.image = x.image
      /\ y.base = x.base /\ y.seen = x.seen /\ y.failed = x.failed /\ y.tidy = x.tidy
  BY <1>1, <1>2, <1>d, <1>y DEF Handling
<1>5. /\ req'[r] = y /\ DOMAIN req' = Handler /\ OthersWait(r) /\ Busy(r)'
      /\ \A q \in Handler : req'[q] \in {Idle, Ended} \/ req'[q] \in Handling
  BY <1>1, <1>4, OthersStay
<1>6. \A c, f : <<c, f>> \in records' <=> <<c, f>> \in records /\ ~ (c = d /\ f \in x.files)
  BY <1>1
<1>7. StoreTypes' /\ \A c \in Drawing \ {d} : SameAt(c)
  BY <1>1, <1>2, <1>5, <1>6 DEF StoreTypes, SameAt
<1>8. Cleans(r)' /\ req'[r].drawing = d /\ ~ Servable(d)'
  <2>1. Cleans(r)' /\ req'[r].drawing = d
    BY <1>1, <1>4, <1>5 DEF Cleans, At
  <2> QED
    BY <2>1 DEF Servable, Cleaning
<1>9. Calm(d) /\ PlansWait(r, d) /\ Lighter(d)
  <2>1. Calm(d)
    BY <1>1, <1>2, <1>8 DEF Calm
  <2>2. PlansWait(r, d)
    BY <1>8 DEF PlansWait, SoleCleaner
  <2>3. Lighter(d)
    BY <1>1, <1>6 DEF Lighter
  <2> QED
    BY <2>1, <2>2, <2>3
<1>10. Swept(r, d)
  <2>1. ~ Clears(req[r], d)
    BY <1>1, <1>x DEF Clears, Cleanup, New
  <2> QED
    BY <1>1, <1>9, <2>1 DEF Swept
<1>11. RowFits(d)' /\ Kept(d, rows[d].image, epoch[d])'
  <2>1. RowFits(d)'
    BY <1>1, <1>2 DEF StoreInv, StoreShape, RowFits
  <2> QED
    BY <1>1, <1>2, <1>8, <2>1 DEF Kept
<1>12. StageFits(y)' /\ PlaceFits(y)' /\ SeenFits(y)'
  <2>1. StageFits(x) /\ PlaceFits(x) /\ SeenFits(x)
    BY <1>2 DEF FitsAs
  <2>2. StageFits(y)
    BY <1>1, <1>4, <1>d, <2>1 DEF StageFits, Cleanup
  <2>3. PlaceFits(y)
    BY <1>1, <1>4, <1>d, <2>1 DEF PlaceFits, Cleanup, New
  <2>5. SeenFits(y)
    BY <1>4, <1>d, <2>1 DEF SeenFits
  <2> QED
    BY <1>1, <2>2, <2>3, <2>5 DEF StageFits, PlaceFits, SeenFits
<1>16. TrimFits(y)'
  <2> SUFFICES ASSUME y.kind = "trim", y.tidy
               PROVE  /\ Under(records', d) \subseteq ShownFiles(y.image.scene)
                      /\ Under(bucket', d) \subseteq ShownFiles(y.image.scene)
    BY <1>4 DEF TrimFits
  <2>1. /\ Under(records, d) \subseteq ShownFiles(x.image.scene) \cup x.files
        /\ \A f \in Under(bucket, d) : f \in ShownFiles(x.image.scene)
    BY <1>1, <1>2, <1>4, <1>d DEF FitsAs, TrimFits
  <2>2. \A f : f \in Under(records', d) <=> <<d, f>> \in records'
    BY <1>7, UnderIs DEF StoreTypes
  <2>3. \A f : f \in Under(records, d) <=> <<d, f>> \in records
    BY <1>2, UnderIs DEF StoreTypes
  <2> QED
    BY <1>1, <1>4, <1>6, <2>1, <2>2, <2>3
<1>13. SaveFits(y)' /\ RestoreFits(y)' /\ MakerFits(y)'
  BY <1>1, <1>4 DEF SaveFits, RestoreFits, MakerFits, Cleanup, New
<1>14. CleanupFits(y, r)'
  <2>1. CleanupFits(x, r)
    BY <1>2 DEF FitsAs
  <2>2. /\ \A f \in x.image.scene.files : f \notin x.files
        /\ x.seen.version = rows[d].version /\ rows[d].exists /\ ~ stale[d] /\ SoleCleaner(r, d) =>
              /\ ShownFiles(x.image.scene) \subseteq x.image.scene.files
              /\ Owned(d, x.image, x.image.scene.files)
    BY <1>1, <1>d, <2>1 DEF CleanupFits
  <2>4. SoleCleaner(r, d)' => SoleCleaner(r, d)
    BY <1>1, <1>5, WhoCleans
  <2>5. /\ y.kind = "trim" => y.image.scene.files \subseteq ShownFiles(y.image.scene)
        /\ \A f \in y.image.scene.files : f \notin y.files /\ <<"remove", f>> \notin y.todo
        /\ y.seen.version = rows[d].version =>
           /\ ShownFiles(y.image.scene) \subseteq ShownFiles(rows[d].image.scene)
           /\ ShownFiles(y.image.scene) \cap rows[d].image.scene.files \subseteq y.image.scene.files
           /\ y.image.scene.files \subseteq rows[d].image.scene.files
           /\ y.image.home = rows[d].image.home
    BY <1>1, <1>4, <1>d, <2>1 DEF CleanupFits
  <2>6. y.seen.version = rows[d].version /\ rows[d].exists /\ ~ stale[d] /\ SoleCleaner(r, d)' =>
          ShownFiles(y.image.scene) \subseteq y.image.scene.files /\ Owned(d, y.image, y.image.scene.files)'
    BY <1>1, <1>4, <1>6, <2>2, <2>4 DEF Owned
  <2> QED
    BY <1>1, <1>4, <2>5, <2>6 DEF CleanupFits
<1>15. Fits(r)'
  <2>1. FitsAs(y, r)'
    BY <1>12, <1>13, <1>14, <1>16 DEF FitsAs
  <2>2. y.kind \notin New
    BY <1>1, <1>4 DEF Cleanup, New
  <2> QED
    BY <1>5, <2>1, <2>2, FitsAfter
<1>17. StepFits(r, d)
  BY <1>1, <1>4, <1>5, <1>7, <1>9, <1>10, <1>11, <1>15, <1>x DEF StepFits
<1> QED
  BY <1>1, <1>17, <1>d, <1>x, StepKeeps

LEMMA ForgetKeeps ==
  ASSUME StoreInv, NEW r \in Handler, ForgetRecords(r)
  PROVE  StoreInv'
<1>x. PICK x : x = req[r]
  OBVIOUS
<1>d. PICK d : d = x.drawing
  OBVIOUS
<1>1. /\ Busy(r) /\ x.kind = "delete" /\ x.stage = "running" /\ x.todo = {} /\ Becomes(r, Ended)
      /\ records' = {k \in records : k[1] # d}
      /\ UNCHANGED <<rows, past, bucket, epoch, stale, stranded>>
  BY <1>x, <1>d DEF ForgetRecords, Ready, At, Finish
<1>2. /\ StoreTypes /\ x \in Handling /\ d \in Drawing /\ FitsAs(x, r) /\ epoch[d] \in Nat
      /\ rows[d].version \in Nat
  <2>1. StoreTypes /\ x \in Handling /\ d \in Drawing /\ FitsAs(x, r)
    BY <1>1, <1>x, <1>d, HandlerFits
  <2> QED
    BY <2>1, RowIs
<1>3. ~ rows[d].exists
  BY <1>1, <1>2, <1>d DEF FitsAs, PlaceFits
<1>5. /\ req'[r] = Ended /\ DOMAIN req' = Handler /\ OthersWait(r) /\ ~ Busy(r)'
      /\ \A q \in Handler : req'[q] \in {Idle, Ended} \/ req'[q] \in Handling
  BY <1>1, OthersStay DEF Ended, Busy
<1>6. \A c, f : <<c, f>> \in records' <=> <<c, f>> \in records /\ c # d
  BY <1>1
<1>7. StoreTypes' /\ \A c \in Drawing \ {d} : SameAt(c)
  BY <1>1, <1>2, <1>5, <1>6 DEF StoreTypes, SameAt
<1>8. ~ Servable(d)'
  BY <1>1, <1>3 DEF Servable
<1>9. Calm(d) /\ PlansWait(r, d) /\ Lighter(d)
  <2>1. Calm(d)
    BY <1>1, <1>2, <1>8 DEF Calm
  <2>2. PlansWait(r, d)
    BY <1>1, <1>3 DEF PlansWait
  <2>3. Lighter(d)
    BY <1>1, <1>6 DEF Lighter
  <2> QED
    BY <2>1, <2>2, <2>3
<1>10. Swept(r, d)
  <2>1. CASE Clears(x, d)
    <3>1. Under(bucket, d) = {}
      BY <1>1, <2>1 DEF Clears, New
    <3>2. \A f : f \in Under(bucket, d) <=> <<d, f>> \in bucket
      BY <1>2, UnderIs DEF StoreTypes
    <3>3. \A f \in FileId : <<d, f>> \notin bucket' /\ <<d, f>> \notin records'
      BY <1>1, <1>6, <3>1, <3>2
    <3> QED
      BY <3>3 DEF Swept
  <2>2. CASE ~ Clears(x, d)
    BY <1>1, <1>3, <1>9, <1>x, <2>2 DEF Swept
  <2> QED
    BY <2>1, <2>2
<1>11. RowFits(d)' /\ Kept(d, rows[d].image, epoch[d])'
  <2>1. RowFits(d)'
    BY <1>1, <1>2 DEF StoreInv, StoreShape, RowFits
  <2> QED
    BY <1>1, <1>2, <1>8, <2>1 DEF Kept
<1>17. StepFits(r, d)
  BY <1>1, <1>5, <1>7, <1>9, <1>10, <1>11, <1>x DEF StepFits
<1> QED
  BY <1>1, <1>17, <1>d, <1>x, StepKeeps

LEMMA DeleteRowKeeps ==
  ASSUME StoreInv, NEW r \in Handler, DeleteRow(r)
  PROVE  StoreInv'
<1>x. PICK x : x = req[r]
  OBVIOUS
<1>d. PICK d : d = x.drawing
  OBVIOUS
<1>y. PICK y : y = [x EXCEPT !.stage = "deleted"]
  OBVIOUS
<1>1. /\ Busy(r) /\ x.kind = "delete" /\ x.stage = "asked"
      /\ UNCHANGED <<bucket, records, epoch, stale, stranded>>
  BY <1>x DEF DeleteRow, At
<1>2. /\ StoreTypes /\ x \in Handling /\ d \in Drawing /\ FitsAs(x, r) /\ epoch[d] \in Nat
      /\ rows[d].version \in Nat
      /\ rows[d] \in StoredRow
  <2>1. StoreTypes /\ x \in Handling /\ d \in Drawing /\ FitsAs(x, r)
    BY <1>1, <1>x, <1>d, HandlerFits
  <2> QED
    BY <2>1, RowIs
<1>3. CASE ~ rows[d].exists
  <2>1. Finish(r) /\ UNCHANGED <<rows, past>> /\ ~ Clears(x, d) /\ ~ Cleans(r)
    BY <1>1, <1>3, <1>x, <1>d DEF DeleteRow, Clears, New, Cleans, At, Cleanup
  <2> QED
    BY <1>1, <1>x, <1>d, <2>1, FinishKeeps
<1>4. CASE rows[d].exists
  <2>r. PICK now : now = [rows[d] EXCEPT !.exists = FALSE]
    OBVIOUS
  <2>1. /\ rows' = [rows EXCEPT ![d] = now] /\ past' = [past EXCEPT ![d] = {}] /\ Becomes(r, y)
    BY <1>4, <1>x, <1>d, <1>y, <2>r DEF DeleteRow
  <2>2. /\ now \in StoredRow /\ now.exists = FALSE /\ now.version = rows[d].version
        /\ now.image = rows[d].image
    BY <1>2, <2>r DEF StoredRow
  <2>3. /\ rows' \in [Drawing -> StoredRow] /\ rows'[d] = now /\ past'[d] = {}
        /\ past' \in [Drawing -> SUBSET [image : StoredImage, epoch : Nat]]
        /\ \A c \in Drawing \ {d} : rows'[c] = rows[c] /\ past'[c] = past[c]
    BY <1>2, <2>1, <2>2 DEF StoreTypes
  <2>4. /\ y \in Handling /\ y.stage = "deleted" /\ y.todo = x.todo /\ y.kind = x.kind
        /\ y.drawing = d
        /\ y.source = x.source /\ y.base = x.base /\ y.seen = x.seen /\ y.failed = x.failed
    BY <1>1, <1>2, <1>d, <1>y DEF Handling
  <2>5. /\ req'[r] = y /\ DOMAIN req' = Handler /\ OthersWait(r) /\ Busy(r)'
        /\ \A q \in Handler : req'[q] \in {Idle, Ended} \/ req'[q] \in Handling
    BY <2>1, <2>4, OthersStay
  <2>7. StoreTypes' /\ \A c \in Drawing \ {d} : SameAt(c)
    BY <1>1, <1>2, <2>3, <2>5 DEF StoreTypes, SameAt
  <2>8. ~ Servable(d)' /\ ~ rows'[d].exists
    BY <2>2, <2>3 DEF Servable
  <2>9. Calm(d) /\ PlansWait(r, d) /\ Lighter(d)
    <3>1. Calm(d)
      BY <1>1, <1>2, <2>2, <2>3, <2>8 DEF Calm
    <3>2. PlansWait(r, d)
      BY <2>8 DEF PlansWait
    <3>3. Lighter(d)
      BY <1>1 DEF Lighter
    <3> QED
      BY <3>1, <3>2, <3>3
  <2>10. Swept(r, d)
    <3>1. Clears(y, d)'
      BY <1>1, <2>4 DEF Clears
    <3>2. PICK z : z = y
      OBVIOUS
    <3>3. Clears(z, d)' /\ req'[r] = z
      BY <2>5, <3>1, <3>2
    <3>4. Clears(req[r], d)'
      BY <3>3 DEF Clears
    <3> QED
      BY <2>5, <3>4 DEF Swept
  <2>11. RowFits(d)' /\ Kept(d, rows[d].image, epoch[d])'
    <3>1. RowFits(d)'
      BY <1>2, <2>2, <2>3, <2>8 DEF StoreInv, StoreShape, RowFits
    <3> QED
      BY <1>1, <1>2, <2>8, <3>1 DEF Kept
  <2>12. StageFits(y)' /\ PlaceFits(y)' /\ TrimFits(y)' /\ SeenFits(y)'
    <3>1. StageFits(x) /\ PlaceFits(x) /\ SeenFits(x)
      BY <1>2 DEF FitsAs
    <3>2. StageFits(y)'
      BY <1>1, <1>d, <2>4, <3>1 DEF StageFits, Cleanup
    <3>3. PlaceFits(y)'
      BY <1>1, <1>d, <2>2, <2>3, <2>4, <2>8, <3>1 DEF PlaceFits, New
    <3>4. SeenFits(y)'
      BY <1>1, <1>d, <2>2, <2>3, <2>4, <3>1 DEF SeenFits
    <3>5. TrimFits(y)'
      BY <1>1, <2>4 DEF TrimFits
    <3> QED
      BY <3>2, <3>3, <3>4, <3>5
  <2>13. SaveFits(y)' /\ RestoreFits(y)' /\ MakerFits(y)' /\ CleanupFits(y, r)'
    BY <1>1, <2>4 DEF SaveFits, RestoreFits, MakerFits, CleanupFits, Cleanup, New
  <2>15. Fits(r)'
    <3>1. FitsAs(y, r)'
      BY <2>12, <2>13 DEF FitsAs
    <3>2. y.kind \notin New
      BY <1>1, <2>4 DEF New
    <3> QED
      BY <2>5, <3>1, <3>2, FitsAfter
  <2>17. StepFits(r, d)
    BY <1>1, <1>x, <2>3, <2>4, <2>5, <2>7, <2>9, <2>10, <2>11, <2>15 DEF StepFits
  <2> QED
    BY <1>1, <1>d, <1>x, <2>17, StepKeeps
<1> QED
  BY <1>3, <1>4

LEMMA CloneKeeps ==
  ASSUME StoreInv, NEW r \in Handler, CloneReferences(r)
  PROVE  StoreInv'
<1>x. PICK x : x = req[r]
  OBVIOUS
<1>d. PICK d : d = x.drawing
  OBVIOUS
<1>o. PICK o : o = x.source
  OBVIOUS
<1>f. PICK found : found = Under(records, o)
  OBVIOUS
<1>h. PICK h : h = [f \in FileId |-> IF f \in found THEN d ELSE x.image.home[f]]
  OBVIOUS
<1>t. PICK T : T = {<<"copy", f>> : f \in found}
  OBVIOUS
<1>y. PICK y : y = [x EXCEPT !.stage = "running", !.todo = T, !.image.home = h]
  OBVIOUS
<1>1. /\ Busy(r) /\ x.kind = "duplicate" /\ x.stage = "asked" /\ Becomes(r, y)
      /\ stale' = [stale EXCEPT ![d] = stale[o] \/ ~ rows[o].exists \/ Cleaning(o) \/ epoch[o] # x.since]
      /\ UNCHANGED <<rows, past, bucket, records, epoch, stranded>>
  BY <1>x, <1>d, <1>o, <1>f, <1>h, <1>t, <1>y DEF CloneReferences, At
<1>2. /\ StoreTypes /\ x \in Handling /\ d \in Drawing /\ o \in Drawing /\ FitsAs(x, r)
      /\ x.image \in StoredImage
      /\ epoch[d] \in Nat /\ rows[d].version = 0 /\ rows[o].version > 0 /\ x.todo = {} /\ ~ x.failed
  <2>1. StoreTypes /\ x \in Handling /\ d \in Drawing /\ o \in Drawing /\ FitsAs(x, r)
    BY <1>1, <1>x, <1>d, <1>o, HandlerFits
  <2>2. rows[d].version = 0 /\ rows[o].version > 0 /\ x.todo = {} /\ ~ x.failed
    BY <1>1, <1>d, <1>o, <2>1 DEF FitsAs, PlaceFits, StageFits, New
  <2> QED
    BY <2>1, <2>2, RowIs DEF Handling
<1>3. /\ \A f : f \in found <=> <<o, f>> \in records
      /\ found \subseteq FileId
  <2>1. \A f : f \in found <=> <<o, f>> \in records
    BY <1>2, <1>f, UnderIs DEF StoreTypes
  <2>2. ASSUME NEW f \in found PROVE f \in FileId
    <3>1. <<o, f>> \in Drawing \X FileId
      BY <1>2, <2>1, <2>2 DEF StoreTypes
    <3> QED
      BY <3>1
  <2> QED
    BY <2>1, <2>2
<1>4. T \in SUBSET ({"put", "copy", "record", "remove"} \X FileId) /\ \A c \in T : c[1] = "copy"
  BY <1>3, <1>t
<1>i. PICK i : i = [x.image EXCEPT !.home = h]
  OBVIOUS
<1>5. i \in StoredImage /\ i.scene = x.image.scene /\ i.home = h
  <2>1. x.image.home \in [FileId -> Drawing]
    BY <1>2 DEF StoredImage
  <2>2. h \in [FileId -> Drawing]
    BY <1>2, <1>h, <2>1
  <2> QED
    BY <1>2, <1>i, <2>2 DEF StoredImage
<1>6. /\ y \in Handling /\ y.stage = "running" /\ y.todo = T /\ y.image = i /\ y.files = x.files
      /\ y.kind = "duplicate" /\ y.drawing = d /\ y.source = o /\ y.failed = x.failed
  <2>1. y = [x EXCEPT !.stage = "running", !.todo = T, !.image = i]
    BY <1>2, <1>i, <1>y DEF Handling
  <2> QED
    BY <1>1, <1>2, <1>4, <1>5, <1>d, <1>o, <2>1 DEF Handling
<1>7. /\ req'[r] = y /\ DOMAIN req' = Handler /\ OthersWait(r) /\ Busy(r)'
      /\ \A q \in Handler : req'[q] \in {Idle, Ended} \/ req'[q] \in Handling
  BY <1>1, <1>6, OthersStay
<1>8. /\ stale' \in [Drawing -> BOOLEAN] /\ \A c \in Drawing \ {d} : stale'[c] = stale[c]
      /\ stale'[d] <=> (stale[o] \/ ~ rows[o].exists \/ Cleaning(o) \/ epoch[o] # x.since)
  <2>1. PICK b \in BOOLEAN : b <=> (stale[o] \/ ~ rows[o].exists \/ Cleaning(o) \/ epoch[o] # x.since)
    OBVIOUS
  <2>2. (stale[o] \/ ~ rows[o].exists \/ Cleaning(o) \/ epoch[o] # x.since) \in BOOLEAN
    OBVIOUS
  <2> QED
    BY <1>1, <1>2, <2>2 DEF StoreTypes
<1>9. StoreTypes' /\ \A c \in Drawing \ {d} : SameAt(c)
  BY <1>1, <1>2, <1>7, <1>8 DEF StoreTypes, SameAt
<1>10. ~ rows[d].exists
  BY <1>2 DEF StoreInv, StoreShape, RowFits
<1>11. Calm(d) /\ PlansWait(r, d) /\ Lighter(d)
  <2>1. Calm(d)
    BY <1>1, <1>2 DEF Calm
  <2>2. PlansWait(r, d)
    BY <1>1, <1>10 DEF PlansWait
  <2>3. Lighter(d)
    BY <1>1 DEF Lighter
  <2> QED
    BY <2>1, <2>2, <2>3
<1>12. Swept(r, d)
  <2>1. ~ Clears(req[r], d)
    BY <1>1, <1>x DEF Clears
  <2> QED
    BY <1>1, <1>10, <1>11, <2>1 DEF Swept
<1>13. RowFits(d)' /\ Kept(d, rows[d].image, epoch[d])'
  <2>1. RowFits(d)'
    BY <1>1, <1>2 DEF StoreInv, StoreShape, RowFits
  <2> QED
    BY <1>1, <1>2, <1>10, <2>1 DEF Kept, Servable
<1>14. StageFits(y)' /\ PlaceFits(y)' /\ TrimFits(y)' /\ SeenFits(y)'
  <2>1. StageFits(y)'
    BY <1>2, <1>4, <1>6 DEF StageFits, Cleanup
  <2>2. PlaceFits(y)'
    BY <1>1, <1>2, <1>6 DEF PlaceFits, New
  <2>3. TrimFits(y)' /\ SeenFits(y)'
    BY <1>6 DEF TrimFits, SeenFits, New
  <2> QED
    BY <2>1, <2>2, <2>3
<1>15. SaveFits(y)' /\ RestoreFits(y)' /\ CleanupFits(y, r)'
  BY <1>6 DEF SaveFits, RestoreFits, CleanupFits, Cleanup
<1>16. MakerFits(y)'
  <2> SUFFICES ASSUME ~ stale'[d]
               PROVE  /\ ShownFiles(i.scene) \subseteq i.scene.files
                      /\ \A f \in i.scene.files : Coming(y, f)'
    BY <1>6 DEF MakerFits
  <2>1. Servable(o) /\ epoch[o] = x.since
    BY <1>8 DEF Servable
  <2>2. Kept(o, x.image, x.since)
    BY <1>1, <1>2, <1>o DEF FitsAs, MakerFits
  <2>3. ShownFiles(i.scene) \subseteq i.scene.files /\ \A f \in i.scene.files : <<o, f>> \in records
    BY <1>5, <2>1, <2>2 DEF Kept, Owned
  <2>4. ASSUME NEW f \in i.scene.files PROVE h[f] = d /\ <<"copy", f>> \in T
    <3>1. f \in found
      BY <1>3, <2>3
    <3> QED
      BY <1>3, <1>h, <1>t, <3>1
  <2> QED
    BY <1>5, <1>6, <2>3, <2>4 DEF Coming
<1>17. Fits(r)'
  <2>1. FitsAs(y, r)'
    BY <1>14, <1>15, <1>16 DEF FitsAs
  <2>2. ~ y.failed
    BY <1>2, <1>6
  <2> QED
    BY <1>7, <2>1, <2>2, FitsAfter
<1>18. StepFits(r, d)
  BY <1>1, <1>6, <1>7, <1>9, <1>11, <1>12, <1>13, <1>17, <1>x, <1>o DEF StepFits
<1> QED
  BY <1>1, <1>18, <1>d, <1>x, StepKeeps

\* A step of Perform, taken apart: c is done, for the file g of the drawing d.
Performs(r, c, x, y, d, g) ==
  /\ Busy(r) /\ x = req[r] /\ d = x.drawing /\ c \in x.todo /\ g = c[2]
  /\ y = [x EXCEPT !.todo = (@ \ {c}) \cup (IF c[1] \in {"put", "copy"} THEN {<<"record", g>>} ELSE {})]
  /\ req'[r] = y /\ DOMAIN req' = Handler
  /\ \A q \in Handler \ {r} : req'[q] =
       IF Busy(q) /\ req[q].kind \in Cleanup /\ req[q].drawing = d THEN [req[q] EXCEPT !.tidy = FALSE] ELSE req[q]
  /\ \A e, f : <<e, f>> \in bucket' <=>
       \/ <<e, f>> \in bucket /\ ~ (c[1] = "remove" /\ e = d /\ f = g)
       \/ c[1] \in {"put", "copy"} /\ e = d /\ f = g
  /\ \A e, f : <<e, f>> \in records' <=> <<e, f>> \in records \/ (c[1] = "record" /\ e = d /\ f = g)
  /\ bucket' \subseteq Drawing \X FileId /\ records' \subseteq Drawing \X FileId
  /\ stranded' = [stranded EXCEPT ![d] = @ \/ (x.kind = "save" /\ ~ rows[d].exists)]
  /\ UNCHANGED <<rows, past, epoch, stale>>

LEMMA PerformIs ==
  ASSUME StoreInv, NEW r \in Handler, NEW c, Perform(r, c), NEW x, x = req[r], NEW d, d = x.drawing,
         NEW g, g = c[2],
         NEW y, y = [x EXCEPT !.todo = (@ \ {c}) \cup (IF c[1] \in {"put", "copy"} THEN {<<"record", g>>} ELSE {})]
  PROVE  Performs(r, c, x, y, d, g)
<1>1. Busy(r) /\ c \in x.todo
  BY DEF Perform
<1>2. StoreTypes /\ x \in Handling /\ d \in Drawing
  BY <1>1, HandlerFits
<1>3. c[1] \in {"put", "copy", "record", "remove"} /\ g \in FileId
  BY <1>1, <1>2 DEF Handling
<1>4. /\ bucket' = (CASE c[1] \in {"put", "copy"} -> bucket \cup {<<d, g>>}
                      [] c[1] = "remove" -> bucket \ {<<d, g>>}
                      [] OTHER -> bucket)
      /\ records' = IF c[1] = "record" THEN records \cup {<<d, g>>} ELSE records
  BY DEF Perform
<1>5. \A e, f : <<e, f>> \in bucket' <=>
       \/ <<e, f>> \in bucket /\ ~ (c[1] = "remove" /\ e = d /\ f = g)
       \/ c[1] \in {"put", "copy"} /\ e = d /\ f = g
  <2>1. CASE c[1] \in {"put", "copy"}
    BY <1>4, <2>1
  <2>2. CASE c[1] = "remove"
    BY <1>4, <2>2
  <2>3. CASE c[1] = "record"
    BY <1>4, <2>3
  <2> QED
    BY <1>3, <2>1, <2>2, <2>3
<1>6. \A e, f : <<e, f>> \in records' <=> <<e, f>> \in records \/ (c[1] = "record" /\ e = d /\ f = g)
  BY <1>4
<1>7. bucket' \subseteq Drawing \X FileId /\ records' \subseteq Drawing \X FileId
  <2>1. <<d, g>> \in Drawing \X FileId
    BY <1>2, <1>3
  <2>2. bucket \subseteq Drawing \X FileId /\ records \subseteq Drawing \X FileId
    BY <1>2 DEF StoreTypes
  <2>3. records' \subseteq Drawing \X FileId
    BY <1>4, <2>1, <2>2
  <2>4. CASE c[1] \in {"put", "copy"}
    BY <1>4, <2>1, <2>2, <2>3, <2>4
  <2>5. CASE c[1] = "remove"
    BY <1>4, <2>2, <2>3, <2>5
  <2>6. CASE c[1] = "record"
    BY <1>4, <2>2, <2>3, <2>6
  <2> QED
    BY <1>3, <2>4, <2>5, <2>6
<1>8. /\ req'[r] = y /\ DOMAIN req' = Handler
      /\ \A q \in Handler \ {r} : req'[q] =
           IF Busy(q) /\ req[q].kind \in Cleanup /\ req[q].drawing = d THEN [req[q] EXCEPT !.tidy = FALSE] ELSE req[q]
  BY DEF Perform
<1>9. /\ stranded' = [stranded EXCEPT ![d] = @ \/ (x.kind = "save" /\ ~ rows[d].exists)]
      /\ UNCHANGED <<rows, past, epoch, stale>>
  BY DEF Perform
<1> QED
  BY <1>1, <1>5, <1>6, <1>7, <1>8, <1>9 DEF Performs

\* What is the same for every command.
LEMMA PerformTypes ==
  ASSUME StoreInv, NEW r \in Handler, NEW c, NEW x, NEW y, NEW d, NEW g, Performs(r, c, x, y, d, g)
  PROVE  /\ StoreTypes /\ StoreTypes' /\ x \in Handling /\ d \in Drawing /\ FitsAs(x, r) /\ g \in FileId
         /\ c = <<c[1], g>> /\ c[1] \in {"put", "copy", "record", "remove"}
         /\ x.stage = "running" /\ epoch[d] \in Nat /\ rows[d].version \in Nat
         /\ y \in Handling /\ y.stage = "running" /\ y.kind = x.kind /\ y.drawing = d
         /\ y.source = x.source
         /\ y.image = x.image /\ y.inline = x.inline /\ y.keep = x.keep /\ y.files = x.files
         /\ y.base = x.base
         /\ y.seen = x.seen /\ y.failed = x.failed /\ y.again = x.again /\ y.since = x.since
         /\ y.read = x.read
         /\ y.tidy = x.tidy
         /\ y.todo = (x.todo \ {c}) \cup (IF c[1] \in {"put", "copy"} THEN {<<"record", g>>} ELSE {})
         /\ OthersWait(r) /\ Busy(r)'
         /\ \A q \in Handler \ {r} : req[q].kind \in Cleanup /\ req[q].drawing = d /\ Busy(q) => ~ req'[q].tidy
         /\ \A e \in Drawing \ {d} : SameAt(e)
         /\ (stranded[d] => stranded'[d]) /\ (x.kind = "save" /\ ~ rows[d].exists => stranded'[d])
<1>1. /\ Busy(r) /\ x = req[r] /\ d = x.drawing /\ c \in x.todo /\ g = c[2]
      /\ y = [x EXCEPT !.todo = (@ \ {c}) \cup (IF c[1] \in {"put", "copy"} THEN {<<"record", g>>} ELSE {})]
      /\ req'[r] = y /\ DOMAIN req' = Handler
      /\ \A q \in Handler \ {r} : req'[q] =
           IF Busy(q) /\ req[q].kind \in Cleanup /\ req[q].drawing = d THEN [req[q] EXCEPT !.tidy = FALSE] ELSE req[q]
  BY DEF Performs
<1>2. StoreTypes /\ x \in Handling /\ d \in Drawing /\ FitsAs(x, r)
  BY <1>1, HandlerFits
<1>3. g \in FileId /\ c = <<c[1], g>> /\ c[1] \in {"put", "copy", "record", "remove"}
  BY <1>1, <1>2 DEF Handling
<1>4. x.stage = "running" /\ epoch[d] \in Nat /\ rows[d].version \in Nat
  BY <1>1, <1>2, RowIs DEF FitsAs, StageFits
<1>t. PICK T : T = (x.todo \ {c}) \cup (IF c[1] \in {"put", "copy"} THEN {<<"record", g>>} ELSE {})
  OBVIOUS
<1>5. T \in SUBSET ({"put", "copy", "record", "remove"} \X FileId)
  <2>1. <<"record", g>> \in {"put", "copy", "record", "remove"} \X FileId
    BY <1>3
  <2> QED
    BY <1>2, <1>t, <2>1 DEF Handling
<1>6. y = [x EXCEPT !.todo = T]
  BY <1>1, <1>t
<1>7. /\ y \in Handling /\ y.stage = "running" /\ y.kind = x.kind /\ y.drawing = d
      /\ y.source = x.source
      /\ y.image = x.image /\ y.inline = x.inline /\ y.keep = x.keep /\ y.files = x.files
      /\ y.base = x.base
      /\ y.seen = x.seen /\ y.failed = x.failed /\ y.again = x.again /\ y.since = x.since
      /\ y.read = x.read
      /\ y.tidy = x.tidy /\ y.todo = T
  BY <1>1, <1>2, <1>4, <1>5, <1>6 DEF Handling
<1>8. ASSUME NEW q \in Handler \ {r}
      PROVE  /\ Busy(q) => Steady(req[q], req'[q]) /\ req'[q] \in Handling
             /\ ~ Busy(q) => req'[q] = req[q]
             /\ req[q].kind \in Cleanup /\ req[q].drawing = d /\ Busy(q) => ~ req'[q].tidy
  <2>1. CASE Busy(q) /\ req[q].kind \in Cleanup /\ req[q].drawing = d
    <3>1. req[q] \in Handling /\ req'[q] = [req[q] EXCEPT !.tidy = FALSE]
      BY <1>1, <1>2, <2>1, BusyIs
    <3>2. PICK a : a = req[q]
      OBVIOUS
    <3>3. PICK b : b = [a EXCEPT !.tidy = FALSE]
      OBVIOUS
    <3>4. Steady(a, b) /\ b \in Handling /\ b.tidy = FALSE
      BY <3>1, <3>2, <3>3 DEF Steady, Handling
    <3> QED
      BY <2>1, <3>1, <3>2, <3>3, <3>4
  <2>2. CASE Busy(q) /\ ~ (req[q].kind \in Cleanup /\ req[q].drawing = d)
    <3>1. req[q] \in Handling /\ req'[q] = req[q]
      BY <1>1, <1>2, <2>2, BusyIs
    <3> QED
      BY <2>2, <3>1 DEF Steady
  <2>3. CASE ~ Busy(q)
    BY <1>1, <2>3
  <2> QED
    BY <2>1, <2>2, <2>3
<1>9. OthersWait(r)
  BY <1>8 DEF OthersWait
<1>10. Busy(r)'
  BY <1>1, <1>7 DEF Busy
<1>11. \A q \in Handler : req'[q] \in {Idle, Ended} \/ req'[q] \in Handling
  <2> SUFFICES ASSUME NEW q \in Handler PROVE req'[q] \in {Idle, Ended} \/ req'[q] \in Handling
    OBVIOUS
  <2>1. CASE q = r
    BY <1>1, <1>7, <2>1
  <2>2. CASE q # r /\ Busy(q)
    BY <1>8, <2>2
  <2>3. CASE q # r /\ ~ Busy(q)
    BY <1>2, <1>8, <2>3 DEF StoreTypes
  <2> QED
    BY <2>1, <2>2, <2>3
<1>12. /\ stranded' \in [Drawing -> BOOLEAN] /\ \A e \in Drawing \ {d} : stranded'[e] = stranded[e]
       /\ (stranded[d] => stranded'[d]) /\ (x.kind = "save" /\ ~ rows[d].exists => stranded'[d])
  BY <1>2 DEF StoreTypes, Performs
<1>13. StoreTypes'
  BY <1>1, <1>2, <1>11, <1>12 DEF StoreTypes, Performs
<1>14. \A e \in Drawing \ {d} : SameAt(e)
  BY <1>12 DEF SameAt, Performs
<1> QED
  BY <1>2, <1>3, <1>4, <1>7, <1>8, <1>9, <1>10, <1>12, <1>13, <1>14, <1>t

\* An upload, a copy or a record: nothing is taken away.
LEMMA AddKeeps ==
  ASSUME StoreInv, NEW r \in Handler, NEW c, NEW x, NEW y, NEW d, NEW g, Performs(r, c, x, y, d, g),
         c[1] # "remove"
  PROVE  StoreInv'
<1>1. /\ Busy(r) /\ x = req[r] /\ d = x.drawing /\ c \in x.todo /\ req'[r] = y
      /\ \A f : <<d, f>> \in bucket' <=> <<d, f>> \in bucket \/ (c[1] \in {"put", "copy"} /\ f = g)
      /\ \A f : <<d, f>> \in records' <=> <<d, f>> \in records \/ (c[1] = "record" /\ f = g)
      /\ UNCHANGED <<rows, past, epoch, stale>>
  BY DEF Performs
<1>2. /\ StoreTypes /\ StoreTypes' /\ x \in Handling /\ d \in Drawing /\ FitsAs(x, r)
      /\ g \in FileId
      /\ c = <<c[1], g>> /\ c[1] \in {"put", "copy", "record"}
      /\ x.stage = "running" /\ epoch[d] \in Nat /\ rows[d].version \in Nat
      /\ OthersWait(r) /\ Busy(r)' /\ \A e \in Drawing \ {d} : SameAt(e)
      /\ \A q \in Handler \ {r} : req[q].kind \in Cleanup /\ req[q].drawing = d /\ Busy(q) => ~ req'[q].tidy
      /\ (stranded[d] => stranded'[d]) /\ (x.kind = "save" /\ ~ rows[d].exists => stranded'[d])
  BY PerformTypes
<1>3. /\ y \in Handling /\ y.stage = "running" /\ y.kind = x.kind /\ y.drawing = d
      /\ y.source = x.source
      /\ y.image = x.image /\ y.inline = x.inline /\ y.keep = x.keep /\ y.files = x.files
      /\ y.base = x.base
      /\ y.seen = x.seen /\ y.failed = x.failed /\ y.again = x.again /\ y.since = x.since
      /\ y.todo = (x.todo \ {c}) \cup (IF c[1] \in {"put", "copy"} THEN {<<"record", g>>} ELSE {})
  BY PerformTypes
<1>4. x.kind \in {"save", "create", "duplicate"}
  BY <1>1, <1>2 DEF FitsAs, StageFits, Handling, CallKind, Cleanup
<1>5. Heavier(d)
  BY <1>1 DEF Heavier
<1>6. /\ \A q \in Handler : (Cleans(q) /\ req[q].drawing = d)' <=> (Cleans(q) /\ req[q].drawing = d)
  <2>1. ~ Cleans(r) /\ ~ Cleans(r)'
    BY <1>1, <1>3, <1>4 DEF Cleans, At, Cleanup
  <2> QED
    BY <1>1, <1>2, <2>1, WhoCleans
<1>7. (Cleaning(d)' <=> Cleaning(d)) /\ (Servable(d)' <=> Servable(d))
  <2>1. Cleaning(d)' <=> Cleaning(d)
    BY <1>6 DEF Cleaning
  <2> QED
    BY <1>1, <2>1 DEF Servable
<1>8. Calm(d)
  BY <1>1, <1>2, <1>5, <1>7 DEF Calm
<1>9. PlansWait(r, d)
  <2>1. \A q \in Handler : SoleCleaner(q, d)' <=> SoleCleaner(q, d)
    BY <1>6 DEF SoleCleaner
  <2> QED
    BY <1>1, <1>5, <2>1 DEF PlansWait
<1>10. Swept(r, d)
  <2>1. CASE x.kind = "save"
    BY <1>1, <1>2, <2>1 DEF Swept
  <2>2. CASE x.kind \in New
    <3>1. PICK z : z = y
      OBVIOUS
    <3>2. Clears(z, d)' /\ req'[r] = z
      BY <1>1, <1>3, <2>2, <3>1 DEF Clears
    <3>3. Clears(req[r], d)'
      BY <3>2 DEF Clears
    <3> QED
      BY <1>2, <3>3 DEF Swept
  <2> QED
    BY <1>4, <2>1, <2>2 DEF New
<1>11. RowFits(d)' /\ Kept(d, rows[d].image, epoch[d])'
  <2>1. RowFits(d)'
    BY <1>1, <1>2 DEF StoreInv, StoreShape, RowFits
  <2> QED
    BY <1>1, <1>2, <1>8, <2>1, StillKept
<1>12. StageFits(y)' /\ PlaceFits(y)' /\ TrimFits(y)' /\ SeenFits(y)'
  <2>1. StageFits(x) /\ PlaceFits(x) /\ SeenFits(x)
    BY <1>2 DEF FitsAs
  <2>2. \A b \in y.todo : b \in x.todo \/ b[1] = "record"
    BY <1>3
  <2>3. StageFits(y)'
    BY <1>1, <1>3, <1>4, <2>1, <2>2 DEF StageFits, Cleanup
  <2>4. PlaceFits(y)'
    BY <1>1, <1>2, <1>3, <1>4, <2>1 DEF PlaceFits, New
  <2>5. SeenFits(y)'
    BY <1>1, <1>3, <2>1 DEF SeenFits
  <2>6. TrimFits(y)'
    BY <1>3, <1>4 DEF TrimFits
  <2> QED
    BY <2>3, <2>4, <2>5, <2>6
<1>13. \A f \in FileId : Coming(x, f) => Coming(y, f)'
  <2> SUFFICES ASSUME NEW f \in FileId, Coming(x, f) PROVE Coming(y, f)'
    OBVIOUS
  <2>1. y.image.home[f] = y.drawing
    BY <1>1, <1>3 DEF Coming
  <2>2. CASE c \in {<<"put", f>>, <<"copy", f>>}
    <3>1. f = g /\ c[1] \in {"put", "copy"}
      BY <1>2, <2>2
    <3>2. <<"record", f>> \in y.todo /\ <<d, f>> \in bucket'
      BY <1>1, <1>3, <3>1
    <3> QED
      BY <1>3, <2>1, <3>2 DEF Coming
  <2>3. CASE c \notin {<<"put", f>>, <<"copy", f>>}
    <3>1. <<"put", f>> \in x.todo => <<"put", f>> \in y.todo
      BY <1>3, <2>3
    <3>2. <<"copy", f>> \in x.todo => <<"copy", f>> \in y.todo
      BY <1>3, <2>3
    <3>3. <<"record", f>> \in x.todo => <<"record", f>> \in y.todo \/ <<d, f>> \in records'
      <4>1. c = <<"record", f>> => <<d, f>> \in records'
        BY <1>1, <1>2
      <4> QED
        BY <1>3, <4>1
    <3>4. /\ (<<d, f>> \in bucket => <<d, f>> \in bucket')
          /\ (<<d, f>> \in records => <<d, f>> \in records')
      BY <1>1
    <3> QED
      BY <1>1, <1>3, <2>1, <3>1, <3>2, <3>3, <3>4 DEF Coming
  <2> QED
    BY <2>2, <2>3
<1>14. SaveFits(y)'
  <2> SUFFICES ASSUME x.kind = "save" PROVE SaveFits(y)'
    BY <1>3 DEF SaveFits
  <2>1. SaveFits(x)
    BY <1>2 DEF FitsAs
  <2>2. x.inline \subseteq FileId /\ x.image.scene.files \subseteq FileId
    BY <1>2 DEF Handling, StoredImage
  <2>3. /\ x.since <= epoch[d] /\ \A f \in x.inline : x.image.home[f] = d
        /\ x.seen.version = x.base
        /\ ~ x.again /\ x.base = rows[d].version /\ Servable(d) => x.since = epoch[d]
        /\ ~ x.again /\ x.base = rows[d].version /\ x.keep =>
             ShownFiles(x.image.scene) \subseteq ShownFiles(rows[d].image.scene) \cup rows[d].image.scene.files
    BY <1>1, <1>2, <2>1 DEF SaveFits
  <2>4. ASSUME ~ x.keep, x.since = epoch[d], Servable(d)
        PROVE  /\ ShownFiles(x.image.scene) \subseteq x.image.scene.files
               /\ Owned(d, x.image, x.image.scene.files \ x.inline)'
    <3>1. /\ ShownFiles(x.image.scene) \subseteq x.image.scene.files
          /\ Owned(d, x.image, x.image.scene.files \ x.inline)
      BY <1>1, <2>1, <2>4 DEF SaveFits
    <3> QED
      BY <1>5, <2>2, <3>1 DEF Owned, Heavier
  <2>5. ASSUME ~ x.keep, ~ x.failed, Servable(d), x.base = rows[d].version, NEW f \in x.inline
        PROVE Coming(y, f)'
    <3>1. Coming(x, f)
      BY <1>1, <1>2, <2>1, <2>5 DEF SaveFits
    <3> QED
      BY <1>13, <2>2, <3>1
  <2> QED
    BY <1>1, <1>3, <1>7, <2>3, <2>4, <2>5 DEF SaveFits
<1>15. MakerFits(y)'
  <2>1. MakerFits(x) /\ x.image.scene.files \subseteq FileId
    BY <1>2 DEF FitsAs, Handling, StoredImage
  <2>2. ASSUME x.kind \in New, ~ stale[d], ~ x.failed
        PROVE  ShownFiles(x.image.scene) \subseteq x.image.scene.files /\ \A f \in x.image.scene.files : Coming(y, f)'
    <3>1. ShownFiles(x.image.scene) \subseteq x.image.scene.files /\ \A f \in x.image.scene.files : Coming(x, f)
      BY <1>1, <1>2, <2>1, <2>2 DEF MakerFits
    <3> QED
      BY <1>13, <2>1, <3>1
  <2> QED
    BY <1>1, <1>3, <2>2 DEF MakerFits
<1>16. RestoreFits(y)' /\ CleanupFits(y, r)'
  BY <1>3, <1>4 DEF RestoreFits, CleanupFits, Cleanup
<1>17. Fits(r)'
  <2>1. FitsAs(y, r)'
    BY <1>12, <1>14, <1>15, <1>16 DEF FitsAs
  <2>2. y.kind \in New /\ y.failed => stranded'[y.drawing]
    <3>1. x.kind \in New /\ x.failed => stranded[d]
      BY <1>1, HandlerFits
    <3> QED
      BY <1>2, <1>3, <3>1
  <2> QED
    BY <1>1, <2>1, <2>2, FitsAfter
<1>18. Lighter(d) \/ \A q \in Handler \ {r} : Busy(q) /\ req[q].kind \in Cleanup /\ req[q].drawing = d => ~ req'[q].tidy
  BY <1>2
<1>19. StepFits(r, d)
  BY <1>1, <1>2, <1>3, <1>8, <1>9, <1>10, <1>11, <1>17, <1>18 DEF StepFits
<1> QED
  BY <1>1, <1>19, StepKeeps

\* A removal, by a clean-up or after a drawing was deleted.
LEMMA RemoveKeeps ==
  ASSUME StoreInv, NEW r \in Handler, NEW c, NEW x, NEW y, NEW d, NEW g, Performs(r, c, x, y, d, g),
         c[1] = "remove"
  PROVE  StoreInv'
<1>1. /\ Busy(r) /\ x = req[r] /\ d = x.drawing /\ c \in x.todo /\ req'[r] = y
      /\ \A f : <<d, f>> \in bucket' <=> <<d, f>> \in bucket /\ f # g
      /\ \A f : <<d, f>> \in records' <=> <<d, f>> \in records
      /\ UNCHANGED <<rows, past, epoch, stale>>
  BY DEF Performs
<1>2. /\ StoreTypes /\ StoreTypes' /\ x \in Handling /\ d \in Drawing /\ FitsAs(x, r)
      /\ g \in FileId
      /\ c = <<"remove", g>>
      /\ x.stage = "running" /\ epoch[d] \in Nat /\ rows[d].version \in Nat
      /\ OthersWait(r) /\ Busy(r)' /\ \A e \in Drawing \ {d} : SameAt(e)
      /\ (stranded[d] => stranded'[d])
  BY PerformTypes
<1>3. /\ y \in Handling /\ y.stage = "running" /\ y.kind = x.kind /\ y.drawing = d
      /\ y.source = x.source
      /\ y.image = x.image /\ y.files = x.files /\ y.base = x.base
      /\ y.seen = x.seen /\ y.failed = x.failed /\ y.tidy = x.tidy
      /\ y.todo = x.todo \ {c}
  BY PerformTypes
<1>4. x.kind \in Cleanup \cup {"delete"}
  BY <1>1, <1>2 DEF FitsAs, StageFits, Handling, CallKind, Cleanup
<1>5. Lighter(d)
  BY <1>1 DEF Lighter
<1>6. x.kind \in Cleanup => Cleans(r)' /\ req'[r].drawing = d
  BY <1>1, <1>2, <1>3 DEF Cleans, At
<1>7. x.kind = "delete" => ~ rows[d].exists
  BY <1>1, <1>2 DEF FitsAs, PlaceFits
<1>8. ~ Servable(d)'
  BY <1>1, <1>4, <1>6, <1>7 DEF Servable, Cleaning
<1>9. Calm(d)
  BY <1>1, <1>2, <1>8 DEF Calm
<1>10. PlansWait(r, d)
  <2>1. \A q \in Handler \ {r} : x.kind \in Cleanup => ~ SoleCleaner(q, d)'
    BY <1>6 DEF SoleCleaner
  <2> QED
    BY <1>1, <1>4, <1>7, <2>1 DEF PlansWait
<1>b. /\ \A f : f \in Under(bucket, d) <=> <<d, f>> \in bucket
      /\ \A f : f \in Under(bucket', d) <=> <<d, f>> \in bucket'
      /\ \A f : f \in Under(records, d) <=> <<d, f>> \in records
      /\ \A f : f \in Under(records', d) <=> <<d, f>> \in records'
  <2>1. /\ bucket \subseteq Drawing \X FileId /\ records \subseteq Drawing \X FileId
        /\ bucket' \subseteq Drawing \X FileId /\ records' \subseteq Drawing \X FileId
    BY <1>2 DEF StoreTypes
  <2> QED
    BY <2>1, UnderIs
<1>t. \A f : f # g /\ <<"remove", f>> \in x.todo => <<"remove", f>> \in y.todo
  BY <1>2, <1>3
<1>11. Swept(r, d)
  <2>1. CASE ~ Clears(x, d)
    BY <1>1, <1>2, <1>5, <2>1 DEF Swept
  <2>2. CASE Clears(x, d)
    <3>1. x.kind = "delete" /\ \A f \in Under(bucket, d) : <<"remove", f>> \in x.todo
      BY <1>2, <1>4, <2>2 DEF Clears, New, Cleanup
    <3>2. \A f \in Under(bucket', d) : <<"remove", f>> \in y.todo
      BY <1>1, <1>b, <1>t, <3>1
    <3>3. PICK z : z = y
      OBVIOUS
    <3>4. Clears(z, d)' /\ req'[r] = z
      BY <1>1, <1>3, <3>1, <3>2, <3>3 DEF Clears
    <3>5. Clears(req[r], d)'
      BY <3>4 DEF Clears
    <3> QED
      BY <1>2, <3>5 DEF Swept
  <2> QED
    BY <2>1, <2>2
<1>12. RowFits(d)' /\ Kept(d, rows[d].image, epoch[d])'
  <2>1. RowFits(d)'
    BY <1>1, <1>2 DEF StoreInv, StoreShape, RowFits
  <2> QED
    BY <1>1, <1>2, <1>9, <2>1, StillKept
<1>13. StageFits(y)' /\ PlaceFits(y)' /\ SeenFits(y)'
  <2>1. StageFits(x) /\ PlaceFits(x) /\ SeenFits(x)
    BY <1>2 DEF FitsAs
  <2>2. \A b \in y.todo : b \in x.todo
    BY <1>3
  <2>3. StageFits(y)'
    BY <1>1, <1>3, <1>4, <2>1, <2>2 DEF StageFits, Cleanup
  <2>4. PlaceFits(y)'
    BY <1>1, <1>2, <1>3, <1>4, <2>1 DEF PlaceFits, New, Cleanup
  <2>5. SeenFits(y)'
    BY <1>1, <1>3, <2>1 DEF SeenFits
  <2> QED
    BY <2>3, <2>4, <2>5
<1>14. TrimFits(y)'
  <2> SUFFICES ASSUME x.kind = "trim", x.tidy
               PROVE  /\ Under(records', d) \subseteq ShownFiles(x.image.scene) \cup x.files
                      /\ \A f \in Under(bucket', d) : f \in ShownFiles(x.image.scene) \/ <<"remove", f>> \in y.todo
    BY <1>3 DEF TrimFits
  <2>1. /\ Under(records, d) \subseteq ShownFiles(x.image.scene) \cup x.files
        /\ \A f \in Under(bucket, d) : f \in ShownFiles(x.image.scene) \/ <<"remove", f>> \in x.todo
    BY <1>1, <1>2 DEF FitsAs, TrimFits
  <2> QED
    BY <1>1, <1>b, <1>t, <2>1
<1>15. SaveFits(y)' /\ RestoreFits(y)' /\ MakerFits(y)'
  BY <1>3, <1>4 DEF SaveFits, RestoreFits, MakerFits, Cleanup, New
<1>16. CleanupFits(y, r)'
  <2> SUFFICES ASSUME x.kind \in Cleanup PROVE CleanupFits(y, r)'
    BY <1>3 DEF CleanupFits
  <2>1. CleanupFits(x, r)
    BY <1>2 DEF FitsAs
  <2>2. /\ x.kind = "trim" => x.image.scene.files \subseteq ShownFiles(x.image.scene)
        /\ \A f \in x.image.scene.files : f \notin x.files /\ <<"remove", f>> \notin x.todo
        /\ x.seen.version = rows[d].version =>
           /\ ShownFiles(x.image.scene) \subseteq ShownFiles(rows[d].image.scene)
           /\ ShownFiles(x.image.scene) \cap rows[d].image.scene.files \subseteq x.image.scene.files
           /\ x.image.scene.files \subseteq rows[d].image.scene.files
           /\ x.image.home = rows[d].image.home
        /\ x.seen.version = rows[d].version /\ rows[d].exists /\ ~ stale[d] /\ SoleCleaner(r, d) =>
              /\ ShownFiles(x.image.scene) \subseteq x.image.scene.files
              /\ Owned(d, x.image, x.image.scene.files)
    BY <1>1, <1>2, <2>1 DEF CleanupFits
  <2>3. SoleCleaner(r, d)' => SoleCleaner(r, d)
    BY <1>1, <1>2, WhoCleans
  <2>4. \A f \in x.image.scene.files : f # g
    BY <1>1, <1>2, <2>2
  <2>5. x.seen.version = rows[d].version /\ rows[d].exists /\ ~ stale[d] /\ SoleCleaner(r, d)' =>
          ShownFiles(x.image.scene) \subseteq x.image.scene.files /\ Owned(d, x.image, x.image.scene.files)'
    BY <1>1, <2>2, <2>3, <2>4 DEF Owned
  <2>6. \A f \in x.image.scene.files : <<"remove", f>> \notin y.todo
    BY <1>3, <2>2
  <2> QED
    BY <1>1, <1>3, <2>2, <2>5, <2>6 DEF CleanupFits
<1>17. Fits(r)'
  <2>1. FitsAs(y, r)'
    BY <1>13, <1>14, <1>15, <1>16 DEF FitsAs
  <2>2. y.kind \notin New
    BY <1>3, <1>4 DEF Cleanup, New
  <2> QED
    BY <1>1, <2>1, <2>2, FitsAfter
<1>19. StepFits(r, d)
  BY <1>1, <1>2, <1>3, <1>5, <1>9, <1>10, <1>11, <1>12, <1>17 DEF StepFits
<1> QED
  BY <1>1, <1>19, StepKeeps

LEMMA PerformKeeps ==
  ASSUME StoreInv, NEW r \in Handler, NEW c, Perform(r, c)
  PROVE  StoreInv'
<1>x. PICK x : x = req[r]
  OBVIOUS
<1>d. PICK d : d = x.drawing
  OBVIOUS
<1>g. PICK g : g = c[2]
  OBVIOUS
<1>y. PICK y : y = [x EXCEPT !.todo = (@ \ {c}) \cup (IF c[1] \in {"put", "copy"} THEN {<<"record", g>>} ELSE {})]
  OBVIOUS
<1>1. Performs(r, c, x, y, d, g)
  BY <1>x, <1>d, <1>g, <1>y, PerformIs
<1> QED
  BY <1>1, AddKeeps, RemoveKeeps

LEMMA StoreStart ==
  ASSUME StoreInit
  PROVE  StoreInv
<1>f. PICK f \in FileId :
        rows = [d \in Drawing |->
                 [exists |-> d = First, version |-> IF d = First THEN 1 ELSE 0,
                  image |-> [scene |-> [elements |-> IF d = First THEN Images(f, FALSE) ELSE {},
                                        appState |-> Plain,
                                        files |-> IF d = First THEN {f} ELSE {}],
                             home |-> [g \in FileId |-> d]]]]
  BY DEF StoreInit, Plain
<1>1. /\ First \in Drawing /\ Images(f, FALSE) \in SUBSET Element
      /\ \A e \in Images(f, FALSE) : ImageFile[e] = f
  BY StoreAssumption, ImagesAre
<1>2. \A d \in Drawing :
        /\ rows[d].exists <=> d = First
        /\ rows[d].version = IF d = First THEN 1 ELSE 0
        /\ rows[d].image.scene.files = IF d = First THEN {f} ELSE {}
        /\ rows[d].image.scene.elements = IF d = First THEN Images(f, FALSE) ELSE {}
        /\ \A g \in FileId : rows[d].image.home[g] = d
  BY <1>f
<1>3. rows \in [Drawing -> StoredRow]
  <2> SUFFICES ASSUME NEW d \in Drawing PROVE rows[d] \in StoredRow
    BY <1>f
  <2>1. PICK s : s = [elements |-> IF d = First THEN Images(f, FALSE) ELSE {}, appState |-> Plain,
                      files |-> IF d = First THEN {f} ELSE {}]
    OBVIOUS
  <2>2. s \in [elements : SUBSET Element, appState : {Plain}, files : SUBSET FileId]
    BY <1>1, <2>1
  <2>3. PICK h : h = [g \in FileId |-> d]
    OBVIOUS
  <2>4. h \in [FileId -> Drawing]
    BY <2>3
  <2>5. [scene |-> s, home |-> h] \in StoredImage
    BY <2>2, <2>4 DEF StoredImage
  <2>6. rows[d] = [exists |-> d = First, version |-> IF d = First THEN 1 ELSE 0, image |-> [scene |-> s, home |-> h]]
    BY <1>f, <2>1, <2>3
  <2>7. (d = First) \in BOOLEAN /\ (IF d = First THEN 1 ELSE 0) \in Nat
    OBVIOUS
  <2> QED
    BY <2>5, <2>6, <2>7 DEF StoredRow
<1>4. /\ bucket = {<<First, f>>} /\ records = {<<First, f>>}
  <2>1. rows[First].image.scene.files = {f}
    BY <1>1, <1>2
  <2>2. bucket = {First} \X rows[First].image.scene.files /\ records = bucket
    BY DEF StoreInit
  <2> QED
    BY <2>1, <2>2
<1>5. /\ past = [d \in Drawing |-> {}] /\ req = [r \in Handler |-> Idle]
      /\ epoch = [d \in Drawing |-> 0]
      /\ stale = [d \in Drawing |-> FALSE] /\ stranded = [d \in Drawing |-> FALSE]
  BY DEF StoreInit
<1>6. \A r \in Handler : ~ Busy(r)
  BY <1>5 DEF Busy, Idle
<1>7. StoreTypes
  BY <1>1, <1>3, <1>4, <1>5 DEF StoreTypes
<1>8. StoreShape
  <2>1. ASSUME NEW d \in Drawing PROVE RowFits(d)
    <3>1. (rows[d].exists => rows[d].version = 1) /\ past[d] = {} /\ \A g \in FileId : rows[d].image.home[g] = d
      BY <1>2, <1>5
    <3> QED
      BY <3>1 DEF RowFits
  <2>2. OneMaker
    BY <1>6 DEF OneMaker
  <2> QED
    BY <1>6, <1>7, <2>1, <2>2 DEF StoreShape
<1>9. LeftOversAreCleared
  <2>1. \A d \in Drawing : ~ rows[d].exists => Under(bucket \cup records, d) = {}
    <3> SUFFICES ASSUME NEW d \in Drawing, d # First, NEW g \in Under(bucket \cup records, d)
                 PROVE FALSE
      BY <1>2
    <3>1. bucket \cup records \subseteq Drawing \X FileId
      BY <1>7 DEF StoreTypes
    <3>2. <<d, g>> \in bucket \cup records
      BY <3>1, UnderIs
    <3> QED
      BY <1>4, <3>2
  <2> QED
    BY <1>6, <2>1 DEF LeftOversAreCleared
<1>10. TrimsFit
  BY <1>6 DEF TrimsFit
<1>11. StoreServes
  <2>1. ASSUME NEW d \in Drawing PROVE Kept(d, rows[d].image, epoch[d])
    <3>1. epoch[d] = 0
      BY <1>5
    <3>2. CASE d # First
      <4>1. ~ rows[d].exists
        BY <1>2, <3>2
      <4>2. PICK e : e = epoch[d]
        OBVIOUS
      <4>3. e = 0 /\ 0 <= 0
        BY <3>1, <4>2
      <4> QED
        BY <3>1, <4>1 DEF Kept, Servable
    <3>3. CASE d = First
      <4>1. \A g \in ShownFiles(rows[d].image.scene) : g = f
        <5> SUFFICES ASSUME NEW g \in ShownFiles(rows[d].image.scene) PROVE g = f
          OBVIOUS
        <5>1. PICK e \in rows[d].image.scene.elements : ImageFile[e] = g
          BY ShownIs
        <5> QED
          BY <1>1, <1>2, <3>3, <5>1
      <4>2. rows[d].image.scene.files = {f}
        BY <1>2, <3>3
      <4>3. Owned(d, rows[d].image, rows[d].image.scene.files)
        BY <1>2, <1>4, <3>3, <4>2 DEF Owned
      <4> QED
        BY <3>1, <4>1, <4>2, <4>3 DEF Kept
    <3> QED
      BY <3>2, <3>3
  <2>2. \A d \in Drawing : past[d] = {}
    BY <1>5
  <2> QED
    BY <1>6, <2>1, <2>2 DEF StoreServes
<1> QED
  BY <1>8, <1>9, <1>10, <1>11 DEF StoreInv

LEMMA StoreStill ==
  ASSUME StoreInv, UNCHANGED storeVars
  PROVE  StoreInv'
<1>1. /\ rows' = rows /\ past' = past /\ bucket' = bucket /\ records' = records /\ req' = req
      /\ epoch' = epoch /\ stale' = stale /\ stranded' = stranded
  BY DEF storeVars
<1>2. StoreShape'
  BY <1>1 DEF StoreInv, StoreShape, StoreTypes, OneMaker, RowFits, Busy, StageFits, PlaceFits
<1>3. LeftOversAreCleared'
  <2>1. ASSUME NEW d \in Drawing,
               (~ rows[d].exists /\ ~ stranded[d] /\ Under(bucket \cup records, d) # {})'
        PROVE  \E r \in Handler : (Busy(r) /\ Clears(req[r], d))'
    <3>1. PICK r \in Handler : Busy(r) /\ Clears(req[r], d)
      BY <1>1, <2>1 DEF StoreInv, LeftOversAreCleared
    <3> QED
      BY <1>1, <3>1 DEF Clears, Busy
  <2>2. \A r \in Handler : (Busy(r) /\ req[r].kind \in New /\ req[r].failed => stranded[req[r].drawing])'
    BY <1>1 DEF StoreInv, LeftOversAreCleared, Busy
  <2> QED
    BY <2>1, <2>2 DEF LeftOversAreCleared
<1>4. TrimsFit'
  BY <1>1 DEF StoreInv, TrimsFit, TrimFits, Busy
<1>5. StoreServes'
  <2>1. \A q \in Handler : (Busy(q)' <=> Busy(q)) /\ (Cleans(q)' <=> Cleans(q))
    BY <1>1 DEF Busy, Cleans, At
  <2>2. \A c : (Cleaning(c)' <=> Cleaning(c)) /\ \A q \in Handler : SoleCleaner(q, c)' <=> SoleCleaner(q, c)
    BY <1>1, <2>1 DEF Cleaning, SoleCleaner
  <2>3. \A c : Servable(c)' <=> Servable(c)
    BY <1>1, <2>2 DEF Servable
  <2>4. \A c, i, e : Kept(c, i, e)' <=> Kept(c, i, e)
    BY <1>1, <2>3 DEF Kept, Owned
  <2>5. ASSUME NEW q \in Handler, Busy(q)
        PROVE  SeenFits(req[q])' /\ SaveFits(req[q])' /\ RestoreFits(req[q])' /\ MakerFits(req[q])'
               /\ CleanupFits(req[q], q)'
    <3>x. PICK x : x = req[q]
      OBVIOUS
    <3>1. SeenFits(x) /\ SaveFits(x) /\ RestoreFits(x) /\ MakerFits(x) /\ CleanupFits(x, q)
      BY <2>5, <3>x DEF StoreInv, StoreServes
    <3>2. SeenFits(x)' /\ SaveFits(x)'
      BY <1>1, <2>3, <3>1 DEF SeenFits, SaveFits, Owned, Coming
    <3>3. RestoreFits(x)' /\ MakerFits(x)'
      BY <1>1, <2>4, <3>1 DEF RestoreFits, MakerFits, Coming
    <3>4. CleanupFits(x, q)'
      BY <1>1, <2>2, <3>1 DEF CleanupFits, Owned
    <3> QED
      BY <1>1, <3>x, <3>2, <3>3, <3>4 DEF SeenFits, SaveFits, RestoreFits, MakerFits, CleanupFits,
           Coming
  <2>6. /\ \A d \in Drawing : Kept(d, rows[d].image, epoch[d])'
        /\ \A d \in Drawing : \A p \in past'[d] : Kept(d, p.image, p.epoch)'
    <3>1. ASSUME NEW d \in Drawing PROVE Kept(d, rows[d].image, epoch[d])'
      <4>1. Kept(d, rows[d].image, epoch[d])
        BY DEF StoreInv, StoreServes
      <4> QED
        BY <1>1, <2>3, <4>1 DEF Kept, Owned
    <3>2. \A d \in Drawing : \A p \in past[d] : Kept(d, p.image, p.epoch)
      BY DEF StoreInv, StoreServes
    <3> QED
      BY <1>1, <2>4, <3>1, <3>2
  <2> QED
    BY <2>1, <2>5, <2>6 DEF StoreServes
<1> QED
  BY <1>2, <1>3, <1>4, <1>5 DEF StoreInv

LEMMA StoreStep ==
  ASSUME StoreInv, [StoreNext]_storeVars
  PROVE  StoreInv'
<1>1. CASE UNCHANGED storeVars
  BY <1>1, StoreStill
<1>2. CASE StoreNext
  <2>r. PICK r \in Handler :
    \/ \E d \in Drawing :
         \/ \E f \in FileId : Save(r, d, f) \/ Create(r, d, f)
         \/ \E o \in Drawing : Duplicate(r, o, d)
         \/ Restore(r, d) \/ Trim(r, d) \/ Delete(r, d)
         \/ \E F \in SUBSET FileId : Orphans(r, d, F)
    \/ Busy(r) /\ \E c \in req[r].todo : Perform(r, c) \/ Break(r, c)
    \/ GiveUp(r) \/ HandlerFails(r)
    \/ CheckSave(r) \/ CommitSave(r)
    \/ CloneReferences(r) \/ CreateRow(r) \/ WriteRestore(r)
    \/ ReadRecords(r) \/ ListObjects(r) \/ FindOrphans(r) \/ DropRecords(r) \/ WriteCleanup(r)
    \/ DeleteRow(r) \/ FindKeys(r) \/ ForgetRecords(r)
    BY <1>2 DEF StoreNext
  <2>1. CASE \E d \in Drawing :
         \/ \E f \in FileId : Save(r, d, f) \/ Create(r, d, f)
         \/ \E o \in Drawing : Duplicate(r, o, d)
         \/ Restore(r, d) \/ Trim(r, d) \/ Delete(r, d)
         \/ \E F \in SUBSET FileId : Orphans(r, d, F)
    BY <2>1, SaveKeeps, CreateKeeps, DuplicateKeeps, RestoreKeeps, TrimKeeps, DeleteKeeps,
         OrphansKeep
  <2>2. CASE Busy(r) /\ \E c \in req[r].todo : Perform(r, c) \/ Break(r, c)
    BY <2>2, PerformKeeps, BreakKeeps
  <2>3. CASE GiveUp(r) \/ HandlerFails(r) \/ CheckSave(r) \/ CommitSave(r)
    BY <2>3, GiveUpKeeps, HandlerFailsKeeps, CheckKeeps, CommitKeeps
  <2>4. CASE CloneReferences(r) \/ CreateRow(r) \/ WriteRestore(r)
    BY <2>4, CloneKeeps, CreateRowKeeps, WriteRestoreKeeps
  <2>5. CASE ReadRecords(r) \/ ListObjects(r) \/ FindOrphans(r) \/ DropRecords(r) \/ WriteCleanup(r)
    BY <2>5, ReadKeeps, ListKeeps, FindOrphansKeeps, DropKeeps, WriteCleanupKeeps
  <2>6. CASE DeleteRow(r) \/ FindKeys(r) \/ ForgetRecords(r)
    BY <2>6, DeleteRowKeeps, FindKeysKeeps, ForgetKeeps
  <2> QED
    BY <2>r, <2>1, <2>2, <2>3, <2>4, <2>5, <2>6
<1> QED
  BY <1>1, <1>2

LEMMA StoreInvHolds == StoreSpec => []StoreInv
<1> QED
  BY StoreStart, StoreStep, PTL DEF StoreSpec

(***************************************************************************)
(* Every image that a drawing shows can be served: its file is in the map, *)
(* the object and the S3File row are there - unless a clean-up is under    *)
(* way or an older scene has come back.  StoreServes has it for the row of *)
(* each drawing (Kept), from what the handlers know of what they write.    *)
(***************************************************************************)
THEOREM ImagesAreServed == StoreSpec => []ShownImagesAreServed
<1>1. StoreInv => ShownImagesAreServed
  <2> SUFFICES ASSUME StoreInv, NEW d \in Drawing, rows[d].exists, ~ stale[d], ~ Cleaning(d),
                      NEW f \in ShownFiles(rows[d].image.scene)
               PROVE  f \in rows[d].image.scene.files /\ <<rows[d].image.home[f], f>> \in Served
    BY DEF ShownImagesAreServed
  <2>1. Kept(d, rows[d].image, epoch[d])
    BY DEF StoreInv, StoreServes
  <2> QED
    BY <2>1 DEF Kept, Servable, Owned, Served
<1> QED
  BY <1>1, StoreInvHolds, PTL

\* The steps that write a Drawing row are the last ones of their handlers.
LEMMA WhoWritesRows ==
  ASSUME StoreInv, StoreNext, rows' # rows, NEW r \in Handler,
         At(r, {"trim"}, "dropped"), req'[r] = Ended
  PROVE  WriteCleanup(r)
<1>1. PICK p \in Handler :
        CommitSave(p) \/ CreateRow(p) \/ WriteRestore(p) \/ WriteCleanup(p) \/ DeleteRow(p)
  <2> SUFFICES ASSUME ~ \E p \in Handler :
                        CommitSave(p) \/ CreateRow(p) \/ WriteRestore(p) \/ WriteCleanup(p) \/ DeleteRow(p)
               PROVE  FALSE
    OBVIOUS
  <2>1. PICK p \in Handler :
    \/ \E d \in Drawing :
         \/ \E f \in FileId : Save(p, d, f) \/ Create(p, d, f)
         \/ \E o \in Drawing : Duplicate(p, o, d)
         \/ Restore(p, d) \/ Trim(p, d) \/ Delete(p, d)
         \/ \E F \in SUBSET FileId : Orphans(p, d, F)
    \/ Busy(p) /\ \E c \in req[p].todo : Perform(p, c) \/ Break(p, c)
    \/ GiveUp(p) \/ HandlerFails(p)
    \/ CheckSave(p) \/ CloneReferences(p)
    \/ ReadRecords(p) \/ ListObjects(p) \/ FindOrphans(p) \/ DropRecords(p)
    \/ FindKeys(p) \/ ForgetRecords(p)
    BY DEF StoreNext
  <2>2. ~ \E d \in Drawing :
         \/ \E f \in FileId : Save(p, d, f) \/ Create(p, d, f)
         \/ \E o \in Drawing : Duplicate(p, o, d)
         \/ Restore(p, d) \/ Trim(p, d) \/ Delete(p, d)
         \/ \E F \in SUBSET FileId : Orphans(p, d, F)
    BY DEF Save, Create, Duplicate, Restore, Trim, Delete, Orphans, Start
  <2>3. ~ (Busy(p) /\ \E c \in req[p].todo : Perform(p, c) \/ Break(p, c))
    BY DEF Perform, Break
  <2>4. ~ (GiveUp(p) \/ HandlerFails(p) \/ CheckSave(p) \/ CloneReferences(p))
    BY DEF GiveUp, HandlerFails, CheckSave, Conflicts, CloneReferences
  <2>5. ~ (ReadRecords(p) \/ ListObjects(p) \/ FindOrphans(p) \/ DropRecords(p) \/ FindKeys(p) \/ ForgetRecords(p))
    BY DEF ReadRecords, ListObjects, FindOrphans, Removes, DropRecords, FindKeys, ForgetRecords
  <2> QED
    BY <2>1, <2>2, <2>3, <2>4, <2>5
<1>2. p = r
  <2>1. \E x : req' = [req EXCEPT ![p] = x]
    BY <1>1 DEF CommitSave, Conflicts, CreateRow, WriteRestore, WriteCleanup, DeleteRow, Finish,
         Becomes
  <2>2. req[r] # Ended
    BY DEF At, Busy, Ended
  <2> QED
    BY <2>1, <2>2
<1>3. ~ (CommitSave(r) \/ CreateRow(r) \/ WriteRestore(r) \/ DeleteRow(r))
  BY DEF At, Ready, CommitSave, CreateRow, WriteRestore, DeleteRow
<1> QED
  BY <1>1, <1>2, <1>3

LEMMA TrimsLeaveOnlyShown ==
  ASSUME StoreInv, StoreNext, rows' # rows, NEW r \in Handler,
         At(r, {"trim"}, "dropped"), req[r].tidy, req'[r] = Ended
  PROVE  LET d == req[r].drawing IN Under(bucket' \cup records', d) \subseteq ShownFiles(rows'[d].image.scene)
<1>1. WriteCleanup(r)
  BY WhoWritesRows
<1>x. PICK x : x = req[r]
  OBVIOUS
<1>d. PICK d : d = x.drawing
  OBVIOUS
<1>2. x \in Handling /\ d \in Drawing
  BY <1>x, <1>d, BusyIs DEF At, StoreInv, StoreShape, Handling
<1>3. rows[d].exists /\ bucket' = bucket /\ records' = records
  BY <1>1, <1>x, <1>d DEF WriteCleanup
<1>4. rows'[d].image = x.image
  <2>1. Replace(d, x.image, {}, 0)
    BY <1>1, <1>3, <1>x, <1>d DEF WriteCleanup
  <2>2. rows \in [Drawing -> StoredRow]
    BY DEF StoreInv, StoreShape, StoreTypes
  <2> QED
    BY <1>2, <2>1, <2>2 DEF Replace, StoredRow
<1>5. /\ Under(records, d) \subseteq ShownFiles(x.image.scene)
      /\ Under(bucket, d) \subseteq ShownFiles(x.image.scene)
  <2>1. TrimFits(x)
    BY <1>x DEF StoreInv, TrimsFit, At
  <2> QED
    BY <2>1, <1>x, <1>d DEF TrimFits, At
<1>6. Under(bucket \cup records, d) \subseteq Under(bucket, d) \cup Under(records, d)
  BY DEF Under
<1> QED
  BY <1>3, <1>4, <1>5, <1>6, <1>x, <1>d

(***************************************************************************)
(* Nothing of a drawing that is gone stays in the bucket or in the S3File  *)
(* rows, and a trim that nothing disturbs leaves only what is shown: a     *)
(* DELETE whose now is gone has every key still to remove (LeftOversAre-   *)
(* Cleared), a trim every object that the drawing does not show            *)
(* (TrimsFit).                                                             *)
(***************************************************************************)
THEOREM NothingStays == StoreSpec => NothingIsLeftBehind
<1>1. StoreInv => DeletedDrawingsLeaveNothing
  <2> SUFFICES ASSUME StoreInv, NEW d \in Drawing, ~ rows[d].exists, About(d) = {}, ~ stranded[d],
                      Under(bucket \cup records, d) # {}
               PROVE  FALSE
    BY DEF DeletedDrawingsLeaveNothing
  <2>1. PICK r \in Handler : Busy(r) /\ Clears(req[r], d)
    BY DEF StoreInv, LeftOversAreCleared
  <2> QED
    BY <2>1 DEF Clears, About
<1>2. ASSUME StoreInv, [StoreNext]_storeVars
      PROVE  [\A r \in Handler :
                At(r, {"trim"}, "dropped") /\ req[r].tidy /\ req'[r] = Ended /\ rows' # rows =>
                  LET d == req[r].drawing IN
                    Under(bucket' \cup records', d) \subseteq ShownFiles(rows'[d].image.scene)]_storeVars
  BY <1>2, TrimsLeaveOnlyShown
<1> QED
  BY <1>1, <1>2, StoreInvHolds, PTL DEF StoreSpec, NothingIsLeftBehind, TrimLeavesOnlyShown
=============================================================================
