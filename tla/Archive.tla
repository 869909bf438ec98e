------------------------------- MODULE Archive -------------------------------
(***************************************************************************)
(* A backup of one account: the export that writes it, and the import that *)
(* merges it into an account, on the settings page and on the server.      *)
(*                                                                         *)
(* The export reads the drawings and then the collections.  The import     *)
(* looks up, drawing by drawing, whether the id in the backup is free or   *)
(* the importer's own (else it takes a new one), uploads the files under   *)
(* that id, and writes everything in one transaction, in which it looks    *)
(* again.  Between the two looks the other user may import the same backup.*)
(*                                                                         *)
(* A legacy database file (legacySqliteImportRoutes.ts) is merged by these *)
(* steps too, but for the trash, which is ensured there only for a drawing *)
(* whose collectionId is "trash"; the model has the backup's rule.         *)
(*                                                                         *)
(* Left out: names, the version a drawing is given, the files of a drawing *)
(* (ObjectStore has them), the unpacking and validation of what is         *)
(* uploaded.  A new uuid for u's copy of x is written <<u, x>>.            *)
(***************************************************************************)
EXTENDS Naturals

CONSTANTS
  Holder,      \* accounts
  Exporter,    \* the one whose backup it is
  Drawing,     \* the ids the exporter's drawings begin with
  OldFolder,   \* the ids the exporter's collections begin with
  Scene,       \* scenes
  NoFolder,    \* "Unorganized"
  Nobody,      \* the owner of an id that no row has
  MaxChanges   \* bound on what users do besides

ASSUME ArchiveConstants == Exporter \in Holder /\ Nobody \notin Holder /\ MaxChanges \in Nat

Id       == Drawing \cup (Holder \X Drawing)
TrashOf(u) == <<u, "trash">>
FolderId == OldFolder \cup (Holder \X OldFolder) \cup {TrashOf(u) : u \in Holder}

\* New ids are new, and neither an id nor the trash is taken for another.
ASSUME IdsApart ==
  /\ Drawing \cap (Holder \X Drawing) = {}
  /\ OldFolder \cap (Holder \X OldFolder) = {}
  /\ "trash" \notin OldFolder
  /\ \A u \in Holder \cup {Nobody} : TrashOf(u) \notin OldFolder
  /\ NoFolder \notin FolderId

VARIABLES
  owner,    \* owner[i]: whose drawing i is
  scene,    \* scene[i]: what it shows
  place,    \* place[i]: the collection it is in
  keeper,   \* keeper[f]: whose collection f is
  backup,   \* [phase, rows, folders]: the archive
  restore,  \* restore[u]: u's import, [phase, final]
  changes   \* how often users have changed something

drawings == <<owner, scene, place>>
archive  == <<owner, scene, place, keeper, backup, restore, changes>>

\* toPublicTrashCollectionId: in a backup the trash is just the trash.
Public(f, u) == IF f = TrashOf(u) THEN TrashOf(Nobody) ELSE f

ArchiveInit ==
  /\ owner = [i \in Id |-> IF i \in Drawing THEN Exporter ELSE Nobody]
  /\ scene \in {[i \in Id |-> s] : s \in Scene}
  /\ keeper \in [FolderId -> Holder \cup {Nobody}]
  /\ \A f \in FolderId : \/ f \in OldFolder /\ keeper[f] # Nobody
                         \/ f = TrashOf(Exporter) /\ keeper[f] = Exporter
                         \/ f \notin OldFolder \cup {TrashOf(Exporter)} /\ keeper[f] = Nobody
  /\ place \in [Id -> FolderId \cup {NoFolder}]
  /\ \A i \in Id : IF i \in Drawing THEN place[i] \in OldFolder \cup {TrashOf(Exporter), NoFolder} ELSE place[i] = NoFolder
  /\ backup = [phase |-> "none", rows |-> {}, folders |-> {}]
  /\ restore = [u \in Holder |-> [phase |-> "idle", final |-> <<>>]]
  /\ changes = 0

----------------------------------------------------------------------------
(* GET /export/excalidash.                                                 *)

ReadDrawings ==
  /\ backup.phase = "none"
  /\ backup' = [backup EXCEPT !.phase = "half",
                 !.rows = {[id |-> i, scene |-> scene[i], place |-> Public(place[i], Exporter)] :
                             i \in {j \in Id : owner[j] = Exporter}}]
  /\ UNCHANGED <<drawings, keeper, restore, changes>>

ReadFolders ==
  /\ backup.phase = "half"
  /\ backup' = [backup EXCEPT !.phase = "written",
                 !.folders = {Public(f, Exporter) : f \in {g \in FolderId : keeper[g] = Exporter}}]
  /\ UNCHANGED <<drawings, keeper, restore, changes>>

----------------------------------------------------------------------------
(* Settings: choose a file, have it verified, confirm.  Verifying reads.   *)

Phase(u, from, to) == restore[u].phase = from /\ restore' = [restore EXCEPT ![u].phase = to]

Verify(u) ==
  /\ backup.phase = "written"
  /\ Phase(u, "idle", "confirm")
  /\ UNCHANGED <<drawings, keeper, backup, changes>>

Cancel(u) ==
  /\ Phase(u, "confirm", "idle")
  /\ UNCHANGED <<drawings, keeper, backup, changes>>

ConfirmImport(u) ==
  /\ Phase(u, "confirm", "looking")
  /\ UNCHANGED <<drawings, keeper, backup, changes>>

----------------------------------------------------------------------------
(* POST /import/excalidash.                                                *)

\* The first look: an id of somebody else's drawing is replaced.
LookUp(u) ==
  /\ restore[u].phase = "looking"
  /\ \E r \in backup.rows :
       /\ r.id \notin DOMAIN restore[u].final
       /\ restore' = [restore EXCEPT ![u].final =
            [i \in DOMAIN @ \cup {r.id} |->
               IF i # r.id THEN @[i] ELSE IF owner[i] \in {Nobody, u} THEN i ELSE <<u, i>>]]
  /\ UNCHANGED <<drawings, keeper, backup, changes>>

\* The collection that f of the backup becomes in u's account.
Becomes(u, f) ==
  CASE f = TrashOf(Nobody)       -> TrashOf(u)
    [] f # TrashOf(Nobody) /\ f \in backup.folders ->
         (IF keeper[f] \in {Nobody, u} THEN f ELSE <<u, f>>)
    [] OTHER                     -> NoFolder

NeedsTrash == TrashOf(Nobody) \in backup.folders \cup {r.place : r \in backup.rows}

FoldersMade(u) == {Becomes(u, f) : f \in backup.folders} \cup (IF NeedsTrash THEN {TrashOf(u)} ELSE {})

\* Defect: the first look is trusted.
TargetOfFirstLook(u, r) == restore[u].final[r.id]

\* The second look, in the transaction: the row that drawing r of the backup is written to.
Target(u, r) ==
  CASE owner[r.id] = Nobody           -> restore[u].final[r.id]
    [] owner[r.id] = u                -> r.id
    [] owner[r.id] \notin {Nobody, u} -> <<u, r.id>>

Commit(u) ==
  LET From(i) == CHOOSE r \in backup.rows : Target(u, r) = i
      written == {Target(u, r) : r \in backup.rows}
  IN  /\ DOMAIN restore[u].final = {r.id : r \in backup.rows}
      /\ Phase(u, "looking", "done")
      /\ keeper' = [f \in FolderId |-> IF f \in FoldersMade(u) THEN u ELSE keeper[f]]
      /\ owner' = [i \in Id |-> IF i \in written THEN u ELSE owner[i]]
      /\ scene' = [i \in Id |-> IF i \in written THEN From(i).scene ELSE scene[i]]
      /\ place' = [i \in Id |-> IF i \in written THEN Becomes(u, From(i).place) ELSE place[i]]
      /\ UNCHANGED <<backup, changes>>

\* The archive does not unpack, or the transaction fails.
Refuse(u) ==
  /\ Phase(u, "looking", "failed")
  /\ UNCHANGED <<drawings, keeper, backup, changes>>

----------------------------------------------------------------------------
(* What users do meanwhile.                                                *)

Change == changes < MaxChanges /\ changes' = changes + 1 /\ UNCHANGED <<backup, restore>>

Edit(i, s) ==
  /\ owner[i] # Nobody /\ scene[i] # s /\ Change
  /\ scene' = [scene EXCEPT ![i] = s]
  /\ UNCHANGED <<owner, place, keeper>>

\* DELETE /drawings/:id.  What an unused id shows does not matter.
Discard(i) ==
  /\ owner[i] # Nobody /\ Change
  /\ owner' = [owner EXCEPT ![i] = Nobody]
  /\ place' = [place EXCEPT ![i] = NoFolder]
  /\ UNCHANGED <<scene, keeper>>

Move(i, f) ==
  /\ owner[i] # Nobody /\ place[i] # f /\ Change
  /\ f # NoFolder => keeper[f] = owner[i]
  /\ place' = [place EXCEPT ![i] = f]
  /\ UNCHANGED <<owner, scene, keeper>>

\* DELETE /collections/:id: its drawings become unorganized.
DropFolder(f) ==
  /\ keeper[f] # Nobody /\ (\A u \in Holder : f # TrashOf(u)) /\ Change
  /\ keeper' = [keeper EXCEPT ![f] = Nobody]
  /\ place' = [i \in Id |-> IF place[i] = f THEN NoFolder ELSE place[i]]
  /\ UNCHANGED <<owner, scene>>

ArchiveNext ==
  \/ ReadDrawings \/ ReadFolders
  \/ \E u \in Holder : Verify(u) \/ Cancel(u) \/ ConfirmImport(u) \/ LookUp(u) \/ Commit(u) \/ Refuse(u)
  \/ \E i \in Id : Discard(i) \/ (\E s \in Scene : Edit(i, s)) \/ \E f \in FolderId \cup {NoFolder} : Move(i, f)
  \/ \E f \in FolderId : DropFolder(f)

----------------------------------------------------------------------------
(* An import leaves every other user's drawings and collections as they    *)
(* are, touches of the importer's own drawings those of the backup only,   *)
(* and afterwards the importer has each drawing of the backup, showing     *)
(* what the backup holds, in a collection of the importer's own - not      *)
(* unorganized when the backup has its collection: whatever became of the  *)
(* ids since they were looked up (excalidashImportRoutes.ts:43).           *)
Restored(u) ==
  /\ \A i \in Id : owner[i] \notin {Nobody, u} => owner'[i] = owner[i] /\ scene'[i] = scene[i] /\ place'[i] = place[i]
  /\ \A f \in FolderId : keeper[f] \notin {Nobody, u} => keeper'[f] = keeper[f]
  /\ \A i \in Id : owner[i] = u /\ (\A r \in backup.rows : i # r.id) => scene'[i] = scene[i] /\ place'[i] = place[i]
  /\ \A r \in backup.rows : \E i \in {r.id, <<u, r.id>>} :
       /\ owner'[i] = u /\ scene'[i] = r.scene
       /\ place'[i] # NoFolder => keeper'[place'[i]] = u
       /\ r.place \in backup.folders => place'[i] # NoFolder

ImportRestores == [][\A u \in Holder : restore[u].phase # "done" /\ restore'[u].phase = "done" => Restored(u)]_archive
=============================================================================
