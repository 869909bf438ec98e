----------------------------- MODULE ObjectStore -----------------------------
(***************************************************************************)
(* The images of an account's drawings in the object store: the objects    *)
(* under a prefix per drawing (s3.ts), the S3File rows that name them, and *)
(* the Drawing rows whose file map refers to them.  Saves and new drawings *)
(* upload (fileProcessing.ts), a duplicate copies, trim, orphan deletion   *)
(* and DELETE remove.  Bucket, S3File and Drawing are written one after    *)
(* the other, every step may fail, and any other request may come between. *)
(***************************************************************************)
EXTENDS StoragePlans, Naturals

CONSTANTS
  Drawing,
  Handler,
  First,     \* the drawing there is at the start
  MaxFail    \* bound: statements and S3 commands that fail

ASSUME StoreAssumption == First \in Drawing /\ MaxFail \in Nat

VARIABLES
  rows,      \* the Drawing rows; home[f] is the drawing whose object an entry refers to
  past,      \* the DrawingSnapshot rows of each drawing
  bucket,    \* the objects: {prefix}/{userId}/{drawing}/{file}
  records,   \* the S3File rows
  req,       \* the handlers
  fails,
  epoch,     \* history: how often a clean-up of the drawing began or ended
  stale,     \* history: the drawing may show what a clean-up took away
  stranded   \* history: objects of the drawing may stay after it

storeVars == <<rows, past, bucket, records, req, fails, epoch, stale, stranded>>

ShownFiles(s) == CollectReferencedFileIds(s.elements, FALSE)
Images(f, deleted) == {e \in DOMAIN ImageFile : ImageFile[e] = f /\ (e \in Deleted <=> deleted)}
Served == bucket \cap records
Under(keys, d) == {k[2] : k \in {j \in keys : j[1] = d}}

Idle == [stage |-> "idle"]
Ended == [stage |-> "done"]

\* image: what is going to be written; inline: its files that carry their data;
\* keep: the row's file map is left as it is
NewCall(kind, d, image, inline, keep) ==
  [stage |-> "asked", kind |-> kind, drawing |-> d, source |-> d, image |-> image,
   inline |-> inline, keep |-> keep, files |-> {}, base |-> rows[d].version,
   seen |-> rows[d], todo |-> {}, failed |-> FALSE, again |-> FALSE,
   since |-> epoch[d], read |-> epoch[d], tidy |-> TRUE]

Busy(r) == req[r].stage \notin {"idle", "done"}
At(r, kinds, stage) == Busy(r) /\ req[r].kind \in kinds /\ req[r].stage = stage
Cleanup == {"trim", "orphans"}
Cleans(r) == At(r, Cleanup, "running") \/ At(r, Cleanup, "dropped")
Cleaning(d) == \E r \in Handler : Cleans(r) /\ req[r].drawing = d
About(d) == {r \in Handler : Busy(r) /\ d \in {req[r].drawing, req[r].source}}

Becomes(r, call) == req' = [req EXCEPT ![r] = call]
Finish(r) == Becomes(r, Ended)

Start(r, call) ==
  /\ req[r] = Idle
  /\ Becomes(r, call)
  /\ UNCHANGED <<rows, past, bucket, records, fails, epoch, stale, stranded>>

StoreInit ==
  /\ \E f \in FileId :
       rows = [d \in Drawing |->
                [exists |-> d = First, version |-> IF d = First THEN 1 ELSE 0,
                 image |-> [scene |-> [elements |-> IF d = First THEN Images(f, FALSE) ELSE {},
                                       appState |-> CHOOSE a \in AppState : TRUE,
                                       files |-> IF d = First THEN {f} ELSE {}],
                            home |-> [g \in FileId |-> d]]]]
  /\ past = [d \in Drawing |-> {}]
  /\ bucket = {First} \X rows[First].image.scene.files
  /\ records = bucket
  /\ req = [r \in Handler |-> Idle]
  /\ fails = 0
  /\ epoch = [d \in Drawing |-> 0]
  /\ stale = [d \in Drawing |-> FALSE] /\ stranded = [d \in Drawing |-> FALSE]

-----------------------------------------------------------------------------
(***************************************************************************)
(* The requests.  A page has read the row when it saves: it inserts an     *)
(* image, deletes one or takes a deletion back, and sends its file map     *)
(* only when there are new files.                                          *)
(***************************************************************************)
Save(r, d, f) ==
  LET image == rows[d].image
      s == image.scene
      Draws(E) == [image EXCEPT !.scene.elements = E] IN
    /\ rows[d].exists
    /\ \/ /\ f \notin s.files
          /\ Start(r, NewCall("save", d,
               [scene |-> [s EXCEPT !.elements = @ \cup Images(f, FALSE), !.files = @ \cup {f}],
                home |-> [image.home EXCEPT ![f] = d]], {f}, FALSE))
       \/ /\ f \in ShownFiles(s)
          /\ Start(r, NewCall("save", d,
               Draws((s.elements \ Images(f, FALSE)) \cup Images(f, TRUE)), {}, TRUE))
       \/ /\ f \in s.files /\ Images(f, TRUE) \subseteq s.elements
          /\ Start(r, NewCall("save", d,
               Draws((s.elements \ Images(f, TRUE)) \cup Images(f, FALSE)), {}, TRUE))

\* The id of a new drawing is made up by the handler.
Fresh(d) ==
  rows[d].version = 0 /\ About(d) = {} /\ ~ stranded[d]

Create(r, d, f) ==
  /\ Fresh(d)
  /\ Start(r, [NewCall("create", d,
       [rows[d].image EXCEPT !.scene.elements = Images(f, FALSE), !.scene.files = {f}],
       {f}, FALSE) EXCEPT !.stage = "running", !.todo = {<<"put", f>>}])

Duplicate(r, source, d) ==
  /\ rows[source].exists /\ Fresh(d)
  /\ Start(r, [NewCall("duplicate", source, rows[source].image, {}, FALSE) EXCEPT !.drawing = d])

Restore(r, d) ==
  /\ rows[d].exists
  /\ \E p \in past[d] : Start(r, [NewCall("restore", d, p.image, {}, FALSE) EXCEPT !.since = p.epoch])

Trim(r, d) ==
  /\ rows[d].exists
  /\ Start(r, NewCall("trim", d, [rows[d].image EXCEPT !.scene = TrimPlan(@)], {}, FALSE))

Orphans(r, d, F) ==
  /\ rows[d].exists
  /\ F # {} /\ BlockedIds(rows[d].image.scene, F) = {}
  /\ Start(r, [NewCall("orphans", d,
       [rows[d].image EXCEPT !.scene = OrphanDeletePlan(@, F)], {}, FALSE) EXCEPT !.files = F])

Delete(r, d) == rows[d].exists /\ Start(r, NewCall("delete", d, rows[d].image, {}, FALSE))

-----------------------------------------------------------------------------
(***************************************************************************)
(* S3 commands and the rows that go with them, up to eight at once.        *)
(***************************************************************************)
Perform(r, c) ==
  LET d == req[r].drawing
      k == <<d, c[2]>>
      next == IF c[1] \in {"put", "copy"} THEN {<<"record", c[2]>>} ELSE {} IN
    /\ Busy(r) /\ c \in req[r].todo
    /\ c[1] = "copy" => <<req[r].source, c[2]>> \in bucket
    /\ bucket' = CASE c[1] \in {"put", "copy"} -> bucket \cup {k}
                   [] c[1] = "remove" -> bucket \ {k}
                   [] OTHER -> bucket
    /\ records' = IF c[1] = "record" THEN records \cup {k} ELSE records
    /\ req' = [q \in Handler |->
                 IF q = r THEN [req[r] EXCEPT !.todo = (@ \ {c}) \cup next]
                 ELSE IF Busy(q) /\ req[q].kind \in Cleanup /\ req[q].drawing = d THEN [req[q] EXCEPT !.tidy = FALSE]
                 ELSE req[q]]
    \* an upload that DELETE does not know of
    /\ stranded' = [stranded EXCEPT ![d] = @ \/ (req[r].kind = "save" /\ ~ rows[d].exists)]
    /\ UNCHANGED <<rows, past, fails, epoch, stale>>

\* The first that fails rejects the handler, though the others go on; a
\* removal that fails is only counted.
Break(r, c) ==
  /\ Busy(r) /\ c \in req[r].todo
  /\ \/ fails < MaxFail /\ fails' = fails + 1
     \/ c[1] = "copy" /\ <<req[r].source, c[2]>> \notin bucket /\ UNCHANGED fails
  /\ Becomes(r, [req[r] EXCEPT !.todo = @ \ {c}, !.failed = @ \/ c[1] # "remove", !.tidy = FALSE])
  /\ stranded' = [stranded EXCEPT ![req[r].drawing] =
                    @ \/ req[r].kind \in {"create", "duplicate", "delete"}]
  /\ UNCHANGED <<rows, past, bucket, records, epoch, stale>>

\* The handler has been rejected, and what it had begun is over.
GiveUp(r) ==
  /\ Busy(r) /\ req[r].failed /\ req[r].todo = {}
  /\ Finish(r)
  /\ UNCHANGED <<rows, past, bucket, records, fails, epoch, stale, stranded>>

Ready(r, kinds) == At(r, kinds, "running") /\ ~ req[r].failed /\ req[r].todo = {}

\* A database statement fails, or the process dies, between two steps.
HandlerFails(r) ==
  LET d == req[r].drawing IN
    /\ Busy(r) /\ req[r].todo = {} /\ fails < MaxFail
    /\ fails' = fails + 1
    /\ Finish(r)
    /\ stale' = [stale EXCEPT ![d] = @ \/ Cleans(r)]
    /\ stranded' = [stranded EXCEPT ![d] = @ \/ (req[r].kind \in {"create", "duplicate", "delete"} /\ req[r].stage # "asked")]
    /\ UNCHANGED <<rows, past, bucket, records, epoch>>

-----------------------------------------------------------------------------
(***************************************************************************)
(* PUT /drawings/:id, which the page sends again, once, after a 409.       *)
(***************************************************************************)
Conflicts(r) ==
  LET d == req[r].drawing IN
    /\ IF rows[d].exists /\ ~ req[r].again
         THEN Becomes(r, [req[r] EXCEPT !.stage = "asked", !.base = rows[d].version, !.again = TRUE])
         ELSE Finish(r)
    /\ UNCHANGED <<rows, past, bucket, records, fails, epoch, stale, stranded>>

IsCurrent(r) == rows[req[r].drawing].exists /\ rows[req[r].drawing].version = req[r].base

CheckSave(r) ==
  /\ At(r, {"save"}, "asked")
  /\ IF IsCurrent(r)
       THEN /\ Becomes(r, [req[r] EXCEPT !.stage = "running", !.seen = rows[req[r].drawing],
                                         !.todo = {<<"put", f>> : f \in req[r].inline}])
            /\ UNCHANGED <<rows, past, bucket, records, fails, epoch, stale, stranded>>
       ELSE Conflicts(r)

\* Writes the row, and keeps what it replaces, as the handler read it.
Replace(d, image, replaced, at) ==
  /\ rows' = [rows EXCEPT ![d].image = image, ![d].version = @ + 1]
  /\ past' = [past EXCEPT ![d] = @ \cup {[image |-> p, epoch |-> at] : p \in replaced}]

CommitSave(r) ==
  LET d == req[r].drawing IN
    /\ Ready(r, {"save"})
    /\ IF IsCurrent(r)
         THEN /\ Replace(d, IF req[r].keep
                              THEN [req[r].image EXCEPT !.scene.files = rows[d].image.scene.files,
                                                        !.home = rows[d].image.home]
                              ELSE req[r].image, {req[r].seen.image}, epoch[d])
              /\ Finish(r)
              \* sent again without its files, or although a clean-up came between
              /\ stale' = [stale EXCEPT ![d] = @ \/ (req[r].again /\ (req[r].keep \/ req[r].since # epoch[d]))]
              /\ UNCHANGED <<bucket, records, fails, epoch, stranded>>
         ELSE Conflicts(r)

-----------------------------------------------------------------------------
(***************************************************************************)
(* POST /drawings, POST /drawings/:id/duplicate and                        *)
(* POST /drawings/:id/history/:snapshotId/restore.                         *)
(***************************************************************************)
\* Defect: the copy shares the objects of the original.
ShareReferences(r) ==
  /\ At(r, {"duplicate"}, "asked")
  /\ Becomes(r, [req[r] EXCEPT !.stage = "running"])
  /\ UNCHANGED <<rows, past, bucket, records, fails, epoch, stale, stranded>>

\* cloneS3FileReferences: a file without a record keeps its reference.
CloneReferences(r) ==
  LET d == req[r].drawing  o == req[r].source  found == Under(records, o) IN
    /\ At(r, {"duplicate"}, "asked")
    /\ Becomes(r, [req[r] EXCEPT !.stage = "running", !.todo = {<<"copy", f>> : f \in found},
                     !.image.home = [f \in FileId |-> IF f \in found THEN d ELSE @[f]]])
    \* the original was deleted or cleaned up since it was read
    /\ stale' = [stale EXCEPT ![d] =
                   stale[o] \/ ~ rows[o].exists \/ Cleaning(o) \/ epoch[o] # req[r].since]
    /\ UNCHANGED <<rows, past, bucket, records, fails, epoch, stranded>>

CreateRow(r) ==
  /\ Ready(r, {"create", "duplicate"})
  /\ rows' = [rows EXCEPT ![req[r].drawing] = [exists |-> TRUE, version |-> 1, image |-> req[r].image]]
  /\ Finish(r)
  /\ UNCHANGED <<past, bucket, records, fails, epoch, stale, stranded>>

\* The back-up, and the update without a condition; one step here, see DrawingStore.
WriteRestore(r) ==
  LET d == req[r].drawing IN
    /\ At(r, {"restore"}, "asked")
    /\ IF rows[d].exists
         THEN /\ Replace(d, req[r].image, {req[r].seen.image}, req[r].read)
              \* what comes back may be older than a clean-up
              /\ stale' = [stale EXCEPT ![d] = @ \/ req[r].since # epoch[d]]
         ELSE UNCHANGED <<rows, past, stale>>
    /\ Finish(r)
    /\ UNCHANGED <<bucket, records, fails, epoch, stranded>>

-----------------------------------------------------------------------------
(***************************************************************************)
(* POST /drawings/:id/trim and DELETE /drawings/:id/files/orphans.         *)
(***************************************************************************)
ReadRecords(r) ==
  /\ At(r, {"trim"}, "asked")
  /\ Becomes(r, [req[r] EXCEPT !.stage = "recorded",
                   !.files = Under(records, req[r].drawing) \ ShownFiles(req[r].image.scene)])
  /\ UNCHANGED <<rows, past, bucket, records, fails, epoch, stale, stranded>>

\* Defect: objects without a record are not looked for.
OrphanFilesOfRecords(r) == req[r].files

\* buildTrimS3CleanupPlan
OrphanFiles(r) == req[r].files \cup (Under(bucket, req[r].drawing) \ ShownFiles(req[r].image.scene))

Removals(files) == {<<"remove", f>> : f \in files}

Removes(r, files) ==
  /\ Becomes(r, [req[r] EXCEPT !.stage = "running", !.todo = Removals(files)])
  /\ epoch' = [epoch EXCEPT ![req[r].drawing] = @ + 1]
  /\ UNCHANGED <<rows, past, bucket, records, fails, stale, stranded>>

ListObjects(r) == At(r, {"trim"}, "recorded") /\ Removes(r, OrphanFiles(r))

\* Only the objects that the records name.
FindOrphans(r) ==
  At(r, {"orphans"}, "asked") /\ Removes(r, req[r].files \cap Under(records, req[r].drawing))

DropRecords(r) ==
  /\ Ready(r, Cleanup)
  /\ records' = records \ ({req[r].drawing} \X req[r].files)
  /\ Becomes(r, [req[r] EXCEPT !.stage = "dropped"])
  /\ UNCHANGED <<rows, past, bucket, fails, epoch, stale, stranded>>

WriteCleanup(r) ==
  LET d == req[r].drawing IN
    /\ At(r, Cleanup, "dropped")
    /\ IF rows[d].exists
         THEN /\ Replace(d, req[r].image, {}, 0)
              /\ epoch' = [epoch EXCEPT ![d] = @ + 1]
              \* what it was planned from has been replaced
              /\ stale' = [stale EXCEPT ![d] = @ \/ rows[d].version # req[r].seen.version]
         ELSE UNCHANGED <<rows, past, epoch, stale>>
    /\ Finish(r)
    /\ UNCHANGED <<bucket, records, fails, stranded>>

-----------------------------------------------------------------------------
(***************************************************************************)
(* DELETE /drawings/:id: the row, and then cleanupS3FilesForDrawing.       *)
(***************************************************************************)
DeleteRow(r) ==
  LET d == req[r].drawing IN
    /\ At(r, {"delete"}, "asked")
    /\ IF rows[d].exists
         THEN /\ rows' = [rows EXCEPT ![d].exists = FALSE]
              /\ past' = [past EXCEPT ![d] = {}]
              /\ Becomes(r, [req[r] EXCEPT !.stage = "deleted"])
         ELSE Finish(r) /\ UNCHANGED <<rows, past>>
    /\ UNCHANGED <<bucket, records, fails, epoch, stale, stranded>>

KeysOf(d) == Under(bucket \cup records, d)

FindKeys(r) ==
  /\ At(r, {"delete"}, "deleted")
  /\ Becomes(r, [req[r] EXCEPT !.stage = "running", !.todo = Removals(KeysOf(req[r].drawing))])
  /\ UNCHANGED <<rows, past, bucket, records, fails, epoch, stale, stranded>>

ForgetRecords(r) ==
  /\ Ready(r, {"delete"})
  /\ records' = {k \in records : k[1] # req[r].drawing}
  /\ Finish(r)
  /\ UNCHANGED <<rows, past, bucket, fails, epoch, stale, stranded>>

StoreNext ==
  \E r \in Handler :
    \/ \E d \in Drawing :
         \/ \E f \in FileId : Save(r, d, f) \/ Create(r, d, f)
         \/ \E o \in Drawing : Duplicate(r, o, d)
         \/ Restore(r, d) \/ Trim(r, d) \/ Delete(r, d)
         \/ \E F \in SUBSET FileId : Orphans(r, d, F)
    \/ Busy(r) /\ \E c \in req[r].todo : Perform(r, c) \/ Break(r, c)
    \/ GiveUp(r) \/ HandlerFails(r)
    \/ CheckSave(r) \/ CommitSave(r)
    \/ CloneReferences(r) \/ CreateRow(r) \/ WriteRestore(r)
    \/ ReadRecords(r) \/ ListObjects(r) \/ FindOrphans(r) \/ DropRecords(r) \/ WriteCleanup(r)
    \/ DeleteRow(r) \/ FindKeys(r) \/ ForgetRecords(r)

StoreSpec == StoreInit /\ [][StoreNext]_storeVars

-----------------------------------------------------------------------------
(***************************************************************************)
(* Every image that a drawing shows can be served: its file is in the map, *)
(* and the object and the S3File row it refers to are there.  Uploads come *)
(* before the row, a save that names its version never meets a clean-up,   *)
(* and a copy owns its objects, so that deleting the original cannot break *)
(* it (s3.ts).  Excepted is what the code does not guard against: a scene  *)
(* from before a clean-up that is put back by a restore, by a save sent    *)
(* again after a 409 or by a clean-up that overwrites a newer version, a   *)
(* clean-up that fails half-way, and a copy whose original was deleted or  *)
(* cleaned up between the two reads of its handler.                        *)
(***************************************************************************)
ShownImagesAreServed ==
  \A d \in Drawing : rows[d].exists /\ ~ stale[d] /\ ~ Cleaning(d) =>
    LET image == rows[d].image IN
      \A f \in ShownFiles(image.scene) : f \in image.scene.files /\ <<image.home[f], f>> \in Served

(***************************************************************************)
(* Nothing of a deleted drawing, or of one that was never created, stays   *)
(* in the bucket or among the S3File rows, the left-overs of failed saves  *)
(* included; unless removing it failed, a save was uploading while the     *)
(* drawing was deleted, or the creation failed: nobody removes that.       *)
(***************************************************************************)
DeletedDrawingsLeaveNothing ==
  \A d \in Drawing :
    ~ rows[d].exists /\ About(d) = {} /\ ~ stranded[d] => Under(bucket \cup records, d) = {}

(***************************************************************************)
(* A trim that nothing disturbs leaves no object and no S3File row but     *)
(* those of the images that the drawing shows, also after uploads that     *)
(* failed before or after their object was stored.                         *)
(***************************************************************************)
TrimLeavesOnlyShown ==
  [][\A r \in Handler :
       At(r, {"trim"}, "dropped") /\ req[r].tidy /\ req'[r] = Ended /\ rows' # rows =>
         LET d == req[r].drawing IN Under(bucket' \cup records', d) \subseteq ShownFiles(rows'[d].image.scene)]_storeVars

NothingIsLeftBehind == []DeletedDrawingsLeaveNothing /\ TrimLeavesOnlyShown
=============================================================================
