---------------------------- MODULE StoragePlans ----------------------------
(***************************************************************************)
(* The scene of a drawing and the two pure clean-up plans of the storage   *)
(* routes (routes/storage/plans.ts and routes/storage/helpers.ts).         *)
(*                                                                         *)
(* A scene is what a row of the Drawing table stores: the elements, the    *)
(* app state and the file map.  An element is abstracted to the three      *)
(* facts the plans look at: whether it is soft-deleted, whether it is an   *)
(* image, and which file an image shows.  The file map is abstracted to    *)
(* its keys.                                                               *)
(***************************************************************************)
CONSTANTS
  Element,    \* the elements a client can draw
  FileId,     \* the ids under which image files are stored
  AppState,   \* the persisted part of the editor's app state
  Deleted,    \* the elements whose isDeleted flag is set
  ImageFile   \* for each image element that has one, its fileId

ASSUME SceneAssumption ==
  /\ Deleted \subseteq Element
  /\ DOMAIN ImageFile \subseteq Element
  /\ \A e \in DOMAIN ImageFile : ImageFile[e] \in FileId

Scene == [elements : SUBSET Element,
          appState : AppState,
          files    : SUBSET FileId]

(***************************************************************************)
(* collectReferencedFileIds(elements, includeDeleted): the files shown by  *)
(* image elements, soft-deleted ones counting only on request.             *)
(***************************************************************************)
CollectReferencedFileIds(elements, includeDeleted) ==
  {ImageFile[e] : e \in {i \in elements \cap DOMAIN ImageFile :
                           includeDeleted \/ i \notin Deleted}}

(***************************************************************************)
(* buildTrimPlan: drop the soft-deleted elements, then every file that no  *)
(* remaining element shows.  The app state is not touched.                 *)
(***************************************************************************)
TrimPlan(scene) ==
  LET activeElements == scene.elements \ Deleted
  IN  [elements |-> activeElements,
       appState |-> scene.appState,
       files    |-> scene.files \cap CollectReferencedFileIds(activeElements, FALSE)]

(***************************************************************************)
(* buildOrphanDeletePlan: the requested files that a live element still    *)
(* shows block the request; otherwise the files go, and with them the      *)
(* soft-deleted images that showed them.                                   *)
(***************************************************************************)
BlockedIds(scene, fileIds) ==
  fileIds \cap CollectReferencedFileIds(scene.elements, FALSE)

OrphanDeletePlan(scene, fileIds) ==
  [elements |-> {e \in scene.elements : ~ /\ e \in Deleted
                                          /\ e \in DOMAIN ImageFile
                                          /\ ImageFile[e] \in fileIds},
   appState |-> scene.appState,
   files    |-> scene.files \ fileIds]
=============================================================================
