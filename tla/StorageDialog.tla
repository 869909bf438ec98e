---------------------------- MODULE StorageDialog ----------------------------
(***************************************************************************)
(* The dialog in which an owner cleans up the files of a drawing           *)
(* (StorageManageModal.tsx), while the drawing is edited elsewhere, and    *)
(* what the storage routes answer it.  A file is shown by a live element,  *)
(* kept without one, or gone; the plans of the routes are in StoragePlans, *)
(* the objects behind the files in ObjectStore.                            *)
(***************************************************************************)
EXTENDS Naturals, FiniteSets

CONSTANTS
  File,
  ListCall,               \* the calls for the list that may be under way
  MaxSteps, MaxMisses     \* bounds: what owner and editors do, and what fails

ASSUME StorageAssumption == MaxSteps \in Nat /\ MaxMisses \in Nat

VARIABLES
  stored,    \* for each file of the drawing's row: "shown", "kept" or "gone"
  manager,   \* the state of the modal
  listing,   \* its calls of files/diff
  job,       \* its call of trim or of files/orphans
  steps, misses,
  named,     \* history: the action for which the name was last typed
  dated      \* history: the row has changed since the list that was read last

storageDialog == <<stored, manager, listing, job, steps, misses, named, dated>>

NoList == [stage |-> "idle"]
NoJob  == [stage |-> "idle"]

StorageInit ==
  /\ stored \in [File -> {"shown", "kept"}]
  /\ manager = [open |-> FALSE, loading |-> FALSE, listed |-> [f \in {} |-> FALSE], selected |-> {},
                confirm |-> "none", typed |-> FALSE, busy |-> FALSE, error |-> FALSE]
  /\ listing = [l \in ListCall |-> NoList]
  /\ job = NoJob
  /\ steps = 0 /\ misses = 0
  /\ named = "none" /\ dated = FALSE

Step == steps < MaxSteps /\ steps' = steps + 1

-----------------------------------------------------------------------------
(***************************************************************************)
(* Saves of an editor: an image is erased, drawn, or comes back by undo.   *)
(***************************************************************************)
EditorSaves(f) ==
  /\ Step
  /\ stored' = [stored EXCEPT ![f] = IF @ = "shown" THEN "kept" ELSE "shown"]
  /\ dated' = TRUE
  /\ UNCHANGED <<manager, listing, job, misses, named>>

-----------------------------------------------------------------------------
(***************************************************************************)
(* The modal.  releases is set for the list that a handler waits for.  The *)
(* confirmation is drawn over the rest and takes nothing out of reach: the *)
(* backdrop closes the modal, and the keyboard gets to the buttons and the *)
(* boxes, while a deletion is under way as well.                           *)
(***************************************************************************)
Lists(releases) ==
  \E l \in ListCall :
    listing[l] = NoList /\ listing' = [listing EXCEPT ![l] = [stage |-> "asked", releases |-> releases]]

\* Defect: what is under way is forgotten with the rest.
OpenAfresh ==
  /\ Step /\ ~ manager.open
  /\ manager' = [manager EXCEPT !.open = TRUE, !.loading = TRUE, !.error = FALSE,
                                !.confirm = "none", !.typed = FALSE, !.busy = FALSE]
  /\ Lists(FALSE)
  /\ UNCHANGED <<stored, job, misses, named, dated>>

OpenManager ==
  /\ Step /\ ~ manager.open
  /\ manager' = [manager EXCEPT !.open = TRUE, !.loading = TRUE, !.error = FALSE,
                                !.confirm = "none", !.typed = FALSE]
  /\ Lists(FALSE)
  /\ UNCHANGED <<stored, job, misses, named, dated>>

CloseManager ==
  /\ manager.open
  /\ manager' = [manager EXCEPT !.open = FALSE]
  /\ UNCHANGED <<stored, listing, job, steps, misses, named, dated>>

RefreshList ==
  /\ Step /\ manager.open /\ ~ manager.loading
  /\ manager' = [manager EXCEPT !.loading = TRUE, !.error = FALSE]
  /\ Lists(FALSE)
  /\ UNCHANGED <<stored, job, misses, named, dated>>

\* handleToggle; the box of a file that the list shows in use is disabled.
ToggleFile(f) ==
  /\ Step /\ manager.open
  /\ f \in DOMAIN manager.listed /\ ~ manager.listed[f]
  /\ manager' = [manager EXCEPT !.selected = IF f \in @ THEN @ \ {f} ELSE @ \cup {f}]
  /\ UNCHANGED <<stored, listing, job, misses, named, dated>>

\* Also in place of what is being asked.
AskFor(action) ==
  /\ manager.open
  /\ action = "orphans" => manager.selected # {}
  /\ manager' = [manager EXCEPT !.confirm = action, !.typed = FALSE]
  /\ UNCHANGED <<stored, listing, job, steps, misses, named, dated>>

\* The name is typed in full, or changed again.
TypeName ==
  /\ manager.open /\ manager.confirm # "none"
  /\ manager' = [manager EXCEPT !.typed = ~ @]
  /\ named' = manager.confirm
  /\ UNCHANGED <<stored, listing, job, steps, misses, dated>>

CancelConfirm ==
  /\ manager.open /\ manager.confirm # "none" /\ ~ manager.busy
  /\ manager' = [manager EXCEPT !.confirm = "none", !.typed = FALSE]
  /\ UNCHANGED <<stored, listing, job, steps, misses, named, dated>>

\* handleTrim, handleDeleteOrphans
Confirm ==
  /\ Step /\ manager.open /\ manager.confirm # "none" /\ manager.typed /\ ~ manager.busy
  /\ manager' = [manager EXCEPT !.busy = TRUE, !.error = FALSE]
  /\ job' = [stage |-> "asked", kind |-> manager.confirm,
             ids |-> IF manager.confirm = "orphans" THEN manager.selected ELSE {}]
  /\ UNCHANGED <<stored, listing, misses, named, dated>>

-----------------------------------------------------------------------------
(***************************************************************************)
(* The routes.  They read the row and write it later, whatever is there.   *)
(***************************************************************************)
Blocked == {f \in job.ids : stored[f] = "shown"}

\* buildTrimPlan, buildOrphanDeletePlan
Planned ==
  [f \in File |-> IF stored[f] = "kept" /\ (job.kind = "trim" \/ f \in job.ids) THEN "gone" ELSE stored[f]]

PlanCleanup ==
  /\ job.stage = "asked" /\ Blocked = {} /\ (job.kind = "orphans" => job.ids # {})
  /\ job' = [stage |-> "planned", kind |-> job.kind, ids |-> job.ids, plan |-> Planned]
  /\ UNCHANGED <<stored, manager, listing, steps, misses, named, dated>>

WriteCleanup ==
  /\ job.stage = "planned"
  /\ stored' = job.plan
  /\ job' = [stage |-> "done", kind |-> job.kind, ids |-> job.ids]
  /\ dated' = TRUE
  /\ UNCHANGED <<manager, listing, steps, misses, named>>

\* buildFilesDiffResponse: the files there are, and inCanvasActive of each
Present == {f \in File : stored[f] # "gone"}

ServeList(l) ==
  /\ listing[l].stage = "asked"
  /\ listing' = [k \in ListCall |->
       IF k = l THEN [stage |-> "read", releases |-> listing[l].releases, last |-> TRUE,
                      files |-> [f \in Present |-> stored[f] = "shown"]]
       ELSE IF listing[k].stage = "read" THEN [listing[k] EXCEPT !.last = FALSE] ELSE listing[k]]
  /\ dated' = FALSE
  /\ UNCHANGED <<stored, manager, job, steps, misses, named>>

-----------------------------------------------------------------------------
(***************************************************************************)
(* Back in the modal, which is mounted even when it is closed.             *)
(***************************************************************************)
CleanedUp ==
  /\ job.stage = "done"
  /\ job' = NoJob
  /\ manager' = [manager EXCEPT !.confirm = "none", !.typed = FALSE, !.loading = TRUE, !.error = FALSE]
  /\ Lists(TRUE)
  /\ UNCHANGED <<stored, steps, misses, named, dated>>

\* Blocked files, an empty selection, a name changed elsewhere, a lost call or answer.
CleanupFails ==
  /\ job # NoJob
  /\ \/ job.stage = "asked" /\ (Blocked # {} \/ (job.kind = "orphans" /\ job.ids = {})) /\ UNCHANGED misses
     \/ misses < MaxMisses /\ misses' = misses + 1
  /\ job' = NoJob
  /\ manager' = [manager EXCEPT !.error = TRUE, !.confirm = "none", !.typed = FALSE, !.busy = FALSE]
  /\ UNCHANGED <<stored, listing, steps, named, dated>>

\* loadDiff: whatever is selected, every file that is not shown is selected now.
ListArrives(l) ==
  LET files == listing[l].files IN
    /\ listing[l].stage = "read"
    /\ manager' = [manager EXCEPT !.listed = files, !.selected = {f \in DOMAIN files : ~ files[f]},
                                  !.loading = FALSE, !.busy = @ /\ ~ listing[l].releases]
    /\ listing' = [listing EXCEPT ![l] = NoList]
    /\ dated' = (dated \/ ~ listing[l].last)
    /\ UNCHANGED <<stored, job, steps, misses, named>>

ListFails(l) ==
  /\ listing[l] # NoList
  /\ misses < MaxMisses /\ misses' = misses + 1
  /\ manager' = [manager EXCEPT !.error = TRUE, !.loading = FALSE, !.busy = @ /\ ~ listing[l].releases]
  /\ listing' = [listing EXCEPT ![l] = NoList]
  /\ UNCHANGED <<stored, job, steps, named, dated>>

StorageNext ==
  \/ OpenManager \/ CloseManager \/ RefreshList \/ TypeName \/ CancelConfirm \/ Confirm
  \/ \E action \in {"trim", "orphans"} : AskFor(action)
  \/ \E f \in File : EditorSaves(f) \/ ToggleFile(f)
  \/ PlanCleanup \/ WriteCleanup \/ CleanedUp \/ CleanupFails
  \/ \E l \in ListCall : ServeList(l) \/ ListArrives(l) \/ ListFails(l)

-----------------------------------------------------------------------------
Quiet == job = NoJob /\ \A l \in ListCall : listing[l] = NoList

(***************************************************************************)
(* An irreversible step is taken once, and only as it was confirmed,       *)
(* whatever is pressed, closed and opened meanwhile: Confirm is disabled   *)
(* exactly as long as a deletion, or the list that follows it, is under    *)
(* way, be it of an earlier opening of the dialog; the name that enables   *)
(* it was typed for the action it will take; and no file that the list     *)
(* shows in use is selected.  And when nothing is under way, nothing       *)
(* failed and nobody has drawn since, the list is what is stored.          *)
(***************************************************************************)
DeletionsAreConfirmed ==
  /\ manager.busy <=> (job # NoJob \/ \E l \in ListCall : listing[l] # NoList /\ listing[l].releases)
  /\ manager.typed => manager.confirm = named
  /\ manager.selected \subseteq {f \in DOMAIN manager.listed : ~ manager.listed[f]}
  /\ manager.open /\ ~ manager.error /\ Quiet /\ ~ dated =>
       manager.listed = [f \in Present |-> stored[f] = "shown"]
=============================================================================
