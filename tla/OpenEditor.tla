----------------------------- MODULE OpenEditor -----------------------------
(***************************************************************************)
(* One mounted Editor: it opens a drawing, and opens it or another one     *)
(* again when the route or the signed-in user changes; the canvas takes    *)
(* the scene up and reports what is on it; the user draws, erases, saves   *)
(* and looks at earlier versions; the changes are saved behind the guards  *)
(* of SnapshotGuards.  EditorSaves has the timers, Back and several pages, *)
(* and takes the opened scene for granted; here the opening itself, what   *)
(* it leaves in the refs and what it finds of the opening before, is the   *)
(* subject.  The page may edit the drawings; the 100 ms throttle and what  *)
(* peers send over the socket are left to EditorSaves and SceneSync.       *)
(***************************************************************************)
EXTENDS SnapshotGuards, Naturals, Sequences

CONSTANTS
  Drawings,      \* the drawings
  None,         \* nothing there
  MaxOpens,     \* bound on the times the page opens a drawing
  MaxActs,      \* bound on changes, Ctrl+S, previews, further openings, saves of others
  MaxQueue      \* bound on the saves that wait

ASSUME OpenEditorAssumption ==
  /\ MaxOpens \in Nat \ {0} /\ MaxActs \in Nat /\ MaxQueue \in Nat \ {0}
  /\ None \notin EditorScene /\ \A marks \in SUBSET Mark : marks # None
  /\ None \notin [of : Drawings, scene : EditorScene, meant : BOOLEAN]

VARIABLES
  rowOf,     \* the drawings' rows: scene, version, whether there is a preview, the last writer
  past,      \* the scenes in their history
  id,        \* the drawing of the route
  opening,   \* how many times the page has opened a drawing
  loads,     \* getDrawing of each opening: of which drawing, what was read
  initial,   \* initialData
  error,     \* loadError
  onCanvas,    \* the elements on the canvas; None while there is none
  taken,     \* the canvas has taken up initialData
  ref,       \* the refs
  debounce,  \* what the autosave will save
  chain,     \* saveQueue
  flight,    \* the request of its head
  panel,     \* the history panel
  work,      \* history: what the user has before him when nothing is previewed
  edited,    \* history: the user changed it since it was opened
  failed,    \* history: the last save of the page failed
  traces,    \* history: what happened that the properties except
  acts       \* how many acts there were, for MaxActs

server == <<rowOf, past>>
route  == <<id, opening, loads>>
screen == <<initial, error, onCanvas, taken>>
queue  == <<debounce, chain, flight>>
mine   == <<work, edited>>
editorVars == <<rowOf, past, id, opening, loads, initial, error, onCanvas, taken, ref, debounce,
          chain, flight, panel, work, edited, failed, traces, acts>>

Openings == 1 .. MaxOpens

\* What handleCanvasChange and the shortcut hand to the save queue; meant:
\* it is what the user has before him when nothing is previewed.
Capture(d, s, meant) == [of |-> d, scene |-> s, meant |-> meant]

UserActs == acts < MaxActs /\ acts' = acts + 1

Trace(cases) == traces' = traces \cup cases

-----------------------------------------------------------------------------
(***************************************************************************)
(* The refs.  order and known are lastSyncedElementOrderSig and            *)
(* elementVersionMap; told: the version was named by a conflict, not read  *)
(* with a scene or given to a save.  isBootstrappingScene is TRUE exactly  *)
(* until hasHydratedInitialScene is.                                       *)
(***************************************************************************)
ResetRefs ==
  [version |-> None, told |-> FALSE, initial |-> Empty, latest |-> Empty, persisted |-> Empty,
   suspicious |-> FALSE, hydrated |-> FALSE, order |-> None, known |-> Empty]

IdsIn(s) == {m \in Mark : s[m] # "absent"}

\* Both of them: what is new in the list, or another list of ids.
SceneChanged(s) == IdsIn(s) # ref.order \/ \E m \in IdsIn(s) : s[m] # ref.known[m]

Over(s, known) == [m \in Mark |-> IF m \in IdsIn(s) THEN s[m] ELSE known[m]]

PageBaseline == Baseline(ref.persisted, ref.initial, ref.latest)

Hydrated == [ref EXCEPT !.hydrated = TRUE]

\* handleCanvasChange of a canvas that reports s.
Transient(s) ==
  ~ ref.hydrated /\ (StaleEmpty(ref.initial, s) \/ StaleNonRenderable(ref.initial, s))

AsOpened(s) == ~ ref.hydrated /\ s = ref.initial

HandleChange(s, meant) ==
  IF Transient(s)
  THEN UNCHANGED <<ref, debounce>>
  ELSE IF AsOpened(s) \/ Prevented(PageBaseline, s)
  THEN ref' = Hydrated /\ UNCHANGED debounce
  ELSE /\ ref' = [Hydrated EXCEPT
                    !.latest = s, !.suspicious = @ /\ ~ Renderable(s),
                    !.order = IdsIn(s), !.known = Over(s, @)]
       /\ debounce' = IF SceneChanged(s) THEN Capture(id, s, meant) ELSE debounce

-----------------------------------------------------------------------------
NoPanel == [open |-> FALSE, selected |-> None, asked |-> {}, backup |-> None]

InitWith(rows) ==
  /\ rowOf = rows
  /\ past = [d \in Drawings |-> {}]
  /\ id \in Drawings
  /\ opening = 1
  /\ loads = [o \in Openings |-> IF o = 1 THEN [of |-> id, body |-> None] ELSE None]
  /\ initial = None /\ error = FALSE /\ onCanvas = None /\ taken = FALSE
  /\ ref = ResetRefs
  /\ debounce = None
  /\ chain = <<>> /\ flight = None
  /\ panel = NoPanel
  /\ work = None /\ edited = FALSE /\ failed = FALSE /\ traces = {} /\ acts = 0

(***************************************************************************)
(* The effect of useEditorSceneLoader runs again: another drawing, or the  *)
(* same one when user or location change.  The answer to an earlier        *)
(* opening may be still to come; that saves are to come, or an earlier     *)
(* version is looked at, is left out.                                      *)
(***************************************************************************)
Loading == \E o \in Openings : loads[o] # None

SavesWait == debounce # None \/ chain # <<>>

Looking == panel.open \/ panel.asked # {} \/ panel.backup # None

Reopen(d) ==
  /\ opening < MaxOpens /\ ~ SavesWait /\ ~ Looking /\ UserActs
  /\ Trace(IF Loading THEN {"reopened"} ELSE {})
  /\ id' = d
  /\ opening' = opening + 1
  /\ loads' = [loads EXCEPT ![opening + 1] = [of |-> d, body |-> None]]
  /\ initial' = None /\ error' = FALSE /\ onCanvas' = None /\ taken' = FALSE
  /\ ref' = ResetRefs
  /\ work' = None /\ edited' = FALSE
  /\ UNCHANGED <<rowOf, past, queue, panel, failed>>

ReadDrawing(o) ==
  /\ loads[o] # None /\ loads[o].body = None
  /\ loads' = [loads EXCEPT ![o].body = rowOf[loads[o].of]]
  /\ UNCHANGED <<rowOf, past, id, opening, screen, ref, queue, panel, mine, failed, traces, acts>>

\* Which opening the answer belongs to is not looked at.
LoadArrives(o) ==
  /\ loads[o] # None /\ loads[o].body # None
  /\ LET body == loads[o].body IN
       /\ ref' = [ref EXCEPT
                    !.version = body.version, !.told = FALSE, !.initial = body.scene,
                    !.latest = body.scene, !.persisted = body.scene,
                    !.suspicious = ~ Renderable(body.scene) /\ body.preview,
                    !.known = Over(body.scene, @)]
       /\ initial' = body.scene
  /\ loads' = [loads EXCEPT ![o] = None]
  /\ UNCHANGED <<rowOf, past, id, opening, error, onCanvas, taken, queue, panel, mine, failed, traces, acts>>

LoadFails(o) ==
  /\ loads[o] # None
  /\ ref' = [ref EXCEPT
               !.version = None, !.told = FALSE, !.initial = Empty, !.latest = Empty,
               !.persisted = Empty, !.suspicious = FALSE, !.order = None]
  /\ initial' = None /\ error' = TRUE
  /\ loads' = [loads EXCEPT ![o] = None]
  /\ UNCHANGED <<rowOf, past, id, opening, onCanvas, taken, queue, panel, mine, failed, traces, acts>>

-----------------------------------------------------------------------------
(***************************************************************************)
(* The canvas.                                                             *)
(***************************************************************************)
\* setExcalidrawAPI: there is a canvas, and nothing on it yet.
MountCanvas ==
  /\ onCanvas = None /\ initial # None /\ ~ error
  /\ onCanvas' = Empty
  /\ UNCHANGED <<server, route, initial, error, taken, ref, queue, panel, mine, failed, traces, acts>>

TakeUp ==
  /\ onCanvas # None /\ ~ taken /\ initial # None
  /\ onCanvas' = initial
  /\ taken' = TRUE
  /\ work' = initial
  /\ HandleChange(initial, FALSE)
  /\ UNCHANGED <<server, route, initial, error, chain, flight, panel, edited, failed, traces, acts>>

\* What the canvas reports before it has taken up initialData: nothing, or
\* what was deleted and nothing else.
EarlyReport(s) ==
  /\ onCanvas # None /\ ~ error
  /\ ~ taken /\ ~ ref.hydrated /\ initial # None
  /\ s \in {Empty, [m \in Mark |-> IF initial[m] = "deleted" THEN "deleted" ELSE "absent"]}
  /\ HandleChange(s, FALSE)
  /\ UNCHANGED <<server, route, screen, chain, flight, panel, mine, failed, traces, acts>>

\* An empty report although the canvas shows something.
Flicker ==
  /\ taken /\ ~ error /\ Renderable(onCanvas) /\ UserActs
  /\ HandleChange(Empty, FALSE)
  /\ UNCHANGED <<server, route, screen, chain, flight, panel, mine, failed, traces>>

\* Selecting, scrolling, pointing: the canvas reports what it showed before.
Touch ==
  /\ taken /\ ~ error
  /\ HandleChange(onCanvas, onCanvas = work)
  /\ UNCHANGED <<server, route, screen, chain, flight, panel, mine, failed, traces, acts>>

ChangeCanvas(s) ==
  /\ taken /\ ~ error /\ ~ panel.open
  /\ UserActs
  /\ onCanvas' = s
  /\ work' = s
  /\ edited' = TRUE
  /\ HandleChange(s, TRUE)
  /\ UNCHANGED <<server, route, initial, error, taken, chain, flight, panel, failed, traces>>

\* A new element has an id that no scene has.
NewId(m) == \A d \in Drawings : \A s \in past[d] \cup {rowOf[d].scene} : s[m] = "absent"

Draw(m) ==
  /\ taken /\ onCanvas[m] = "absent" /\ NewId(m)
  /\ ChangeCanvas([onCanvas EXCEPT ![m] = "live"])

Erase(marks) ==
  /\ taken /\ \A m \in marks : onCanvas[m] = "live"
  /\ ChangeCanvas([m \in Mark |-> IF m \in marks THEN "deleted" ELSE onCanvas[m]])

-----------------------------------------------------------------------------
(***************************************************************************)
(* The history panel.  A version is known by its scene.                    *)
(***************************************************************************)
OpenPanel ==
  /\ taken /\ ~ error /\ ~ panel.open /\ acts < MaxActs
  /\ panel' = [panel EXCEPT !.open = TRUE, !.selected = None]
  /\ UNCHANGED <<server, route, screen, ref, queue, mine, failed, traces, acts>>

\* onPreview(null): the canvas as it was before the first preview.
ShowBackup(next) ==
  IF onCanvas = None \/ panel.backup = None
  THEN panel' = next /\ UNCHANGED <<onCanvas, ref, debounce>>
  ELSE /\ panel' = [next EXCEPT !.backup = None]
       /\ onCanvas' = panel.backup
       /\ HandleChange(panel.backup, panel.backup = work)

Select(s) ==
  /\ panel.open /\ UserActs
  /\ s \in past[id] /\ panel.selected # s
  /\ panel' = [panel EXCEPT !.selected = s, !.asked = @ \cup {s}]
  /\ UNCHANGED <<server, route, screen, ref, queue, mine, failed, traces>>

Deselect ==
  /\ panel.open /\ panel.selected # None
  /\ ShowBackup([panel EXCEPT !.selected = None])
  /\ UNCHANGED <<server, route, initial, error, taken, chain, flight, mine, failed, traces, acts>>

ClosePanel ==
  /\ panel.open
  /\ IF panel.selected = None
     THEN panel' = [panel EXCEPT !.open = FALSE] /\ UNCHANGED <<onCanvas, ref, debounce>>
     ELSE ShowBackup([panel EXCEPT !.open = FALSE])
  /\ UNCHANGED <<server, route, initial, error, taken, chain, flight, mine, failed, traces, acts>>

\* What the canvas shows when nothing is previewed.
Underneath == IF panel.backup = None THEN onCanvas ELSE panel.backup

\* Nothing asks whether the version is still the selected one.
PreviewArrives(s) ==
  /\ s \in panel.asked
  /\ Trace({"previewed"} \cup (IF panel.open /\ panel.selected = s THEN {} ELSE {"late"}))
  /\ IF onCanvas = None
     THEN panel' = [panel EXCEPT !.asked = @ \ {s}] /\ UNCHANGED <<onCanvas, ref, debounce>>
     ELSE /\ panel' = [panel EXCEPT !.asked = @ \ {s}, !.backup = Underneath]
          /\ onCanvas' = s
          /\ HandleChange(s, s = work)
  /\ UNCHANGED <<server, route, initial, error, taken, chain, flight, mine, failed, acts>>

PreviewFails(s) ==
  /\ s \in panel.asked
  /\ panel' = [panel EXCEPT !.asked = @ \ {s}]
  /\ UNCHANGED <<server, route, screen, ref, queue, mine, failed, traces, acts>>

-----------------------------------------------------------------------------
(***************************************************************************)
(* Saving: one save at a time, in the order in which they were asked for.  *)
(***************************************************************************)
Enqueue(capture) == Len(chain) < MaxQueue /\ chain' = Append(chain, capture)

AutosaveFires ==
  /\ debounce # None
  /\ Enqueue(debounce)
  /\ debounce' = None
  /\ UNCHANGED <<server, route, screen, ref, flight, panel, mine, failed, traces, acts>>

\* Ctrl+S works while an earlier version is shown, too, and saves that.
SaveShortcut ==
  /\ onCanvas # None /\ UserActs
  /\ LET safe == SafeSnapshot(PageBaseline, onCanvas) IN
       Enqueue(Capture(id, safe, safe = work))
  /\ Trace(IF panel.backup = None THEN {} ELSE {"preview saved"})
  /\ UNCHANGED <<server, route, screen, ref, debounce, flight, panel, mine, failed>>

DropHead == chain' = Tail(chain) /\ flight' = None

Attempt(n) ==
  [phase |-> "sent", attempt |-> n, base |-> ref.version, told |-> ref.told, version |-> 0]

\* saveData: nothing is sent for a scene that the guards refuse, or for an
\* empty one while the drawing was opened blank although it has a preview.
HeldBack(s) ==
  \/ Prevented(PageBaseline, s)
  \/ ref.suspicious /\ ~ Renderable(s)

Start ==
  /\ chain # <<>> /\ flight = None
  /\ IF HeldBack(Head(chain).scene)
     THEN DropHead
     ELSE flight' = Attempt(0) /\ UNCHANGED chain
  /\ UNCHANGED <<server, route, screen, ref, debounce, panel, mine, failed, traces, acts>>

InPhase(phase) == flight # None /\ flight.phase = phase

FlightBecomes(phase, version) ==
  flight' = [flight EXCEPT !.phase = phase, !.version = version]

Overwrite(d, s, by) ==
  /\ rowOf' = [rowOf EXCEPT ![d].scene = s, ![d].version = @ + 1, ![d].by = by]
  /\ past' = [past EXCEPT ![d] = @ \cup {rowOf[d].scene}]

\* PUT /drawings/:id; without a version it is not checked.
ServerSaves ==
  /\ InPhase("sent")
  /\ LET save == Head(chain) IN
       /\ flight.base \in {None, rowOf[save.of].version}
       /\ Overwrite(save.of, save.scene, "page")
       /\ FlightBecomes("saved", rowOf[save.of].version + 1)
  /\ UNCHANGED <<route, screen, ref, debounce, chain, panel, mine, failed, traces, acts>>

ServerConflicts ==
  /\ InPhase("sent")
  /\ LET save == Head(chain) IN
       /\ flight.base \notin {None, rowOf[save.of].version}
       /\ FlightBecomes("conflict", rowOf[save.of].version)
  /\ UNCHANGED <<server, route, screen, ref, debounce, chain, panel, mine, failed, traces, acts>>

\* The request or its answer is lost.
LoseSave ==
  /\ InPhase("sent") \/ InPhase("saved")
  /\ FlightBecomes("failed", 0)
  /\ UNCHANGED <<server, route, screen, ref, debounce, chain, panel, mine, failed, traces, acts>>

TakeSaved ==
  /\ InPhase("saved")
  /\ ref' = [ref EXCEPT !.version = flight.version, !.told = FALSE,
                        !.persisted = Head(chain).scene]
  /\ DropHead
  /\ failed' = FALSE
  /\ UNCHANGED <<server, route, screen, debounce, panel, mine, traces, acts>>

TakeConflict ==
  /\ InPhase("conflict")
  /\ ref' = [ref EXCEPT !.version = flight.version, !.told = TRUE]
  /\ IF flight.attempt = 0
     THEN /\ flight' = [Attempt(1) EXCEPT !.base = flight.version, !.told = TRUE]
          /\ UNCHANGED <<chain, failed>>
     ELSE DropHead /\ failed' = TRUE
  /\ UNCHANGED <<server, route, screen, debounce, panel, mine, traces, acts>>

TakeFailure ==
  /\ InPhase("failed")
  /\ DropHead
  /\ failed' = TRUE
  /\ UNCHANGED <<server, route, screen, ref, debounce, panel, mine, traces, acts>>

\* Another page draws and saves; what it sends over the socket does not
\* reach this one in time.
OtherSaves(d, m) ==
  /\ UserActs
  /\ rowOf[d].scene[m] = "absent"
  /\ Overwrite(d, [rowOf[d].scene EXCEPT ![m] = "live"], "other")
  /\ UNCHANGED <<route, screen, ref, queue, panel, mine, failed, traces>>

-----------------------------------------------------------------------------
Opens ==
  \/ \E d \in Drawings : Reopen(d)
  \/ \E o \in Openings : ReadDrawing(o) \/ LoadArrives(o) \/ LoadFails(o)
  \/ MountCanvas \/ TakeUp

Draws ==
  \/ \E s \in EditorScene : EarlyReport(s)
  \/ Flicker \/ Touch
  \/ \E m \in Mark : Draw(m)
  \/ \E marks \in (SUBSET Mark) \ {{}} : Erase(marks)

LooksBack ==
  \/ OpenPanel \/ Deselect \/ ClosePanel
  \/ \E s \in past[id] : Select(s)
  \/ \E s \in panel.asked : PreviewArrives(s) \/ PreviewFails(s)

Saves ==
  \/ AutosaveFires \/ SaveShortcut
  \/ Start \/ ServerSaves \/ ServerConflicts \/ LoseSave
  \/ TakeSaved \/ TakeConflict \/ TakeFailure
  \/ \E d \in Drawings, m \in Mark : OtherSaves(d, m)

EditorNext == Opens \/ Draws \/ LooksBack \/ Saves

DrawingRow ==
  [scene : EditorScene, version : Nat, preview : BOOLEAN, by : {"page", "other"}]

EditorInit == \E rows \in [Drawings -> DrawingRow] : InitWith(rows)

EditorSpec == EditorInit /\ [][EditorNext]_editorVars

-----------------------------------------------------------------------------
(***************************************************************************)
(* A drawing that shows something is emptied only by a user who erased it: *)
(* never by what the canvas reported while it took up a scene, by a scene  *)
(* of the drawing that was open before, or by an earlier version that was  *)
(* only looked at.  Excepted are saves that the page sends blindly, with a *)
(* version that a conflict named or with none because the drawing could    *)
(* not be opened, a page on which two openings overlapped, which saves to  *)
(* the one drawing by what it knows of the other, and a version looked at  *)
(* in which what the drawing shows is marked deleted: the guards take that *)
(* for the user's own deletion.                                            *)
(***************************************************************************)
Blind == flight.told \/ flight.base = None

DeletedWhenPreviewed(d) ==
  "previewed" \in traces /\ IntendedDeletion(rowOf[d].scene, Head(chain).scene)

EmptiedOnPurpose ==
  [][\A d \in Drawings :
       Renderable(rowOf[d].scene) /\ ~ Renderable(rowOf'[d].scene) =>
         /\ Head(chain).of = d
         /\ \/ Head(chain).meant \/ Blind
            \/ "reopened" \in traces \/ DeletedWhenPreviewed(d)]_editorVars

Visible(s) == {m \in Mark : s[m] = "live"}

AtRest == taken /\ ~ error /\ ~ Loading /\ ~ SavesWait /\ ~ Looking

(***************************************************************************)
(* At rest the user has his own scene before him, the previews taken off   *)
(* again, and if he changed it the database shows it: no guard holds back  *)
(* what he meant, and nothing that was only shown stays.  Excepted are a   *)
(* save that failed, a drawing that somebody else saved last, a drawing    *)
(* that was erased by a page that also looked at earlier versions (they    *)
(* are saved, and then the guards take the empty scene for a stale one),   *)
(* and a page on which two openings overlapped, a version was shown whose  *)
(* answer came when it was not selected any more, or a previewed version   *)
(* was saved with the shortcut.                                            *)
(***************************************************************************)
QuietMeansMine ==
  AtRest /\ traces \subseteq {"previewed"} =>
    /\ onCanvas = work
    /\ edited /\ ~ failed /\ rowOf[id].by = "page" /\ (Renderable(work) \/ traces = {})
         => Visible(rowOf[id].scene) = Visible(work)
=============================================================================
