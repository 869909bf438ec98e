--------------------------- MODULE SnapshotGuards ---------------------------
(***************************************************************************)
(* The guards that keep the canvas from overwriting a drawing with a scene *)
(* nobody made: what the canvas reports while it takes up a scene may be   *)
(* empty, or hold only the deleted elements.                               *)
(*                                                                         *)
(* A scene says of every element whether it is in the list, and whether    *)
(* isDeleted is set.  An element that was deleted does not come back, so   *)
(* the versions of an element need not be modelled: whoever has it deleted *)
(* has the newer one, and two scenes have the same elements exactly when   *)
(* they are equal.                                                         *)
(***************************************************************************)
CONSTANT Mark   \* the elements

EditorScene == [Mark -> {"absent", "live", "deleted"}]

Empty == [m \in Mark |-> "absent"]

Renderable(s) == \E m \in Mark : s[m] = "live"

\* isSuspiciousEmptySnapshot, isStaleEmptySnapshot: an empty list, and what
\* it would replace shows something.
StaleEmpty(previous, next) == next = Empty /\ Renderable(previous)

StaleNonRenderable(latest, candidate) ==
  Renderable(latest) /\ ~ Renderable(candidate)

\* What a snapshot is compared with: what the page saved last, opened or
\* last took from the canvas, the first of them that shows something.
Baseline(persisted, initial, latest) ==
  IF Renderable(persisted) THEN persisted
  ELSE IF Renderable(initial) THEN initial ELSE latest

\* Defect: an emptied scene is never taken for the user's intention.
NeverIntended(baseline, candidate) == FALSE

\* Something that the baseline shows is in the candidate, marked deleted.
IntendedDeletion(baseline, candidate) ==
  /\ Renderable(baseline) /\ ~ Renderable(candidate)
  /\ \E m \in Mark : baseline[m] = "live" /\ candidate[m] = "deleted"

\* Defect: the guard lets everything through.
PreventNothing(baseline, candidate) == FALSE

Prevented(baseline, candidate) ==
  \/ StaleEmpty(baseline, candidate)
  \/ StaleNonRenderable(baseline, candidate) /\ ~ IntendedDeletion(baseline, candidate)

SafeSnapshot(baseline, candidate) ==
  IF Prevented(baseline, candidate) THEN baseline ELSE candidate
=============================================================================
