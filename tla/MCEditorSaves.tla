--------------------------- MODULE MCEditorSaves ---------------------------
(***************************************************************************)
(* What an editor page must do in the end.  A behaviour is about one page  *)
(* that saves, or about two pages that exchange their changes and on which *)
(* nothing goes wrong; the other half stays as it began.                   *)
(***************************************************************************)
EXTENDS EditorSaves, TLC

CONSTANTS p1, p2, e1

VARIABLES
  about,     \* "saving" or "exchanging"
  pages, known, held, relaying, arriving, pending, unsaved, saved, clock, changes, mishaps, views

exchange == <<pages, known, held, relaying, arriving, pending, unsaved, saved, clock, changes, mishaps, views>>

Exchange == INSTANCE SceneSync WITH
  Page <- {p1, p2}, Editor <- {p1, p2}, Element <- {e1}, MaxEdits <- 2, MaxWait <- 2, Mishap <- {}, Saving <- FALSE,
  mode <- pages, canvas <- views, edits <- changes

MCInit ==
  /\ about \in {"saving", "exchanging"}
  /\ Init /\ (about = "exchanging" => used = {})
  /\ Exchange!Init /\ (about = "saving" => saved = Exchange!Nothing)

MCNext ==
  /\ UNCHANGED about
  /\ \/ about = "saving" /\ Next /\ UNCHANGED exchange
     \/ about = "exchanging" /\ Exchange!Next /\ UNCHANGED vars

\* No action of either half that must happen is enabled where it begins.
MCFairSpec == MCInit /\ [][MCNext]_<<about, vars, exchange>> /\ Fairness /\ Exchange!Fairness

(* Every change that is made on a page in the room is seen on the others   *)
(* in the end, or a newer one is (useEditorCollaboration.ts:168-270).      *)
EveryChangeArrives == Exchange!EveryChangeArrives
=============================================================================
