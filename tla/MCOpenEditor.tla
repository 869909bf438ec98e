---------------------------- MODULE MCOpenEditor ----------------------------
(***************************************************************************)
(* Instances of OpenEditor for TLC.                                        *)
(***************************************************************************)
EXTENDS OpenEditor, TLC

\* A drawing starts with one element, or with none and perhaps a preview of
\* what it showed before; the two start differently.
MCRow(s, preview) == [scene |-> s, version |-> 1, preview |-> preview, by |-> "other"]

MCStart(m) == {MCRow(Empty, FALSE), MCRow(Empty, TRUE), MCRow([Empty EXCEPT ![m] = "live"], TRUE)}

MCInit ==
  \E m \in Mark : \E start \in [Drawings -> MCStart(m)] :
    /\ \A c, d \in Drawings : start[c] = start[d] => c = d
    /\ InitWith(start)

MCSpec == MCInit /\ [][EditorNext]_editorVars

MCSymmetry == Permutations(Mark) \cup Permutations(Drawings)
=============================================================================
