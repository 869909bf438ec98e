--------------------------- MODULE MCDrawingStore ---------------------------
(***************************************************************************)
(* A small drawing: one live image, one soft-deleted image whose file is   *)
(* still stored.                                                           *)
(***************************************************************************)
EXTENDS DrawingStore, TLC

CONSTANTS live, gone, f1, f2, a1, a2

MCElement == {live, gone}
MCFileId == {f1, f2}
MCAppState == {a1, a2}
MCDeleted == {gone}
MCImageFile == (live :> f1) @@ (gone :> f2)

Full  == [elements |-> {live, gone}, appState |-> a1, files |-> {f1, f2}]
Blank == [elements |-> {}, appState |-> a1, files |-> {}]

\* A whole scene, an edit as the editor sends it without its files, a rename.
MCPayload == {[parts |-> Part, scene |-> Full],
              [parts |-> {"elements", "appState"}, scene |-> Blank],
              [parts |-> {}, scene |-> Full]}
=============================================================================
