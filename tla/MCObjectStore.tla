---------------------------- MODULE MCObjectStore ----------------------------
(* Constants for TLC: two images, each with a live and a deleted element. *)
EXTENDS ObjectStore, TLC

CONSTANTS a1, b1, a2, b2, f1, f2

MCImageFile == (a1 :> f1) @@ (b1 :> f1) @@ (a2 :> f2) @@ (b2 :> f2)
Symmetry == Permutations(Handler)
=============================================================================
