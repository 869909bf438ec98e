----------------------------- MODULE MCDashboard -----------------------------
(* Constants for TLC: one collection, lists of two cards. *)
EXTENDS Dashboard, TLC

CONSTANT c1
=============================================================================
