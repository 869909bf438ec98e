----------------------------- MODULE MCAccounts ------------------------------
(* Constants for TLC: three accounts and interchangeable requests. *)
EXTENDS Onboarding, TLC

CONSTANTS r1, r2, a1, a2

MCSymmetry == Permutations({r1, r2}) \cup Permutations({a1, a2})
=============================================================================
