------------------------------ MODULE MCSignOn -------------------------------
(* Constants for TLC: two tabs that are interchangeable.  Where only the     *)
(* provider signs in, the tabs start with a session, which the user or time  *)
(* ends: without one, both go to the provider at once and nothing else       *)
(* is left to explore within the bounds.  The user then does one thing, for  *)
(* the flows of two tabs alone are as many states as all the rest.           *)
EXTENDS SignOn, TLC

CONSTANTS t1, t2

MCSymmetry == Permutations({t1, t2})

MCInit == SignOnInit /\ (Enforced => server.live # {})
MCNext == SignOnNext /\ (Enforced => acts'.done <= 1)
MCSpec == MCInit /\ [][MCNext]_browserVars
=============================================================================
