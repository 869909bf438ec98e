----------------------------- MODULE SessionLife -----------------------------
(***************************************************************************)
(* What the table of refresh tokens promises of a session, in the sense of *)
(* one sign-in with everything that is refreshed from it: it begins once,  *)
(* goes on with a single refresh token that works, and once it has ended   *)
(* it never works again.                                                   *)
(***************************************************************************)
VARIABLES
  open,   \* the sessions that can be refreshed, by one token each
  ended   \* the sessions that were ended

Init == ended = {}

Begin(s) ==
  /\ s \notin open \cup ended
  /\ open' = open \cup {s}
  /\ UNCHANGED ended

\* A sign-out or a new password ends all sessions of an account at once.
End(some) ==
  /\ some # {} /\ some \subseteq open
  /\ open' = open \ some
  /\ ended' = ended \cup some

Next == (\E s \in open' \ open : Begin(s)) \/ End(open \ open')

Spec == Init /\ [][Next]_<<open, ended>>
=============================================================================
