----------------------------- MODULE MCLiveRoom -----------------------------
(***************************************************************************)
(* A room small enough to check, in two situations: three connections      *)
(* join, leave and fail while nobody edits and no right changes; or one    *)
(* connection, the others having left, whose lookups overlap while the     *)
(* owner changes the rights.                                               *)
(***************************************************************************)
EXTENDS LiveRoom, TLC

\* Nobody edits, so that a right to view says it all; no right changes any more,
\* and the clock stands.
Presence ==
  /\ \A u \in User : direct[u] # "edit"
  /\ \A l \in links : l.permission # "edit"
  /\ conn = [s \in Socket |-> "off"]
  /\ work = [s \in Socket |-> [e \in Event |-> At(IF e = "join" THEN "idle" ELSE "done")]]
  /\ changes = MaxChanges
  /\ clock = MaxTime

\* Every connection but one has left.
Rights ==
  /\ \E s \in Socket : conn = [t \in Socket |-> IF t = s THEN "off" ELSE "left"]
  /\ work = [s \in Socket |-> [e \in Event |-> At("idle")]]
  /\ changes = 0
  /\ clock = 0

MCInit ==
  /\ exists = TRUE
  /\ Shared \/ Hosted
  /\ linking = [q \in LinkRequest |-> "idle"]
  /\ Presence \/ Rights
  /\ principal = [s \in Socket |-> Nobody]
  /\ entry = [s \in Socket |-> Null]
  /\ room = {} /\ users = {}
  /\ page = [s \in Socket |-> [self |-> s, list |-> {}, peers |-> {}]]
  /\ relayed = [s \in Socket |-> 0]
  /\ lastEdit = [s \in Socket |-> - TTL]
  /\ entitled = {} /\ withdrawn = {} /\ early = {} /\ replaced = {}

MCSpec == MCInit /\ [][Next]_vars

\* Connections are interchangeable, and so are the updates of each.
MCSymmetry == Permutations(Socket) \cup Permutations(Update)
=============================================================================
