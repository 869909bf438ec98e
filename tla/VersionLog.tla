----------------------------- MODULE VersionLog -----------------------------
(***************************************************************************)
(* What the drawing routes promise their clients, without handlers,        *)
(* awaits or transactions.                                                 *)
(*                                                                         *)
(* A drawing is an append-only log of scenes; its version is the length of *)
(* the log, and the history holds some of the earlier entries.  A save     *)
(* that names a base version is a compare-and-set: in one step it either   *)
(* appends on top of that very version and puts the entry it replaces into *)
(* the history, or it is told a version that is not its base.  A writer    *)
(* that names no version appends whatever it likes and promises nothing    *)
(* about the entry it replaces.                                            *)
(***************************************************************************)
EXTENDS Naturals, Sequences

CONSTANTS Client, Scene, Null

VARIABLES
  exists,   \* the drawing has not been deleted
  log,      \* the scene written at each version
  history,  \* the entries that can still be restored
  base,     \* the version each client's save is based on, once known
  answer    \* what each client was answered

vars == <<exists, log, history, base, answer>>

Entry(v) == [version |-> v, scene |-> log[v]]

Pending(c) == answer[c].status = "none"

Tell(c, a) ==
  /\ Pending(c)
  /\ answer' = [answer EXCEPT ![c] = a]

\* The client says, once, which version its save is based on.
NameBase(c) ==
  \/ base[c] # Null /\ UNCHANGED base
  \/ /\ base[c] = Null
     /\ base'[c] \in Nat
     /\ base' = [base EXCEPT ![c] = base'[c]]

Init ==
  /\ exists = TRUE
  /\ log \in {<<s>> : s \in Scene}
  /\ history = {}
  /\ base = [c \in Client |-> Null]
  /\ answer = [c \in Client |-> [status |-> "none"]]

Issue(c) ==
  /\ Pending(c)
  /\ NameBase(c)
  /\ UNCHANGED <<exists, log, history, answer>>

\* Compare-and-set that succeeds.
CheckedSave(c, s) ==
  /\ exists
  /\ base[c] = Len(log)
  /\ log' = Append(log, s)
  /\ history' = history \cup {Entry(Len(log))}
  /\ Tell(c, [status |-> "ok", version |-> Len(log'), scene |-> s])
  /\ UNCHANGED <<exists, base>>

\* Compare-and-set that fails; Null when the drawing has gone meanwhile.
Conflict(c) ==
  /\ NameBase(c)
  /\ base'[c] # Len(log)
  /\ Tell(c, [status |-> "conflict", version |-> IF exists THEN Len(log) ELSE Null])
  /\ UNCHANGED <<exists, log, history>>

\* A write without a version check may put an entry into the history.
Overwrite(c, s) ==
  /\ exists
  /\ base[c] = Null
  /\ log' = Append(log, s)
  /\ \E v \in DOMAIN log : history' \in {history, history \cup {Entry(v)}}
  /\ \/ Tell(c, [status |-> "ok", version |-> Len(log'), scene |-> s])
     \/ Tell(c, [status |-> "done"])
  /\ UNCHANGED <<exists, base>>

BackUp(c) ==
  /\ exists
  /\ Pending(c)
  /\ \E v \in DOMAIN log : history' = history \cup {Entry(v)}
  /\ UNCHANGED <<exists, log, base, answer>>

Read(c) ==
  /\ exists
  /\ Tell(c, [status |-> "ok", version |-> Len(log), scene |-> log[Len(log)]])
  /\ UNCHANGED <<exists, log, history, base>>

Remove(c) ==
  /\ exists
  /\ exists' = FALSE
  /\ history' = {}
  /\ Tell(c, [status |-> "done"])
  /\ UNCHANGED <<log, base>>

GiveUp(c) ==
  /\ Tell(c, [status |-> "error"])
  /\ UNCHANGED <<exists, log, history, base>>

Forget ==
  /\ history' \in SUBSET history
  /\ UNCHANGED <<exists, log, base, answer>>

Next ==
  \/ Forget
  \/ \E c \in Client :
       \/ Issue(c) \/ Conflict(c) \/ BackUp(c) \/ Read(c) \/ Remove(c) \/ GiveUp(c)
       \/ \E s \in Scene : CheckedSave(c, s) \/ Overwrite(c, s)

Spec == Init /\ [][Next]_vars
=============================================================================
