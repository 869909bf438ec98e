------------------------------- MODULE Backups -------------------------------
(***************************************************************************)
(* The scheduled backups of the SQLite database: a tick about every second *)
(* compares the clock with the cron expression, a run copies the database  *)
(* into a new file and then deletes the files past their retention.        *)
(*                                                                         *)
(* A tick may come late, so that a second passes without one; a run may    *)
(* outlast the next one's second, fail at either step or be cut off by a   *)
(* restart, which forgets which second was done.  Left out: the time zone, *)
(* the permissions of the files, backups of the same millisecond.          *)
(***************************************************************************)
EXTENDS Integers, Sequences

CONSTANTS
  Schedule,    \* the six fields, each a sequence of tokens [span, from, to, step]
  Calendar,    \* Calendar[t]: the six fields of the t-th second
  Retention,   \* how long a backup is kept, 0: for ever
  MaxClock,    \* bound on the clock
  MaxFaults    \* bound on failures and restarts

ASSUME BackupConstants == Retention \in Nat /\ MaxClock \in Nat /\ MaxFaults \in Nat /\ Len(Schedule) = 6

VARIABLES
  second,    \* the second it is
  copyJob,   \* [at, step]: the run that is under way, since when and how far
  lastRun,   \* the second of the last run that was started, -1: none
  disk,      \* backup files, [at, written, whole]: named for when, last written to when
  faults     \* failures and restarts so far

backups == <<second, copyJob, lastRun, disk, faults>>

Limits == <<<<0, 59>>, <<0, 59>>, <<0, 23>>, <<1, 31>>, <<1, 12>>, <<0, 7>>>>

\* A token is * or a range, either with a step, or a value, whose step is ignored.
TokenValues(token, limits) ==
  CASE token.span = "all"   -> {v \in limits[1] .. limits[2] : (v - limits[1]) % token.step = 0}
    [] token.span = "range" -> {v \in token.from .. token.to : (v - token.from) % token.step = 0}
    [] token.span = "value" -> {token.from}

TokenFits(token, limits) ==
  /\ token.step > 0
  /\ token.span = "range" => limits[1] <= token.from /\ token.from <= token.to /\ token.to <= limits[2]
  /\ token.span = "value" => token.from \in limits[1] .. limits[2]

FieldValues(i) == UNION {TokenValues(Schedule[i][k], Limits[i]) : k \in DOMAIN Schedule[i]}

\* An expression that does not parse turns the backups off.
Parses == \A i \in 1 .. 6 : FieldValues(i) # {} /\ \A k \in DOMAIN Schedule[i] : TokenFits(Schedule[i][k], Limits[i])

\* Every field must match; Sunday is 0 and 7.
CronMatches(t) ==
  /\ \A i \in 1 .. 5 : Calendar[t][i] \in FieldValues(i)
  /\ \/ Calendar[t][6] \in FieldValues(6)
     \/ Calendar[t][6] = 0 /\ 7 \in FieldValues(6)

Resting == [at |-> -1, step |-> 0]

BackupsInit == second = 0 /\ copyJob = Resting /\ lastRun = -1 /\ disk = {} /\ faults = 0

----------------------------------------------------------------------------
\* Defect: old files are deleted first.
PruneFirst == <<"prune", "copy">>

Order == <<"copy", "prune">>

Doing(what) == copyJob # Resting /\ Order[copyJob.step] = what

StepOver == copyJob' = IF copyJob.step = Len(Order) THEN Resting ELSE [copyJob EXCEPT !.step = @ + 1]

\* The retention is days; looking through the directory takes no day.
Prompt == Doing("prune") /\ Retention > 0 => \E f \in disk : f.at = copyJob.at /\ f.written + Retention > second

Pass ==
  /\ second < MaxClock /\ Prompt
  /\ second' = second + 1
  /\ UNCHANGED <<copyJob, lastRun, disk, faults>>

Due == Parses /\ CronMatches(second) /\ second # lastRun /\ copyJob = Resting

\* The file is created when the copying begins.
RunDue ==
  /\ Due
  /\ lastRun' = second
  /\ copyJob' = [at |-> second, step |-> 1]
  /\ disk' = disk \cup {[at |-> second, written |-> second, whole |-> FALSE]}
  /\ UNCHANGED <<second, faults>>

Copied ==
  /\ Doing("copy")
  /\ disk' = {f \in disk : f.at = copyJob.at => f.whole} \cup {[at |-> copyJob.at, written |-> second, whole |-> TRUE]}
  /\ StepOver
  /\ UNCHANGED <<second, lastRun, faults>>

\* Some files may not be deletable: the others go nevertheless.
Expired(file) == Retention > 0 /\ file.written < second - Retention

Pruned ==
  /\ Doing("prune")
  /\ \E undeletable \in {{}, {f \in disk : Expired(f)}} : disk' = {f \in disk : Expired(f) => f \in undeletable}
  /\ StepOver
  /\ UNCHANGED <<second, lastRun, faults>>

\* The run ends where it is; what was copied stays, named like a backup.
RunFails ==
  /\ copyJob # Resting /\ faults < MaxFaults
  /\ faults' = faults + 1
  /\ copyJob' = Resting
  /\ UNCHANGED <<second, lastRun, disk>>

Restart ==
  /\ faults < MaxFaults
  /\ faults' = faults + 1
  /\ copyJob' = Resting
  /\ lastRun' = -1
  /\ UNCHANGED <<second, disk>>

BackupsNext == Pass \/ RunDue \/ Copied \/ Pruned \/ RunFails \/ Restart

----------------------------------------------------------------------------
(* However runs fail, overlap with the next one's time or are cut off: the *)
(* newest whole backup is never deleted, and a file goes only when it is   *)
(* older than the retention and a whole backup that is not has been        *)
(* written (scheduler.ts:108-144).                                         *)
BackupsAreReplacedFirst ==
  [][\A f \in disk : (\A g \in disk' : g.at # f.at) =>
       /\ f.written < second - Retention
       /\ \E g \in disk' : g.whole /\ g.written >= second - Retention]_backups
=============================================================================
