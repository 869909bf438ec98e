----------------------------- MODULE PanelProofs -----------------------------
(***************************************************************************)
(* Proofs about the dashboard, the panels and the jobs that work beside    *)
(* the editor: the lists in the cache, for every set of users, collections *)
(* and rows and any number of requests under way; the two kinds of backup, *)
(* for every account, drawing, schedule and retention; and the panels that *)
(* a user reads what the server holds in, whatever answers come in which   *)
(* order: the storage dialog, the API keys, the update check, the dialogs  *)
(* that share, the administration page and the import of files.            *)
(***************************************************************************)
EXTENDS Dashboard, Archive, Backups, StorageDialog, ApiKeys, UpdateCheck, ShareDialog, AdminPage,
        Imports, FiniteSetTheorems, SequenceTheorems, WellFoundedInduction, TLAPS

-----------------------------------------------------------------------------
\* Requests have their fields, and lists the clock that they were read at.
BodyOK(b) == DOMAIN b = {"cards", "total", "at", "late"} /\ b.at \in Nat

ReadOK(r) ==
  /\ DOMAIN r = {"who", "version", "user", "filter", "offset", "stage", "body"}
  /\ BodyOK(r.body)

WriteOK(w) == DOMAIN w = {"job", "user", "kind", "id", "to", "stage"}

Shape ==
  /\ clock \in Nat
  /\ \A r \in reads : ReadOK(r)
  /\ \A w \in writes : WriteOK(w)
  /\ \A k \in DOMAIN cache : BodyOK(cache[k])

(***************************************************************************)
(* A list that was read and is not stored yet knows whether the rows are   *)
(* still those it was read from: that is what late is taken from.          *)
(***************************************************************************)
ReadsKnow ==
  \A r \in reads : r.stage = "read" =>
    r.body.at <= clock /\ (r.body.at = clock => Current(CacheKey(r), r.body))

CacheInv == Shape /\ ReadsKnow /\ CachedListsAreCurrent

LEMMA CacheInit == Init => CacheInv
BY DEF Init, CacheInv, Shape, ReadsKnow, CachedListsAreCurrent

-----------------------------------------------------------------------------
(***************************************************************************)
(* A step that leaves rows and cache alone, asks for lists or takes them   *)
(* on, and keeps the writes whose invalidation is still to come.           *)
(***************************************************************************)
LEMMA Frame ==
  ASSUME CacheInv, UNCHANGED <<drawing, cache, clock>>,
         \A r \in reads' : r \in reads \/ (ReadOK(r) /\ r.stage # "read"),
         \A w \in writes' : w \in writes \/ WriteOK(w),
         \A w \in writes : w.stage = "written" => w \in writes'
  PROVE  CacheInv'
<1>1. Shape'
  BY DEF CacheInv, Shape, ReadOK, WriteOK
<1>2. ReadsKnow'
  BY DEF CacheInv, ReadsKnow, Current, Listed, CacheKey, PageOf
<1>3. CachedListsAreCurrent'
  <2>1. SUFFICES ASSUME \A w \in writes' : w.stage # "written", NEW k \in DOMAIN cache
                 PROVE  cache[k].late \/ Current(k, cache[k])'
    BY DEF CachedListsAreCurrent
  <2>2. cache[k].late \/ Current(k, cache[k])
    BY <2>1 DEF CacheInv, CachedListsAreCurrent
  <2> QED
    BY <2>2 DEF Current, Listed, PageOf
<1> QED
  BY <1>1, <1>2, <1>3 DEF CacheInv

\* What is asked and sent has its fields.
LEMMA Asked ==
  ASSUME NEW who, NEW version1, NEW u, NEW f, NEW o
  PROVE  LET r == ListRequest(who, version1, u, f, o) IN ReadOK(r) /\ r.stage # "read"
BY DEF ListRequest, ReadOK, BodyOK

LEMMA Sent ==
  ASSUME NEW by, NEW u, NEW kind, NEW d, NEW to
  PROVE  WriteOK(WriteRequest(by, u, kind, d, to)) /\ WriteRequest(by, u, kind, d, to).stage = "asked"
BY DEF WriteRequest, WriteOK

\* The next stage of a request is a request with the same key.
LEMMA Staged ==
  ASSUME NEW r, ReadOK(r), NEW s
  PROVE  LET n == [r EXCEPT !.stage = s] IN ReadOK(n) /\ CacheKey(n) = CacheKey(r) /\ n.stage = s
BY DEF ReadOK, CacheKey

LEMMA Gone ==
  ASSUME NEW w, WriteOK(w), NEW s
  PROVE  LET n == [w EXCEPT !.stage = s] IN WriteOK(n) /\ n.stage = s
BY DEF WriteOK

-----------------------------------------------------------------------------
(***************************************************************************)
(* The list requests.                                                      *)
(***************************************************************************)
LEMMA CheckFolderKeeps ==
  ASSUME CacheInv, NEW r \in reads, CheckFolder(r)
  PROVE  CacheInv'
<1> DEFINE s == IF MayList(r) THEN "checked" ELSE "refused"
           next == [r EXCEPT !.stage = s]
<1>1. ReadOK(r)
  BY DEF CacheInv, Shape
<1>2. ReadOK(next) /\ next.stage = s
  BY <1>1, Staged
<1>3. reads' = (reads \ {r}) \cup {next}
  BY DEF CheckFolder, Advance
<1>4. s # "read"
  OBVIOUS
<1> HIDE DEF next, s
<1>5. UNCHANGED <<drawing, cache, clock, writes>>
  BY DEF CheckFolder
<1>6. \A q \in reads' : q \in reads \/ (ReadOK(q) /\ q.stage # "read")
  BY <1>2, <1>3, <1>4
<1> QED
  BY <1>5, <1>6, Frame

LEMMA LookupKeeps ==
  ASSUME CacheInv, NEW r \in reads, Lookup(r)
  PROVE  CacheInv'
<1>1. ReadOK(r) /\ clock \in Nat
  BY DEF CacheInv, Shape
<1>2. UNCHANGED <<drawing, cache, writes, clock>>
  BY DEF Lookup
<1>3. CASE CacheKey(r) \in DOMAIN cache
  <2> DEFINE next == [r EXCEPT !.stage = "ok", !.body = cache[CacheKey(r)]]
  <2>1. reads' = (reads \ {r}) \cup {next}
    BY <1>3 DEF Lookup, Advance
  <2>2. BodyOK(cache[CacheKey(r)])
    BY <1>3 DEF CacheInv, Shape
  <2>3. ReadOK(next) /\ next.stage = "ok"
    BY <1>1, <2>2 DEF ReadOK
  <2> HIDE DEF next
  <2>4. \A q \in reads' : q \in reads \/ (ReadOK(q) /\ q.stage # "read")
    BY <2>1, <2>3
  <2> QED
    BY <1>2, <2>4, Frame
<1>4. CASE CacheKey(r) \notin DOMAIN cache
  <2> DEFINE next == [r EXCEPT !.stage = "read", !.body = Read(r)]
  <2>1. reads' = (reads \ {r}) \cup {next}
    BY <1>4 DEF Lookup, Advance
  <2>2. BodyOK(Read(r)) /\ Read(r).at = clock
    BY <1>1 DEF BodyOK, Read
  <2>3. ReadOK(next) /\ next.body = Read(r) /\ CacheKey(next) = CacheKey(r)
    BY <1>1, <2>2 DEF ReadOK, CacheKey
  <2>4. Current(CacheKey(r), Read(r))
    BY DEF Read, Current, CacheKey
  <2> HIDE DEF next
  <2>5. Shape'
    BY <1>2, <2>1, <2>3 DEF CacheInv, Shape
  <2>6. ASSUME NEW k, NEW b PROVE Current(k, b)' = Current(k, b)
    BY <1>2 DEF Current, Listed
  <2>7. ReadsKnow'
    BY <1>1, <1>2, <2>1, <2>2, <2>3, <2>4 DEF CacheInv, ReadsKnow, Current, Listed
  <2>8. CachedListsAreCurrent'
    BY <1>2 DEF CacheInv, CachedListsAreCurrent, Current, Listed
  <2> QED
    BY <2>5, <2>7, <2>8 DEF CacheInv
<1> QED
  BY <1>3, <1>4

LEMMA StoreKeeps ==
  ASSUME CacheInv, NEW r \in reads, Store(r)
  PROVE  CacheInv'
<1> DEFINE body == [r.body EXCEPT !.late = r.body.at < clock]
           next == [r EXCEPT !.stage = "ok", !.body = body]
<1>1. /\ ReadOK(r) /\ BodyOK(r.body) /\ clock \in Nat
      /\ r.body.at <= clock /\ (r.body.at = clock => Current(CacheKey(r), r.body))
  BY DEF CacheInv, Shape, ReadOK, ReadsKnow, Store
<1>2. /\ BodyOK(body) /\ body.cards = r.body.cards /\ body.total = r.body.total
      /\ body.late = (r.body.at < clock)
  BY <1>1 DEF BodyOK
<1>3. ReadOK(next) /\ next.stage = "ok"
  BY <1>1, <1>2 DEF ReadOK
<1>4. /\ UNCHANGED <<drawing, writes, clock>>
      /\ reads' = (reads \ {r}) \cup {next}
      /\ cache' = [k \in DOMAIN cache \cup {CacheKey(r)} |-> IF k = CacheKey(r) THEN body ELSE cache[k]]
  BY DEF Store, Advance
<1>5. body.late \/ Current(CacheKey(r), body)
  <2>1. CASE r.body.at < clock
    BY <1>2, <2>1
  <2>2. CASE r.body.at = clock
    BY <1>1, <1>2, <2>2 DEF Current
  <2> QED
    BY <1>1, <2>1, <2>2 DEF BodyOK
<1> HIDE DEF body, next
<1>6. Shape'
  BY <1>2, <1>3, <1>4 DEF CacheInv, Shape
<1>7. ReadsKnow'
  BY <1>3, <1>4 DEF CacheInv, ReadsKnow, Current, Listed
<1>8. CachedListsAreCurrent'
  <2>1. SUFFICES ASSUME \A w \in writes : w.stage # "written", NEW k \in DOMAIN cache'
                 PROVE  cache'[k].late \/ Current(k, cache'[k])
    BY <1>4 DEF CachedListsAreCurrent, Current, Listed
  <2>2. CASE k = CacheKey(r)
    BY <1>4, <1>5, <2>2
  <2>3. CASE k # CacheKey(r)
    BY <1>4, <2>1, <2>3 DEF CacheInv, CachedListsAreCurrent
  <2> QED
    BY <2>2, <2>3
<1> QED
  BY <1>6, <1>7, <1>8 DEF CacheInv

LEMMA EvictKeeps ==
  ASSUME CacheInv, NEW k \in DOMAIN cache, Evict(k)
  PROVE  CacheInv'
<1>1. /\ UNCHANGED <<drawing, reads, writes, clock>>
      /\ cache' = [j \in DOMAIN cache \ {k} |-> cache[j]]
  BY DEF Evict
<1>2. Shape'
  BY <1>1 DEF CacheInv, Shape
<1>3. ReadsKnow'
  BY <1>1 DEF CacheInv, ReadsKnow, Current, Listed
<1>4. CachedListsAreCurrent'
  BY <1>1 DEF CacheInv, CachedListsAreCurrent, Current, Listed
<1> QED
  BY <1>2, <1>3, <1>4 DEF CacheInv

-----------------------------------------------------------------------------
(***************************************************************************)
(* The other requests: before and after the rows change the frame holds;   *)
(* while an invalidation is to come, nothing is said of the cache.         *)
(***************************************************************************)
LEMMA CheckWriteKeeps ==
  ASSUME CacheInv, NEW w \in writes, CheckWrite(w)
  PROVE  CacheInv'
<1> DEFINE s == IF Allowed(w) THEN "checked" ELSE "refused"
           to == IF w.kind = "duplicate" /\ Allowed(w) THEN drawing[w.id].folder ELSE w.to
           next == [w EXCEPT !.stage = s, !.to = to]
<1>1. WriteOK(w) /\ w.stage = "asked"
  BY DEF CacheInv, Shape, CheckWrite
<1>2. UNCHANGED <<drawing, cache, reads, clock>> /\ writes' = (writes \ {w}) \cup {next}
  BY DEF CheckWrite
<1> HIDE DEF s, to
<1>3. WriteOK(next)
  BY <1>1 DEF WriteOK
<1> HIDE DEF next
<1>4. /\ \A v \in writes' : v \in writes \/ WriteOK(v)
      /\ \A v \in writes : v.stage = "written" => v \in writes'
  BY <1>1, <1>2, <1>3
<1> QED
  BY <1>2, <1>4, Frame

\* A request that goes to a stage in which no invalidation is to come, from
\* another such stage.
LEMMA GoesOn ==
  ASSUME CacheInv, NEW w \in writes, w.stage # "written", NEW s, Goes(w, s),
         UNCHANGED <<drawing, cache, reads, clock>>
  PROVE  CacheInv'
<1> DEFINE next == [w EXCEPT !.stage = s]
<1>1. WriteOK(next)
  BY DEF CacheInv, Shape, WriteOK
<1>2. writes' = (writes \ {w}) \cup {next}
  BY DEF Goes
<1> HIDE DEF next
<1>3. /\ \A v \in writes' : v \in writes \/ WriteOK(v)
      /\ \A v \in writes : v.stage = "written" => v \in writes'
  BY <1>1, <1>2
<1> QED
  BY <1>3, Frame

LEMMA WriteKeeps ==
  ASSUME CacheInv, NEW w \in writes, Write(w)
  PROVE  CacheInv'
<1>1. CASE Accepted(w)
  <2> DEFINE next == [w EXCEPT !.stage = "written"]
  <2>1. UNCHANGED <<cache, reads>> /\ clock' = clock + 1 /\ clock \in Nat
    BY <1>1 DEF Write, CacheInv, Shape
  <2>2. writes' = (writes \ {w}) \cup {next}
    BY <1>1 DEF Write, Goes
  <2>3. WriteOK(next) /\ next.stage = "written"
    BY DEF CacheInv, Shape, WriteOK
  <2> HIDE DEF next
  <2>4. Shape'
    BY <2>1, <2>2, <2>3 DEF CacheInv, Shape
  <2>5. ASSUME NEW r \in reads, r.stage = "read"
        PROVE  r.body.at <= clock' /\ r.body.at # clock'
    <3>1. r.body.at <= clock /\ r.body.at \in Nat
      BY <2>5 DEF CacheInv, ReadsKnow, Shape, ReadOK, BodyOK
    <3> QED
      BY <2>1, <3>1
  <2>6. ReadsKnow'
    BY <2>1, <2>5 DEF ReadsKnow
  <2>7. CachedListsAreCurrent'
    BY <2>2, <2>3 DEF CachedListsAreCurrent
  <2> QED
    BY <2>4, <2>6, <2>7 DEF CacheInv
<1>2. CASE ~ Accepted(w)
  <2>1. /\ Goes(w, "refused") /\ UNCHANGED <<drawing, cache, reads, clock>>
        /\ w.stage # "written"
    BY <1>2 DEF Write
  <2> QED
    BY <2>1, GoesOn
<1> QED
  BY <1>1, <1>2

LEMMA FinishKeeps ==
  ASSUME CacheInv, NEW w \in writes, Finish(w)
  PROVE  CacheInv'
<1> DEFINE next == [w EXCEPT !.stage = "ok"]
<1>1. UNCHANGED <<drawing, reads, clock>> /\ cache' = <<>>
  BY DEF Finish
<1>2. writes' = (writes \ {w}) \cup {next}
  BY DEF Finish, Goes
<1>3. WriteOK(next)
  BY DEF CacheInv, Shape, WriteOK
<1> HIDE DEF next
<1>4. Shape'
  BY <1>1, <1>2, <1>3 DEF CacheInv, Shape
<1>5. ReadsKnow'
  BY <1>1 DEF CacheInv, ReadsKnow, Current, Listed
<1>6. CachedListsAreCurrent'
  BY <1>1 DEF CachedListsAreCurrent
<1> QED
  BY <1>4, <1>5, <1>6 DEF CacheInv

LEMMA ServerKeeps == CacheInv /\ ServerStep => CacheInv'
<1> SUFFICES ASSUME CacheInv, ServerStep PROVE CacheInv'
  OBVIOUS
<1>1. CASE \E r \in reads : CheckFolder(r) \/ Lookup(r) \/ Store(r)
  BY <1>1, CheckFolderKeeps, LookupKeeps, StoreKeeps
<1>2. CASE \E w \in writes : CheckWrite(w) \/ Write(w) \/ Finish(w)
  BY <1>2, CheckWriteKeeps, WriteKeeps, FinishKeeps
<1>3. ASSUME NEW w \in writes, Lose(w) PROVE CacheInv'
  <2>1. /\ Goes(w, "refused") /\ UNCHANGED <<drawing, cache, reads, clock>>
        /\ w.stage # "written"
    BY <1>3 DEF Lose
  <2> QED
    BY <2>1, GoesOn
<1>4. CASE \E k \in DOMAIN cache : Evict(k)
  BY <1>4, EvictKeeps
<1> QED
  BY <1>1, <1>2, <1>3, <1>4 DEF ServerStep

-----------------------------------------------------------------------------
(***************************************************************************)
(* The pages ask for lists, send requests and take answers.                *)
(***************************************************************************)
Taken ==
  /\ UNCHANGED <<drawing, cache, clock>>
  /\ \A r \in reads' : r \in reads \/ (ReadOK(r) /\ r.stage # "read")
  /\ \A w \in writes' : w \in writes \/ WriteOK(w)
  /\ \A w \in writes : w.stage = "written" => w \in writes'

LEMMA RefreshAsks ==
  ASSUME NEW f, Refresh(f)
  PROVE  \A r \in reads' : r \in reads \/ (ReadOK(r) /\ r.stage # "read")
BY Asked DEF Refresh

LEMMA SendSends ==
  ASSUME NEW kind, NEW S, NEW to, Send(kind, S, to)
  PROVE  Taken
<1>1. \A w \in writes' : w \in writes \/ WriteOK(w)
  BY Sent DEF Send
<1> QED
  BY <1>1 DEF Send, Taken

LEMMA ListsTake ==
  ASSUME \/ \E f \in Filter : SwitchView(f)
         \/ TabLists(view)
         \/ FetchMore
         \/ \E r \in reads : ListShown(r) \/ MoreShown(r) \/ TabListed(r)
  PROVE  Taken
<1>1. ASSUME NEW f \in Filter, SwitchView(f) PROVE Taken
  BY <1>1, RefreshAsks DEF SwitchView, Taken
<1>2. CASE TabLists(view)
  BY <1>2, Asked DEF TabLists, Taken
<1>3. CASE FetchMore
  BY <1>3, Asked DEF FetchMore, Taken
<1>4. CASE \E r \in reads : ListShown(r)
  BY <1>4 DEF ListShown, Taken
<1>5. CASE \E r \in reads : MoreShown(r)
  BY <1>5 DEF MoreShown, Taken
<1>6. CASE \E r \in reads : TabListed(r)
  BY <1>6 DEF TabListed, Taken
<1> QED
  BY <1>1, <1>2, <1>3, <1>4, <1>5, <1>6

LEMMA HandlersTake == Handler => Taken
<1>1. ASSUME NEW S \in SUBSET Ids(shown), Trash(S) PROVE Taken
  BY <1>1, SendSends DEF Trash
<1>2. ASSUME NEW S \in SUBSET Ids(shown), Destroy(S) PROVE Taken
  BY <1>2, SendSends DEF Destroy
<1>3. ASSUME NEW S \in SUBSET Ids(shown), Duplicate(S) PROVE Taken
  BY <1>3, SendSends DEF Duplicate
<1>4. ASSUME NEW S \in SUBSET Ids(shown), NEW f \in Place, MoveTo(S, f) PROVE Taken
  BY <1>4, SendSends DEF MoveTo
<1>5. ASSUME NEW c \in Collection, Drop(c) PROVE Taken
  <2>1. /\ UNCHANGED <<drawing, cache, clock>>
        /\ writes' = writes \cup {WriteRequest(asked, Me, "drop", 0, c)}
        /\ \/ reads' = reads \cup {ListRequest("list", version + 1, Me, "all", 0)}
           \/ reads' = reads
    BY <1>5 DEF Drop
  <2> QED
    BY <2>1, Asked, Sent DEF Taken
<1> QED
  BY <1>1, <1>2, <1>3, <1>4, <1>5 DEF Handler

LEMMA AnswersTake ==
  ASSUME NEW w \in writes,
         \/ Answered(w) \/ OtherCreated(w)
         \/ \E j \in jobs : Moved(j, w) \/ Destroyed(j, w) \/ Refreshes(j, w) \/ CopyFails(j, w)
  PROVE  Taken
<1>1. CASE Answered(w)
  BY <1>1 DEF Answered, Taken
<1>2. CASE OtherCreated(w)
  BY <1>2 DEF OtherCreated, Taken
<1>3. ASSUME NEW j \in jobs, Moved(j, w) \/ Destroyed(j, w) \/ CopyFails(j, w) PROVE Taken
  BY <1>3 DEF Moved, Destroyed, CopyFails, Settles, Taken
<1>4. ASSUME NEW j \in jobs, Refreshes(j, w) PROVE Taken
  <2>1. /\ UNCHANGED <<drawing, cache, clock>>
        /\ writes' = writes \ {w} /\ w.stage # "written"
    BY <1>4 DEF Refreshes, Settles
  <2>2. \A r \in reads' : r \in reads \/ (ReadOK(r) /\ r.stage # "read")
    BY <1>4, RefreshAsks DEF Refreshes
  <2> QED
    BY <2>1, <2>2 DEF Taken
<1> QED
  BY <1>1, <1>2, <1>3, <1>4

LEMMA PageTakes == PageStep => Taken
<1>1. ASSUME NEW c \in Collection, OtherCreates(c) PROVE Taken
  BY <1>1, Sent DEF OtherCreates, Taken
<1> QED
  BY <1>1, ListsTake, HandlersTake, AnswersTake DEF PageStep

-----------------------------------------------------------------------------
(***************************************************************************)
(* Whatever requests are under way, a list in the cache is what a query    *)
(* would give now, unless an invalidation is to come or the rows changed   *)
(* while it was being read (drawingsCache.ts, drawingListRoutes.ts).       *)
(***************************************************************************)
THEOREM CacheIsCurrent == Spec => []CachedListsAreCurrent
<1>1. CacheInv /\ [Next]_vars => CacheInv'
  <2> SUFFICES ASSUME CacheInv, [Next]_vars PROVE CacheInv'
    OBVIOUS
  <2>1. CASE PageStep
    <3>1. Taken
      BY <2>1, PageTakes
    <3> QED
      BY <3>1, Frame DEF Taken
  <2>2. CASE ServerStep
    BY <2>2, ServerKeeps
  <2>3. CASE UNCHANGED vars
    <3>1. UNCHANGED <<drawing, cache, clock, reads, writes>>
      BY <2>3 DEF vars, library
    <3> QED
      BY <3>1, Frame
  <2> QED
    BY <2>1, <2>2, <2>3 DEF Next
<1>2. CacheInv => CachedListsAreCurrent
  BY DEF CacheInv
<1> QED
  BY CacheInit, <1>1, <1>2, PTL DEF Spec

-----------------------------------------------------------------------------
(***************************************************************************)
(* Scheduled backups.  A run that has come to its second step has put a    *)
(* whole file on the disk under its own name, and has kept within the      *)
(* retention since: this is what makes it safe to delete.                  *)
(***************************************************************************)
BackupFile == [at : Nat, written : Nat, whole : BOOLEAN]

BackupTypes ==
  /\ second \in Nat
  /\ disk \subseteq BackupFile
  /\ copyJob = Resting \/ copyJob \in [at : Nat, step : {1, 2}]

CopiedFirst ==
  copyJob # Resting /\ copyJob.step = 2 =>
    /\ \A f \in disk : f.at = copyJob.at => f.whole
    /\ \E f \in disk : f.at = copyJob.at /\ (Retention > 0 => f.written + Retention >= second)

BackupsInv == BackupTypes /\ CopiedFirst

\* The two steps of a run.
LEMMA StepsOfARun ==
  ASSUME BackupTypes
  PROVE  /\ Doing("copy") <=> copyJob # Resting /\ copyJob.step = 1
         /\ Doing("prune") <=> copyJob # Resting /\ copyJob.step = 2
         /\ Doing("copy") /\ StepOver =>
              copyJob' # Resting /\ copyJob' = [at |-> copyJob.at, step |-> 2]
         /\ Doing("prune") /\ StepOver => copyJob' = Resting
BY DEF BackupTypes, Doing, Order, StepOver, Resting

\* Ticks, runs, failures and restarts keep the invariant.
LEMMA BackupsStep == BackupsInv /\ [BackupsNext]_backups => BackupsInv'
<1> SUFFICES ASSUME BackupsInv, [BackupsNext]_backups PROVE BackupsInv'
  OBVIOUS
<1>. USE BackupConstants DEF BackupsInv
<1>1. CASE Pass
  <2>1. BackupTypes'
    BY <1>1 DEF Pass, BackupTypes
  <2>2. CASE Doing("prune") /\ Retention > 0
    <3>1. PICK f \in disk : f.at = copyJob.at /\ f.written + Retention > second
      BY <1>1, <2>2 DEF Pass, Prompt
    <3>2. f.written + Retention >= second'
      BY <1>1, <3>1 DEF Pass, BackupTypes, BackupFile
    <3>. QED
      BY <1>1, <2>1, <3>1, <3>2 DEF Pass, CopiedFirst
  <2>3. CASE ~ (Doing("prune") /\ Retention > 0)
    BY <1>1, <2>1, <2>3, StepsOfARun DEF Pass, CopiedFirst
  <2>. QED
    BY <2>2, <2>3
<1>2. CASE RunDue
  <2>1. copyJob' = [at |-> second, step |-> 1] /\ second' = second
    BY <1>2 DEF RunDue
  <2>2. [at |-> second, written |-> second, whole |-> FALSE] \in BackupFile
    BY DEF BackupTypes, BackupFile
  <2>3. second \in Nat /\ copyJob' \in [at : Nat, step : {1, 2}] /\ copyJob'.step = 1
    BY <2>1 DEF BackupTypes
  <2>4. disk' \subseteq BackupFile
    BY <1>2, <2>2 DEF RunDue, BackupTypes
  <2>. QED
    BY <2>1, <2>3, <2>4 DEF BackupTypes, CopiedFirst
<1>3. CASE Copied
  <2> DEFINE new == [at |-> copyJob.at, written |-> second, whole |-> TRUE]
  <2>1. copyJob \in [at : Nat, step : {1, 2}] /\ copyJob' = [at |-> copyJob.at, step |-> 2]
    BY <1>3, StepsOfARun DEF Copied, BackupTypes, Doing
  <2>2. new \in BackupFile
    BY <2>1 DEF BackupTypes, BackupFile
  <2>3. disk' = {f \in disk : f.at = copyJob.at => f.whole} \cup {new} /\ UNCHANGED second
    BY <1>3 DEF Copied
  <2>4. BackupTypes'
    BY <2>1, <2>2, <2>3 DEF BackupTypes
  <2>5. new \in disk' /\ new.at = copyJob'.at /\ new.written + Retention >= second'
    BY <2>1, <2>3 DEF BackupTypes
  <2>6. \A f \in disk' : f.at = copyJob'.at => f.whole
    BY <2>1, <2>3
  <2>. QED
    BY <2>4, <2>5, <2>6 DEF CopiedFirst
<1>4. CASE Pruned
  <2>1. copyJob' = Resting
    BY <1>4, StepsOfARun DEF Pruned
  <2>. QED
    BY <1>4, <2>1 DEF Pruned, BackupTypes, CopiedFirst
<1>5. CASE RunFails \/ Restart
  BY <1>5 DEF RunFails, Restart, BackupTypes, CopiedFirst
<1>6. CASE UNCHANGED backups
  BY <1>6 DEF backups, BackupTypes, CopiedFirst
<1>. QED
  BY <1>1, <1>2, <1>3, <1>4, <1>5, <1>6 DEF BackupsNext

(***************************************************************************)
(* A file is deleted only past its retention and after a whole backup that *)
(* is not past it has been written, whatever the schedule and however runs *)
(* are cut off.                                                            *)
(***************************************************************************)
THEOREM OldBackupsAreReplaced ==
  BackupsInit /\ [][BackupsNext]_backups => BackupsAreReplacedFirst
<1> DEFINE Replaced == \A f \in disk : (\A g \in disk' : g.at # f.at) =>
             /\ f.written < second - Retention
             /\ \E g \in disk' : g.whole /\ g.written >= second - Retention
<1>1. BackupsInit => BackupsInv
  BY DEF BackupsInit, BackupsInv, BackupTypes, CopiedFirst
<1>2. BackupsInv /\ [BackupsNext]_backups => [Replaced]_backups
  <2> SUFFICES ASSUME BackupsInv, BackupsNext,
                      NEW f \in disk, \A g \in disk' : g.at # f.at
               PROVE  /\ f.written < second - Retention
                      /\ \E g \in disk' : g.whole /\ g.written >= second - Retention
    OBVIOUS
  <2>1. f \notin disk'
    OBVIOUS
  <2>2. ~ Copied
    BY <2>1 DEF Copied
  <2>3. Pruned
    BY <2>1, <2>2 DEF BackupsNext, Pass, RunDue, RunFails, Restart
  <2>4. /\ Expired(f)
        /\ \A g \in disk : ~ Expired(g) => g \in disk'
    BY <2>1, <2>3 DEF Pruned
  <2>5. PICK g \in disk : /\ g.at = copyJob.at /\ g.whole
                          /\ Retention > 0 => g.written + Retention >= second
    BY <2>3, StepsOfARun DEF Pruned, BackupsInv, CopiedFirst
  <2>6. Retention > 0 /\ f.written < second - Retention
    BY <2>4 DEF Expired
  <2>7. g.written >= second - Retention /\ ~ Expired(g)
    BY <2>5, <2>6, BackupConstants DEF Expired, BackupsInv, BackupTypes, BackupFile
  <2>. QED
    BY <2>4, <2>5, <2>6, <2>7
<1>. QED
  BY <1>1, <1>2, BackupsStep, PTL DEF BackupsAreReplacedFirst

-----------------------------------------------------------------------------
(***************************************************************************)
(* The archive.  New ids belong to the importer they were made for, and to *)
(* nobody before the import is done; the archive holds each drawing once,  *)
(* under an id that is not such a new one, and collections likewise.       *)
(***************************************************************************)
Phases == {"idle", "confirm", "looking", "done", "failed"}

ArchiveTypes ==
  /\ owner \in [Id -> Holder \cup {Nobody}]
  /\ keeper \in [FolderId -> Holder \cup {Nobody}]
  /\ backup = [phase |-> backup.phase, rows |-> backup.rows, folders |-> backup.folders]
  /\ restore = [u \in Holder |-> restore[u]]
  /\ \A u \in Holder :
       /\ restore[u] = [phase |-> restore[u].phase, final |-> restore[u].final]
       /\ restore[u].phase \in Phases

NewIdsAreTheirs ==
  \A u \in Holder :
    /\ \A x \in Drawing : owner[<<u, x>>] \in {Nobody, u}
    /\ restore[u].phase # "done" => \A x \in Drawing : owner[<<u, x>>] = Nobody
    /\ \A f \in OldFolder : keeper[<<u, f>>] \in {Nobody, u}
    /\ keeper[TrashOf(u)] \in {Nobody, u}

NothingImportedYet ==
  backup.phase # "written" =>
    /\ \A u \in Holder : restore[u].phase = "idle"
    /\ \A u \in Holder, f \in OldFolder : keeper[<<u, f>>] = Nobody
    /\ \A u \in Holder : u # Exporter => keeper[TrashOf(u)] = Nobody

RowsAreDrawings ==
  /\ \A r \in backup.rows : r.id \in Drawing
  /\ \A r, s \in backup.rows : r.id = s.id => r = s
  /\ backup.folders \subseteq OldFolder \cup {TrashOf(Nobody)}

LookedUp ==
  \A u \in Holder : \A i \in DOMAIN restore[u].final : restore[u].final[i] \in {i, <<u, i>>}

ArchiveInv ==
  ArchiveTypes /\ NewIdsAreTheirs /\ NothingImportedYet /\ RowsAreDrawings /\ LookedUp

\* Which ids there are, and that they are apart.
LEMMA IdsDiffer ==
  /\ \A x \in Drawing : x \in Id
  /\ \A u \in Holder, x \in Drawing : <<u, x>> \in Id /\ <<u, x>> \notin Drawing
  /\ \A f \in OldFolder : f \in FolderId
  /\ \A u \in Holder, f \in OldFolder :
       <<u, f>> \in FolderId /\ <<u, f>> \notin OldFolder
  /\ \A u \in Holder : TrashOf(u) \in FolderId
  /\ \A u \in Holder \cup {Nobody} :
       /\ TrashOf(u) \notin OldFolder
       /\ \A w \in Holder, f \in OldFolder : TrashOf(u) # <<w, f>>
  /\ \A u, w \in Holder \cup {Nobody} : TrashOf(u) = TrashOf(w) => u = w
  /\ NoFolder \notin FolderId
BY IdsApart, ArchiveConstants DEF Id, FolderId, TrashOf

\* A row is written under its own id or under the importer's new one for it.
LEMMA Targets ==
  ASSUME ArchiveInv, NEW u \in Holder, NEW r \in backup.rows,
         DOMAIN restore[u].final = {s.id : s \in backup.rows}
  PROVE  /\ Target(u, r) \in {r.id, <<u, r.id>>}
         /\ Target(u, r) \in Id
         /\ owner[Target(u, r)] \in {Nobody, u}
<1>1. r.id \in Drawing /\ r.id \in Id /\ <<u, r.id>> \in Id
  BY IdsDiffer DEF ArchiveInv, RowsAreDrawings
<1>2. restore[u].final[r.id] \in {r.id, <<u, r.id>>}
  BY DEF ArchiveInv, LookedUp
<1>3. owner[<<u, r.id>>] \in {Nobody, u}
  BY <1>1 DEF ArchiveInv, NewIdsAreTheirs
<1>4. \/ owner[r.id] = Nobody /\ Target(u, r) = restore[u].final[r.id]
      \/ owner[r.id] = u /\ Target(u, r) = r.id
      \/ owner[r.id] \notin {Nobody, u} /\ Target(u, r) = <<u, r.id>>
  BY ArchiveConstants DEF Target
<1>. QED
  BY <1>1, <1>2, <1>3, <1>4

\* No two rows are written to one id.
LEMMA TargetsApart ==
  ASSUME ArchiveInv, NEW u \in Holder, NEW r \in backup.rows, NEW s \in backup.rows,
         DOMAIN restore[u].final = {q.id : q \in backup.rows},
         Target(u, r) = Target(u, s)
  PROVE  r = s
<1>1. r.id \in Drawing /\ s.id \in Drawing
  BY DEF ArchiveInv, RowsAreDrawings
<1>2. Target(u, r) \in {r.id, <<u, r.id>>} /\ Target(u, s) \in {s.id, <<u, s.id>>}
  BY Targets
<1>3. r.id = s.id
  BY <1>1, <1>2, IdsDiffer
<1>. QED
  BY <1>3 DEF ArchiveInv, RowsAreDrawings

(***************************************************************************)
(* A collection of the archive becomes one that is the importer's or that  *)
(* nobody has, and the import makes it.                                    *)
(***************************************************************************)
LEMMA FoldersBecome ==
  ASSUME ArchiveInv, NEW u \in Holder, NEW f \in backup.folders
  PROVE  /\ Becomes(u, f) \in {f, <<u, f>>, TrashOf(u)}
         /\ f \notin OldFolder => Becomes(u, f) = TrashOf(u)
         /\ Becomes(u, f) \in FolderId
         /\ keeper[Becomes(u, f)] \in {Nobody, u}
<1>1. CASE f = TrashOf(Nobody)
  BY <1>1, IdsDiffer DEF Becomes, ArchiveInv, NewIdsAreTheirs
<1>2. CASE f # TrashOf(Nobody)
  <2>1. f \in OldFolder
    BY <1>2 DEF ArchiveInv, RowsAreDrawings
  <2>2. Becomes(u, f) = IF keeper[f] \in {Nobody, u} THEN f ELSE <<u, f>>
    BY <1>2 DEF Becomes
  <2>. QED
    BY <2>1, <2>2, IdsDiffer DEF ArchiveInv, NewIdsAreTheirs
<1>. QED
  BY <1>1, <1>2

LEMMA MadeFolders ==
  ASSUME ArchiveInv, NEW u \in Holder, NEW f \in FoldersMade(u)
  PROVE  /\ f \in FolderId
         /\ keeper[f] \in {Nobody, u}
         /\ f \in OldFolder \/ f = TrashOf(u) \/ \E g \in OldFolder : f = <<u, g>>
<1>1. CASE f = TrashOf(u)
  BY <1>1, IdsDiffer DEF ArchiveInv, NewIdsAreTheirs
<1>2. CASE f # TrashOf(u)
  <2>1. PICK g \in backup.folders : f = Becomes(u, g)
    BY <1>2 DEF FoldersMade
  <2>. QED
    BY <1>2, <2>1, FoldersBecome
<1>. QED
  BY <1>1, <1>2

\* A phase changes, and the rest of the import stays.
LEMMA PhaseChanges ==
  ASSUME ArchiveTypes, NEW u \in Holder, NEW from, NEW to \in Phases, Phase(u, from, to)
  PROVE  /\ restore[u].phase = from
         /\ restore' = [w \in Holder |-> restore'[w]]
         /\ restore'[u] = [phase |-> to, final |-> restore[u].final]
         /\ \A w \in Holder \ {u} : restore'[w] = restore[w]
BY DEF ArchiveTypes, Phase

\* What the transaction of an import does to the drawings and collections.
LEMMA CommitWrites ==
  ASSUME ArchiveInv, NEW u \in Holder, Commit(u)
  PROVE  /\ restore[u].phase = "looking"
         /\ \A i \in Id : (\A r \in backup.rows : i # Target(u, r)) =>
              owner'[i] = owner[i] /\ scene'[i] = scene[i] /\ place'[i] = place[i]
         /\ \A r \in backup.rows :
              /\ owner'[Target(u, r)] = u
              /\ scene'[Target(u, r)] = r.scene
              /\ place'[Target(u, r)] = Becomes(u, r.place)
         /\ \A f \in FolderId : keeper'[f] = IF f \in FoldersMade(u) THEN u ELSE keeper[f]
<1> DEFINE From(i) == CHOOSE r \in backup.rows : Target(u, r) = i
           written == {Target(u, r) : r \in backup.rows}
<1>1. /\ DOMAIN restore[u].final = {r.id : r \in backup.rows}
      /\ restore[u].phase = "looking"
      /\ keeper' = [f \in FolderId |-> IF f \in FoldersMade(u) THEN u ELSE keeper[f]]
      /\ owner' = [i \in Id |-> IF i \in written THEN u ELSE owner[i]]
      /\ scene' = [i \in Id |-> IF i \in written THEN From(i).scene ELSE scene[i]]
      /\ place' = [i \in Id |-> IF i \in written THEN Becomes(u, From(i).place) ELSE place[i]]
  BY DEF Commit, Phase
<1>2. \A r \in backup.rows : From(Target(u, r)) = r
  <2> TAKE r \in backup.rows
  <2>1. From(Target(u, r)) \in backup.rows /\ Target(u, From(Target(u, r))) = Target(u, r)
    OBVIOUS
  <2>. QED
    BY <1>1, <2>1, TargetsApart
<1>3. \A r \in backup.rows : Target(u, r) \in Id /\ Target(u, r) \in written
  BY <1>1, Targets
<1>4. \A i \in Id : (\A r \in backup.rows : i # Target(u, r)) => i \notin written
  OBVIOUS
<1> HIDE DEF From, written
<1>. QED
  BY <1>1, <1>2, <1>3, <1>4

LEMMA ArchiveBegins == ArchiveInit => ArchiveInv
<1> SUFFICES ASSUME ArchiveInit PROVE ArchiveInv
  OBVIOUS
<1>1. \A u \in Holder : restore[u] = [phase |-> "idle", final |-> <<>>]
  BY DEF ArchiveInit
<1>2. backup = [phase |-> "none", rows |-> {}, folders |-> {}]
  BY DEF ArchiveInit
<1>3. ArchiveTypes
  BY <1>1, <1>2, ArchiveConstants DEF ArchiveInit, ArchiveTypes, Phases
<1>4. NewIdsAreTheirs
  <2>1. \A u \in Holder, x \in Drawing : owner[<<u, x>>] = Nobody
    BY IdsDiffer DEF ArchiveInit
  <2>2. \A u \in Holder, f \in OldFolder : keeper[<<u, f>>] = Nobody
    BY IdsDiffer, ArchiveConstants DEF ArchiveInit
  <2>3. \A u \in Holder : keeper[TrashOf(u)] \in {Nobody, u}
    BY IdsDiffer, ArchiveConstants DEF ArchiveInit
  <2>. QED
    BY <2>1, <2>2, <2>3 DEF NewIdsAreTheirs
<1>5. NothingImportedYet
  BY <1>1, IdsDiffer, ArchiveConstants DEF ArchiveInit, NothingImportedYet
<1>6. RowsAreDrawings
  BY <1>2 DEF RowsAreDrawings
<1>7. LookedUp
  BY <1>1 DEF LookedUp
<1>. QED
  BY <1>3, <1>4, <1>5, <1>6, <1>7 DEF ArchiveInv

\* The export reads drawings under their first ids, and collections likewise.
LEMMA ExportKeepsInv ==
  ASSUME ArchiveInv, ReadDrawings \/ ReadFolders
  PROVE  ArchiveInv'
<1>. USE DEF drawings
<1>0. UNCHANGED <<owner, keeper, restore>> /\ backup.phase # "written"
  BY DEF ReadDrawings, ReadFolders
<1>1. CASE ReadDrawings
  <2> DEFINE row(i) == [id |-> i, scene |-> scene[i], place |-> Public(place[i], Exporter)]
  <2>1. \A i \in Id : owner[i] = Exporter => i \in Drawing
    BY <1>0, ArchiveConstants DEF Id, ArchiveInv, NewIdsAreTheirs, NothingImportedYet
  <2>2. /\ backup' = [backup EXCEPT !.phase = "half",
                        !.rows = {row(i) : i \in {j \in Id : owner[j] = Exporter}}]
        /\ backup.phase = "none"
    BY <1>1 DEF ReadDrawings
  <2>3. /\ backup'.phase = "half"
        /\ backup'.rows = {row(i) : i \in {j \in Id : owner[j] = Exporter}}
        /\ backup'.folders = backup.folders
        /\ backup' = [phase |-> backup'.phase, rows |-> backup'.rows, folders |-> backup'.folders]
    BY <2>2 DEF ArchiveInv, ArchiveTypes
  <2>4. \A i : row(i).id = i
    OBVIOUS
  <2> HIDE DEF row
  <2>5. RowsAreDrawings'
    BY <2>1, <2>3, <2>4 DEF RowsAreDrawings, ArchiveInv
  <2>. QED
    BY <1>0, <2>2, <2>3, <2>5
       DEF ArchiveInv, ArchiveTypes, NewIdsAreTheirs, NothingImportedYet, LookedUp
<1>2. CASE ReadFolders
  <2>1. \A f \in FolderId : keeper[f] = Exporter => Public(f, Exporter) \in OldFolder \cup {TrashOf(Nobody)}
    BY <1>0, ArchiveConstants DEF FolderId, Public, ArchiveInv, NothingImportedYet
  <2>2. /\ backup'.phase = "written"
        /\ backup'.rows = backup.rows
        /\ backup'.folders = {Public(f, Exporter) : f \in {g \in FolderId : keeper[g] = Exporter}}
        /\ backup' = [phase |-> backup'.phase, rows |-> backup'.rows, folders |-> backup'.folders]
    BY <1>2 DEF ReadFolders, ArchiveInv, ArchiveTypes
  <2>3. RowsAreDrawings'
    BY <2>1, <2>2 DEF RowsAreDrawings, ArchiveInv
  <2>. QED
    BY <1>0, <2>2, <2>3
       DEF ArchiveInv, ArchiveTypes, NewIdsAreTheirs, NothingImportedYet, LookedUp
<1>. QED
  BY <1>1, <1>2

\* The steps of the settings page, and an import that fails.
LEMMA PhaseKeepsInv ==
  ASSUME ArchiveInv, NEW u \in Holder, NEW from, NEW to \in Phases \ {"done"},
         Phase(u, from, to), from \notin {"done"},
         UNCHANGED <<owner, keeper, backup>>,
         backup.phase = "written" \/ from # "idle"
  PROVE  ArchiveInv'
<1>1. /\ restore[u].phase = from
      /\ restore' = [w \in Holder |-> restore'[w]]
      /\ restore'[u] = [phase |-> to, final |-> restore[u].final]
      /\ \A w \in Holder \ {u} : restore'[w] = restore[w]
  BY PhaseChanges DEF ArchiveInv
<1>2. backup.phase = "written"
  BY <1>1 DEF ArchiveInv, NothingImportedYet
<1>3. ArchiveTypes'
  BY <1>1, <1>2 DEF ArchiveInv, ArchiveTypes
<1>4. LookedUp'
  <2>1. \A w \in Holder : restore'[w].final = restore[w].final
    BY <1>1
  <2>. QED
    BY <2>1 DEF ArchiveInv, LookedUp
<1>5. NewIdsAreTheirs' /\ NothingImportedYet' /\ RowsAreDrawings'
  BY <1>1, <1>2 DEF ArchiveInv, NewIdsAreTheirs, NothingImportedYet, RowsAreDrawings, TrashOf
<1>. QED
  BY <1>3, <1>4, <1>5 DEF ArchiveInv

\* The first look makes a new id where the old one is somebody else's.
LEMMA LookUpKeepsInv ==
  ASSUME ArchiveInv, NEW u \in Holder, LookUp(u)
  PROVE  ArchiveInv'
<1>1. PICK r \in backup.rows :
        restore' = [restore EXCEPT ![u].final =
            [i \in DOMAIN @ \cup {r.id} |->
               IF i # r.id THEN @[i] ELSE IF owner[i] \in {Nobody, u} THEN i ELSE <<u, i>>]]
  BY DEF LookUp
<1> DEFINE new == [i \in DOMAIN restore[u].final \cup {r.id} |->
                     IF i # r.id THEN restore[u].final[i]
                     ELSE IF owner[i] \in {Nobody, u} THEN i ELSE <<u, i>>]
<1>2. restore' = [restore EXCEPT ![u].final = new]
  BY <1>1
<1>3. \A i \in DOMAIN new : new[i] \in {i, <<u, i>>}
  BY DEF ArchiveInv, LookedUp
<1>4. UNCHANGED <<owner, keeper, backup>>
  BY DEF LookUp, drawings
<1> HIDE DEF new
<1>5. /\ restore' = [w \in Holder |-> restore'[w]]
      /\ restore'[u] = [phase |-> restore[u].phase, final |-> new]
      /\ \A w \in Holder \ {u} : restore'[w] = restore[w]
  BY <1>2 DEF ArchiveInv, ArchiveTypes
<1>6. \A w \in Holder : restore'[w].phase = restore[w].phase
  BY <1>5
<1>7. ArchiveTypes'
  BY <1>4, <1>5 DEF ArchiveInv, ArchiveTypes
<1>8. LookedUp'
  <2> SUFFICES ASSUME NEW w \in Holder, NEW i \in DOMAIN restore'[w].final
               PROVE  restore'[w].final[i] \in {i, <<w, i>>}
    BY DEF LookedUp
  <2>1. CASE w = u
    BY <1>3, <1>5, <2>1
  <2>2. CASE w # u
    BY <1>5, <2>2 DEF ArchiveInv, LookedUp
  <2>. QED
    BY <2>1, <2>2
<1>9. NewIdsAreTheirs' /\ NothingImportedYet' /\ RowsAreDrawings'
  BY <1>4, <1>6 DEF ArchiveInv, NewIdsAreTheirs, NothingImportedYet, RowsAreDrawings, TrashOf
<1>. QED
  BY <1>7, <1>8, <1>9 DEF ArchiveInv

\* The transaction gives the importer no new id but the importer's own.
LEMMA CommitKeepsInv ==
  ASSUME ArchiveInv, NEW u \in Holder, Commit(u)
  PROVE  ArchiveInv'
<1>1. /\ restore[u].phase = "looking"
      /\ restore' = [w \in Holder |-> restore'[w]]
      /\ restore'[u] = [phase |-> "done", final |-> restore[u].final]
      /\ \A w \in Holder \ {u} : restore'[w] = restore[w]
  BY PhaseChanges DEF ArchiveInv, Commit, Phases
<1>2. backup.phase = "written" /\ UNCHANGED backup
  BY <1>1 DEF ArchiveInv, NothingImportedYet, Commit
<1>3. /\ owner' \in [Id -> Holder \cup {Nobody}]
      /\ keeper' \in [FolderId -> Holder \cup {Nobody}]
  BY DEF Commit, ArchiveInv, ArchiveTypes
<1>4. ArchiveTypes'
  BY <1>1, <1>2, <1>3 DEF ArchiveInv, ArchiveTypes, Phases
<1>5. \A w \in Holder \ {u}, x \in Drawing : owner'[<<w, x>>] = owner[<<w, x>>]
  <2> TAKE w \in Holder \ {u}, x \in Drawing
  <2>1. <<w, x>> \in Id /\ <<w, x>> \notin Drawing
    BY IdsDiffer
  <2>2. \A r \in backup.rows : <<w, x>> # Target(u, r)
    <3> TAKE r \in backup.rows
    <3>1. r.id \in Drawing /\ Target(u, r) \in {r.id, <<u, r.id>>}
      BY Targets DEF ArchiveInv, RowsAreDrawings, Commit
    <3>. QED
      BY <2>1, <3>1
  <2>. QED
    BY <2>1, <2>2, CommitWrites
<1>6. \A x \in Drawing : owner'[<<u, x>>] \in {Nobody, u}
  <2> TAKE x \in Drawing
  <2>1. <<u, x>> \in Id /\ owner[<<u, x>>] \in {Nobody, u}
    BY IdsDiffer DEF ArchiveInv, NewIdsAreTheirs
  <2>. QED
    BY <2>1, CommitWrites
<1>7. /\ \A w \in Holder, f \in OldFolder : keeper'[<<w, f>>] \in {Nobody, w}
      /\ \A w \in Holder : keeper'[TrashOf(w)] \in {Nobody, w}
  <2>1. \A g \in FoldersMade(u) : g \in OldFolder \/ g = TrashOf(u) \/ \E f \in OldFolder : g = <<u, f>>
    BY MadeFolders
  <2>2. \A w \in Holder \ {u}, f \in OldFolder : <<w, f>> \notin FoldersMade(u)
    <3> TAKE w \in Holder \ {u}, f \in OldFolder
    <3>1. /\ <<w, f>> \notin OldFolder /\ <<w, f>> # TrashOf(u)
          /\ \A g : <<w, f>> # <<u, g>>
      BY IdsDiffer
    <3>. QED
      BY <2>1, <3>1
  <2>3. \A w \in Holder \ {u} : TrashOf(w) \notin FoldersMade(u)
    BY <2>1, IdsDiffer
  <2>. QED
    BY <2>2, <2>3, IdsDiffer, CommitWrites DEF ArchiveInv, NewIdsAreTheirs
<1>8. NewIdsAreTheirs'
  <2> SUFFICES ASSUME NEW w \in Holder
               PROVE  /\ \A x \in Drawing : owner'[<<w, x>>] \in {Nobody, w}
                      /\ restore'[w].phase # "done" => \A x \in Drawing : owner'[<<w, x>>] = Nobody
                      /\ \A f \in OldFolder : keeper'[<<w, f>>] \in {Nobody, w}
                      /\ keeper'[TrashOf(w)] \in {Nobody, w}
    BY DEF NewIdsAreTheirs, TrashOf
  <2>1. CASE w = u
    BY <1>1, <1>6, <1>7, <2>1
  <2>2. CASE w # u
    BY <1>1, <1>5, <1>7, <2>2 DEF ArchiveInv, NewIdsAreTheirs
  <2>. QED
    BY <2>1, <2>2
<1>9. NothingImportedYet' /\ RowsAreDrawings' /\ LookedUp'
  BY <1>1, <1>2 DEF ArchiveInv, NothingImportedYet, RowsAreDrawings, LookedUp, TrashOf
<1>. QED
  BY <1>4, <1>8, <1>9 DEF ArchiveInv

\* What users do besides gives no id to anybody.
LEMMA ChangesKeepInv ==
  ASSUME ArchiveInv, Change,
         \/ UNCHANGED <<owner, keeper>>
         \/ \E i \in Id : owner' = [owner EXCEPT ![i] = Nobody] /\ UNCHANGED keeper
         \/ \E f \in FolderId : keeper' = [keeper EXCEPT ![f] = Nobody] /\ UNCHANGED owner
  PROVE  ArchiveInv'
<1>1. /\ owner' \in [Id -> Holder \cup {Nobody}]
      /\ keeper' \in [FolderId -> Holder \cup {Nobody}]
      /\ \A i \in Id : owner'[i] \in {owner[i], Nobody}
      /\ \A f \in FolderId : keeper'[f] \in {keeper[f], Nobody}
  BY DEF ArchiveInv, ArchiveTypes
<1>2. UNCHANGED <<backup, restore>>
  BY DEF Change
<1>3. ArchiveTypes' /\ RowsAreDrawings' /\ LookedUp'
  BY <1>1, <1>2 DEF ArchiveInv, ArchiveTypes, RowsAreDrawings, LookedUp
<1>4. NewIdsAreTheirs' /\ NothingImportedYet'
  BY <1>1, <1>2, IdsDiffer DEF ArchiveInv, NewIdsAreTheirs, NothingImportedYet
<1>. QED
  BY <1>3, <1>4 DEF ArchiveInv

LEMMA ArchiveStep == ArchiveInv /\ [ArchiveNext]_archive => ArchiveInv'
<1> SUFFICES ASSUME ArchiveInv, [ArchiveNext]_archive PROVE ArchiveInv'
  OBVIOUS
<1>1. CASE ReadDrawings \/ ReadFolders
  BY <1>1, ExportKeepsInv
<1>2. ASSUME NEW u \in Holder, Verify(u) \/ Cancel(u) \/ ConfirmImport(u) \/ Refuse(u)
      PROVE  ArchiveInv'
  BY <1>2, PhaseKeepsInv DEF Verify, Cancel, ConfirmImport, Refuse, Phases, drawings
<1>3. ASSUME NEW u \in Holder, LookUp(u) PROVE ArchiveInv'
  BY <1>3, LookUpKeepsInv
<1>4. ASSUME NEW u \in Holder, Commit(u) PROVE ArchiveInv'
  BY <1>4, CommitKeepsInv
<1>5. CASE \E i \in Id : \/ Discard(i) \/ (\E s \in Scene : Edit(i, s))
                        \/ \E f \in FolderId \cup {NoFolder} : Move(i, f)
  BY <1>5, ChangesKeepInv DEF Discard, Edit, Move
<1>6. CASE \E f \in FolderId : DropFolder(f)
  BY <1>6, ChangesKeepInv DEF DropFolder
<1>7. CASE UNCHANGED archive
  BY <1>7 DEF archive, drawings, ArchiveInv, ArchiveTypes, NewIdsAreTheirs,
              NothingImportedYet, RowsAreDrawings, LookedUp
<1>. QED
  BY <1>1, <1>2, <1>3, <1>4, <1>5, <1>6, <1>7 DEF ArchiveNext

(***************************************************************************)
(* An import restores the backup and nothing else: the other users keep    *)
(* their drawings and collections, the importer keeps the drawings that    *)
(* the backup does not hold, and has each one that it holds, whatever      *)
(* happened to the ids between the first look and the transaction.         *)
(***************************************************************************)
THEOREM ImportsRestore ==
  ArchiveInit /\ [][ArchiveNext]_archive => ImportRestores
<1> DEFINE Restores == \A u \in Holder :
             restore[u].phase # "done" /\ restore'[u].phase = "done" => Restored(u)
<1>1. ArchiveInv /\ [ArchiveNext]_archive => [Restores]_archive
  <2> SUFFICES ASSUME ArchiveInv, ArchiveNext, NEW u \in Holder,
                      restore[u].phase # "done", restore'[u].phase = "done"
               PROVE  Restored(u)
    OBVIOUS
  <2>1. Commit(u)
    <3>1. ~ UNCHANGED restore
      OBVIOUS
    <3>2. PICK w \in Holder : \/ Verify(w) \/ Cancel(w) \/ ConfirmImport(w)
                            \/ LookUp(w) \/ Commit(w) \/ Refuse(w)
      BY <3>1 DEF ArchiveNext, ReadDrawings, ReadFolders, Discard, Edit, Move, DropFolder, Change
    <3>3. ~ (Verify(w) \/ Cancel(w) \/ ConfirmImport(w) \/ LookUp(w) \/ Refuse(w))
      BY DEF Verify, Cancel, ConfirmImport, LookUp, Refuse, Phase, ArchiveInv, ArchiveTypes
    <3>4. w = u
      BY <3>2, <3>3 DEF Commit, Phase, ArchiveInv, ArchiveTypes
    <3>. QED
      BY <3>2, <3>3, <3>4
  <2>2. DOMAIN restore[u].final = {r.id : r \in backup.rows}
    BY <2>1 DEF Commit
  <2>3. ASSUME NEW i \in Id, owner[i] \notin {Nobody, u}
        PROVE  owner'[i] = owner[i] /\ scene'[i] = scene[i] /\ place'[i] = place[i]
    <3>1. \A r \in backup.rows : i # Target(u, r)
      BY <2>2, <2>3, Targets
    <3>. QED
      BY <2>1, <3>1, CommitWrites
  <2>4. ASSUME NEW f \in FolderId, keeper[f] \notin {Nobody, u}
        PROVE  keeper'[f] = keeper[f]
    BY <2>1, <2>4, CommitWrites, MadeFolders
  <2>5. ASSUME NEW i \in Id, owner[i] = u, \A r \in backup.rows : i # r.id
        PROVE  scene'[i] = scene[i] /\ place'[i] = place[i]
    <3>1. \A x \in Drawing : owner[<<u, x>>] = Nobody
      BY DEF ArchiveInv, NewIdsAreTheirs
    <3>2. \A r \in backup.rows : i # Target(u, r)
      BY <2>2, <2>5, <3>1, Targets, ArchiveConstants DEF ArchiveInv, RowsAreDrawings
    <3>. QED
      BY <2>1, <3>2, CommitWrites
  <2>6. ASSUME NEW r \in backup.rows
        PROVE  \E i \in {r.id, <<u, r.id>>} :
                 /\ owner'[i] = u /\ scene'[i] = r.scene
                 /\ place'[i] # NoFolder => keeper'[place'[i]] = u
                 /\ r.place \in backup.folders => place'[i] # NoFolder
    <3> DEFINE i == Target(u, r)
    <3>1. /\ i \in {r.id, <<u, r.id>>}
          /\ owner'[i] = u /\ scene'[i] = r.scene /\ place'[i] = Becomes(u, r.place)
      BY <2>1, <2>2, Targets, CommitWrites
    <3>2. CASE r.place = TrashOf(Nobody)
      <4>1. Becomes(u, r.place) = TrashOf(u) /\ TrashOf(u) \in FoldersMade(u)
        BY <3>2 DEF Becomes, FoldersMade, NeedsTrash
      <4>. QED
        BY <2>1, <3>1, <4>1, CommitWrites, IdsDiffer
    <3>3. CASE r.place # TrashOf(Nobody) /\ r.place \in backup.folders
      <4>1. Becomes(u, r.place) \in FoldersMade(u) /\ Becomes(u, r.place) \in FolderId
        BY <3>3, FoldersBecome DEF FoldersMade
      <4>. QED
        BY <2>1, <3>1, <4>1, CommitWrites, IdsDiffer
    <3>4. CASE r.place # TrashOf(Nobody) /\ r.place \notin backup.folders
      <4>1. Becomes(u, r.place) = NoFolder
        BY <3>4 DEF Becomes
      <4>. QED
        BY <3>1, <3>4, <4>1
    <3>. QED
      BY <3>2, <3>3, <3>4
  <2>. QED
    BY <2>3, <2>4, <2>5, <2>6 DEF Restored
<1>. QED
  BY <1>1, ArchiveBegins, ArchiveStep, PTL DEF ImportRestores

-----------------------------------------------------------------------------
(***************************************************************************)
(* The storage dialog.  Nothing in it is out of reach during a deletion,   *)
(* so what makes it safe to confirm is that the modal stays busy with one  *)
(* deletion until the list that follows it has come, however often it is   *)
(* closed and opened, and that every change of the action empties the name.*)
(***************************************************************************)
\* What the modal, its calls and its job can be.
FileList == UNION {[S -> BOOLEAN] : S \in SUBSET File}
AskedFiles == [stage : {"asked"}, releases : BOOLEAN]
ReadFiles == [stage : {"read"}, releases : BOOLEAN, last : BOOLEAN, files : FileList]
Cleanup == [stage : {"asked", "done"}, kind : {"trim", "orphans"}, ids : SUBSET File]
PlannedCleanup == [stage : {"planned"}, kind : {"trim", "orphans"}, ids : SUBSET File,
                   plan : [File -> {"shown", "kept", "gone"}]]
ListState == {NoList} \cup AskedFiles \cup ReadFiles
JobState == {NoJob} \cup Cleanup \cup PlannedCleanup
Modal == [open : BOOLEAN, loading : BOOLEAN, listed : FileList, selected : SUBSET File,
          confirm : {"none", "trim", "orphans"}, typed : BOOLEAN, busy : BOOLEAN, error : BOOLEAN]

StorageTypes ==
  /\ stored \in [File -> {"shown", "kept", "gone"}]
  /\ manager \in Modal
  /\ listing \in [ListCall -> ListState]
  /\ job \in JobState
  /\ named \in {"none", "trim", "orphans"} /\ dated \in BOOLEAN

Diff == [f \in Present |-> stored[f] = "shown"]
Releasing == {l \in ListCall : listing[l] # NoList /\ listing[l].releases}

\* The modal is busy with one deletion: its job, or the list that it waits for then.
OneDeletion ==
  /\ manager.busy <=> (job # NoJob \/ Releasing # {})
  /\ job # NoJob => Releasing = {}
  /\ \A k, l \in Releasing : k = l

\* The name is that of the action which is asked for, and nothing in use is selected.
NameStands ==
  /\ manager.typed => manager.confirm = named
  /\ manager.selected \subseteq {f \in DOMAIN manager.listed : ~ manager.listed[f]}

\* The list read last is what is stored, and if it is not there yet, it is on its way.
ListIsComing ==
  ~ dated =>
    /\ \A l \in ListCall : listing[l].stage = "read" /\ listing[l].last => listing[l].files = Diff
    /\ manager.open /\ ~ manager.error =>
         \/ job # NoJob \/ manager.listed = Diff
         \/ \E l \in ListCall : listing[l].stage = "asked" \/ (listing[l].stage = "read" /\ listing[l].last)

StorageInv == StorageTypes /\ OneDeletion /\ NameStands /\ ListIsComing

\* The calls when one of them is answered.
ServedList(k, l) ==
  IF k = l THEN [stage |-> "read", releases |-> listing[l].releases, last |-> TRUE, files |-> Diff]
  ELSE IF listing[k].stage = "read" THEN [listing[k] EXCEPT !.last = FALSE] ELSE listing[k]

LEMMA ListsAsks ==
  ASSUME StorageTypes, NEW free \in BOOLEAN, Lists(free)
  PROVE  listing' \in [ListCall -> ListState]
BY DEF Lists, StorageTypes, ListState, AskedFiles

\* What is stored is a list.
LEMMA DiffIsAList == Diff \in FileList
<1>1. Diff \in [Present -> BOOLEAN] /\ Present \in SUBSET File
  BY DEF Diff, Present
<1> QED
  BY <1>1 DEF FileList

LEMMA ListsAreOfFiles ==
  ASSUME NEW files \in FileList
  PROVE  DOMAIN files \subseteq File /\ \A f \in DOMAIN files : files[f] \in BOOLEAN
BY DEF FileList

LEMMA StorageStep == StorageInv /\ [StorageNext]_storageDialog => StorageInv'
<1> SUFFICES ASSUME StorageInv, [StorageNext]_storageDialog PROVE StorageInv'
  OBVIOUS
<1>0. StorageTypes /\ OneDeletion /\ NameStands /\ ListIsComing
  BY DEF StorageInv
<1>1. CASE OpenManager
  <2>1. StorageTypes'
    <3>1. listing' \in [ListCall -> ListState]
      BY <1>0, <1>1, ListsAsks DEF OpenManager
    <3>2. manager' \in Modal
      BY <1>0, <1>1 DEF OpenManager, StorageTypes, Modal
    <3> QED
      BY <1>0, <1>1, <3>1, <3>2 DEF OpenManager, StorageTypes
  <2>2. OneDeletion'
    BY <1>0, <1>1 DEF OpenManager, Lists, OneDeletion, Releasing
  <2>3. NameStands'
    BY <1>0, <1>1 DEF OpenManager, NameStands
  <2>4. ListIsComing'
    BY <1>0, <1>1 DEF OpenManager, Lists, ListIsComing, Diff, Present, StorageTypes
  <2> QED
    BY <2>1, <2>2, <2>3, <2>4 DEF StorageInv
<1>2. CASE CloseManager
  <2>1. StorageTypes'
    BY <1>0, <1>2 DEF CloseManager, StorageTypes, Modal
  <2>2. OneDeletion'
    BY <1>0, <1>2 DEF CloseManager, OneDeletion, Releasing
  <2>3. NameStands'
    BY <1>0, <1>2 DEF CloseManager, NameStands
  <2>4. ListIsComing'
    BY <1>0, <1>2 DEF CloseManager, ListIsComing, Diff, Present
  <2> QED
    BY <2>1, <2>2, <2>3, <2>4 DEF StorageInv
<1>3. CASE RefreshList
  <2>1. StorageTypes'
    <3>1. listing' \in [ListCall -> ListState]
      BY <1>0, <1>3, ListsAsks DEF RefreshList
    <3>2. manager' \in Modal
      BY <1>0, <1>3 DEF RefreshList, StorageTypes, Modal
    <3> QED
      BY <1>0, <1>3, <3>1, <3>2 DEF RefreshList, StorageTypes
  <2>2. OneDeletion'
    BY <1>0, <1>3 DEF RefreshList, Lists, OneDeletion, Releasing
  <2>3. NameStands'
    BY <1>0, <1>3 DEF RefreshList, NameStands
  <2>4. ListIsComing'
    BY <1>0, <1>3 DEF RefreshList, Lists, ListIsComing, Diff, Present, StorageTypes
  <2> QED
    BY <2>1, <2>2, <2>3, <2>4 DEF StorageInv
<1>4. CASE TypeName
  <2>1. StorageTypes'
    BY <1>0, <1>4 DEF TypeName, StorageTypes, Modal
  <2>2. OneDeletion'
    BY <1>0, <1>4 DEF TypeName, OneDeletion, Releasing
  <2>3. NameStands'
    BY <1>0, <1>4 DEF TypeName, NameStands
  <2>4. ListIsComing'
    BY <1>0, <1>4 DEF TypeName, ListIsComing, Diff, Present
  <2> QED
    BY <2>1, <2>2, <2>3, <2>4 DEF StorageInv
<1>5. CASE CancelConfirm
  <2>1. StorageTypes'
    BY <1>0, <1>5 DEF CancelConfirm, StorageTypes, Modal
  <2>2. OneDeletion'
    BY <1>0, <1>5 DEF CancelConfirm, OneDeletion, Releasing
  <2>3. NameStands'
    BY <1>0, <1>5 DEF CancelConfirm, NameStands
  <2>4. ListIsComing'
    BY <1>0, <1>5 DEF CancelConfirm, ListIsComing, Diff, Present
  <2> QED
    BY <2>1, <2>2, <2>3, <2>4 DEF StorageInv
<1>6. CASE Confirm
  <2>1. StorageTypes'
    BY <1>0, <1>6 DEF Confirm, StorageTypes, Modal, JobState, Cleanup
  <2>2. OneDeletion'
    <3>1. job' # NoJob
      BY <1>6 DEF Confirm, NoJob
    <3>2. manager'.busy
      BY <1>0, <1>6 DEF Confirm, StorageTypes, Modal
    <3>3. Releasing' = {}
      BY <1>0, <1>6 DEF Confirm, OneDeletion, Releasing
    <3> QED
      BY <3>1, <3>2, <3>3 DEF OneDeletion
  <2>3. NameStands'
    BY <1>0, <1>6 DEF Confirm, NameStands
  <2>4. ListIsComing'
    BY <1>0, <1>6 DEF Confirm, ListIsComing, Diff, Present, NoJob
  <2> QED
    BY <2>1, <2>2, <2>3, <2>4 DEF StorageInv
<1>7. CASE PlanCleanup
  <2>1. StorageTypes'
    <3>1. Planned \in [File -> {"shown", "kept", "gone"}]
      BY <1>0 DEF Planned, StorageTypes
    <3>2. job \in Cleanup
      BY <1>0, <1>7 DEF PlanCleanup, StorageTypes, JobState, NoJob, PlannedCleanup
    <3>3. job' \in PlannedCleanup
      BY <1>7, <3>1, <3>2 DEF PlanCleanup, Cleanup, PlannedCleanup
    <3> QED
      BY <1>0, <1>7, <3>3 DEF PlanCleanup, StorageTypes, JobState
  <2>2. OneDeletion'
    BY <1>0, <1>7 DEF PlanCleanup, OneDeletion, Releasing, NoJob
  <2>3. NameStands'
    BY <1>0, <1>7 DEF PlanCleanup, NameStands
  <2>4. ListIsComing'
    BY <1>0, <1>7 DEF PlanCleanup, ListIsComing, Diff, Present, NoJob
  <2> QED
    BY <2>1, <2>2, <2>3, <2>4 DEF StorageInv
<1>8. CASE WriteCleanup
  <2>1. StorageTypes'
    BY <1>0, <1>8 DEF WriteCleanup, StorageTypes, NoJob, JobState, Cleanup, PlannedCleanup
  <2>2. OneDeletion'
    BY <1>0, <1>8 DEF WriteCleanup, OneDeletion, Releasing, NoJob
  <2>3. NameStands'
    BY <1>0, <1>8 DEF WriteCleanup, NameStands
  <2>4. ListIsComing'
    BY <1>0, <1>8 DEF WriteCleanup, ListIsComing
  <2> QED
    BY <2>1, <2>2, <2>3, <2>4 DEF StorageInv
<1>9. CASE CleanedUp
  <2>1. StorageTypes'
    <3>1. listing' \in [ListCall -> ListState]
      BY <1>0, <1>9, ListsAsks DEF CleanedUp
    <3>2. manager' \in Modal
      BY <1>0, <1>9 DEF CleanedUp, StorageTypes, Modal
    <3> QED
      BY <1>0, <1>9, <3>1, <3>2 DEF CleanedUp, StorageTypes, JobState
  <2>2. OneDeletion'
    <3>1. manager.busy /\ Releasing = {}
      BY <1>0, <1>9 DEF CleanedUp, OneDeletion, NoJob
    <3>2. PICK l \in ListCall :
            listing' = [listing EXCEPT ![l] = [stage |-> "asked", releases |-> TRUE]]
      BY <1>9 DEF CleanedUp, Lists
    <3>3. \A k \in ListCall : k # l => listing'[k] = listing[k]
      BY <1>0, <3>2 DEF StorageTypes
    <3>4. listing'[l] = [stage |-> "asked", releases |-> TRUE]
      BY <1>0, <3>2 DEF StorageTypes
    <3>5. Releasing' = {l}
      BY <3>1, <3>3, <3>4 DEF Releasing, NoList
    <3>6. manager'.busy /\ job' = NoJob
      BY <1>0, <1>9, <3>1 DEF CleanedUp, StorageTypes, Modal
    <3> QED
      BY <3>5, <3>6 DEF OneDeletion
  <2>3. NameStands'
    BY <1>0, <1>9 DEF CleanedUp, NameStands, NoJob
  <2>4. ListIsComing'
    BY <1>0, <1>9 DEF CleanedUp, Lists, ListIsComing, Diff, Present, StorageTypes
  <2> QED
    BY <2>1, <2>2, <2>3, <2>4 DEF StorageInv
<1>10. CASE CleanupFails
  <2>1. StorageTypes'
    BY <1>0, <1>10 DEF CleanupFails, StorageTypes, Modal, JobState
  <2>2. OneDeletion'
    BY <1>0, <1>10 DEF CleanupFails, OneDeletion, Releasing
  <2>3. NameStands'
    BY <1>0, <1>10 DEF CleanupFails, NameStands, NoJob
  <2>4. ListIsComing'
    BY <1>0, <1>10 DEF CleanupFails, ListIsComing, Diff, Present
  <2> QED
    BY <2>1, <2>2, <2>3, <2>4 DEF StorageInv
<1>11. ASSUME NEW action \in {"trim", "orphans"}, AskFor(action)
      PROVE  StorageInv'
  <2>1. StorageTypes'
    BY <1>0, <1>11 DEF AskFor, StorageTypes, Modal
  <2>2. OneDeletion'
    BY <1>0, <1>11 DEF AskFor, OneDeletion, Releasing
  <2>3. NameStands'
    BY <1>0, <1>11 DEF AskFor, NameStands, NoJob, OneDeletion
  <2>4. ListIsComing'
    BY <1>0, <1>11 DEF AskFor, ListIsComing, Diff, Present
  <2> QED
    BY <2>1, <2>2, <2>3, <2>4 DEF StorageInv
<1>12. ASSUME NEW f \in File, EditorSaves(f)
      PROVE  StorageInv'
  <2>1. StorageTypes'
    BY <1>0, <1>12 DEF EditorSaves, StorageTypes
  <2>2. OneDeletion'
    BY <1>0, <1>12 DEF EditorSaves, OneDeletion, Releasing
  <2>3. NameStands'
    BY <1>0, <1>12 DEF EditorSaves, NameStands
  <2>4. ListIsComing'
    BY <1>0, <1>12 DEF EditorSaves, ListIsComing
  <2> QED
    BY <2>1, <2>2, <2>3, <2>4 DEF StorageInv
<1>13. ASSUME NEW f \in File, ToggleFile(f)
      PROVE  StorageInv'
  <2>1. StorageTypes'
    BY <1>0, <1>13 DEF ToggleFile, StorageTypes, Modal
  <2>2. OneDeletion'
    BY <1>0, <1>13 DEF ToggleFile, OneDeletion, Releasing
  <2>3. NameStands'
    BY <1>0, <1>13 DEF ToggleFile, NameStands
  <2>4. ListIsComing'
    BY <1>0, <1>13 DEF ToggleFile, ListIsComing, Diff, Present
  <2> QED
    BY <2>1, <2>2, <2>3, <2>4 DEF StorageInv
<1>14. ASSUME NEW l \in ListCall, ServeList(l)
      PROVE  StorageInv'
  <2>0. /\ listing[l] \in AskedFiles /\ listing' = [k \in ListCall |-> ServedList(k, l)]
        /\ \A k \in ListCall : /\ ServedList(k, l) \in ListState
                               /\ ServedList(k, l) = NoList <=> listing[k] = NoList
                               /\ listing[k] # NoList => ServedList(k, l).releases = listing[k].releases
    <3>1. listing[l] \in AskedFiles
      BY <1>0, <1>14 DEF ServeList, StorageTypes, ListState, NoList, ReadFiles
    <3>2. listing' = [k \in ListCall |-> ServedList(k, l)]
      BY <1>14 DEF ServeList, ServedList, Diff
    <3>3. ASSUME NEW k \in ListCall
          PROVE  /\ ServedList(k, l) \in ListState
                 /\ ServedList(k, l) = NoList <=> listing[k] = NoList
                 /\ listing[k] # NoList => ServedList(k, l).releases = listing[k].releases
      <4>1. CASE k = l
        BY <3>1, <4>1, DiffIsAList DEF ServedList, ListState, AskedFiles, ReadFiles, NoList
      <4>2. CASE k # l /\ listing[k].stage = "read"
        <5>1. listing[k] \in ReadFiles
          BY <1>0, <4>2 DEF StorageTypes, ListState, AskedFiles, NoList
        <5> QED
          BY <4>2, <5>1 DEF ServedList, ListState, ReadFiles, NoList
      <4>3. CASE k # l /\ listing[k].stage # "read"
        BY <1>0, <4>3 DEF ServedList, StorageTypes
      <4> QED
        BY <4>1, <4>2, <4>3
    <3> QED
      BY <3>1, <3>2, <3>3
  <2>1. StorageTypes'
    BY <1>0, <1>14, <2>0 DEF ServeList, StorageTypes
  <2>2. OneDeletion'
    <3>1. Releasing' = Releasing
      BY <2>0 DEF Releasing
    <3> QED
      BY <1>0, <1>14, <3>1 DEF ServeList, OneDeletion
  <2>3. NameStands'
    BY <1>0, <1>14 DEF ServeList, NameStands
  <2>4. ListIsComing'
    BY <1>0, <1>14 DEF ServeList, ListIsComing, Diff, Present
  <2> QED
    BY <2>1, <2>2, <2>3, <2>4 DEF StorageInv
<1>15. ASSUME NEW l \in ListCall, ListArrives(l)
      PROVE  StorageInv'
  <2>1. StorageTypes'
    <3>1. listing[l] \in ReadFiles
      BY <1>0, <1>15 DEF ListArrives, StorageTypes, ListState, NoList, AskedFiles
    <3>2. /\ listing[l].files \in FileList /\ listing[l].releases \in BOOLEAN
          /\ listing[l].last \in BOOLEAN
      BY <3>1 DEF ReadFiles
    <3>3. {f \in DOMAIN listing[l].files : ~ listing[l].files[f]} \in SUBSET File
      BY <3>2, ListsAreOfFiles
    <3>4. manager' \in Modal
      <4> DEFINE files == listing[l].files
                 ticked == {f \in DOMAIN files : ~ files[f]}
                 still == manager.busy /\ ~ listing[l].releases
      <4>1. manager' = [manager EXCEPT !.listed = files, !.selected = ticked, !.loading = FALSE,
                                       !.busy = still]
        BY <1>15 DEF ListArrives
      <4>2. files \in FileList /\ ticked \in SUBSET File /\ still \in BOOLEAN /\ manager \in Modal
        BY <1>0, <3>2, <3>3 DEF StorageTypes
      <4> HIDE DEF files, ticked, still
      <4> QED
        BY <4>1, <4>2 DEF Modal
    <3>5. listing' \in [ListCall -> ListState]
      BY <1>0, <1>15 DEF ListArrives, StorageTypes, ListState
    <3>6. dated' \in BOOLEAN
      BY <1>0, <1>15, <3>2 DEF ListArrives
    <3> QED
      BY <1>0, <1>15, <3>4, <3>5, <3>6 DEF ListArrives, StorageTypes
  <2>2. OneDeletion'
    <3>1. listing[l] # NoList /\ job' = job
      BY <1>15 DEF ListArrives, NoList
    <3>2. listing' = [listing EXCEPT ![l] = NoList]
      BY <1>15 DEF ListArrives
    <3>3. Releasing' = Releasing \ {l}
      BY <1>0, <3>2 DEF Releasing, StorageTypes
    <3>4. manager'.busy <=> (manager.busy /\ ~ listing[l].releases)
      BY <1>0, <1>15 DEF ListArrives, StorageTypes, Modal
    <3>5. l \in Releasing <=> listing[l].releases
      BY <3>1 DEF Releasing
    <3> QED
      BY <1>0, <3>1, <3>3, <3>4, <3>5 DEF OneDeletion
  <2>3. NameStands'
    BY <1>0, <1>15 DEF ListArrives, NameStands
  <2>4. ListIsComing'
    BY <1>0, <1>15 DEF ListArrives, ListIsComing, Diff, Present, StorageTypes, NoList, Modal
  <2> QED
    BY <2>1, <2>2, <2>3, <2>4 DEF StorageInv
<1>16. ASSUME NEW l \in ListCall, ListFails(l)
      PROVE  StorageInv'
  <2>1. StorageTypes'
    BY <1>0, <1>16 DEF ListFails, StorageTypes, Modal, ListState
  <2>2. OneDeletion'
    BY <1>0, <1>16 DEF ListFails, OneDeletion, Releasing, StorageTypes, Modal
  <2>3. NameStands'
    BY <1>0, <1>16 DEF ListFails, NameStands
  <2>4. ListIsComing'
    BY <1>0, <1>16 DEF ListFails, ListIsComing, Diff, Present, NoList
  <2> QED
    BY <2>1, <2>2, <2>3, <2>4 DEF StorageInv
<1>17. CASE UNCHANGED storageDialog
  <2>1. StorageTypes'
    BY <1>0, <1>17 DEF storageDialog, StorageTypes
  <2>2. OneDeletion'
    BY <1>0, <1>17 DEF storageDialog, OneDeletion, Releasing
  <2>3. NameStands'
    BY <1>0, <1>17 DEF storageDialog, NameStands
  <2>4. ListIsComing'
    BY <1>0, <1>17 DEF storageDialog, ListIsComing, Diff, Present
  <2> QED
    BY <2>1, <2>2, <2>3, <2>4 DEF StorageInv
<1> QED
  BY <1>1, <1>2, <1>3, <1>4, <1>5, <1>6, <1>7, <1>8, <1>9, <1>10, <1>11, <1>12, <1>13, <1>14,
       <1>15, <1>16, <1>17 DEF StorageNext

LEMMA StorageBegins == StorageInit => StorageInv
<1> SUFFICES ASSUME StorageInit PROVE StorageInv
  OBVIOUS
<1>1. [f \in {} |-> FALSE] \in FileList
  <2>1. [f \in {} |-> FALSE] \in [{} -> BOOLEAN]
    OBVIOUS
  <2> QED
    BY <2>1 DEF FileList
<1>2. StorageTypes
  BY <1>1 DEF StorageInit, StorageTypes, Modal, ListState, JobState
<1>3. OneDeletion
  BY DEF StorageInit, OneDeletion, Releasing
<1>4. NameStands
  BY DEF StorageInit, NameStands, NoJob
<1>5. ListIsComing
  BY DEF StorageInit, ListIsComing, NoList
<1> QED
  BY <1>2, <1>3, <1>4, <1>5 DEF StorageInv

LEMMA StorageInvSuffices == StorageInv => DeletionsAreConfirmed
BY DEF StorageInv, OneDeletion, Releasing, NameStands, ListIsComing, DeletionsAreConfirmed,
       Quiet, Diff, NoList

(***************************************************************************)
(* For every set of files and any number of calls, the storage dialog has  *)
(* one deletion under way at a time and only as it was confirmed, selects  *)
(* nothing that is in use, and shows what is stored when nothing is under  *)
(* way.                                                                    *)
(***************************************************************************)
THEOREM EveryDeletionIsConfirmed ==
  StorageInit /\ [][StorageNext]_storageDialog => []DeletionsAreConfirmed
<1>1. StorageInit /\ [][StorageNext]_storageDialog => []StorageInv
  BY StorageBegins, StorageStep, PTL
<1> QED
  BY <1>1, StorageInvSuffices, PTL

-----------------------------------------------------------------------------
(***************************************************************************)
(* The API keys. The card tells what works because a list that it waits    *)
(* for is the first that it shows, and a key that was revoked while a      *)
(* row still shows it as active has its answer on the way.                 *)
(***************************************************************************)
\* What the calls, the rows and the card can be.
KeyRows == UNION {[S -> BOOLEAN] : S \in SUBSET Key}
KeyKind == {"list", "create", "revoke"}
AskedCall == [stage : {"asked"}, kind : KeyKind, key : Key \cup {"none"}, scopes : SUBSET Scope, mine : BOOLEAN]
DoneCall  == [stage : {"done"}, kind : KeyKind, key : Key \cup {"none"}, mine : BOOLEAN, rows : KeyRows]
CallState == {NoCall} \cup AskedCall \cup DoneCall
KeyState  == [made : BOOLEAN, revoked : BOOLEAN, scopes : SUBSET Scope]
OpenedCard == [open : {TRUE}, loading : BOOLEAN, busy : BOOLEAN, rows : KeyRows, scopes : SUBSET Scope,
               confirm : SUBSET Key, error : BOOLEAN, unloaded : BOOLEAN, doubtful : BOOLEAN]

KeyTypes ==
  /\ account \in [active : BOOLEAN, mustReset : BOOLEAN]
  /\ keys \in [Key -> KeyState]
  /\ keyCall \in [KeyCall -> CallState]
  /\ keyCard \in {Closed} \cup OpenedCard
  /\ known \in SUBSET Key

\* Keys have scopes, and the browser knows none that was not made.
KeysAreUsable ==
  /\ known \subseteq Made
  /\ \A k \in Made : keys[k].scopes # {}

Mine(c) == keyCall[c] # NoCall /\ keyCall[c].mine

\* A call is about a key that is there, or that nobody else is making.
CallsFit ==
  /\ account.mustReset => \A c \in KeyCall : keyCall[c] = NoCall
  /\ \A c \in KeyCall : keyCall[c] # NoCall =>
       /\ keyCall[c].kind # "list" => keyCall[c].key \in Key
       /\ keyCall[c].kind = "create" /\ keyCall[c].stage = "asked" =>
            /\ keyCall[c].key \notin Made /\ keyCall[c].scopes # {}
            /\ \A d \in KeyCall \ {c} : keyCall[d] # NoCall /\ keyCall[d].kind # "list" => keyCall[d].key # keyCall[c].key
       /\ keyCall[c].kind = "create" /\ keyCall[c].stage = "done" => keyCall[c].key \in Made
       /\ keyCall[c].kind = "revoke" => keyCall[c].key \in Made
       /\ keyCall[c].kind = "revoke" /\ keyCall[c].stage = "done" => keys[keyCall[c].key].revoked

\* Rows are of keys that were made, and none is shown as revoked that is not.
RowsAreTrue(rows) == \A k \in DOMAIN rows : k \in Made /\ (rows[k] => keys[k].revoked)

\* The list that the card waits for is the first that it does; it has every key
\* the browser knows, and is as the keys are unless the card is in doubt.
ListsFit ==
  \A c \in KeyCall : keyCall[c] # NoCall /\ keyCall[c].kind = "list" =>
    /\ Mine(c) => keyCard.open /\ keyCard.loading /\ keyCard.confirm = {} /\ \A d \in KeyCall \ {c} : ~ Mine(d)
    /\ keyCall[c].stage = "done" => RowsAreTrue(keyCall[c].rows)
    /\ keyCall[c].stage = "done" /\ Mine(c) =>
         /\ known \subseteq DOMAIN keyCall[c].rows
         /\ keyCard.doubtful \/ \A k \in DOMAIN keyCall[c].rows : keyCall[c].rows[k] = keys[k].revoked

\* The card: a revoked key that it shows as active is about to be shown as revoked.
CardFits ==
  /\ \A c \in KeyCall : Mine(c) => keyCard.open
  /\ keyCard.open =>
       /\ RowsAreTrue(keyCard.rows)
       /\ keyCard.confirm \subseteq DOMAIN keyCard.rows
       /\ account.mustReset => DOMAIN keyCard.rows = {}
       /\ \A c \in KeyCall : Mine(c) /\ keyCall[c].kind = "create" /\ keyCall[c].stage = "done" =>
            /\ keyCall[c].key \notin DOMAIN keyCard.rows /\ ~ keys[keyCall[c].key].revoked
            /\ \A d \in KeyCall \ {c} : keyCall[d] # NoCall /\ keyCall[d].kind # "list" => keyCall[d].key # keyCall[c].key
       /\ ~ keyCard.loading /\ ~ account.mustReset /\ ~ keyCard.unloaded => known \subseteq DOMAIN keyCard.rows
       /\ ~ keyCard.doubtful =>
            /\ \A c \in KeyCall : keyCall[c] # NoCall /\ keyCall[c].kind = "revoke" => Mine(c)
            /\ \A k \in DOMAIN keyCard.rows : ~ keyCard.rows[k] /\ keys[k].revoked =>
                 \E c \in KeyCall : Mine(c) /\ keyCall[c].stage = "done" /\ keyCall[c].kind = "revoke" /\ keyCall[c].key = k

KeysInv == KeyTypes /\ KeysAreUsable /\ CallsFit /\ ListsFit /\ CardFits

LEMMA CallsAreCalls ==
  ASSUME KeyTypes, NEW kind \in KeyKind, NEW k \in Key \cup {"none"}, NEW scopes \in SUBSET Scope,
         Calls(kind, k, scopes)
  PROVE  keyCall' \in [KeyCall -> CallState]
<1>1. PICK c \in KeyCall :
        keyCall' = [keyCall EXCEPT ![c] = [stage |-> "asked", kind |-> kind, key |-> k,
                                           scopes |-> scopes, mine |-> TRUE]]
  BY DEF Calls
<1>2. [stage |-> "asked", kind |-> kind, key |-> k, scopes |-> scopes, mine |-> TRUE] \in CallState
  BY DEF CallState, AskedCall
<1> QED
  BY <1>1, <1>2 DEF KeyTypes

LEMMA SettledCalls ==
  ASSUME KeyTypes, NEW c \in KeyCall, Settle(c)
  PROVE  keyCall' \in [KeyCall -> CallState]
BY DEF KeyTypes, Settle, CallState

\* A function from keys to whether they are revoked is a set of rows.
LEMMA RowsOf ==
  ASSUME NEW S \in SUBSET Key, NEW rows \in [S -> BOOLEAN]
  PROVE  rows \in KeyRows
BY DEF KeyRows

LEMMA RowsHave ==
  ASSUME NEW rows \in KeyRows
  PROVE  DOMAIN rows \in SUBSET Key /\ \A k \in DOMAIN rows : rows[k] \in BOOLEAN
BY DEF KeyRows

\* The card when it is opened.
LEMMA OpenedCards ==
  ASSUME [k \in {} |-> FALSE] \in KeyRows
  PROVE  Card \in OpenedCard /\ [Card EXCEPT !.loading = FALSE] \in OpenedCard
<1> DEFINE doubt == \E c \in KeyCall : keyCall[c] # NoCall /\ keyCall[c].kind = "revoke"
<1>1. Card = [open |-> TRUE, loading |-> TRUE, busy |-> FALSE, rows |-> [k \in {} |-> FALSE],
              scopes |-> Scope, confirm |-> {}, error |-> FALSE, unloaded |-> FALSE, doubtful |-> doubt]
  BY DEF Card
<1>2. doubt \in BOOLEAN
  OBVIOUS
<1> HIDE DEF doubt
<1> QED
  BY <1>1, <1>2 DEF OpenedCard

LEMMA DoneCalls ==
  ASSUME KeyTypes, NEW c \in KeyCall, keyCall[c].stage = "done"
  PROVE  keyCall[c] \in DoneCall
BY DEF KeyTypes, CallState, NoCall, AskedCall

LEMMA AskedCalls ==
  ASSUME KeyTypes, NEW c \in KeyCall, keyCall[c].stage = "asked"
  PROVE  keyCall[c] \in AskedCall
BY DEF KeyTypes, CallState, NoCall, DoneCall

LEMMA KeysStep == KeysInv /\ [KeysNext]_apiKeys => KeysInv'
<1> SUFFICES ASSUME KeysInv, [KeysNext]_apiKeys PROVE KeysInv'
  OBVIOUS
<1>0. KeyTypes /\ KeysAreUsable /\ CallsFit /\ ListsFit /\ CardFits
  BY DEF KeysInv
<1>1. CASE OpenCard
  <2>1. KeyTypes'
    <3>0. "list" \in KeyKind /\ {} \in SUBSET Scope /\ "none" \in Key \cup {"none"}
      BY DEF KeyKind
    <3>1. keyCall' \in [KeyCall -> CallState]
      BY <1>0, <1>1, <3>0, CallsAreCalls DEF OpenCard, KeyTypes
    <3>2. [k \in {} |-> FALSE] \in KeyRows
      <4>1. [k \in {} |-> FALSE] \in [{} -> BOOLEAN] /\ {} \in SUBSET Key
        OBVIOUS
      <4> QED
        BY <4>1, RowsOf
    <3>3. keyCard' \in OpenedCard
      BY <1>1, <3>2, OpenedCards DEF OpenCard
    <3> QED
      BY <1>0, <1>1, <3>1, <3>3 DEF OpenCard, KeyTypes
  <2>2. KeysAreUsable'
    BY <1>0, <1>1 DEF OpenCard, KeysAreUsable, Made
  <2>3. CallsFit'
    BY <1>0, <1>1 DEF OpenCard, Calls, CallsFit, Made, KeyTypes
  <2>4. ListsFit'
    BY <1>0, <1>1 DEF OpenCard, Calls, Card, ListsFit, CardFits, CallsFit, KeysAreUsable,
         RowsAreTrue, Mine, Made, KeyTypes
  <2>5. CardFits'
    <3>1. /\ ~ keyCard.open /\ UNCHANGED <<account, keys, known>>
          /\ keyCard'.open /\ keyCard'.rows = [k \in {} |-> FALSE] /\ keyCard'.confirm = {}
          /\ keyCard'.doubtful = (\E c \in KeyCall : keyCall[c] # NoCall /\ keyCall[c].kind = "revoke")
          /\ account.mustReset \/ keyCard'.loading
      <4> DEFINE doubt == \E c \in KeyCall : keyCall[c] # NoCall /\ keyCall[c].kind = "revoke"
      <4>1. /\ ~ keyCard.open /\ UNCHANGED <<account, keys, known>>
            /\ keyCard' = IF account.mustReset THEN [Card EXCEPT !.loading = FALSE] ELSE Card
        BY <1>1 DEF OpenCard
      <4>2. Card = [open |-> TRUE, loading |-> TRUE, busy |-> FALSE, rows |-> [k \in {} |-> FALSE],
                    scopes |-> Scope, confirm |-> {}, error |-> FALSE, unloaded |-> FALSE, doubtful |-> doubt]
        BY DEF Card
      <4> HIDE DEF doubt
      <4>3. /\ keyCard'.open /\ keyCard'.rows = [k \in {} |-> FALSE] /\ keyCard'.confirm = {}
            /\ keyCard'.doubtful = doubt /\ (account.mustReset \/ keyCard'.loading)
        BY <4>1, <4>2
      <4> QED
        BY <4>1, <4>3 DEF doubt
    <3>2. \A c \in KeyCall : keyCall'[c] = keyCall[c] \/ (keyCall'[c].kind = "list" /\ keyCall'[c].mine)
      BY <1>0, <1>1 DEF OpenCard, Calls, KeyTypes
    <3>3. RowsAreTrue(keyCard.rows)'
      BY <3>1 DEF RowsAreTrue
    <3> QED
      BY <1>0, <3>1, <3>2, <3>3 DEF CardFits, Mine
  <2> QED
    BY <2>1, <2>2, <2>3, <2>4, <2>5 DEF KeysInv
<1>2. CASE LeaveCard
  <2>1. KeyTypes'
    <3>1. ASSUME NEW c \in KeyCall
          PROVE  (IF keyCall[c] = NoCall THEN NoCall ELSE [keyCall[c] EXCEPT !.mine = FALSE]) \in CallState
      <4>1. keyCall[c] \in CallState
        BY <1>0 DEF KeyTypes
      <4>2. CASE keyCall[c] \in AskedCall
        BY <4>2 DEF CallState, AskedCall
      <4>3. CASE keyCall[c] \in DoneCall
        BY <4>3 DEF CallState, DoneCall
      <4> QED
        BY <4>1, <4>2, <4>3 DEF CallState
    <3> QED
      BY <1>0, <1>2, <3>1 DEF LeaveCard, KeyTypes
  <2>2. KeysAreUsable'
    BY <1>0, <1>2 DEF LeaveCard, KeysAreUsable, Made
  <2>3. CallsFit'
    BY <1>0, <1>2 DEF LeaveCard, CallsFit, Made
  <2>4. ListsFit'
    BY <1>0, <1>2 DEF LeaveCard, ListsFit, RowsAreTrue, Mine, Made
  <2>5. CardFits'
    BY <1>0, <1>2 DEF LeaveCard, CardFits, Mine, Closed
  <2> QED
    BY <2>1, <2>2, <2>3, <2>4, <2>5 DEF KeysInv
<1>3. CASE CancelRevoke
  <2>1. KeyTypes'
    BY <1>0, <1>3 DEF CancelRevoke, KeyTypes, Closed, OpenedCard
  <2>2. KeysAreUsable'
    BY <1>0, <1>3 DEF CancelRevoke, KeysAreUsable, Made
  <2>3. CallsFit'
    BY <1>0, <1>3 DEF CancelRevoke, CallsFit, Made
  <2>4. ListsFit'
    BY <1>0, <1>3 DEF CancelRevoke, ListsFit, RowsAreTrue, Mine, Made
  <2>5. CardFits'
    BY <1>0, <1>3 DEF CancelRevoke, CardFits, RowsAreTrue, Mine, Made
  <2> QED
    BY <2>1, <2>2, <2>3, <2>4, <2>5 DEF KeysInv
<1>4. CASE Deactivate
  <2>1. KeyTypes'
    BY <1>0, <1>4 DEF Deactivate, KeyTypes
  <2>2. KeysAreUsable'
    BY <1>0, <1>4 DEF Deactivate, KeysAreUsable, Made
  <2>3. CallsFit'
    BY <1>0, <1>4 DEF Deactivate, CallsFit, Made
  <2>4. ListsFit'
    BY <1>0, <1>4 DEF Deactivate, ListsFit, RowsAreTrue, Mine, Made
  <2>5. CardFits'
    BY <1>0, <1>4 DEF Deactivate, CardFits, RowsAreTrue, Mine, Made
  <2> QED
    BY <2>1, <2>2, <2>3, <2>4, <2>5 DEF KeysInv
<1>5. CASE ResetPassword
  <2>1. KeyTypes'
    BY <1>0, <1>5 DEF ResetPassword, KeyTypes
  <2>2. KeysAreUsable'
    BY <1>0, <1>5 DEF ResetPassword, KeysAreUsable, Made
  <2>3. CallsFit'
    BY <1>0, <1>5 DEF ResetPassword, CallsFit
  <2>4. ListsFit'
    BY <1>0, <1>5 DEF ResetPassword, ListsFit, CallsFit
  <2>5. CardFits'
    BY <1>0, <1>5 DEF ResetPassword, CardFits, CallsFit, Mine, Closed
  <2> QED
    BY <2>1, <2>2, <2>3, <2>4, <2>5 DEF KeysInv
<1>6. ASSUME NEW s \in Scope, Toggle(s)
      PROVE  KeysInv'
  <2>1. KeyTypes'
    BY <1>0, <1>6 DEF Toggle, KeyTypes, Closed, OpenedCard
  <2>2. KeysAreUsable'
    BY <1>0, <1>6 DEF Toggle, KeysAreUsable, Made
  <2>3. CallsFit'
    BY <1>0, <1>6 DEF Toggle, CallsFit, Made
  <2>4. ListsFit'
    BY <1>0, <1>6 DEF Toggle, ListsFit, RowsAreTrue, Mine, Made
  <2>5. CardFits'
    BY <1>0, <1>6 DEF Toggle, CardFits, RowsAreTrue, Mine, Made
  <2> QED
    BY <2>1, <2>2, <2>3, <2>4, <2>5 DEF KeysInv
<1>7. ASSUME NEW k \in Key, CreateKey(k)
      PROVE  KeysInv'
  <2>1. KeyTypes'
    <3>1. keyCard \in OpenedCard
      BY <1>0, <1>7 DEF CreateKey, MayCreate, KeyTypes, Closed
    <3>2. keyCard.scopes \in SUBSET Scope /\ "create" \in KeyKind
      BY <3>1 DEF OpenedCard, KeyKind
    <3>3. keyCall' \in [KeyCall -> CallState]
      BY <1>0, <1>7, <3>2, CallsAreCalls DEF CreateKey
    <3>4. keyCard' \in OpenedCard
      BY <1>7, <3>1 DEF CreateKey, OpenedCard
    <3> QED
      BY <1>0, <1>7, <3>3, <3>4 DEF CreateKey, KeyTypes
  <2>2. KeysAreUsable'
    BY <1>0, <1>7 DEF CreateKey, KeysAreUsable, Made
  <2>3. CallsFit'
    BY <1>0, <1>7 DEF CreateKey, MayCreate, Calls, CallsFit, Made
  <2>4. ListsFit'
    BY <1>0, <1>7 DEF CreateKey, MayCreate, Calls, ListsFit, RowsAreTrue, Mine, Made
  <2>5. CardFits'
    BY <1>0, <1>7 DEF CreateKey, MayCreate, Calls, CardFits, ListsFit, CallsFit, KeysAreUsable,
         RowsAreTrue, Mine, Made
  <2> QED
    BY <2>1, <2>2, <2>3, <2>4, <2>5 DEF KeysInv
<1>8. ASSUME NEW k \in Key, AskToRevoke(k)
      PROVE  KeysInv'
  <2>1. KeyTypes'
    BY <1>0, <1>8 DEF AskToRevoke, KeyTypes, Closed, OpenedCard
  <2>2. KeysAreUsable'
    BY <1>0, <1>8 DEF AskToRevoke, KeysAreUsable, Made
  <2>3. CallsFit'
    BY <1>0, <1>8 DEF AskToRevoke, CallsFit, Made
  <2>4. ListsFit'
    BY <1>0, <1>8 DEF AskToRevoke, ListsFit, RowsAreTrue, Mine, Made
  <2>5. CardFits'
    BY <1>0, <1>8 DEF AskToRevoke, CardFits, RowsAreTrue, Mine, Made
  <2> QED
    BY <2>1, <2>2, <2>3, <2>4, <2>5 DEF KeysInv
<1>9. ASSUME NEW k \in Key, RevokeKey(k)
      PROVE  KeysInv'
  <2>1. KeyTypes'
    <3>1. keyCard \in OpenedCard
      BY <1>0, <1>9 DEF RevokeKey, KeyTypes, Closed
    <3>2. {} \in SUBSET Scope /\ "revoke" \in KeyKind
      BY DEF KeyKind
    <3>3. keyCall' \in [KeyCall -> CallState]
      BY <1>0, <1>9, <3>2, CallsAreCalls DEF RevokeKey
    <3>4. keyCard' \in OpenedCard
      BY <1>9, <3>1 DEF RevokeKey, OpenedCard
    <3> QED
      BY <1>0, <1>9, <3>3, <3>4 DEF RevokeKey, KeyTypes
  <2>2. KeysAreUsable'
    BY <1>0, <1>9 DEF RevokeKey, KeysAreUsable, Made
  <2>3. CallsFit'
    <3>1. k \in Made /\ UNCHANGED <<account, keys>>
      BY <1>0, <1>9 DEF RevokeKey, CardFits, RowsAreTrue
    <3>2. Made' = Made
      BY <3>1 DEF Made
    <3>3. PICK c \in KeyCall :
            /\ keyCall[c] = NoCall
            /\ keyCall' = [keyCall EXCEPT ![c] = [stage |-> "asked", kind |-> "revoke", key |-> k,
                                                  scopes |-> {}, mine |-> TRUE]]
      BY <1>9 DEF RevokeKey, Calls
    <3>4. ~ account.mustReset
      BY <1>0, <1>9 DEF RevokeKey, CardFits
    <3> QED
      BY <1>0, <3>1, <3>2, <3>3, <3>4 DEF CallsFit
  <2>4. ListsFit'
    BY <1>0, <1>9 DEF RevokeKey, Calls, ListsFit, RowsAreTrue, Mine, Made
  <2>5. CardFits'
    BY <1>0, <1>9 DEF RevokeKey, Calls, CardFits, KeysAreUsable, RowsAreTrue, Mine, Made
  <2> QED
    BY <2>1, <2>2, <2>3, <2>4, <2>5 DEF KeysInv
<1>10. ASSUME NEW c \in KeyCall, ServeKeys(c)
      PROVE  KeysInv'
  <2>1. KeyTypes'
    <3>0. keyCall[c] \in AskedCall
      BY <1>0, <1>10, AskedCalls DEF ServeKeys
    <3>1. [k \in Made |-> keys[k].revoked] \in KeyRows
      <4>1. Made \in SUBSET Key /\ \A k \in Made : keys[k].revoked \in BOOLEAN
        BY <1>0 DEF Made, KeyTypes, KeyState
      <4> QED
        BY <4>1, RowsOf
    <3>2. keyCall'[c] \in DoneCall /\ keyCall' = [keyCall EXCEPT ![c] = keyCall'[c]]
      BY <1>0, <1>10, <3>0, <3>1 DEF ServeKeys, KeyTypes, AskedCall, DoneCall
    <3>3. keys' \in [Key -> KeyState]
      <4>0. keyCall[c].kind # "list" => keyCall[c].key \in Key
        BY <1>0, <3>0 DEF CallsFit, AskedCall, NoCall
      <4>1. CASE keyCall[c].kind = "create"
        <5>1. [made |-> TRUE, revoked |-> FALSE, scopes |-> keyCall[c].scopes] \in KeyState
          BY <3>0 DEF KeyState, AskedCall
        <5> QED
          BY <1>0, <1>10, <4>1, <5>1 DEF ServeKeys, KeyTypes
      <4>2. CASE keyCall[c].kind = "revoke"
        BY <1>0, <1>10, <4>0, <4>2 DEF ServeKeys, KeyTypes, KeyState
      <4>3. CASE keyCall[c].kind = "list"
        BY <1>0, <1>10, <4>3 DEF ServeKeys, KeyTypes
      <4> QED
        BY <3>0, <4>1, <4>2, <4>3 DEF AskedCall, KeyKind
    <3> QED
      BY <1>0, <1>10, <3>2, <3>3 DEF ServeKeys, KeyTypes, CallState
  <2>2. KeysAreUsable'
    BY <1>0, <1>10 DEF ServeKeys, KeysAreUsable, CallsFit, Made, NoCall
  <2>3. CallsFit'
    <3>0. keyCall[c] \in AskedCall /\ keyCall[c] # NoCall
      BY <1>0, <1>10, AskedCalls DEF ServeKeys, NoCall
    <3>1. /\ keyCall'[c].stage = "done" /\ keyCall'[c].kind = keyCall[c].kind
          /\ keyCall'[c].key = keyCall[c].key
      BY <1>0, <1>10 DEF ServeKeys, KeyTypes
    <3>2. \A d \in KeyCall \ {c} : keyCall'[d] = keyCall[d]
      BY <1>0, <1>10 DEF ServeKeys
    <3>3. UNCHANGED account /\ ~ account.mustReset
      BY <1>10 DEF ServeKeys
    <3>4. CASE keyCall[c].kind = "create"
      <4>1. /\ keyCall[c].key \in Key \ Made
            /\ keys' = [keys EXCEPT ![keyCall[c].key] = [made |-> TRUE, revoked |-> FALSE, scopes |-> keyCall[c].scopes]]
        BY <1>0, <1>10, <3>0, <3>4 DEF ServeKeys, CallsFit
      <4>2. Made' = Made \cup {keyCall[c].key}
        BY <1>0, <4>1 DEF Made, KeyTypes
      <4> QED
        BY <1>0, <3>0, <3>1, <3>2, <3>3, <3>4, <4>1, <4>2 DEF CallsFit
    <3>5. CASE keyCall[c].kind = "revoke"
      <4>1. keyCall[c].key \in Made /\ keys' = [keys EXCEPT ![keyCall[c].key].revoked = TRUE]
        BY <1>0, <1>10, <3>0, <3>5 DEF ServeKeys, CallsFit
      <4>2. Made' = Made
        BY <1>0, <4>1 DEF Made
      <4>3. \A k \in Made : keys[k].revoked \/ k = keyCall[c].key => keys'[k].revoked
        BY <1>0, <4>1 DEF Made, KeyTypes
      <4> QED
        BY <1>0, <3>0, <3>1, <3>2, <3>3, <3>5, <4>1, <4>2, <4>3 DEF CallsFit
    <3>6. CASE keyCall[c].kind = "list"
      <4>1. keys' = keys /\ Made' = Made
        BY <1>10, <3>6 DEF ServeKeys, Made
      <4> QED
        BY <1>0, <3>0, <3>1, <3>2, <3>3, <3>6, <4>1 DEF CallsFit
    <3> QED
      BY <3>0, <3>4, <3>5, <3>6 DEF AskedCall, KeyKind
  <2>4. ListsFit'
    <3>0. keyCall[c] \in AskedCall /\ keyCall[c] # NoCall
      BY <1>0, <1>10, AskedCalls DEF ServeKeys, NoCall
    <3>1. /\ keyCall'[c].stage = "done" /\ keyCall'[c] # NoCall
          /\ keyCall'[c].kind = keyCall[c].kind /\ keyCall'[c].mine = keyCall[c].mine
          /\ keyCall'[c].rows = [k \in Made |-> keys[k].revoked]
      BY <1>0, <1>10 DEF ServeKeys, KeyTypes, NoCall
    <3>2. \A d \in KeyCall \ {c} : keyCall'[d] = keyCall[d]
      BY <1>0, <1>10 DEF ServeKeys
    <3>3. UNCHANGED <<keyCard, known>> /\ \A d \in KeyCall : Mine(d)' = Mine(d)
      BY <1>10, <3>0, <3>1, <3>2 DEF ServeKeys, Mine
    <3>4. \A k \in Made : k \in Made' /\ (keys[k].revoked => keys'[k].revoked)
      BY <1>0, <1>10, <3>0 DEF ServeKeys, CallsFit, Made
    <3>5. ASSUME NEW rows, RowsAreTrue(rows) PROVE RowsAreTrue(rows)'
      BY <3>4, <3>5 DEF RowsAreTrue
    <3>6. RowsAreTrue([k \in Made |-> keys[k].revoked])
      BY DEF RowsAreTrue
    <3>7. ASSUME NEW d \in KeyCall, keyCall'[d] # NoCall, keyCall'[d].kind = "list", keyCall'[d].stage = "done"
          PROVE  RowsAreTrue(keyCall[d].rows)'
      <4>1. CASE d = c
        BY <3>1, <3>5, <3>6, <4>1
      <4>2. CASE d # c
        <5>1. RowsAreTrue(keyCall[d].rows) /\ keyCall'[d] = keyCall[d]
          BY <1>0, <3>2, <3>7, <4>2 DEF ListsFit
        <5> QED
          BY <3>4, <5>1 DEF RowsAreTrue
      <4> QED
        BY <4>1, <4>2
    <3>8. ASSUME NEW d \in KeyCall, keyCall'[d].kind = "list", keyCall'[d].stage = "done", Mine(d), ~ keyCard.doubtful
          PROVE  \A k \in DOMAIN keyCall'[d].rows : keyCall'[d].rows[k] = keys'[k].revoked
      <4>1. CASE d = c
        <5>1. keys' = keys
          BY <1>10, <3>1, <3>8, <4>1 DEF ServeKeys
        <5> QED
          BY <3>1, <4>1, <5>1
      <4>2. CASE d # c
        <5>1. /\ \A k \in DOMAIN keyCall[d].rows : k \in Made /\ keyCall[d].rows[k] = keys[k].revoked
              /\ keyCard.open /\ ~ Mine(c)
          BY <1>0, <3>2, <3>8, <4>2 DEF ListsFit, Mine, RowsAreTrue
        <5>2. keyCall[c].kind # "revoke"
          BY <1>0, <3>0, <3>8, <5>1 DEF CardFits
        <5>3. \A k \in Made : keys'[k] = keys[k]
          BY <1>0, <1>10, <3>0, <5>2 DEF ServeKeys, CallsFit
        <5> QED
          BY <3>2, <4>2, <5>1, <5>3
      <4> QED
        BY <4>1, <4>2
    <3> QED
      BY <1>0, <3>1, <3>2, <3>3, <3>7, <3>8 DEF ListsFit, KeysAreUsable, Mine
  <2>5. CardFits'
    BY <1>0, <1>10 DEF ServeKeys, CardFits, ListsFit, CallsFit, KeysAreUsable, RowsAreTrue, Mine,
         Made, KeyTypes, NoCall
  <2> QED
    BY <2>1, <2>2, <2>3, <2>4, <2>5 DEF KeysInv
<1>11. ASSUME NEW c \in KeyCall, KeysListed(c)
      PROVE  KeysInv'
  <2>1. KeyTypes'
    <3>1. keyCall' \in [KeyCall -> CallState]
      BY <1>0, <1>11, SettledCalls DEF KeysListed
    <3>2. keyCall[c].rows \in KeyRows
      BY <1>0, <1>11, DoneCalls DEF KeysListed, DoneCall
    <3>3. keyCall[c].mine => keyCard \in OpenedCard
      BY <1>0, <1>11 DEF KeysListed, CardFits, Mine, KeyTypes, Closed, NoCall
    <3>4. keyCard' \in {Closed} \cup OpenedCard
      BY <1>0, <1>11, <3>2, <3>3 DEF KeysListed, KeyTypes, OpenedCard
    <3> QED
      BY <1>0, <1>11, <3>1, <3>4 DEF KeysListed, KeyTypes
  <2>2. KeysAreUsable'
    BY <1>0, <1>11 DEF KeysListed, KeysAreUsable, Made
  <2>3. CallsFit'
    BY <1>0, <1>11 DEF KeysListed, Settle, CallsFit, Made, KeyTypes, NoCall
  <2>4. ListsFit'
    BY <1>0, <1>11 DEF KeysListed, Settle, ListsFit, RowsAreTrue, Mine, Made, KeyTypes, NoCall
  <2>5. CardFits'
    BY <1>0, <1>11 DEF KeysListed, Settle, CardFits, ListsFit, CallsFit, KeysAreUsable,
         RowsAreTrue, Mine, Made, NoCall
  <2> QED
    BY <2>1, <2>2, <2>3, <2>4, <2>5 DEF KeysInv
<1>12. ASSUME NEW c \in KeyCall, KeyCreated(c)
      PROVE  KeysInv'
  <2>1. KeyTypes'
    <3>1. keyCall' \in [KeyCall -> CallState]
      BY <1>0, <1>12, SettledCalls DEF KeyCreated
    <3>2. keyCall[c].key \in Key
      BY <1>0, <1>12 DEF KeyCreated, CallsFit, NoCall
    <3>3. keyCall[c].mine => keyCard \in OpenedCard
      BY <1>0, <1>12 DEF KeyCreated, CardFits, Mine, KeyTypes, Closed, NoCall
    <3>4. ASSUME keyCall[c].mine
          PROVE  keyCard' \in OpenedCard
      <4>1. DOMAIN keyCard.rows \in SUBSET Key /\ \A k \in DOMAIN keyCard.rows : keyCard.rows[k] \in BOOLEAN
        BY <3>3, <3>4, RowsHave DEF OpenedCard
      <4>2. [j \in DOMAIN keyCard.rows \cup {keyCall[c].key} |-> IF j = keyCall[c].key THEN FALSE ELSE keyCard.rows[j]]
               \in KeyRows
        <5> DEFINE S == DOMAIN keyCard.rows \cup {keyCall[c].key}
        <5>1. S \in SUBSET Key
          BY <3>2, <4>1
        <5>2. [j \in S |-> IF j = keyCall[c].key THEN FALSE ELSE keyCard.rows[j]] \in [S -> BOOLEAN]
          BY <4>1
        <5> QED
          BY <5>1, <5>2, RowsOf
      <4> QED
        BY <1>12, <3>3, <3>4, <4>2 DEF KeyCreated, OpenedCard
    <3> QED
      BY <1>0, <1>12, <3>1, <3>2, <3>4 DEF KeyCreated, KeyTypes
  <2>2. KeysAreUsable'
    BY <1>0, <1>12 DEF KeyCreated, KeysAreUsable, CallsFit, Made, NoCall
  <2>3. CallsFit'
    BY <1>0, <1>12 DEF KeyCreated, Settle, CallsFit, Made, KeyTypes, NoCall
  <2>4. ListsFit'
    BY <1>0, <1>12 DEF KeyCreated, Settle, ListsFit, RowsAreTrue, Mine, Made, NoCall
  <2>5. CardFits'
    <3>1. /\ keyCall[c] # NoCall /\ keyCall[c].kind = "create" /\ keyCall'[c] = NoCall
          /\ keyCall[c].key \in Made
          /\ \A d \in KeyCall \ {c} : keyCall'[d] = keyCall[d]
      BY <1>0, <1>12 DEF KeyCreated, Settle, KeyTypes, NoCall, CallsFit
    <3>2. UNCHANGED <<account, keys>> /\ Made' = Made
      BY <1>12 DEF KeyCreated, Made
    <3>3. CASE ~ keyCall[c].mine
      <4>1. UNCHANGED <<keyCard, known>>
        BY <1>12, <3>3 DEF KeyCreated
      <4> QED
        BY <1>0, <3>1, <3>2, <4>1 DEF CardFits, Mine, RowsAreTrue
    <3>4. CASE keyCall[c].mine
      <4>1. /\ keyCard.open /\ keyCard \in OpenedCard
            /\ keyCard' = [keyCard EXCEPT
                 !.rows = [j \in DOMAIN keyCard.rows \cup {keyCall[c].key} |->
                             IF j = keyCall[c].key THEN FALSE ELSE keyCard.rows[j]],
                 !.scopes = Scope, !.busy = FALSE]
            /\ known' = known \cup {keyCall[c].key}
        BY <1>0, <1>12, <3>1, <3>4 DEF KeyCreated, CardFits, Mine, KeyTypes, Closed
      <4>2. /\ keyCard'.open /\ keyCard'.confirm = keyCard.confirm
            /\ keyCard'.loading = keyCard.loading
            /\ keyCard'.unloaded = keyCard.unloaded /\ keyCard'.doubtful = keyCard.doubtful
            /\ DOMAIN keyCard'.rows = DOMAIN keyCard.rows \cup {keyCall[c].key}
            /\ \A j \in DOMAIN keyCard'.rows :
                 keyCard'.rows[j] = IF j = keyCall[c].key THEN FALSE ELSE keyCard.rows[j]
        BY <4>1 DEF OpenedCard
      <4>3. ~ account.mustReset
        BY <1>0, <3>1 DEF CallsFit
      <4>4. RowsAreTrue(keyCard.rows)'
        BY <1>0, <3>1, <3>2, <4>1, <4>2 DEF CardFits, RowsAreTrue
      <4> QED
        <5>1. \A d \in KeyCall : Mine(d)' => Mine(d) /\ d # c
          BY <3>1 DEF Mine
        <5>2. ~ keyCard'.loading /\ ~ keyCard'.unloaded => known' \subseteq DOMAIN keyCard'.rows
          BY <1>0, <4>1, <4>2, <4>3 DEF CardFits
        <5>3. ~ keyCard.doubtful =>
                \A d \in KeyCall : keyCall'[d] # NoCall /\ keyCall'[d].kind = "revoke" => Mine(d)'
          BY <1>0, <3>1, <4>1 DEF CardFits, Mine
        <5>4. ASSUME ~ keyCard.doubtful, NEW k \in DOMAIN keyCard'.rows, ~ keyCard'.rows[k], keys[k].revoked
              PROVE  \E d \in KeyCall : Mine(d)' /\ keyCall'[d].stage = "done" /\ keyCall'[d].kind = "revoke"
                                          /\ keyCall'[d].key = k
          <6>1. CASE k = keyCall[c].key
            BY <1>0, <1>12, <3>1, <3>4, <4>1, <5>4, <6>1 DEF KeyCreated, CardFits, Mine
          <6>2. CASE k # keyCall[c].key
            <7>1. PICK d \in KeyCall : Mine(d) /\ keyCall[d].stage = "done" /\ keyCall[d].kind = "revoke"
                                         /\ keyCall[d].key = k
              BY <1>0, <4>1, <4>2, <5>4, <6>2 DEF CardFits
            <7> QED
              BY <3>1, <7>1 DEF Mine
          <6> QED
            BY <6>1, <6>2
        <5>5. ASSUME NEW d \in KeyCall, Mine(d)', keyCall'[d].kind = "create", keyCall'[d].stage = "done"
              PROVE  /\ keyCall'[d].key \notin DOMAIN keyCard'.rows /\ ~ keys[keyCall'[d].key].revoked
                     /\ \A e \in KeyCall \ {d} : keyCall'[e] # NoCall /\ keyCall'[e].kind # "list" =>
                          keyCall'[e].key # keyCall'[d].key
          <6>1. Mine(d) /\ d # c /\ keyCall'[d] = keyCall[d]
            BY <3>1, <5>1, <5>5
          <6>2. /\ keyCall[d].key \notin DOMAIN keyCard.rows /\ ~ keys[keyCall[d].key].revoked
                /\ \A e \in KeyCall \ {d} : keyCall[e] # NoCall /\ keyCall[e].kind # "list" =>
                     keyCall[e].key # keyCall[d].key
            BY <1>0, <4>1, <5>5, <6>1 DEF CardFits
          <6> QED
            BY <3>1, <4>2, <6>1, <6>2
        <5> QED
          BY <1>0, <3>2, <4>1, <4>2, <4>3, <4>4, <5>1, <5>2, <5>3, <5>4, <5>5 DEF CardFits
    <3> QED
      BY <3>3, <3>4
  <2> QED
    BY <2>1, <2>2, <2>3, <2>4, <2>5 DEF KeysInv
<1>13. ASSUME NEW c \in KeyCall, KeyRevoked(c)
      PROVE  KeysInv'
  <2>1. KeyTypes'
    <3>1. keyCall' \in [KeyCall -> CallState]
      BY <1>0, <1>13, SettledCalls DEF KeyRevoked
    <3>3. keyCall[c].mine => keyCard \in OpenedCard
      BY <1>0, <1>13 DEF KeyRevoked, CardFits, Mine, KeyTypes, Closed, NoCall
    <3>4. ASSUME keyCall[c].mine
          PROVE  keyCard' \in OpenedCard
      <4>1. DOMAIN keyCard.rows \in SUBSET Key /\ \A k \in DOMAIN keyCard.rows : keyCard.rows[k] \in BOOLEAN
        BY <3>3, <3>4, RowsHave DEF OpenedCard
      <4>2. [j \in DOMAIN keyCard.rows |-> keyCard.rows[j] \/ j = keyCall[c].key] \in KeyRows
        BY <4>1, RowsOf
      <4> QED
        BY <1>13, <3>3, <3>4, <4>2 DEF KeyRevoked, OpenedCard
    <3> QED
      BY <1>0, <1>13, <3>1, <3>4 DEF KeyRevoked, KeyTypes
  <2>2. KeysAreUsable'
    BY <1>0, <1>13 DEF KeyRevoked, KeysAreUsable, Made
  <2>3. CallsFit'
    BY <1>0, <1>13 DEF KeyRevoked, Settle, CallsFit, Made, NoCall
  <2>4. ListsFit'
    BY <1>0, <1>13 DEF KeyRevoked, Settle, ListsFit, RowsAreTrue, Mine, Made
  <2>5. CardFits'
    BY <1>0, <1>13 DEF KeyRevoked, Settle, CardFits, CallsFit, KeysAreUsable, RowsAreTrue, Mine,
         Made, KeyTypes, NoCall, KeyState
  <2> QED
    BY <2>1, <2>2, <2>3, <2>4, <2>5 DEF KeysInv
<1>14. ASSUME NEW c \in KeyCall, KeyCallFails(c)
      PROVE  KeysInv'
  <2>1. KeyTypes'
    BY <1>0, <1>14 DEF KeyCallFails, Settle, KeyTypes, NoCall, Closed, CallState, AskedCall,
         OpenedCard
  <2>2. KeysAreUsable'
    BY <1>0, <1>14 DEF KeyCallFails, KeysAreUsable, Made
  <2>3. CallsFit'
    BY <1>0, <1>14 DEF KeyCallFails, Settle, CallsFit, Made, KeyTypes, NoCall
  <2>4. ListsFit'
    BY <1>0, <1>14 DEF KeyCallFails, Settle, ListsFit, RowsAreTrue, Mine, Made, KeyTypes
  <2>5. CardFits'
    BY <1>0, <1>14 DEF KeyCallFails, Settle, CardFits, RowsAreTrue, Mine, Made, KeyTypes,
         CallState, AskedCall, DoneCall
  <2> QED
    BY <2>1, <2>2, <2>3, <2>4, <2>5 DEF KeysInv
<1>15. CASE UNCHANGED apiKeys
  <2>1. KeyTypes'
    BY <1>0, <1>15 DEF apiKeys, KeyTypes
  <2>2. KeysAreUsable'
    BY <1>0, <1>15 DEF apiKeys, KeysAreUsable, Made
  <2>3. CallsFit'
    BY <1>0, <1>15 DEF apiKeys, CallsFit, Made
  <2>4. ListsFit'
    BY <1>0, <1>15 DEF apiKeys, ListsFit, RowsAreTrue, Mine, Made
  <2>5. CardFits'
    BY <1>0, <1>15 DEF apiKeys, CardFits, RowsAreTrue, Mine, Made
  <2> QED
    BY <2>1, <2>2, <2>3, <2>4, <2>5 DEF KeysInv
<1> QED
  BY <1>1, <1>2, <1>3, <1>4, <1>5, <1>6, <1>7, <1>8, <1>9, <1>10, <1>11, <1>12, <1>13, <1>14, <1>15
       DEF KeysNext

LEMMA KeysBegin == KeysInit => KeysInv
<1> SUFFICES ASSUME KeysInit PROVE KeysInv
  OBVIOUS
<1>1. KeyTypes
  BY DEF KeysInit, KeyTypes, NoKey, KeyState, CallState
<1>2. \A c \in KeyCall : keyCall[c] = NoCall
  BY DEF KeysInit
<1>3. KeysAreUsable
  BY DEF KeysInit, KeysAreUsable, Made, NoKey
<1> QED
  BY <1>1, <1>2, <1>3 DEF KeysInit, KeysInv, CallsFit, ListsFit, CardFits, Mine, Closed

LEMMA KeysInvSuffices == KeysInv => CardTellsWhatWorks
<1> SUFFICES ASSUME KeysInv, keyCard.open, ~ keyCard.loading, ~ account.mustReset
             PROVE  LET listed == DOMAIN keyCard.rows
                        works(k) == \E s \in Scope : Accepts(k, s) IN
                      /\ \A k \in known : works(k) /\ ~ keyCard.unloaded => k \in listed /\ ~ keyCard.rows[k]
                      /\ \A k \in listed : keyCard.rows[k] => ~ works(k)
                      /\ account.active /\ ~ keyCard.doubtful /\ (\A c \in KeyCall : keyCall[c] = NoCall) =>
                           \A k \in listed : ~ keyCard.rows[k] => works(k)
  BY DEF CardTellsWhatWorks
<1>1. KeyTypes /\ KeysAreUsable /\ CardFits
  BY DEF KeysInv
<1>2. \A k \in DOMAIN keyCard.rows : k \in Made /\ (keyCard.rows[k] => keys[k].revoked)
  BY <1>1 DEF CardFits, RowsAreTrue
<1>3. ~ keyCard.unloaded => known \subseteq DOMAIN keyCard.rows
  BY <1>1 DEF CardFits
<1>4. ASSUME account.active, ~ keyCard.doubtful, \A c \in KeyCall : keyCall[c] = NoCall,
             NEW k \in DOMAIN keyCard.rows, ~ keyCard.rows[k]
      PROVE  \E s \in Scope : Accepts(k, s)
  <2>1. ~ keys[k].revoked
    BY <1>1, <1>4 DEF CardFits, Mine
  <2>2. k \in Key /\ keys[k].made /\ keys[k].scopes # {} /\ keys[k].scopes \subseteq Scope
    BY <1>1, <1>2, <1>4 DEF KeysAreUsable, Made, KeyTypes, KeyState
  <2> QED
    BY <1>4, <2>1, <2>2 DEF Accepts
<1> QED
  BY <1>2, <1>3, <1>4 DEF Accepts

(***************************************************************************)
(* For every set of keys and scopes and any number of calls, the card of   *)
(* the profile page tells which keys work.                                 *)
(***************************************************************************)
THEOREM CardsTellTheTruth == KeysInit /\ [][KeysNext]_apiKeys => []CardTellsWhatWorks
<1>1. KeysInit /\ [][KeysNext]_apiKeys => []KeysInv
  BY KeysBegin, KeysStep, PTL
<1> QED
  BY <1>1, KeysInvSuffices, PTL

-----------------------------------------------------------------------------
(***************************************************************************)
(* The update check. An answer is as old as the call to GitHub that        *)
(* dates it, and names the latest of a list that was there since, or       *)
(* lately when the call had asked about another list.                      *)
(***************************************************************************)
\* A list that GitHub listed at some time since a, or less than the TTL before.
ListedSince(list, a) == \E t \in 0..now : a <= t /\ list \in was[t]
ListedLately(list, a) == \E t \in 0..now : a - t < TTL /\ list \in was[t]

\* The fields of calls, answers, the cache and the pages.
AnswerOK(a) == DOMAIN a = {"channel", "version", "error"} /\ a.channel \in Channel

CallOK(x) ==
  \/ x = Idle
  \/ /\ x.channel \in Channel /\ x.at \in Nat /\ x.at <= now
     /\ \/ x.stage = "asked" /\ DOMAIN x = {"stage", "from", "channel", "at"}
        \/ /\ x.stage \in {"fetching", "served", "unchanged", "refused"}
           /\ DOMAIN x = {"stage", "from", "channel", "at", "etag"}
        \/ /\ x.stage = "answered" /\ DOMAIN x = {"stage", "from", "channel", "at", "answer", "mixed"}
           /\ AnswerOK(x.answer) /\ x.answer.channel = x.channel

CacheOK ==
  \/ answered = NoCache
  \/ /\ DOMAIN answered = {"channel", "at", "etag", "answer", "mixed"}
     /\ answered.channel \in Channel /\ answered.at \in Nat /\ answered.at <= now
     /\ AnswerOK(answered.answer) /\ answered.answer.channel = answered.channel

BannerOK ==
  \/ banner = [mounted |-> FALSE]
  \/ /\ DOMAIN banner = {"mounted", "channel", "info", "ignored", "closed", "crossed"}
     /\ banner.mounted /\ banner.channel \in Channel

CardOK ==
  \/ card = [open |-> FALSE]
  \/ /\ DOMAIN card = {"open", "channel", "info", "loading", "error", "crossed"}
     /\ card.open /\ card.channel \in Channel

BrowserOK ==
  /\ DOMAIN browser = {"channel", "ignored", "info", "checked", "closed"}
  /\ browser.channel \in Channel /\ DOMAIN browser.info = Channel

UpdateShape ==
  /\ now \in 0..MaxTime /\ DOMAIN was = 0..MaxTime /\ releases \in was[now] /\ DOMAIN check = Check
  /\ outbound \in BOOLEAN
  /\ (\A q \in Check : CallOK(check[q])) /\ CacheOK /\ BannerOK /\ CardOK /\ BrowserOK

\* A call to GitHub is younger than the TTL, and what it brings was listed since it began.
CallsAreYoung ==
  \A q \in Check :
    /\ check[q].stage \in {"fetching", "served", "unchanged", "refused"} => now - check[q].at < TTL
    /\ check[q].stage \in {"served", "unchanged"} => ListedSince(check[q].etag, check[q].at)

\* The cache names the latest of its list, which was listed since the call that
\* it is dated by, or lately when that call was about another list.
CacheIsDated ==
  answered # NoCache /\ outbound /\ ~ answered.answer.error =>
    /\ answered.answer.version = PickLatest(answered.etag, answered.channel)
    /\ IF answered.mixed THEN ListedLately(answered.etag, answered.at) ELSE ListedSince(answered.etag, answered.at)

\* The list in the cache is the one that a call asks GitHub about, or one that
\* arrived since and is no older than the call by the TTL.
CallsKnowTheCache ==
  outbound => \A q \in Check :
    check[q].stage \in {"fetching", "unchanged"} /\ IsCached(check[q].channel) /\ ~ answered.answer.error =>
      check[q].etag = answered.etag \/ ListedLately(answered.etag, check[q].at)

UpdatesInv == UpdateShape /\ CallsAreYoung /\ CacheIsDated /\ CallsKnowTheCache /\ AnswersAreRecent /\ ChannelsStayApart

\* What was listed stays listed when time passes.
LEMMA TicksKeepLists ==
  ASSUME UpdateShape, Tick, NEW list, NEW a \in Nat
  PROVE  /\ ListedSince(list, a) => ListedSince(list, a)'
         /\ ListedLately(list, a) => ListedLately(list, a)'
<1>1. now \in Nat /\ now' = now + 1 /\ \A t \in 0..now : was'[t] = was[t]
  BY UpdateAssumption DEF UpdateShape, Tick
<1> QED
  BY <1>1 DEF ListedSince, ListedLately

\* What becomes of a call that has been asked.
SettledCall(q, answer, mixed) ==
  [stage |-> "answered", from |-> check[q].from, channel |-> check[q].channel, at |-> now,
   answer |-> answer, mixed |-> mixed]

AskedGitHub(q) ==
  [stage |-> "fetching", from |-> check[q].from, channel |-> check[q].channel, at |-> now,
   etag |-> IF IsCached(check[q].channel) THEN answered.etag ELSE {}]

LEMMA UpdatesStep == UpdatesInv /\ [UpdateNext]_updates => UpdatesInv'
<1> SUFFICES ASSUME UpdatesInv, [UpdateNext]_updates PROVE UpdatesInv'
  OBVIOUS
<1>0. /\ UpdateShape /\ CallsAreYoung /\ CacheIsDated /\ CallsKnowTheCache /\ AnswersAreRecent
      /\ ChannelsStayApart
  BY DEF UpdatesInv
<1>1. ASSUME NEW v \in Version, Publish(v)
      PROVE  UpdatesInv'
  <2>1. UpdateShape'
    BY <1>0, <1>1 DEF Publish, UpdateShape, CallOK, CacheOK, BannerOK, CardOK, BrowserOK
  <2>2. CallsAreYoung'
    BY <1>0, <1>1 DEF Publish, CallsAreYoung, ListedSince
  <2>3. CacheIsDated'
    BY <1>0, <1>1 DEF Publish, CacheIsDated, ListedSince, ListedLately
  <2>4. CallsKnowTheCache'
    BY <1>0, <1>1 DEF Publish, CallsKnowTheCache, ListedLately, IsCached
  <2>5. AnswersAreRecent'
    BY <1>0, <1>1 DEF Publish, AnswersAreRecent
  <2>6. ChannelsStayApart'
    BY <1>0, <1>1 DEF Publish, ChannelsStayApart
  <2> QED
    BY <2>1, <2>2, <2>3, <2>4, <2>5, <2>6 DEF UpdatesInv
<1>2. CASE Tick
  <2>1. UpdateShape'
    <3>1. now \in 0..MaxTime /\ now' = now + 1 /\ now' \in 0..MaxTime
      BY <1>0, <1>2, UpdateAssumption DEF Tick, UpdateShape
    <3>2. DOMAIN was' = DOMAIN was /\ releases \in was'[now + 1]
      BY <1>0, <1>2, <3>1 DEF Tick, UpdateShape
    <3>3. \A q \in Check : CallOK(check[q])'
      BY <1>0, <1>2, <3>1 DEF Tick, UpdateShape, CallOK
    <3>4. CacheOK'
      BY <1>0, <1>2, <3>1 DEF Tick, UpdateShape, CacheOK
    <3> QED
      BY <1>0, <1>2, <3>1, <3>2, <3>3, <3>4 DEF Tick, UpdateShape, BannerOK, CardOK, BrowserOK
  <2>2. CallsAreYoung'
    BY <1>0, <1>2 DEF Tick, CallsAreYoung, ListedSince, UpdateShape, CallOK, Idle
  <2>3. CacheIsDated'
    BY <1>0, <1>2 DEF Tick, CacheIsDated, ListedSince, ListedLately, UpdateShape
  <2>4. CallsKnowTheCache'
    <3>1. ASSUME NEW q \in Check, outbound, check[q].stage \in {"fetching", "unchanged"},
                 answered.channel = check[q].channel, ~ answered.answer.error, check[q].etag # answered.etag
          PROVE  ListedLately(answered.etag, check[q].at)'
      <4>1. ListedLately(answered.etag, check[q].at)
        BY <1>0, <3>1 DEF CallsKnowTheCache, IsCached
      <4>2. check[q].at \in Nat
        BY <1>0, <3>1 DEF UpdateShape, CallOK, Idle
      <4>3. check' = check /\ answered' = answered
        BY <1>2 DEF Tick
      <4> HIDE DEF ListedLately
      <4>4. \A e, a : a \in Nat /\ ListedLately(e, a) => ListedLately(e, a)'
        BY <1>0, <1>2, TicksKeepLists
      <4> QED
        BY <4>1, <4>2, <4>3, <4>4
    <3> QED
      BY <1>2, <3>1 DEF Tick, CallsKnowTheCache, IsCached
  <2>5. AnswersAreRecent'
    BY <1>0, <1>2 DEF Tick, AnswersAreRecent, UpdateShape
  <2>6. ChannelsStayApart'
    BY <1>0, <1>2 DEF Tick, ChannelsStayApart
  <2> QED
    BY <2>1, <2>2, <2>3, <2>4, <2>5, <2>6 DEF UpdatesInv
<1>3. CASE Mount
  <2>1. UpdateShape'
    BY <1>0, <1>3 DEF Mount, Banner, Loads, Starts, UpdateShape, CallOK, CacheOK, BannerOK, CardOK,
         BrowserOK
  <2>2. CallsAreYoung'
    BY <1>0, <1>3 DEF Mount, Loads, Starts, CallsAreYoung, ListedSince, UpdateShape
  <2>3. CacheIsDated'
    BY <1>0, <1>3 DEF Mount, CacheIsDated, ListedSince, ListedLately
  <2>4. CallsKnowTheCache'
    BY <1>0, <1>3 DEF Mount, Loads, Starts, CallsKnowTheCache, ListedLately, IsCached, UpdateShape
  <2>5. AnswersAreRecent'
    BY <1>0, <1>3 DEF Mount, Loads, Starts, AnswersAreRecent, CacheIsDated, UpdateShape
  <2>6. ChannelsStayApart'
    BY <1>0, <1>3 DEF Mount, Banner, ChannelsStayApart, BrowserOK, UpdateShape
  <2> QED
    BY <2>1, <2>2, <2>3, <2>4, <2>5, <2>6 DEF UpdatesInv
<1>4. CASE Unmount
  <2>1. UpdateShape'
    BY <1>0, <1>4 DEF Unmount, UpdateShape, CallOK, CacheOK, BannerOK, CardOK, BrowserOK
  <2>2. CallsAreYoung'
    BY <1>0, <1>4 DEF Unmount, CallsAreYoung, ListedSince
  <2>3. CacheIsDated'
    BY <1>0, <1>4 DEF Unmount, CacheIsDated, ListedSince, ListedLately
  <2>4. CallsKnowTheCache'
    BY <1>0, <1>4 DEF Unmount, CallsKnowTheCache, ListedLately, IsCached
  <2>5. AnswersAreRecent'
    BY <1>0, <1>4 DEF Unmount, AnswersAreRecent
  <2>6. ChannelsStayApart'
    BY <1>0, <1>4 DEF Unmount, ChannelsStayApart
  <2> QED
    BY <2>1, <2>2, <2>3, <2>4, <2>5, <2>6 DEF UpdatesInv
<1>5. CASE CheckAgain
  <2>1. UpdateShape'
    BY <1>0, <1>5 DEF CheckAgain, Starts, Offers, UpdateShape, CallOK, CacheOK, BannerOK, CardOK,
         BrowserOK
  <2>2. CallsAreYoung'
    BY <1>0, <1>5 DEF CheckAgain, Starts, CallsAreYoung, ListedSince
  <2>3. CacheIsDated'
    BY <1>0, <1>5 DEF CheckAgain, CacheIsDated, ListedSince, ListedLately
  <2>4. CallsKnowTheCache'
    BY <1>0, <1>5 DEF CheckAgain, Starts, CallsKnowTheCache, ListedLately, IsCached
  <2>5. AnswersAreRecent'
    BY <1>0, <1>5 DEF CheckAgain, Starts, AnswersAreRecent
  <2>6. ChannelsStayApart'
    BY <1>0, <1>5 DEF CheckAgain, ChannelsStayApart
  <2> QED
    BY <2>1, <2>2, <2>3, <2>4, <2>5, <2>6 DEF UpdatesInv
<1>6. CASE CloseBanner
  <2>1. UpdateShape'
    BY <1>0, <1>6 DEF CloseBanner, UpdateShape, CallOK, CacheOK, BannerOK, CardOK, BrowserOK
  <2>2. CallsAreYoung'
    BY <1>0, <1>6 DEF CloseBanner, CallsAreYoung, ListedSince
  <2>3. CacheIsDated'
    BY <1>0, <1>6 DEF CloseBanner, CacheIsDated, ListedSince, ListedLately
  <2>4. CallsKnowTheCache'
    BY <1>0, <1>6 DEF CloseBanner, CallsKnowTheCache, ListedLately, IsCached
  <2>5. AnswersAreRecent'
    BY <1>0, <1>6 DEF CloseBanner, AnswersAreRecent
  <2>6. ChannelsStayApart'
    BY <1>0, <1>6 DEF CloseBanner, ChannelsStayApart
  <2> QED
    BY <2>1, <2>2, <2>3, <2>4, <2>5, <2>6 DEF UpdatesInv
<1>7. CASE IgnoreVersion
  <2>1. UpdateShape'
    BY <1>0, <1>7 DEF IgnoreVersion, UpdateShape, CallOK, CacheOK, BannerOK, CardOK, BrowserOK
  <2>2. CallsAreYoung'
    BY <1>0, <1>7 DEF IgnoreVersion, CallsAreYoung, ListedSince
  <2>3. CacheIsDated'
    BY <1>0, <1>7 DEF IgnoreVersion, CacheIsDated, ListedSince, ListedLately
  <2>4. CallsKnowTheCache'
    BY <1>0, <1>7 DEF IgnoreVersion, CallsKnowTheCache, ListedLately, IsCached
  <2>5. AnswersAreRecent'
    BY <1>0, <1>7 DEF IgnoreVersion, AnswersAreRecent
  <2>6. ChannelsStayApart'
    BY <1>0, <1>7 DEF IgnoreVersion, ChannelsStayApart
  <2> QED
    BY <2>1, <2>2, <2>3, <2>4, <2>5, <2>6 DEF UpdatesInv
<1>8. CASE OpenSettings
  <2>1. UpdateShape'
    BY <1>0, <1>8 DEF OpenSettings, CardChecks, Starts, UpdateShape, CallOK, CacheOK, BannerOK,
         CardOK, BrowserOK
  <2>2. CallsAreYoung'
    BY <1>0, <1>8 DEF OpenSettings, CardChecks, Starts, CallsAreYoung, ListedSince
  <2>3. CacheIsDated'
    BY <1>0, <1>8 DEF OpenSettings, CacheIsDated, ListedSince, ListedLately
  <2>4. CallsKnowTheCache'
    BY <1>0, <1>8 DEF OpenSettings, CardChecks, Starts, CallsKnowTheCache, ListedLately, IsCached
  <2>5. AnswersAreRecent'
    BY <1>0, <1>8 DEF OpenSettings, CardChecks, Starts, AnswersAreRecent
  <2>6. ChannelsStayApart'
    BY <1>0, <1>8 DEF OpenSettings, ChannelsStayApart
  <2> QED
    BY <2>1, <2>2, <2>3, <2>4, <2>5, <2>6 DEF UpdatesInv
<1>9. ASSUME NEW c \in Channel, SelectChannel(c)
      PROVE  UpdatesInv'
  <2>1. UpdateShape'
    BY <1>0, <1>9 DEF SelectChannel, Banner, Loads, Starts, UpdateShape, CallOK, CacheOK, BannerOK,
         CardOK, BrowserOK
  <2>2. CallsAreYoung'
    BY <1>0, <1>9 DEF SelectChannel, Loads, Starts, CallsAreYoung, ListedSince, UpdateShape
  <2>3. CacheIsDated'
    BY <1>0, <1>9 DEF SelectChannel, CacheIsDated, ListedSince, ListedLately
  <2>4. CallsKnowTheCache'
    BY <1>0, <1>9 DEF SelectChannel, Loads, Starts, CallsKnowTheCache, ListedLately, IsCached,
         UpdateShape
  <2>5. AnswersAreRecent'
    <3>1. \A q \in Check : check'[q] = check[q] \/ check'[q].stage = "asked"
      BY <1>0, <1>9 DEF SelectChannel, Loads, Starts, UpdateShape
    <3> QED
      BY <1>0, <1>9, <3>1 DEF SelectChannel, AnswersAreRecent
  <2>6. ChannelsStayApart'
    BY <1>0, <1>9 DEF SelectChannel, Banner, ChannelsStayApart
  <2> QED
    BY <2>1, <2>2, <2>3, <2>4, <2>5, <2>6 DEF UpdatesInv
<1>10. ASSUME NEW c \in Channel, CardSelects(c)
      PROVE  UpdatesInv'
  <2>1. UpdateShape'
    BY <1>0, <1>10 DEF CardSelects, CardChecks, Starts, UpdateShape, CallOK, CacheOK, BannerOK,
         CardOK, BrowserOK
  <2>2. CallsAreYoung'
    BY <1>0, <1>10 DEF CardSelects, CardChecks, Starts, CallsAreYoung, ListedSince
  <2>3. CacheIsDated'
    BY <1>0, <1>10 DEF CardSelects, CacheIsDated, ListedSince, ListedLately
  <2>4. CallsKnowTheCache'
    BY <1>0, <1>10 DEF CardSelects, CardChecks, Starts, CallsKnowTheCache, ListedLately, IsCached
  <2>5. AnswersAreRecent'
    BY <1>0, <1>10 DEF CardSelects, CardChecks, Starts, AnswersAreRecent
  <2>6. ChannelsStayApart'
    BY <1>0, <1>10 DEF CardSelects, CardChecks, ChannelsStayApart, CardOK, BrowserOK, UpdateShape
  <2> QED
    BY <2>1, <2>2, <2>3, <2>4, <2>5, <2>6 DEF UpdatesInv
<1>11. ASSUME NEW q \in Check, Ask(q)
      PROVE  UpdatesInv'
  <2>1. UpdateShape'
    <3>0. /\ check[q].stage = "asked" /\ check[q].channel \in Channel /\ now \in Nat
          /\ DOMAIN check = Check
          /\ UNCHANGED <<outbound, releases, banner, card, browser, now, was>>
      BY <1>0, <1>11 DEF Ask, UpdateShape, CallOK, Idle
    <3>1. \/ IsCached(check[q].channel) /\ now - answered.at < TTL /\ answered' = answered /\ Concludes(q, answered.answer)
          \/ /\ ~ outbound /\ Remember(q, {}, Answer(check[q].channel, NoVersion, FALSE))
             /\ Concludes(q, Answer(check[q].channel, NoVersion, FALSE))
          \/ /\ answered' = answered
             /\ check' = [check EXCEPT ![q] = AskedGitHub(q)]
      BY <1>11 DEF Ask, AskedGitHub
    <3>2. ASSUME NEW answer, Concludes(q, answer)
          PROVE  check' = [check EXCEPT ![q] = SettledCall(q, answer, answered'.mixed)]
      BY <3>0, <3>2 DEF Concludes, SettledCall

    <3>3. CASE IsCached(check[q].channel) /\ answered' = answered /\ Concludes(q, answered.answer)
      <4>1. check' = [check EXCEPT ![q] = SettledCall(q, answered.answer, answered.mixed)]
        BY <3>2, <3>3
      <4>2. AnswerOK(answered.answer) /\ answered.answer.channel = check[q].channel
        BY <1>0, <3>0, <3>3 DEF UpdateShape, CacheOK, IsCached, NoCache, Channel
      <4>3. CallOK(SettledCall(q, answered.answer, answered.mixed))
        BY <3>0, <4>2 DEF CallOK, SettledCall
      <4> QED
        BY <1>0, <3>0, <3>3, <4>1, <4>3 DEF UpdateShape, CallOK, CacheOK, BannerOK, CardOK,
             BrowserOK
    <3>4. CASE /\ Remember(q, {}, Answer(check[q].channel, NoVersion, FALSE))
               /\ Concludes(q, Answer(check[q].channel, NoVersion, FALSE))
      <4> DEFINE answer == Answer(check[q].channel, NoVersion, FALSE)
      <4>1. AnswerOK(answer) /\ answer.channel = check[q].channel
        BY <3>0 DEF AnswerOK, Answer
      <4>2. check[q].at \in Nat /\ check[q].at <= now
        BY <1>0, <3>0 DEF UpdateShape, CallOK, Idle
      <4>3. answered' = [channel |-> check[q].channel, at |-> check[q].at, etag |-> {}, answer |-> answer, mixed |-> FALSE]
        BY <3>4 DEF Remember
      <4>4. check' = [check EXCEPT ![q] = SettledCall(q, answer, FALSE)]
        BY <3>2, <3>4, <4>3
      <4> HIDE DEF answer
      <4>5. CallOK(SettledCall(q, answer, FALSE)) /\ CacheOK'
        BY <3>0, <4>1, <4>2, <4>3 DEF CallOK, SettledCall, CacheOK
      <4> QED
        BY <1>0, <3>0, <4>4, <4>5 DEF UpdateShape, CallOK, BannerOK, CardOK, BrowserOK
    <3>5. CASE answered' = answered /\ check' = [check EXCEPT ![q] = AskedGitHub(q)]
      <4>1. CallOK(AskedGitHub(q))
        BY <3>0 DEF CallOK, AskedGitHub
      <4> QED
        BY <1>0, <3>0, <3>5, <4>1 DEF UpdateShape, CallOK, CacheOK, BannerOK, CardOK, BrowserOK
    <3> QED
      BY <3>1, <3>3, <3>4, <3>5
  <2>2. CallsAreYoung'
    <3>0. /\ check[q].stage = "asked" /\ check[q].channel \in Channel /\ now \in Nat
          /\ DOMAIN check = Check
          /\ UNCHANGED <<outbound, releases, banner, card, browser, now, was>>
      BY <1>0, <1>11 DEF Ask, UpdateShape, CallOK, Idle
    <3>1. \/ IsCached(check[q].channel) /\ now - answered.at < TTL /\ answered' = answered /\ Concludes(q, answered.answer)
          \/ /\ ~ outbound /\ Remember(q, {}, Answer(check[q].channel, NoVersion, FALSE))
             /\ Concludes(q, Answer(check[q].channel, NoVersion, FALSE))
          \/ /\ answered' = answered
             /\ check' = [check EXCEPT ![q] = AskedGitHub(q)]
      BY <1>11 DEF Ask, AskedGitHub
    <3>2. ASSUME NEW answer, Concludes(q, answer)
          PROVE  check' = [check EXCEPT ![q] = SettledCall(q, answer, answered'.mixed)]
      BY <3>0, <3>2 DEF Concludes, SettledCall

    <3>3. /\ \A p \in Check \ {q} : check'[p] = check[p]
          /\ check'[q].stage = "answered" \/ (check'[q].stage = "fetching" /\ check'[q].at = now)
      <4>1. SettledCall(q, answered.answer, answered'.mixed).stage = "answered"
        BY DEF SettledCall
      <4>2. SettledCall(q, Answer(check[q].channel, NoVersion, FALSE), answered'.mixed).stage = "answered"
        BY DEF SettledCall
      <4>3. AskedGitHub(q).stage = "fetching" /\ AskedGitHub(q).at = now
        BY DEF AskedGitHub
      <4> QED
        BY <3>0, <3>1, <3>2, <4>1, <4>2, <4>3
    <3> QED
      BY <1>0, <3>0, <3>3, UpdateAssumption DEF CallsAreYoung, ListedSince
  <2>3. CacheIsDated'
    BY <1>0, <1>11 DEF Ask, CacheIsDated, ListedSince, ListedLately
  <2>4. CallsKnowTheCache'
    BY <1>0, <1>11 DEF Ask, Concludes, CallsKnowTheCache, ListedLately, IsCached, UpdateShape
  <2>5. AnswersAreRecent'
    <3>0. /\ check[q].stage = "asked" /\ check[q].channel \in Channel /\ now \in Nat
          /\ DOMAIN check = Check
          /\ UNCHANGED <<outbound, releases, banner, card, browser, now, was>>
      BY <1>0, <1>11 DEF Ask, UpdateShape, CallOK, Idle
    <3>1. \/ IsCached(check[q].channel) /\ now - answered.at < TTL /\ answered' = answered /\ Concludes(q, answered.answer)
          \/ /\ ~ outbound /\ Remember(q, {}, Answer(check[q].channel, NoVersion, FALSE))
             /\ Concludes(q, Answer(check[q].channel, NoVersion, FALSE))
          \/ /\ answered' = answered
             /\ check' = [check EXCEPT ![q] = AskedGitHub(q)]
      BY <1>11 DEF Ask, AskedGitHub
    <3>2. ASSUME NEW answer, Concludes(q, answer)
          PROVE  check' = [check EXCEPT ![q] = SettledCall(q, answer, answered'.mixed)]
      BY <3>0, <3>2 DEF Concludes, SettledCall

    <3>3. \A p \in Check \ {q} : check'[p] = check[p]
      BY <3>0, <3>1, <3>2
    <3>4. ASSUME check'[q].stage = "answered", ~ check'[q].answer.error, outbound
          PROVE  \E t \in 0..now : /\ check'[q].at - t < IF check'[q].mixed THEN 2 * TTL ELSE TTL
                                   /\ \E list \in was[t] : PickLatest(list, check'[q].channel) = check'[q].answer.version
      <4>0. /\ IsCached(check[q].channel) /\ now - answered.at < TTL /\ answered' = answered
            /\ Concludes(q, answered.answer)
        BY <3>0, <3>1, <3>4 DEF AskedGitHub
      <4>1. check'[q] = [stage |-> "answered", from |-> check[q].from, channel |-> check[q].channel, at |-> now,
                         answer |-> answered.answer, mixed |-> answered.mixed]
        BY <3>0, <3>2, <4>0 DEF SettledCall
      <4>2. /\ answered # NoCache /\ answered.at \in Nat /\ answered.at <= now
            /\ check[q].channel = answered.channel
        BY <1>0, <3>0, <4>0 DEF UpdateShape, CacheOK, IsCached, NoCache, Channel
      <4>3. /\ answered.answer.version = PickLatest(answered.etag, answered.channel)
            /\ IF answered.mixed THEN ListedLately(answered.etag, answered.at) ELSE ListedSince(answered.etag, answered.at)
        BY <1>0, <3>4, <4>0, <4>1, <4>2 DEF CacheIsDated
      <4>4. PICK t \in 0..now : answered.etag \in was[t] /\ IF answered.mixed THEN answered.at - t < TTL ELSE answered.at <= t
        BY <4>3 DEF ListedLately, ListedSince
      <4>5. now - t < IF answered.mixed THEN 2 * TTL ELSE TTL
        BY <3>0, <4>0, <4>2, <4>4, UpdateAssumption
      <4> QED
        BY <4>1, <4>2, <4>3, <4>4, <4>5
    <3> QED
      BY <1>0, <3>0, <3>3, <3>4 DEF AnswersAreRecent
  <2>6. ChannelsStayApart'
    BY <1>0, <1>11 DEF Ask, ChannelsStayApart
  <2> QED
    BY <2>1, <2>2, <2>3, <2>4, <2>5, <2>6 DEF UpdatesInv
<1>12. ASSUME NEW q \in Check, Serve(q)
      PROVE  UpdatesInv'
  <2>1. UpdateShape'
    BY <1>0, <1>12 DEF Serve, UpdateShape, CallOK, CacheOK, Idle, BannerOK, CardOK, BrowserOK
  <2>2. CallsAreYoung'
    BY <1>0, <1>12 DEF Serve, CallsAreYoung, ListedSince, UpdateShape, CallOK, Idle
  <2>3. CacheIsDated'
    BY <1>0, <1>12 DEF Serve, CacheIsDated, ListedSince, ListedLately
  <2>4. CallsKnowTheCache'
    <3>1. /\ check[q].stage = "fetching" /\ check[q].at \in Nat /\ check[q].at <= now /\ now \in Nat
          /\ releases \in was[now] /\ UNCHANGED <<answered, outbound, now, was>>
      BY <1>0, <1>12 DEF Serve, UpdateShape, CallOK, Idle
    <3>2. /\ \A p \in Check \ {q} : check'[p] = check[p]
          /\ check'[q].stage = "unchanged" =>
               check'[q].etag = check[q].etag /\ check'[q].channel = check[q].channel /\ check'[q].at = check[q].at
          /\ check'[q].stage # "fetching"
      BY <1>0, <1>12 DEF Serve, UpdateShape, CallOK, Idle
    <3> QED
      BY <1>0, <3>1, <3>2 DEF CallsKnowTheCache, ListedLately, IsCached
  <2>5. AnswersAreRecent'
    BY <1>0, <1>12 DEF Serve, AnswersAreRecent, CacheIsDated, CallsKnowTheCache, UpdateShape,
         CallOK, Idle
  <2>6. ChannelsStayApart'
    BY <1>0, <1>12 DEF Serve, ChannelsStayApart
  <2> QED
    BY <2>1, <2>2, <2>3, <2>4, <2>5, <2>6 DEF UpdatesInv
<1>13. ASSUME NEW q \in Check, Unchanged(q)
      PROVE  UpdatesInv'
  <2>1. UpdateShape'
    <3>0. /\ check[q].stage = "unchanged" /\ check[q].at \in Nat /\ check[q].at <= now
          /\ now \in Nat
          /\ answered # NoCache /\ CacheOK /\ answered.channel = check[q].channel
          /\ check[q].channel \in Channel
          /\ answered' = [answered EXCEPT !.at = check[q].at, !.mixed = (answered.etag # check[q].etag)]
          /\ UNCHANGED <<outbound, releases, banner, card, browser, now, was>>
      BY <1>0, <1>13 DEF Unchanged, IsCached, UpdateShape, CallOK, Idle, NoCache, Channel
    <3>1. /\ answered'.at = check[q].at /\ answered'.mixed = (answered.etag # check[q].etag)
          /\ answered'.etag = answered.etag /\ answered'.answer = answered.answer
          /\ answered'.channel = answered.channel
          /\ DOMAIN answered' = {"channel", "at", "etag", "answer", "mixed"}
      BY <3>0 DEF CacheOK
    <3>2. /\ check' = [check EXCEPT ![q] =
               [stage |-> "answered", from |-> check[q].from, channel |-> check[q].channel, at |-> check[q].at,
                answer |-> answered.answer, mixed |-> answered'.mixed]]
          /\ DOMAIN check = Check
      BY <1>0, <1>13, <3>0 DEF Unchanged, Concludes, UpdateShape

    <3>3. CacheOK'
      BY <3>0, <3>1 DEF CacheOK
    <3>4. DOMAIN check' = Check /\ CallOK(check'[q]) /\ \A p \in Check \ {q} : check'[p] = check[p]
      BY <3>0, <3>2 DEF CallOK, CacheOK
    <3> QED
      BY <1>0, <3>0, <3>3, <3>4 DEF UpdateShape, CallOK, BannerOK, CardOK, BrowserOK
  <2>2. CallsAreYoung'
    BY <1>0, <1>13 DEF Unchanged, Concludes, CallsAreYoung, ListedSince
  <2>3. CacheIsDated'
    <3>0. /\ check[q].stage = "unchanged" /\ check[q].at \in Nat /\ check[q].at <= now
          /\ now \in Nat
          /\ answered # NoCache /\ CacheOK /\ answered.channel = check[q].channel
          /\ check[q].channel \in Channel
          /\ answered' = [answered EXCEPT !.at = check[q].at, !.mixed = (answered.etag # check[q].etag)]
          /\ UNCHANGED <<outbound, releases, banner, card, browser, now, was>>
      BY <1>0, <1>13 DEF Unchanged, IsCached, UpdateShape, CallOK, Idle, NoCache, Channel
    <3>1. /\ answered'.at = check[q].at /\ answered'.mixed = (answered.etag # check[q].etag)
          /\ answered'.etag = answered.etag /\ answered'.answer = answered.answer
          /\ answered'.channel = answered.channel
          /\ DOMAIN answered' = {"channel", "at", "etag", "answer", "mixed"}
      BY <3>0 DEF CacheOK
    <3>2. /\ check' = [check EXCEPT ![q] =
               [stage |-> "answered", from |-> check[q].from, channel |-> check[q].channel, at |-> check[q].at,
                answer |-> answered.answer, mixed |-> answered'.mixed]]
          /\ DOMAIN check = Check
      BY <1>0, <1>13, <3>0 DEF Unchanged, Concludes, UpdateShape

    <3>3. ListedSince(check[q].etag, check[q].at)
      BY <1>0, <3>0 DEF CallsAreYoung
    <3>4. ASSUME outbound, ~ answered.answer.error
          PROVE  /\ answered.answer.version = PickLatest(answered.etag, answered.channel)
                 /\ check[q].etag = answered.etag \/ ListedLately(answered.etag, check[q].at)
      BY <1>0, <3>0, <3>4 DEF CacheIsDated, CallsKnowTheCache, IsCached
    <3> QED
      BY <3>0, <3>1, <3>3, <3>4 DEF CacheIsDated, ListedSince, ListedLately
  <2>4. CallsKnowTheCache'
    BY <1>0, <1>13 DEF Unchanged, Concludes, CallsKnowTheCache, ListedLately, IsCached
  <2>5. AnswersAreRecent'
    <3>0. /\ check[q].stage = "unchanged" /\ check[q].at \in Nat /\ check[q].at <= now
          /\ now \in Nat
          /\ answered # NoCache /\ CacheOK /\ answered.channel = check[q].channel
          /\ check[q].channel \in Channel
          /\ answered' = [answered EXCEPT !.at = check[q].at, !.mixed = (answered.etag # check[q].etag)]
          /\ UNCHANGED <<outbound, releases, banner, card, browser, now, was>>
      BY <1>0, <1>13 DEF Unchanged, IsCached, UpdateShape, CallOK, Idle, NoCache, Channel
    <3>1. /\ answered'.at = check[q].at /\ answered'.mixed = (answered.etag # check[q].etag)
          /\ answered'.etag = answered.etag /\ answered'.answer = answered.answer
          /\ answered'.channel = answered.channel
          /\ DOMAIN answered' = {"channel", "at", "etag", "answer", "mixed"}
      BY <3>0 DEF CacheOK
    <3>2. /\ check' = [check EXCEPT ![q] =
               [stage |-> "answered", from |-> check[q].from, channel |-> check[q].channel, at |-> check[q].at,
                answer |-> answered.answer, mixed |-> answered'.mixed]]
          /\ DOMAIN check = Check
      BY <1>0, <1>13, <3>0 DEF Unchanged, Concludes, UpdateShape

    <3>3. ASSUME outbound, ~ answered.answer.error
          PROVE  /\ answered.answer.version = PickLatest(answered.etag, answered.channel)
                 /\ ListedLately(answered.etag, check[q].at)
      <4>1. ListedSince(check[q].etag, check[q].at)
        BY <1>0, <3>0 DEF CallsAreYoung
      <4>2. ListedLately(check[q].etag, check[q].at)
        BY <3>0, <4>1, UpdateAssumption DEF ListedSince, ListedLately
      <4> QED
        BY <1>0, <3>0, <3>3, <4>2 DEF CacheIsDated, CallsKnowTheCache, IsCached
    <3>4. ASSUME outbound, ~ answered.answer.error
          PROVE  \E t \in 0..now : /\ check[q].at - t < IF answered'.mixed THEN 2 * TTL ELSE TTL
                                   /\ \E list \in was[t] : PickLatest(list, check[q].channel) = answered.answer.version
      BY <3>0, <3>3, <3>4, UpdateAssumption DEF ListedLately
    <3> QED
      BY <1>0, <3>0, <3>2, <3>4 DEF AnswersAreRecent
  <2>6. ChannelsStayApart'
    BY <1>0, <1>13 DEF Unchanged, ChannelsStayApart
  <2> QED
    BY <2>1, <2>2, <2>3, <2>4, <2>5, <2>6 DEF UpdatesInv
<1>14. ASSUME NEW q \in Check, Refused(q)
      PROVE  UpdatesInv'
  <2>1. UpdateShape'
    BY <1>0, <1>14 DEF Refused, Concludes, Remember, Answer, UpdateShape, CallOK, CacheOK, Idle,
         AnswerOK, BannerOK, CardOK, BrowserOK
  <2>2. CallsAreYoung'
    BY <1>0, <1>14 DEF Refused, Concludes, CallsAreYoung, ListedSince
  <2>3. CacheIsDated'
    BY <1>0, <1>14 DEF Refused, Remember, Answer, CacheIsDated
  <2>4. CallsKnowTheCache'
    BY <1>0, <1>14 DEF Refused, Remember, Answer, CallsKnowTheCache
  <2>5. AnswersAreRecent'
    BY <1>0, <1>14 DEF Refused, Concludes, Answer, AnswersAreRecent
  <2>6. ChannelsStayApart'
    BY <1>0, <1>14 DEF Refused, ChannelsStayApart
  <2> QED
    BY <2>1, <2>2, <2>3, <2>4, <2>5, <2>6 DEF UpdatesInv
<1>15. ASSUME NEW q \in Check, Served(q)
      PROVE  UpdatesInv'
  <2>1. UpdateShape'
    BY <1>0, <1>15 DEF Served, Concludes, Remember, Answer, UpdateShape, CallOK, CacheOK, Idle,
         AnswerOK, BannerOK, CardOK, BrowserOK
  <2>2. CallsAreYoung'
    BY <1>0, <1>15 DEF Served, Concludes, CallsAreYoung, ListedSince
  <2>3. CacheIsDated'
    BY <1>0, <1>15 DEF Served, Remember, Answer, CacheIsDated, CallsAreYoung, ListedSince
  <2>4. CallsKnowTheCache'
    <3>0. /\ check[q].stage = "served" /\ check[q].at \in Nat /\ check[q].at <= now /\ now \in Nat
          /\ now - check[q].at < TTL
          /\ ListedSince(check[q].etag, check[q].at)
          /\ UNCHANGED <<outbound, releases, banner, card, browser, now, was>>
      BY <1>0, <1>15 DEF Served, UpdateShape, CallOK, Idle, CallsAreYoung
    <3>1. /\ answered' = [channel |-> check[q].channel, at |-> check[q].at, etag |-> check[q].etag, mixed |-> FALSE,
                          answer |-> Answer(check[q].channel, PickLatest(check[q].etag, check[q].channel), FALSE)]
          /\ check'[q] = [stage |-> "answered", from |-> check[q].from, channel |-> check[q].channel, at |-> check[q].at,
                          answer |-> answered'.answer, mixed |-> FALSE]
          /\ \A p \in Check \ {q} : check'[p] = check[p]
      BY <1>0, <1>15, <3>0 DEF Served, Concludes, Remember, UpdateShape

    <3>2. ASSUME NEW p \in Check, check[p].stage \in {"fetching", "unchanged"}
          PROVE  ListedLately(check[q].etag, check[p].at)
      <4>1. check[p].at \in Nat /\ check[p].at <= now
        BY <1>0, <3>2 DEF UpdateShape, CallOK, Idle
      <4> QED
        BY <3>0, <4>1, UpdateAssumption DEF ListedSince, ListedLately
    <3> QED
      BY <3>0, <3>1, <3>2 DEF CallsKnowTheCache, ListedLately
  <2>5. AnswersAreRecent'
    <3>0. /\ check[q].stage = "served" /\ check[q].at \in Nat /\ check[q].at <= now /\ now \in Nat
          /\ now - check[q].at < TTL
          /\ ListedSince(check[q].etag, check[q].at)
          /\ UNCHANGED <<outbound, releases, banner, card, browser, now, was>>
      BY <1>0, <1>15 DEF Served, UpdateShape, CallOK, Idle, CallsAreYoung
    <3>1. /\ answered' = [channel |-> check[q].channel, at |-> check[q].at, etag |-> check[q].etag, mixed |-> FALSE,
                          answer |-> Answer(check[q].channel, PickLatest(check[q].etag, check[q].channel), FALSE)]
          /\ check'[q] = [stage |-> "answered", from |-> check[q].from, channel |-> check[q].channel, at |-> check[q].at,
                          answer |-> answered'.answer, mixed |-> FALSE]
          /\ \A p \in Check \ {q} : check'[p] = check[p]
      BY <1>0, <1>15, <3>0 DEF Served, Concludes, Remember, UpdateShape

    <3>2. \E t \in 0..now : check[q].at - t < TTL /\ check[q].etag \in was[t]
      BY <3>0, UpdateAssumption DEF ListedSince
    <3>3. /\ check'[q].at = check[q].at /\ ~ check'[q].mixed /\ check'[q].channel = check[q].channel
          /\ check'[q].answer.version = PickLatest(check[q].etag, check[q].channel)
      BY <3>1 DEF Answer
    <3>4. \E t \in 0..now : /\ check'[q].at - t < IF check'[q].mixed THEN 2 * TTL ELSE TTL
                            /\ \E list \in was[t] : PickLatest(list, check'[q].channel) = check'[q].answer.version
      BY <3>2, <3>3
    <3> QED
      BY <1>0, <3>0, <3>1, <3>4 DEF AnswersAreRecent
  <2>6. ChannelsStayApart'
    BY <1>0, <1>15 DEF Served, ChannelsStayApart
  <2> QED
    BY <2>1, <2>2, <2>3, <2>4, <2>5, <2>6 DEF UpdatesInv
<1>16. ASSUME NEW q \in Check, Arrive(q)
      PROVE  UpdatesInv'
  <2>1. UpdateShape'
    BY <1>0, <1>16 DEF Arrive, Stored, UpdateShape, CallOK, CacheOK, BannerOK, CardOK, BrowserOK
  <2>2. CallsAreYoung'
    BY <1>0, <1>16 DEF Arrive, CallsAreYoung, ListedSince, Idle
  <2>3. CacheIsDated'
    BY <1>0, <1>16 DEF Arrive, CacheIsDated, ListedSince, ListedLately
  <2>4. CallsKnowTheCache'
    BY <1>0, <1>16 DEF Arrive, CallsKnowTheCache, ListedLately, IsCached, Idle
  <2>5. AnswersAreRecent'
    BY <1>0, <1>16 DEF Arrive, AnswersAreRecent, Idle
  <2>6. ChannelsStayApart'
    <3>0. /\ check[q].channel \in Channel /\ check[q].answer.channel = check[q].channel
          /\ check[q].answer # None
      BY <1>0, <1>16 DEF Arrive, UpdateShape, CallOK, Idle, AnswerOK, None
    <3>1. \A c \in Channel : browser'.info[c] # None => browser'.info[c].channel = c
      BY <1>0, <1>16, <3>0 DEF Arrive, Stored, ChannelsStayApart
    <3>2. banner'.mounted /\ banner'.info # None /\ ~ banner'.crossed => banner'.info.channel = banner'.channel
      BY <1>0, <1>16, <3>0 DEF Arrive, ChannelsStayApart, UpdateShape, BannerOK
    <3>3. card'.open /\ card'.info # None /\ ~ card'.crossed => card'.info.channel = card'.channel
      BY <1>0, <1>16, <3>0 DEF Arrive, ChannelsStayApart, UpdateShape, CardOK
    <3> QED
      BY <3>1, <3>2, <3>3 DEF ChannelsStayApart
  <2> QED
    BY <2>1, <2>2, <2>3, <2>4, <2>5, <2>6 DEF UpdatesInv
<1>17. ASSUME NEW q \in Check, CheckFails(q)
      PROVE  UpdatesInv'
  <2>1. UpdateShape'
    BY <1>0, <1>17 DEF CheckFails, UpdateShape, CallOK, CacheOK, BannerOK, CardOK, BrowserOK
  <2>2. CallsAreYoung'
    BY <1>0, <1>17 DEF CheckFails, CallsAreYoung, ListedSince, Idle
  <2>3. CacheIsDated'
    BY <1>0, <1>17 DEF CheckFails, CacheIsDated, ListedSince, ListedLately
  <2>4. CallsKnowTheCache'
    BY <1>0, <1>17 DEF CheckFails, CallsKnowTheCache, ListedLately, IsCached, Idle
  <2>5. AnswersAreRecent'
    BY <1>0, <1>17 DEF CheckFails, AnswersAreRecent, Idle
  <2>6. ChannelsStayApart'
    BY <1>0, <1>17 DEF CheckFails, ChannelsStayApart
  <2> QED
    BY <2>1, <2>2, <2>3, <2>4, <2>5, <2>6 DEF UpdatesInv
<1>18. CASE UNCHANGED updates
  <2>1. UpdateShape'
    BY <1>0, <1>18 DEF updates, UpdateShape, CallOK, CacheOK, BannerOK, CardOK, BrowserOK
  <2>2. CallsAreYoung'
    BY <1>0, <1>18 DEF updates, CallsAreYoung, ListedSince
  <2>3. CacheIsDated'
    BY <1>0, <1>18 DEF updates, CacheIsDated, ListedSince, ListedLately
  <2>4. CallsKnowTheCache'
    BY <1>0, <1>18 DEF updates, CallsKnowTheCache, ListedLately, IsCached
  <2>5. AnswersAreRecent'
    BY <1>0, <1>18 DEF updates, AnswersAreRecent
  <2>6. ChannelsStayApart'
    BY <1>0, <1>18 DEF updates, ChannelsStayApart
  <2> QED
    BY <2>1, <2>2, <2>3, <2>4, <2>5, <2>6 DEF UpdatesInv
<1>19. CASE CheckNow
  <2>1. UpdateShape'
    BY <1>0, <1>19 DEF CheckNow, CardChecks, Starts, UpdateShape, CallOK, CacheOK, BannerOK,
         CardOK, BrowserOK
  <2>2. CallsAreYoung'
    BY <1>0, <1>19 DEF CheckNow, CardChecks, Starts, CallsAreYoung, ListedSince
  <2>3. CacheIsDated'
    BY <1>0, <1>19 DEF CheckNow, CacheIsDated, ListedSince, ListedLately
  <2>4. CallsKnowTheCache'
    BY <1>0, <1>19 DEF CheckNow, CardChecks, Starts, CallsKnowTheCache, ListedLately, IsCached
  <2>5. AnswersAreRecent'
    BY <1>0, <1>19 DEF CheckNow, CardChecks, Starts, AnswersAreRecent
  <2>6. ChannelsStayApart'
    BY <1>0, <1>19 DEF CheckNow, CardChecks, ChannelsStayApart, CardOK, UpdateShape
  <2> QED
    BY <2>1, <2>2, <2>3, <2>4, <2>5, <2>6 DEF UpdatesInv
<1> QED
  BY <1>1, <1>2, <1>3, <1>4, <1>5, <1>6, <1>7, <1>8, <1>9, <1>10, <1>11, <1>12, <1>13, <1>14,
       <1>15, <1>16, <1>17, <1>18, <1>19 DEF UpdateNext

LEMMA UpdatesBegin == UpdateInit => UpdatesInv
<1> SUFFICES ASSUME UpdateInit PROVE UpdatesInv
  OBVIOUS
<1>1. UpdateShape
  BY UpdateAssumption DEF UpdateInit, UpdateShape, CallOK, CacheOK, BannerOK, CardOK, BrowserOK,
       Channel
<1>2. CallsAreYoung /\ CacheIsDated /\ CallsKnowTheCache /\ AnswersAreRecent
  BY DEF UpdateInit, CallsAreYoung, CacheIsDated, CallsKnowTheCache, AnswersAreRecent, Idle
<1>3. ChannelsStayApart
  BY DEF UpdateInit, ChannelsStayApart
<1> QED
  BY <1>1, <1>2, <1>3 DEF UpdatesInv

(***************************************************************************)
(* For every set of versions and calls and every TTL, the answers of the   *)
(* check for updates are recent, and the channels stay apart.              *)
(***************************************************************************)
THEOREM UpdatesTellTheTruth == UpdateInit /\ [][UpdateNext]_updates => []UpdatesAreTrue
<1>1. UpdateInit /\ [][UpdateNext]_updates => []UpdatesInv
  BY UpdatesBegin, UpdatesStep, PTL
<1>2. UpdatesInv => UpdatesAreTrue
  BY DEF UpdatesInv, UpdatesAreTrue
<1> QED
  BY <1>1, <1>2, PTL

-----------------------------------------------------------------------------
(***************************************************************************)
(* The dialogs that share. What makes the quiet dialog true is that        *)
(* every handler ends with a read: as long as no error shows, a read is    *)
(* yet to come, or the last one that was served is what the server still   *)
(* has.                                                                    *)
(***************************************************************************)
ShareCall ==
  [call : {"read"}, clears : BOOLEAN] \cup [call : {"grant", "patch"}, person : Person, right : Right]
    \cup [call : {"revoke"}, person : Person] \cup [call : {"createLink"}, right : Right]
    \cup [call : {"revokeLink"}, link : Nat \ {0}, next : Right \cup {"same"}]

\* A plan ends with its only read.
PlanOK(plan) ==
  /\ plan \in Seq(ShareCall) /\ plan # <<>>
  /\ \A i \in 1..Len(plan) : plan[i].call = "read" <=> i = Len(plan)

TaskOK(x) ==
  \/ x = Free
  \/ /\ PlanOK(x.plan)
     /\ \/ x.stage = "asked" /\ DOMAIN x = {"stage", "plan"}
        \/ x.stage = "done" /\ DOMAIN x = {"stage", "plan"} /\ Head(x.plan).call # "read"
        \/ x.stage = "creating" /\ DOMAIN x = {"stage", "plan"} /\ Head(x.plan).call = "createLink"
        \/ /\ x.stage = "read" /\ DOMAIN x = {"stage", "plan", "people", "links", "stamp"}
           /\ Head(x.plan).call = "read" /\ x.links \subseteq DOMAIN policies
           /\ x.stamp \in 1..readsServed

Policy == [right : Right, active : BOOLEAN, lapsed : BOOLEAN]

DialogOK ==
  /\ DOMAIN dialog = {"what", "open", "rows", "error", "linkPermission", "searching", "results"}
  /\ dialog.open \in BOOLEAN /\ dialog.error \in BOOLEAN /\ dialog.linkPermission \in Right
  /\ DOMAIN dialog.rows = {"people", "link", "stamp"}
  /\ dialog.rows.link \in {0} \cup DOMAIN policies /\ dialog.rows.stamp \in 0..readsServed

ShareTypes ==
  /\ policies \in Seq(Policy) /\ readsServed \in Nat /\ crossed \in BOOLEAN
  /\ DOMAIN task = ShareTask /\ \A t \in ShareTask : TaskOK(task[t])
  /\ DialogOK

\* One link at most, and none while the next one is on its way.
Creating(t) == task[t] # Free /\ Creates(task[t].plan)
OneLink ==
  ~ crossed =>
    /\ \A s, t \in ShareTask : Creating(s) /\ Creating(t) => s = t
    /\ \A i, j \in Unrevoked : i = j
    /\ \A t \in ShareTask : task[t].stage = "creating" => Unrevoked = {}

WillRead == \E t \in ShareTask : task[t].stage \in {"asked", "creating", "done"}

ShowsTheLink ==
  LET live == Unexpired(Unrevoked)  link == dialog.rows.link IN
    /\ link = Newest(live) \/ (link # 0 /\ policies[link].lapsed)
    /\ crossed \/ live \subseteq {link}

LastReadHolds ==
  /\ \A t \in ShareTask : task[t].stage = "read" /\ task[t].stamp = readsServed =>
       task[t].people = granted /\ task[t].links = Unrevoked
  /\ dialog.rows.stamp = readsServed => dialog.rows.people = granted /\ ShowsTheLink

ReadsFollow == dialog.open /\ ~ dialog.error => WillRead \/ LastReadHolds

ShareInv == ShareTypes /\ OneLink /\ ReadsFollow

\* The plan that is left has its read still.
LEMMA PlansShrink ==
  ASSUME NEW plan, PlanOK(plan), Head(plan).call # "read"
  PROVE  PlanOK(Tail(plan)) /\ (Creates(Tail(plan)) => Creates(plan))
<1>1. plan \in Seq(ShareCall) /\ Len(plan) \in Nat /\ Len(plan) > 0 /\ Head(plan) = plan[1]
  BY DEF PlanOK
<1>2. Len(plan) > 1
  BY <1>1 DEF PlanOK
<1>3. /\ Tail(plan) \in Seq(ShareCall) /\ Len(Tail(plan)) = Len(plan) - 1
      /\ \A i \in 1..Len(Tail(plan)) : Tail(plan)[i] = plan[i + 1]
  BY <1>1, HeadTailProperties
<1>4. DOMAIN plan = 1..Len(plan) /\ DOMAIN Tail(plan) = 1..Len(Tail(plan))
  BY <1>1, <1>3
<1>8. Tail(plan) # <<>>
  <2> DEFINE rest == Tail(plan)
  <2>1. Len(rest) > 0
    BY <1>1, <1>2, <1>3
  <2> HIDE DEF rest
  <2>2. rest # <<>>
    BY <2>1, EmptySeq
  <2> QED
    BY <2>2 DEF rest
<1>5. \A i \in 1..Len(Tail(plan)) : i + 1 \in 1..Len(plan) /\ (i = Len(Tail(plan)) <=> i + 1 = Len(plan))
  BY <1>1, <1>3
<1>6. \A i \in 1..Len(Tail(plan)) : Tail(plan)[i].call = "read" <=> i = Len(Tail(plan))
  BY <1>3, <1>5 DEF PlanOK
<1>7. Creates(Tail(plan)) => Creates(plan)
  BY <1>3, <1>4, <1>5 DEF Creates
<1> QED
  BY <1>3, <1>6, <1>7, <1>8 DEF PlanOK

LEMMA PlansOfOne == \A b \in BOOLEAN : PlanOK(<<ReadRows(b)>>) /\ ~ Creates(<<ReadRows(b)>>)
  BY DEF PlanOK, ReadRows, ShareCall, Creates

LEMMA PlansOfTwo ==
  ASSUME NEW c \in ShareCall, c.call # "read", NEW b \in BOOLEAN
  PROVE  PlanOK(<<c, ReadRows(b)>>)
<1>1. ReadRows(b) \in ShareCall /\ ReadRows(b).call = "read"
  BY DEF ReadRows, ShareCall
<1> QED
  BY <1>1 DEF PlanOK

LEMMA PlansGrow ==
  ASSUME NEW c \in ShareCall, c.call # "read", NEW plan, PlanOK(plan)
  PROVE  PlanOK(<<c>> \o plan)
<1>1. /\ plan \in Seq(ShareCall) /\ Len(plan) \in Nat /\ Len(plan) > 0 /\ <<c>> \in Seq(ShareCall)
      /\ Len(<<c>>) = 1
  BY DEF PlanOK
<1>2. /\ <<c>> \o plan \in Seq(ShareCall) /\ Len(<<c>> \o plan) = Len(plan) + 1
      /\ \A i \in 1..(Len(plan) + 1) : (<<c>> \o plan)[i] = IF i <= 1 THEN <<c>>[i] ELSE plan[i - 1]
  BY <1>1, ConcatProperties
<1>3. <<c>> \o plan # <<>>
  BY <1>1, <1>2, EmptySeq
<1>4. ASSUME NEW i \in 1..Len(<<c>> \o plan)
      PROVE  (<<c>> \o plan)[i].call = "read" <=> i = Len(<<c>> \o plan)
  <2>1. CASE i = 1
    BY <1>1, <1>2, <2>1
  <2>2. CASE i # 1
    <3>1. i - 1 \in 1..Len(plan) /\ (<<c>> \o plan)[i] = plan[i - 1]
      BY <1>1, <1>2, <2>2
    <3> QED
      BY <1>1, <1>2, <3>1 DEF PlanOK
  <2> QED
    BY <2>1, <2>2
<1> QED
  BY <1>2, <1>3, <1>4 DEF PlanOK

\* Rows of the same number are as good for what is under way, and readsServed only grow.
LEMMA TasksStay ==
  ASSUME ShareTypes, DOMAIN policies \subseteq DOMAIN policies', readsServed' \in Nat, readsServed <= readsServed'
  PROVE  \A x : TaskOK(x) => TaskOK(x)'
  BY DEF ShareTypes, TaskOK

LEMMA RowsAreASeq ==
  ASSUME policies \in Seq(Policy), NEW rows, rows = [i \in DOMAIN policies |-> rows[i]],
         \A i \in DOMAIN policies : rows[i] \in Policy
  PROVE  rows \in Seq(Policy) /\ DOMAIN rows = DOMAIN policies /\ Len(rows) = Len(policies)
<1>1. Len(policies) \in Nat /\ DOMAIN policies = 1..Len(policies)
  OBVIOUS
<1>2. rows \in [1..Len(policies) -> Policy]
  BY <1>1
<1> QED
  BY <1>1, <1>2

LEMMA RowsRevoked ==
  ASSUME policies \in Seq(Policy), NEW links
  PROVE  /\ Revoked(links) \in Seq(Policy) /\ DOMAIN Revoked(links) = DOMAIN policies
         /\ Len(Revoked(links)) = Len(policies)
         /\ \A i \in DOMAIN policies : /\ Revoked(links)[i].active = (policies[i].active /\ i \notin links)
                                        /\ Revoked(links)[i].lapsed = policies[i].lapsed
<1>1. \A i \in DOMAIN policies : policies[i] \in Policy
  OBVIOUS
<1>2. \A i \in DOMAIN policies : /\ Revoked(links)[i] \in Policy
                                 /\ Revoked(links)[i].active = (policies[i].active /\ i \notin links)
                                 /\ Revoked(links)[i].lapsed = policies[i].lapsed
  BY <1>1 DEF Revoked, Policy
<1>3. Revoked(links) = [i \in DOMAIN policies |-> Revoked(links)[i]]
  BY DEF Revoked
<1> QED
  BY <1>2, <1>3, RowsAreASeq

\* A set of numbers has a least one, and one of rows has the newest.
LEMMA LeastNatural ==
  ASSUME NEW S \in SUBSET Nat, S # {}
  PROVE  \E m \in S : \A n \in S : m <= n
<1> DEFINE R == {ss \in Nat \X Nat : ss[1] < ss[2]}
<1>1. IsWellFoundedOn(R, Nat)
  BY NatLessThanWellFounded DEF OpToRel
<1> HIDE DEF R
<1>2. PICK m \in S : \A n \in S : <<n, m>> \notin R
  BY <1>1, WFMin
<1>3. ASSUME NEW n \in S
      PROVE  m <= n
  <2>1. m \in Nat /\ n \in Nat
    OBVIOUS
  <2>2. <<n, m>> \notin R
    BY <1>2
  <2> QED
    BY <2>1, <2>2 DEF R
<1> QED
  BY <1>2, <1>3

\* The greatest one is found from the distances to the bound.
LEMMA GreatestRow ==
  ASSUME NEW S \in SUBSET Nat, S # {}, NEW b \in Nat, \A n \in S : n <= b
  PROVE  \E m \in S : \A n \in S : n <= m
<1> DEFINE T == {k \in Nat : b - k \in S}
<1>1. T \in SUBSET Nat
  OBVIOUS
<1>2. ASSUME NEW n \in S
      PROVE  b - n \in T
  <2>1. n \in Nat /\ n <= b
    OBVIOUS
  <2>2. b - n \in Nat /\ b - (b - n) = n
    BY <2>1
  <2> QED
    BY <2>2
<1>3. T # {}
  BY <1>2
<1>4. PICK k \in T : \A j \in T : k <= j
  BY <1>1, <1>3, LeastNatural
<1>5. k \in Nat /\ b - k \in S
  OBVIOUS
<1>6. ASSUME NEW n \in S
      PROVE  n <= b - k
  <2>1. k <= b - n /\ n \in Nat
    BY <1>2, <1>4, <1>6
  <2> QED
    BY <1>5, <2>1
<1> QED
  BY <1>5, <1>6

LEMMA NewestIsThere ==
  ASSUME policies \in Seq(Policy), NEW links \in SUBSET DOMAIN policies
  PROVE  Newest(links) \in {0} \cup DOMAIN policies
         /\ (links # {} => Newest(links) \in links /\ \A j \in links : j <= Newest(links))
<1>1. CASE links = {}
  BY <1>1 DEF Newest
<1>2. CASE links # {}
  <2>1. Len(policies) \in Nat /\ DOMAIN policies = 1..Len(policies)
    OBVIOUS
  <2>2. links \in SUBSET Nat /\ \A j \in links : j <= Len(policies)
    BY <2>1
  <2>3. \E m \in links : \A j \in links : j <= m
    BY <1>2, <2>1, <2>2, GreatestRow
  <2> QED
    BY <1>2, <2>3 DEF Newest
<1> QED
  BY <1>1, <1>2

LEMMA NewestStays ==
  ASSUME policies \in Seq(Policy), NEW links \in SUBSET DOMAIN policies, NEW i \in links, i # Newest(links)
  PROVE  Newest(links \ {i}) = Newest(links)
<1>1. /\ Newest(links) \in links /\ (\A j \in links : j <= Newest(links))
      /\ Newest(links) \in links \ {i}
  BY NewestIsThere
<1>2. links \ {i} \in SUBSET DOMAIN policies /\ links \ {i} # {}
  BY <1>1
<1>3. Newest(links \ {i}) \in links \ {i} /\ \A j \in links \ {i} : j <= Newest(links \ {i})
  BY <1>2, NewestIsThere
<1>4. Newest(links \ {i}) <= Newest(links) /\ Newest(links) <= Newest(links \ {i})
  BY <1>1, <1>3
<1>5. Newest(links) \in Nat /\ Newest(links \ {i}) \in Nat
  BY <1>1, <1>3
<1> QED
  BY <1>4, <1>5

LEMMA OnlyIsNewest ==
  ASSUME NEW links, \A i, j \in links : i = j, \A i \in links : i \in DOMAIN policies, policies \in Seq(Policy)
  PROVE  links \subseteq {Newest(links)}
  BY NewestIsThere

LEMMA CreatorsCreate == \A t \in ShareTask : TaskOK(task[t]) /\ task[t].stage = "creating" => Creating(t)
<1> SUFFICES ASSUME NEW t \in ShareTask, TaskOK(task[t]), task[t].stage = "creating" PROVE Creating(t)
  OBVIOUS
<1>1. task[t] # Free /\ PlanOK(task[t].plan) /\ Head(task[t].plan).call = "createLink"
  BY DEF TaskOK, Free
<1>2. 1 \in DOMAIN task[t].plan /\ Head(task[t].plan) = task[t].plan[1]
  BY <1>1 DEF PlanOK
<1> QED
  BY <1>1, <1>2 DEF Creating, Creates

LEMMA HandlerKeeps ==
  ASSUME ShareInv, NEW plan, PlanOK(plan), Handling(plan)
  PROVE  ShareInv'
<1>i. ShareTypes /\ OneLink /\ ReadsFollow
  BY DEF ShareInv
<1>h. Head(plan) \in ShareCall /\ plan # <<>>
  BY DEF PlanOK
<1>r. Head(plan).call = "createLink" => Head(plan).right \in Right
  BY <1>h DEF ShareCall
<1>t. PICK t \in ShareTask : task[t] = Free /\ task' = [task EXCEPT ![t] = [stage |-> "asked", plan |-> plan]]
  BY DEF Handling, Launch
<1>u. UNCHANGED <<granted, policies, losses, readsServed>> /\ crossed' \in BOOLEAN
  BY <1>i DEF Handling
<1>1. ShareTypes'
  <2>1. DialogOK'
    BY <1>i, <1>r, <1>u DEF Handling, ShareTypes, DialogOK
  <2>2. \A s \in ShareTask : TaskOK(task[s])'
    BY <1>i, <1>t, <1>u DEF ShareTypes, TaskOK
  <2> QED
    BY <1>i, <1>t, <1>u, <2>1, <2>2 DEF ShareTypes
<1>2. OneLink'
  <2>1. crossed' = (crossed \/ (Creates(plan) /\ \E s \in ShareTask : task[s] # Free /\ Creates(task[s].plan)))
    BY DEF Handling
  <2>2. \A s \in ShareTask : s # t => task'[s] = task[s]
    BY <1>i, <1>t
  <2>3. /\ task'[t] = [stage |-> "asked", plan |-> plan] /\ (Creating(t)' <=> Creates(plan))
        /\ \A s \in ShareTask : s # t => (Creating(s)' <=> Creating(s))
    <3>1. task'[t] = [stage |-> "asked", plan |-> plan] /\ task'[t] # Free /\ task'[t].plan = plan
      BY <1>i, <1>t DEF ShareTypes, Free
    <3> QED
      BY <3>1, <2>2 DEF Creating
  <2>4. Unrevoked' = Unrevoked
    BY <1>u DEF Unrevoked
  <2> QED
    <3> SUFFICES ASSUME ~ crossed' PROVE OneLink'
      BY DEF OneLink
    <3>1. ~ crossed /\ (Creates(plan) => \A s \in ShareTask : ~ Creating(s))
      BY <2>1 DEF Creating
    <3>2. \A s, u \in ShareTask : Creating(s)' /\ Creating(u)' => s = u
      BY <1>i, <2>3, <3>1 DEF OneLink
    <3>3. \A s \in ShareTask : task'[s].stage = "creating" => task[s].stage = "creating"
      BY <2>2, <2>3
    <3> QED
      BY <1>i, <2>4, <3>1, <3>2, <3>3 DEF OneLink
<1>3. ReadsFollow'
  BY <1>i, <1>t DEF ShareTypes, ReadsFollow, WillRead
<1> QED
  BY <1>1, <1>2, <1>3 DEF ShareInv

LEMMA ShareStep == ShareInv /\ [ShareNext]_sharingDialog => ShareInv'
<1> SUFFICES ASSUME ShareInv, [ShareNext]_sharingDialog PROVE ShareInv'
  OBVIOUS
<1>0. ShareTypes /\ OneLink /\ ReadsFollow
  BY DEF ShareInv
<1>1. CASE Open
  <2>1. ShareTypes'
    <3>1. ReadRows(FALSE) = [call |-> "read", clears |-> FALSE] /\ PlanOK(<<ReadRows(FALSE)>>)
      BY PlansOfOne DEF ReadRows
    <3>2. PICK t \in ShareTask : task[t] = Free /\ task' = [task EXCEPT ![t] = [stage |-> "asked", plan |-> <<ReadRows(FALSE)>>]]
      BY <1>1 DEF Open, Launch
    <3>3. \A s \in ShareTask : TaskOK(task[s])'
      BY <1>0, <1>1, <3>1, <3>2 DEF Open, ShareTypes, TaskOK
    <3>4. DialogOK'
      BY <1>0, <1>1 DEF Open, ShareTypes, DialogOK, Right
    <3> QED
      BY <1>0, <1>1, <3>2, <3>3, <3>4 DEF Open, ShareTypes
  <2>2. OneLink'
    <3>1. PICK t \in ShareTask : task[t] = Free /\ task' = [task EXCEPT ![t] = [stage |-> "asked", plan |-> <<ReadRows(FALSE)>>]]
      BY <1>1 DEF Open, Launch
    <3>2. task'[t].plan = <<ReadRows(FALSE)>> /\ task'[t].stage = "asked" /\ \A s \in ShareTask : s # t => task'[s] = task[s]
      BY <1>0, <3>1 DEF ShareTypes
    <3>3. ~ Creating(t)' /\ \A s \in ShareTask : s # t => (Creating(s)' <=> Creating(s))
      BY <3>2, PlansOfOne DEF Creating
    <3> QED
      BY <1>0, <1>1, <3>2, <3>3 DEF Open, OneLink, Unrevoked
  <2>3. ReadsFollow'
    BY <1>0, <1>1 DEF Open, Launch, ReadsFollow, WillRead, ShareTypes
  <2> QED
    BY <2>1, <2>2, <2>3 DEF ShareInv
<1>2. CASE Close
  <2>1. ShareTypes'
    BY <1>0, <1>2 DEF Close, ShareTypes, DialogOK, TaskOK
  <2>2. OneLink'
    BY <1>0, <1>2 DEF Close, OneLink, Creating, Unrevoked
  <2>3. ReadsFollow'
    BY <1>0, <1>2 DEF Close, ReadsFollow
  <2> QED
    BY <2>1, <2>2, <2>3 DEF ShareInv
<1>3. CASE Type
  <2>1. ShareTypes'
    BY <1>0, <1>3 DEF Type, ShareTypes, DialogOK, TaskOK
  <2>2. OneLink'
    BY <1>0, <1>3 DEF Type, OneLink, Creating, Unrevoked
  <2>3. ReadsFollow'
    BY <1>0, <1>3 DEF Type, ReadsFollow, WillRead, LastReadHolds, ShowsTheLink, Unrevoked, Unexpired
  <2> QED
    BY <2>1, <2>2, <2>3 DEF ShareInv
<1>4. CASE Found
  <2>1. ShareTypes'
    BY <1>0, <1>4 DEF Found, ShareTypes, DialogOK, TaskOK
  <2>2. OneLink'
    BY <1>0, <1>4 DEF Found, OneLink, Creating, Unrevoked
  <2>3. ReadsFollow'
    BY <1>0, <1>4 DEF Found, ReadsFollow, WillRead, LastReadHolds, ShowsTheLink, Unrevoked,
         Unexpired
  <2> QED
    BY <2>1, <2>2, <2>3 DEF ShareInv
<1>5. CASE ChooseLink
  <2>1. PICK r \in Right : UpdateLink(r)
    BY <1>0, <1>5 DEF ChooseLink, ShareTypes, DialogOK
  <2> DEFINE old    == dialog.rows.link
             create == [call |-> "createLink", right |-> r]
             revoke == [call |-> "revokeLink", link |-> old, next |-> r]
  <2>2. /\ create \in ShareCall /\ create.call # "read"
        /\ (old # 0 => revoke \in ShareCall /\ revoke.call # "read")
    BY <1>0 DEF ShareCall, ShareTypes, DialogOK
  <2>3. CASE old = 0
    <3>1. Handling(<<>> \o <<create, ReadRows(FALSE)>>)
      BY <2>1, <2>3 DEF UpdateLink
    <3>2. <<>> \o <<create, ReadRows(FALSE)>> = <<create, ReadRows(FALSE)>>
      OBVIOUS
    <3> QED
      BY <2>2, <3>1, <3>2, PlansOfTwo, HandlerKeeps
  <2>4. CASE old # 0
    <3>1. Handling(<<revoke>> \o <<create, ReadRows(FALSE)>>)
      BY <2>1, <2>4 DEF UpdateLink
    <3>2. PlanOK(<<revoke>> \o <<create, ReadRows(FALSE)>>)
      BY <2>2, <2>4, PlansOfTwo, PlansGrow
    <3> QED
      BY <3>1, <3>2, HandlerKeeps
  <2> QED
    BY <2>3, <2>4
<1>6. CASE RevokeLink
  <2> DEFINE revoke == [call |-> "revokeLink", link |-> dialog.rows.link, next |-> "same"]
  <2>1. dialog.rows.link # 0 /\ Handling(<<revoke, ReadRows(FALSE)>>)
    BY <1>6 DEF RevokeLink
  <2>2. revoke \in ShareCall /\ revoke.call # "read"
    BY <1>0, <2>1 DEF ShareCall, ShareTypes, DialogOK
  <2> HIDE DEF revoke
  <2> QED
    BY <2>1, <2>2, PlansOfTwo, HandlerKeeps
<1>7. ASSUME NEW p \in Person, RevokeUser(p)
      PROVE  ShareInv'
  <2>1. PlanOK(Removing(p)) /\ Handling(Removing(p))
    BY <1>7, PlansOfTwo DEF RevokeUser, Removing, ShareCall
  <2> QED
    BY <2>1, HandlerKeeps
<1>8. ASSUME NEW p \in Person, NEW r \in Right, AddUser(p, r)
      PROVE  ShareInv'
  <2>1. PlanOK(Adding(p, r)) /\ Handling(Adding(p, r))
    BY <1>8, PlansOfTwo DEF AddUser, Adding, ShareCall
  <2> QED
    BY <2>1, HandlerKeeps
<1>9. ASSUME NEW p \in Person, NEW r \in Right, UpdateUser(p, r)
      PROVE  ShareInv'
  <2>1. PlanOK(Changing(p, r)) /\ Handling(Changing(p, r))
    BY <1>9, PlansOfTwo DEF UpdateUser, Changing, ShareCall
  <2> QED
    BY <2>1, HandlerKeeps
<1>10. ASSUME NEW i \in DOMAIN policies, Lapse(i)
      PROVE  ShareInv'
  <2>1. ShareTypes'
    <3> DEFINE rows == [policies EXCEPT ![i].lapsed = TRUE]
    <3>1. \A j \in DOMAIN policies : rows[j] \in Policy
      <4>1. \A j \in DOMAIN policies : policies[j] \in Policy
        BY <1>0 DEF ShareTypes
      <4>2. \A j \in DOMAIN policies : rows[j] = IF j = i THEN [policies[i] EXCEPT !.lapsed = TRUE] ELSE policies[j]
        OBVIOUS
      <4>3. \A p \in Policy : [p EXCEPT !.lapsed = TRUE] \in Policy
        BY DEF Policy
      <4> QED
        BY <4>1, <4>2, <4>3
    <3>2. /\ policies' \in Seq(Policy) /\ Len(policies') = Len(policies)
          /\ DOMAIN policies' = DOMAIN policies
      <4>1. rows = [j \in DOMAIN policies |-> rows[j]]
        OBVIOUS
      <4>2. policies' = rows
        BY <1>10 DEF Lapse
      <4> HIDE DEF rows
      <4> QED
        BY <1>0, <3>1, <4>1, <4>2, RowsAreASeq
    <3> QED
      BY <1>0, <1>10, <3>2 DEF Lapse, ShareTypes, DialogOK, TaskOK
  <2>2. OneLink'
    BY <1>0, <1>10 DEF Lapse, OneLink, Creating, Unrevoked
  <2>3. ReadsFollow'
    <3> DEFINE live == Unexpired(Unrevoked)
               link == dialog.rows.link
    <3>1. /\ i \in live /\ i \in DOMAIN policies /\ DOMAIN policies' = DOMAIN policies
          /\ \A j \in DOMAIN policies : policies'[j].active = policies[j].active
          /\ \A j \in DOMAIN policies : policies'[j].lapsed = (policies[j].lapsed \/ j = i)
      <4>1. i \in live /\ i \in DOMAIN policies /\ policies' = [policies EXCEPT ![i].lapsed = TRUE]
        BY <1>10 DEF Lapse
      <4>2. \A j \in DOMAIN policies : policies[j] \in Policy
        BY <1>0 DEF ShareTypes
      <4>3. \A j \in DOMAIN policies :
              policies'[j] = IF j = i THEN [policies[i] EXCEPT !.lapsed = TRUE] ELSE policies[j]
        BY <4>1
      <4>4. \A p \in Policy : [p EXCEPT !.lapsed = TRUE].lapsed = TRUE /\ [p EXCEPT !.lapsed = TRUE].active = p.active
        BY DEF Policy
      <4> QED
        BY <4>1, <4>2, <4>3, <4>4 DEF Policy
    <3>2. Unrevoked' = Unrevoked
      BY <3>1 DEF Unrevoked
    <3>3. live' = live \ {i}
      BY <3>1 DEF Unrevoked, Unexpired
    <3>4. UNCHANGED <<granted, dialog, task, readsServed, crossed>>
      BY <1>10 DEF Lapse
    <3>5. i # 0 /\ live \subseteq DOMAIN policies
      BY <1>0, <3>1 DEF ShareTypes, Unexpired, Unrevoked
    <3>6. ShowsTheLink => ShowsTheLink'
      <4> SUFFICES ASSUME ShowsTheLink PROVE ShowsTheLink'
        OBVIOUS
      <4>1. crossed' \/ live' \subseteq {link'}
        BY <3>3, <3>4 DEF ShowsTheLink
      <4>2. CASE link # 0 /\ policies[link].lapsed
        BY <1>0, <3>1, <3>4, <4>1, <4>2 DEF ShowsTheLink, ShareTypes, DialogOK
      <4>3. CASE link = i
        BY <3>1, <3>4, <3>5, <4>1, <4>3 DEF ShowsTheLink
      <4>4. CASE link = Newest(live) /\ link # i
        <5>1. Newest(live \ {i}) = Newest(live)
          BY <1>0, <3>1, <3>5, <4>4, NewestStays DEF ShareTypes
        <5>2. Newest(live') = Newest(live)'
          BY DEF Newest
        <5> QED
          BY <3>3, <3>4, <4>1, <4>4, <5>1 DEF ShowsTheLink
      <4> QED
        BY <4>2, <4>3, <4>4 DEF ShowsTheLink
    <3> QED
      BY <1>0, <3>2, <3>4, <3>6 DEF ReadsFollow, WillRead, LastReadHolds
  <2> QED
    BY <2>1, <2>2, <2>3 DEF ShareInv
<1>11. ASSUME NEW t \in ShareTask, ServePeople(t)
      PROVE  ShareInv'
  <2>1. ShareTypes'
    BY <1>0, <1>11 DEF ServePeople, Asks, Call, Reaches, ShareTypes, DialogOK, TaskOK, Free
  <2>2. OneLink'
    BY <1>0, <1>11 DEF ServePeople, Asks, Reaches, OneLink, Creating, Unrevoked, Free
  <2>3. ReadsFollow'
    BY <1>0, <1>11 DEF ServePeople, Reaches, ReadsFollow, WillRead, ShareTypes
  <2> QED
    BY <2>1, <2>2, <2>3 DEF ShareInv
<1>12. ASSUME NEW t \in ShareTask, ServeRevokeLink(t)
      PROVE  ShareInv'
  <2>1. ShareTypes'
    <3>1. /\ policies' \in Seq(Policy) /\ DOMAIN policies \subseteq DOMAIN policies'
          /\ readsServed' \in Nat /\ readsServed <= readsServed' /\ crossed' = crossed
      BY <1>0, <1>12, RowsRevoked DEF ServeRevokeLink, ShareTypes
    <3>2. /\ TaskOK(task[t]) /\ DOMAIN task' = ShareTask
          /\ \A s \in ShareTask : s # t => task'[s] = task[s]
      BY <1>0, <1>12 DEF ServeRevokeLink, Reaches, ShareTypes
    <3>3. TaskOK(task[t])'
      BY <1>0, <1>12, <3>1, <3>2 DEF ServeRevokeLink, Asks, Call, Reaches, TaskOK, Free
    <3>4. \A s \in ShareTask : TaskOK(task[s])'
      BY <1>0, <3>1, <3>2, <3>3, TasksStay DEF ShareTypes
    <3>5. DialogOK'
      BY <1>0, <1>12, <3>1 DEF ServeRevokeLink, ShareTypes, DialogOK
    <3> QED
      BY <1>0, <3>1, <3>2, <3>4, <3>5 DEF ShareTypes
  <2>2. OneLink'
    BY <1>0, <1>12 DEF ServeRevokeLink, Asks, Reaches, Revoked, OneLink, Creating, Unrevoked,
         ShareTypes, Free
  <2>3. ReadsFollow'
    BY <1>0, <1>12 DEF ServeRevokeLink, Asks, Reaches, ReadsFollow, WillRead
  <2> QED
    BY <2>1, <2>2, <2>3 DEF ShareInv
<1>13. ASSUME NEW t \in ShareTask, RevokeLinks(t)
      PROVE  ShareInv'
  <2>1. ShareTypes'
    <3>1. /\ policies' \in Seq(Policy) /\ DOMAIN policies \subseteq DOMAIN policies'
          /\ readsServed' \in Nat /\ readsServed <= readsServed' /\ crossed' = crossed
      BY <1>0, <1>13, RowsRevoked DEF RevokeLinks, ShareTypes
    <3>2. /\ TaskOK(task[t]) /\ DOMAIN task' = ShareTask
          /\ \A s \in ShareTask : s # t => task'[s] = task[s]
      BY <1>0, <1>13 DEF RevokeLinks, Reaches, ShareTypes
    <3>3. TaskOK(task[t])'
      BY <1>0, <1>13, <3>1, <3>2 DEF RevokeLinks, Asks, Call, Reaches, TaskOK, Free
    <3>4. \A s \in ShareTask : TaskOK(task[s])'
      BY <1>0, <3>1, <3>2, <3>3, TasksStay DEF ShareTypes
    <3>5. DialogOK'
      BY <1>0, <1>13, <3>1 DEF RevokeLinks, ShareTypes, DialogOK
    <3> QED
      BY <1>0, <3>1, <3>2, <3>4, <3>5 DEF ShareTypes
  <2>2. OneLink'
    <3>1. Unrevoked' = {}
      BY <1>0, <1>13, RowsRevoked DEF RevokeLinks, Unrevoked, ShareTypes
    <3>2. \A s \in ShareTask : task'[s] = task[s] \/ (task'[s] # Free /\ task[s] # Free /\ task'[s].plan = task[s].plan)
      BY <1>0, <1>13 DEF RevokeLinks, Asks, Reaches, Free
    <3>3. \A s \in ShareTask : Creating(s)' => Creating(s)
      BY <3>2 DEF Creating
    <3> QED
      BY <1>0, <1>13, <3>1, <3>3 DEF RevokeLinks, OneLink
  <2>3. ReadsFollow'
    BY <1>0, <1>13 DEF RevokeLinks, Reaches, ReadsFollow, WillRead, ShareTypes
  <2> QED
    BY <2>1, <2>2, <2>3 DEF ShareInv
<1>14. ASSUME NEW t \in ShareTask, CreateLinkRow(t)
      PROVE  ShareInv'
  <2>1. ShareTypes'
    <3>1. /\ policies' \in Seq(Policy) /\ DOMAIN policies \subseteq DOMAIN policies'
          /\ readsServed' \in Nat /\ readsServed <= readsServed' /\ crossed' = crossed
      <4> DEFINE row == [right |-> Call(t).right, active |-> TRUE, lapsed |-> FALSE]
      <4>1. Call(t) \in ShareCall /\ Call(t).call = "createLink"
        BY <1>0, <1>14 DEF CreateLinkRow, ShareTypes, TaskOK, Free, PlanOK, Call
      <4>2. row \in Policy
        BY <4>1 DEF ShareCall, Policy
      <4> HIDE DEF row
      <4>3. /\ Append(policies, row) \in Seq(Policy)
            /\ DOMAIN policies \subseteq DOMAIN Append(policies, row)
        BY <1>0, <4>2, AppendProperties DEF ShareTypes
      <4> QED
        BY <1>0, <1>14, <4>3 DEF CreateLinkRow, ShareTypes, row
    <3>2. /\ TaskOK(task[t]) /\ DOMAIN task' = ShareTask
          /\ \A s \in ShareTask : s # t => task'[s] = task[s]
      BY <1>0, <1>14 DEF CreateLinkRow, Reaches, ShareTypes
    <3>3. TaskOK(task[t])'
      BY <1>0, <1>14, <3>1, <3>2 DEF CreateLinkRow, Reaches, TaskOK, Free
    <3>4. \A s \in ShareTask : TaskOK(task[s])'
      BY <1>0, <3>1, <3>2, <3>3, TasksStay DEF ShareTypes
    <3>5. DialogOK'
      BY <1>0, <1>14, <3>1 DEF CreateLinkRow, ShareTypes, DialogOK
    <3> QED
      BY <1>0, <3>1, <3>2, <3>4, <3>5 DEF ShareTypes
  <2>2. OneLink'
    <3> SUFFICES ASSUME ~ crossed' PROVE OneLink'
      BY DEF OneLink
    <3>1. ~ crossed /\ Unrevoked = {}
      BY <1>0, <1>14 DEF CreateLinkRow, OneLink
    <3>2. \A i, j \in Unrevoked' : i = j
      BY <1>0, <1>14, <3>1 DEF CreateLinkRow, Unrevoked
    <3>3. \A s \in ShareTask : task'[s] = task[s] \/ (task'[s] # Free /\ task[s] # Free /\ task'[s].plan = task[s].plan)
      BY <1>0, <1>14 DEF CreateLinkRow, Reaches, Free
    <3>4. \A s \in ShareTask : Creating(s)' => Creating(s)
      BY <3>3 DEF Creating
    <3>5. \A s \in ShareTask : task[s].stage = "creating" => Creating(s)
      BY <1>0, CreatorsCreate DEF ShareTypes
    <3>6. \A s \in ShareTask : task'[s].stage = "creating" => task[s].stage = "creating" /\ s # t
      BY <1>0, <1>14 DEF CreateLinkRow, Reaches, ShareTypes
    <3>7. \A s \in ShareTask : task'[s].stage # "creating"
      BY <1>0, <1>14, <3>1, <3>5, <3>6 DEF CreateLinkRow, OneLink
    <3> QED
      BY <1>0, <3>1, <3>2, <3>4, <3>7 DEF OneLink
  <2>3. ReadsFollow'
    BY <1>0, <1>14 DEF CreateLinkRow, Reaches, ReadsFollow, WillRead
  <2> QED
    BY <2>1, <2>2, <2>3 DEF ShareInv
<1>15. ASSUME NEW t \in ShareTask, ServeRead(t)
      PROVE  ShareInv'
  <2>1. ShareTypes'
    <3>1. /\ policies' \in Seq(Policy) /\ DOMAIN policies \subseteq DOMAIN policies'
          /\ readsServed' \in Nat /\ readsServed <= readsServed' /\ crossed' = crossed
      BY <1>0, <1>15 DEF ServeRead, ShareTypes
    <3>2. /\ TaskOK(task[t]) /\ DOMAIN task' = ShareTask
          /\ \A s \in ShareTask : s # t => task'[s] = task[s]
      BY <1>0, <1>15 DEF ServeRead, ShareTypes
    <3>3. TaskOK(task[t])'
      BY <1>0, <1>15, <3>1, <3>2 DEF ServeRead, Asks, Call, ShareTypes, TaskOK, Free, Unrevoked
    <3>4. \A s \in ShareTask : TaskOK(task[s])'
      BY <1>0, <3>1, <3>2, <3>3, TasksStay DEF ShareTypes
    <3>5. DialogOK'
      BY <1>0, <1>15, <3>1 DEF ServeRead, ShareTypes, DialogOK
    <3> QED
      BY <1>0, <3>1, <3>2, <3>4, <3>5 DEF ShareTypes
  <2>2. OneLink'
    BY <1>0, <1>15 DEF ServeRead, Asks, OneLink, Creating, Unrevoked, Free
  <2>3. ReadsFollow'
    BY <1>0, <1>15 DEF ServeRead, ReadsFollow, LastReadHolds, Unrevoked, ShareTypes, DialogOK,
         TaskOK, Free
  <2> QED
    BY <2>1, <2>2, <2>3 DEF ShareInv
<1>16. ASSUME NEW t \in ShareTask, Replied(t)
      PROVE  ShareInv'
  <2>1. ShareTypes'
    <3>1. /\ policies' \in Seq(Policy) /\ DOMAIN policies \subseteq DOMAIN policies'
          /\ readsServed' \in Nat /\ readsServed <= readsServed' /\ crossed' = crossed
      BY <1>0, <1>16 DEF Replied, ShareTypes
    <3>2. /\ TaskOK(task[t]) /\ DOMAIN task' = ShareTask
          /\ \A s \in ShareTask : s # t => task'[s] = task[s]
      BY <1>0, <1>16 DEF Replied, ShareTypes
    <3>3. TaskOK(task[t])'
      BY <1>0, <1>16, <3>1, <3>2, PlansShrink DEF Replied, TaskOK, Free
    <3>4. \A s \in ShareTask : TaskOK(task[s])'
      BY <1>0, <3>1, <3>2, <3>3, TasksStay DEF ShareTypes
    <3>5. DialogOK'
      <4>1. Call(t) \in ShareCall
        BY <1>16, <3>2 DEF Replied, TaskOK, Free, PlanOK, Call
      <4> QED
        BY <1>0, <1>16, <3>1, <4>1 DEF Replied, ShareTypes, DialogOK, ShareCall
    <3> QED
      BY <1>0, <3>1, <3>2, <3>4, <3>5 DEF ShareTypes
  <2>2. OneLink'
    <3>1. Unrevoked' = Unrevoked /\ crossed' = crossed
      BY <1>16 DEF Replied, Unrevoked
    <3>2. task'[t].stage = "asked" /\ task'[t].plan = Tail(task[t].plan) /\ \A s \in ShareTask : s # t => task'[s] = task[s]
      BY <1>0, <1>16 DEF Replied, ShareTypes
    <3>3. PlanOK(task[t].plan) /\ task[t] # Free /\ Head(task[t].plan).call # "read"
      BY <1>0, <1>16 DEF Replied, ShareTypes, TaskOK, Free
    <3>4. \A s \in ShareTask : Creating(s)' => Creating(s)
      BY <3>2, <3>3, PlansShrink DEF Creating
    <3> QED
      BY <1>0, <3>1, <3>2, <3>4 DEF OneLink
  <2>3. ReadsFollow'
    BY <1>0, <1>16 DEF Replied, ReadsFollow, WillRead
  <2> QED
    BY <2>1, <2>2, <2>3 DEF ShareInv
<1>17. ASSUME NEW t \in ShareTask, Refreshed(t)
      PROVE  ShareInv'
  <2>1. ShareTypes'
    <3>1. /\ policies' \in Seq(Policy) /\ DOMAIN policies \subseteq DOMAIN policies'
          /\ readsServed' \in Nat /\ readsServed <= readsServed' /\ crossed' = crossed
      BY <1>0, <1>17 DEF Refreshed, ShareTypes
    <3>2. /\ TaskOK(task[t]) /\ DOMAIN task' = ShareTask
          /\ \A s \in ShareTask : s # t => task'[s] = task[s]
      BY <1>0, <1>17 DEF Refreshed, ShareTypes
    <3>3. TaskOK(task[t])'
      BY <1>0, <1>17, <3>1, <3>2 DEF Refreshed, TaskOK
    <3>4. \A s \in ShareTask : TaskOK(task[s])'
      BY <1>0, <3>1, <3>2, <3>3, TasksStay DEF ShareTypes
    <3>5. DialogOK'
      <4>1. task[t].links \subseteq DOMAIN policies /\ task[t].stamp \in 1..readsServed
        BY <1>17, <3>2 DEF Refreshed, TaskOK, Free
      <4>2. Newest(Unexpired(task[t].links)) \in {0} \cup DOMAIN policies
        BY <1>0, <4>1, NewestIsThere DEF Unexpired, ShareTypes
      <4>3. \A link \in DOMAIN policies : policies[link] \in Policy
        BY <1>0 DEF ShareTypes
      <4>4. \A link \in DOMAIN policies : policies[link].right \in Right
        BY <4>3 DEF Policy
      <4> QED
        BY <1>0, <1>17, <3>1, <4>1, <4>2, <4>4 DEF Refreshed, ShareTypes, DialogOK
    <3> QED
      BY <1>0, <3>1, <3>2, <3>4, <3>5 DEF ShareTypes
  <2>2. OneLink'
    BY <1>0, <1>17 DEF Refreshed, OneLink, Creating, Unrevoked, Free
  <2>3. ReadsFollow'
    <3> DEFINE link == Newest(Unexpired(task[t].links))
    <3>1. task[t].stage = "read" /\ UNCHANGED <<granted, policies, readsServed, crossed>>
      BY <1>17 DEF Refreshed
    <3>2. /\ dialog'.rows = [people |-> task[t].people, link |-> link, stamp |-> task[t].stamp]
          /\ dialog'.open = dialog.open /\ dialog'.error = dialog.error
      BY <1>0, <1>17 DEF Refreshed
    <3>3. task'[t] = Free /\ \A s \in ShareTask : s # t => task'[s] = task[s]
      BY <1>0, <1>17 DEF Refreshed, ShareTypes
    <3>4. Unrevoked' = Unrevoked /\ Unexpired(Unrevoked)' = Unexpired(Unrevoked)
      BY <3>1 DEF Unrevoked, Unexpired
    <3>5. WillRead => WillRead'
      BY <3>1, <3>3 DEF WillRead
    <3>6. ASSUME task[t].links = Unrevoked
          PROVE  ShowsTheLink'
      <4>1. crossed \/ Unexpired(Unrevoked) \subseteq {Newest(Unexpired(Unrevoked))}
        <5> DEFINE live == Unexpired(Unrevoked)
        <5>1. (\A i \in live : i \in DOMAIN policies) /\ (~ crossed => \A i, j \in live : i = j)
          BY <1>0 DEF OneLink, Unexpired, Unrevoked
        <5>2. policies \in Seq(Policy)
          BY <1>0 DEF ShareTypes
        <5> HIDE DEF live
        <5>3. ~ crossed => live \subseteq {Newest(live)}
          BY <5>1, <5>2, OnlyIsNewest
        <5> QED
          BY <5>3 DEF live
      <4> QED
        BY <3>1, <3>2, <3>4, <3>6, <4>1 DEF ShowsTheLink
    <3>7. LastReadHolds => LastReadHolds'
      BY <3>1, <3>2, <3>3, <3>4, <3>6 DEF LastReadHolds, Free
    <3> QED
      BY <1>0, <3>2, <3>5, <3>7 DEF ReadsFollow
  <2> QED
    BY <2>1, <2>2, <2>3 DEF ShareInv
<1>18. ASSUME NEW t \in ShareTask, CallFails(t)
      PROVE  ShareInv'
  <2>1. ShareTypes'
    BY <1>0, <1>18 DEF CallFails, ShareTypes, DialogOK, TaskOK
  <2>2. OneLink'
    BY <1>0, <1>18 DEF CallFails, OneLink, Creating, Unrevoked, Free
  <2>3. ReadsFollow'
    BY <1>0, <1>18 DEF CallFails, ReadsFollow
  <2> QED
    BY <2>1, <2>2, <2>3 DEF ShareInv
<1>19. CASE UNCHANGED sharingDialog
  <2>1. ShareTypes'
    BY <1>0, <1>19 DEF sharingDialog, ShareTypes, DialogOK, TaskOK
  <2>2. OneLink'
    BY <1>0, <1>19 DEF sharingDialog, OneLink, Creating, Unrevoked
  <2>3. ReadsFollow'
    BY <1>0, <1>19 DEF sharingDialog, ReadsFollow, WillRead, LastReadHolds, ShowsTheLink,
         Unrevoked, Unexpired
  <2> QED
    BY <2>1, <2>2, <2>3 DEF ShareInv
<1> QED
  BY <1>1, <1>2, <1>3, <1>4, <1>5, <1>6, <1>7, <1>8, <1>9, <1>10, <1>11, <1>12, <1>13, <1>14,
       <1>15, <1>16, <1>17, <1>18, <1>19 DEF ShareNext

LEMMA ShareBegins == ShareInit => ShareInv
<1> SUFFICES ASSUME ShareInit PROVE ShareInv
  OBVIOUS
<1>1. policies = <<>> /\ readsServed = 0 /\ crossed = FALSE /\ task = [t \in ShareTask |-> Free]
  BY DEF ShareInit
<1>2. dialog.rows = NoRows /\ ~ dialog.open /\ DialogOK
  BY <1>1 DEF ShareInit, DialogOK, NoRows, Right
<1>3. ShareTypes
  <2>1. policies \in Seq(Policy) /\ readsServed \in Nat /\ crossed \in BOOLEAN
    BY <1>1, EmptySeq
  <2>2. DOMAIN task = ShareTask /\ \A t \in ShareTask : task[t] = Free
    BY <1>1
  <2> QED
    BY <1>2, <2>1, <2>2 DEF ShareTypes, TaskOK
<1>4. OneLink
  BY <1>1 DEF OneLink, Creating, Unrevoked
<1> QED
  BY <1>2, <1>3, <1>4 DEF ShareInv, ReadsFollow

LEMMA ShareInvSuffices == ShareInv => QuietDialogShowsTheAccess
  BY DEF ShareInv, ReadsFollow, WillRead, LastReadHolds, ShowsTheLink, QuietDialogShowsTheAccess,
       Free

(***************************************************************************)
(* For every set of accounts, any number of handlers under way and any     *)
(* number of failures, the dialog that is quiet shows who has access.      *)
(***************************************************************************)
THEOREM AccessIsShown == ShareInit /\ [][ShareNext]_sharingDialog => []QuietDialogShowsTheAccess
<1>1. ShareInit => ShareInv
  BY ShareBegins
<1>2. ShareInv /\ [ShareNext]_sharingDialog => ShareInv'
  BY ShareStep
<1>3. ShareInv => QuietDialogShowsTheAccess
  BY ShareInvSuffices
<1> QED
  BY <1>1, <1>2, <1>3, PTL

-----------------------------------------------------------------------------
(***************************************************************************)
(* The administration page. The table: as long as no answers have          *)
(* crossed and none will, a user's rows are the server's, except while a   *)
(* call that was served is still to be answered, or the list that          *)
(* follows a reset.                                                        *)
(***************************************************************************)
ARow == {<<>>} \cup {<<r>> : r \in Row}
UserKind == {"none", "list", "patch", "create", "reset"}

CallFits(k) ==
  /\ DOMAIN k = {"kind", "who", "row", "stamp", "rows"}
  /\ k.kind \in UserKind /\ k.who \in Account \cup {Unset} /\ k.stamp \in 0..turns.served
  /\ k.kind = "none" => k = NoUserCall
  /\ k.kind \in {"patch", "create", "reset"} => k.who \in Account
  /\ k.kind = "patch" => k.row \in Row \X Row
  /\ k.stamp > 0 => /\ k.rows \in [Account -> ARow]
                    /\ \A a \in Account : k.rows[a] # <<>> => users[a] # <<>>
                    /\ k.kind \in {"patch", "create"} => k.rows[k.who] # <<>>

AdminTypes ==
  /\ users \in [Account -> ARow] /\ table \in [Account -> Seq(Row)]
  /\ \A a \in Account : table[a] # <<>> => users[a] # <<>>
  /\ DOMAIN turns = {"served", "seen"} /\ turns.served \in Nat /\ turns.seen \in 0..turns.served
  /\ DOMAIN userCall = UserCall /\ \A c \in UserCall : CallFits(userCall[c])
  /\ DOMAIN doings = {"clicks", "lost", "crossed", "early"}
  /\ doings.lost \in Nat /\ doings.crossed \in BOOLEAN /\ doings.early \in BOOLEAN

\* Every call is served at its own time, and answered once.
Stamp(c) == userCall[c].stamp
StampsDiffer ==
  /\ \A c \in UserCall : Stamp(c) > 0 => Stamp(c) # turns.seen
  /\ \A c, d \in UserCall : Stamp(c) > 0 /\ Stamp(c) = Stamp(d) => c = d

\* An answer is overdue when a later one has arrived: the answers cross.
Overdue == \E c \in UserCall : 0 < Stamp(c) /\ Stamp(c) < turns.seen

\* A call that was served after n and changes a user, and the list after a reset.
Touched(a, n) ==
  \E c \in UserCall : Stamp(c) > n /\ userCall[c].kind \in {"patch", "create", "reset"} /\ userCall[c].who = a
Owed(a) == \E c \in UserCall : userCall[c].kind = "list" /\ userCall[c].who = a

OneRow == \A a \in Account : table[a] \in ARow
TableIsServed ==
  \A a \in Account : table[a] # <<>> /\ ~ Touched(a, turns.seen) /\ ~ Owed(a) => table[a] = users[a]
AnswersAreServed ==
  \A c \in UserCall, a \in Account : Stamp(c) > 0 /\ ~ Touched(a, Stamp(c)) => userCall[c].rows[a] = users[a]
CreatedOnce ==
  \A c \in UserCall : Stamp(c) > 0 /\ userCall[c].kind = "create" =>
    /\ table[userCall[c].who] = <<>>
    /\ \A d \in UserCall : 0 < Stamp(d) /\ Stamp(d) < Stamp(c) => userCall[d].rows[userCall[c].who] = <<>>

TableFits == ~ doings.crossed /\ ~ Overdue => OneRow /\ TableIsServed /\ AnswersAreServed /\ CreatedOnce

\* The switches: what the page shows of one that no call is about is stored.
SwitchesFit ==
  /\ DOMAIN flags = {"stored", "shown", "known", "call"} /\ flags.known \in BOOLEAN
  /\ DOMAIN flags.stored = Switch /\ DOMAIN flags.shown = Switch
  /\ flags.stored = [s \in Switch |-> flags.stored[s]]
  /\ flags.shown = [s \in Switch |-> flags.shown[s]]
  /\ DOMAIN flags.call = {"of", "to", "stage", "answer"}
  /\ flags.call.stage \in {"none", "sent", "served"}
  /\ flags.call.stage = "served" => flags.call.answer = flags.stored
  /\ ~ doings.crossed =>
       /\ ~ flags.known /\ flags.call.stage # "none" => flags.call.of = Unset
       /\ flags.known => \A s \in Switch : flags.shown[s] = flags.stored[s]
                           \/ (flags.call.stage = "served" /\ flags.call.of \in {Unset, s})

\* The form: the timer runs when there is something to save.  A value that is
\* not stored is the administrator's, who has not changed it since.
Maybe == Limit \cup {Unset}
FormFits ==
  /\ DOMAIN limit = {"stored", "shown", "saved", "armed", "wish", "call"}
  /\ limit.stored \in Limit /\ limit.shown \in Limit /\ limit.saved \in Maybe
  /\ limit.wish \in Maybe
  /\ DOMAIN limit.call = {"kind", "value", "stage"}
  /\ limit.call.stage \in {"none", "sent", "served"}
  /\ limit.armed = IF limit.saved # Unset /\ limit.shown # limit.saved /\ limit.call.stage = "none"
                   THEN limit.shown ELSE Unset
  /\ limit.call.stage # "none" => (limit.call.kind = "save" <=> limit.saved # Unset)
  /\ limit.call.kind = "save" /\ limit.call.stage = "sent" => limit.call.value \in Limit
  /\ limit.call.stage = "served" => limit.call.value = limit.stored
  /\ limit.saved # Unset /\ limit.shown # limit.saved => limit.wish = limit.shown
  /\ limit.saved # Unset /\ limit.call.stage # "none" => limit.wish = limit.shown
  /\ limit.saved # Unset /\ limit.call.stage # "served" /\ limit.saved # limit.stored =>
       doings.lost > 0 /\ limit.wish = limit.shown
  /\ limit.wish # Unset /\ ~ doings.early =>
       /\ limit.saved # Unset /\ limit.shown = limit.wish
       /\ limit.call.stage # "none" => limit.call.value = limit.wish

AdminInv == AdminTypes /\ StampsDiffer /\ TableFits /\ SwitchesFit /\ FormFits

LEMMA CallsStay ==
  ASSUME AdminTypes, DOMAIN turns' = {"served", "seen"}, turns'.served \in Nat, turns.served <= turns'.served,
         \A a \in Account : users[a] # <<>> => users'[a] # <<>>
  PROVE  \A x : CallFits(x) => CallFits(x)'
  BY DEF AdminTypes, CallFits

\* A call that is sent is not yet one about which the table may be wrong.
LEMMA SendKeeps ==
  ASSUME AdminTypes, TableFits, NEW c \in UserCall, NEW k, Sends(c, k), CallFits(k), k.stamp = 0,
         UNCHANGED <<users, table, turns>>, Acts
  PROVE  AdminTypes' /\ TableFits'
<1>1. /\ userCall[c] = NoUserCall /\ userCall'[c] = k /\ DOMAIN userCall' = UserCall
      /\ \A d \in UserCall : d # c => userCall'[d] = userCall[d]
  BY DEF Sends, AdminTypes
<1>2. /\ doings'.crossed = doings.crossed /\ doings'.lost = doings.lost
      /\ doings'.early = doings.early
      /\ DOMAIN doings' = DOMAIN doings
  BY DEF Acts, AdminTypes
<1>3. AdminTypes'
  <2>1. \A x : CallFits(x) => CallFits(x)'
    BY CallsStay DEF AdminTypes
  <2>2. \A d \in UserCall : CallFits(userCall[d])'
    <3>1. \A d \in UserCall : CallFits(userCall'[d])
      BY <1>1 DEF AdminTypes
    <3> QED
      BY <3>1 DEF CallFits
  <2> QED
    BY <1>1, <1>2, <2>2 DEF AdminTypes
<1>4. TableFits'
  <2>1. /\ \A d \in UserCall : Stamp(d)' = Stamp(d)
        /\ \A d \in UserCall : Stamp(d) > 0 => userCall'[d] = userCall[d]
    BY <1>1 DEF Stamp, NoUserCall
  <2>2. \A d \in UserCall, a \in Account : userCall[d].who = a => userCall'[d] = userCall[d]
    BY <1>1, AdminConstants DEF NoUserCall
  <2>3. Overdue' = Overdue
    BY <2>1 DEF Overdue
  <2>4. TableIsServed => TableIsServed'
    BY <2>1, <2>2 DEF TableIsServed, Touched, Owed
  <2>5. AnswersAreServed => AnswersAreServed'
    BY <2>1, <2>2 DEF AnswersAreServed, Touched
  <2>6. CreatedOnce => CreatedOnce'
    BY <2>1 DEF CreatedOnce
  <2> QED
    BY <1>2, <2>3, <2>4, <2>5, <2>6 DEF TableFits, OneRow
<1> QED
  BY <1>3, <1>4

\* What a call makes of the users.
LEMMA UsersChange ==
  ASSUME AdminTypes, NEW c \in UserCall, ServeUsers(c)
  PROVE  /\ users' \in [Account -> ARow]
         /\ \A a \in Account : users[a] # <<>> => users'[a] # <<>>
         /\ \A a \in Account :
              ~ (userCall[c].kind \in {"patch", "create", "reset"} /\ userCall[c].who = a) => users'[a] = users[a]
         /\ userCall[c].kind \in {"patch", "create"} => users'[userCall[c].who] # <<>>
         /\ userCall[c].kind = "create" => users[userCall[c].who] = <<>>
<1> DEFINE k == userCall[c]
           w == k.who
<1>1. k.kind # "none" /\ k.stamp = 0 /\ Permits(k) /\ users' = UsersAfter(k)
  BY DEF ServeUsers
<1>2. /\ k.kind \in UserKind /\ (k.kind \in {"patch", "create", "reset"} => w \in Account)
      /\ users \in [Account -> ARow]
      /\ (k.kind = "patch" => k.row \in Row \X Row)
  BY DEF AdminTypes, CallFits
<1> HIDE DEF k
<1>3. CASE k.kind = "list"
  BY <1>1, <1>2, <1>3 DEF UsersAfter, k
<1>4. CASE k.kind = "create"
  <2>1. /\ users' = [users EXCEPT ![w] = <<NewRow>>] /\ users[w] = <<>> /\ <<NewRow>> \in ARow
        /\ <<NewRow>> # <<>>
    BY <1>1, <1>4 DEF UsersAfter, Permits, ARow, Row, NewRow
  <2> QED
    BY <1>2, <1>4, <2>1 DEF k
<1>5. CASE k.kind = "patch"
  <2>1. PICK r \in Row : users[w] = <<r>>
    BY <1>1, <1>2, <1>5 DEF Permits, ARow
  <2>2. Patched(r, k.row[1], k.row[2]) \in Row
    BY <1>2, <1>5, <2>1 DEF Patched, Row
  <2>3. users' = [users EXCEPT ![w] = <<Patched(r, k.row[1], k.row[2])>>]
    BY <1>1, <1>2, <1>5, <2>1 DEF UsersAfter
  <2> QED
    BY <1>2, <1>5, <2>2, <2>3 DEF ARow, k
<1>6. CASE k.kind = "reset"
  <2>1. PICK r \in Row : users[w] = <<r>>
    BY <1>1, <1>2, <1>6 DEF Permits, ARow
  <2>2. [r EXCEPT !.reset = TRUE] \in Row
    BY <2>1 DEF Row
  <2>3. users' = [users EXCEPT ![w] = <<[r EXCEPT !.reset = TRUE]>>]
    BY <1>1, <1>2, <1>6, <2>1 DEF UsersAfter
  <2> QED
    BY <1>2, <1>6, <2>2, <2>3 DEF ARow, k
<1> QED
  BY <1>1, <1>2, <1>3, <1>4, <1>5, <1>6 DEF UserKind

LEMMA ServeKeeps ==
  ASSUME AdminTypes, StampsDiffer, TableFits, NEW c \in UserCall, ServeUsers(c)
  PROVE  AdminTypes' /\ TableFits'
<1> DEFINE k == userCall[c]
<1>1. /\ DOMAIN userCall' = UserCall /\ \A d \in UserCall : d # c => userCall'[d] = userCall[d]
      /\ userCall'[c] = [k EXCEPT !.stamp = turns.served + 1, !.rows = users']
      /\ k.stamp = 0 /\ k.kind # "none" /\ CallFits(k)
  BY DEF ServeUsers, AdminTypes
<1>2. turns.served \in Nat /\ turns.seen \in 0..turns.served
      /\ turns' = [turns EXCEPT !.served = turns.served + 1] /\ DOMAIN turns = {"served", "seen"}
  BY DEF ServeUsers, AdminTypes
<1>3. /\ DOMAIN turns' = {"served", "seen"} /\ turns'.served = turns.served + 1
      /\ turns'.seen = turns.seen
  BY <1>2
<1>4. /\ users' \in [Account -> ARow]
      /\ \A a \in Account : users[a] # <<>> => users'[a] # <<>>
      /\ \A a \in Account : ~ (k.kind \in {"patch", "create", "reset"} /\ k.who = a) => users'[a] = users[a]
      /\ k.kind \in {"patch", "create"} => users'[k.who] # <<>>
      /\ k.kind = "create" => users[k.who] = <<>>
  BY UsersChange
<1>5. /\ userCall'[c].kind = k.kind /\ userCall'[c].who = k.who /\ userCall'[c].row = k.row
      /\ userCall'[c].stamp = turns.served + 1 /\ userCall'[c].rows = users'
      /\ DOMAIN userCall'[c] = {"kind", "who", "row", "stamp", "rows"}
  BY <1>1 DEF CallFits
<1>6. UNCHANGED <<table, doings>>
  BY DEF ServeUsers
<1> HIDE DEF k
<1>7. AdminTypes'
  <2>1. \A x : CallFits(x) => CallFits(x)'
    BY <1>2, <1>3, <1>4, CallsStay
  <2>2. CallFits(userCall[c])'
    BY <1>1, <1>2, <1>3, <1>4, <1>5 DEF CallFits, k
  <2>3. \A d \in UserCall : CallFits(userCall[d])'
    <3>1. \A d \in UserCall : d # c => CallFits(userCall[d])'
      BY <1>1, <2>1 DEF AdminTypes
    <3> QED
      BY <2>2, <3>1
  <2> QED
    BY <1>1, <1>2, <1>3, <1>4, <1>6, <2>3 DEF AdminTypes
<1>8. TableFits'
  <2>1. \A d \in UserCall : d # c => Stamp(d)' = Stamp(d) /\ Stamp(d) <= turns.served /\ Stamp(d) \in Nat
    BY <1>1, <1>2 DEF Stamp, AdminTypes, CallFits
  <2>2. Stamp(c)' = turns.served + 1 /\ Stamp(c) = 0
    BY <1>1, <1>5 DEF Stamp, k
  <2>3. Overdue => Overdue'
    BY <1>2, <1>3, <2>1, <2>2 DEF Overdue
  <2>4. \A d \in UserCall : userCall'[d].kind = userCall[d].kind /\ userCall'[d].who = userCall[d].who
    BY <1>1, <1>5 DEF k
  <2>5. TableIsServed => TableIsServed'
    <3> SUFFICES ASSUME TableIsServed, NEW a \in Account, table[a] # <<>>, ~ Touched(a, turns.seen)', ~ Owed(a)'
                 PROVE  table[a] = users'[a]
      BY <1>6 DEF TableIsServed
    <3>1. ~ Touched(a, turns.seen) /\ ~ Owed(a)
      BY <1>2, <1>3, <2>1, <2>2, <2>4 DEF Touched, Owed
    <3>2. ~ (k.kind \in {"patch", "create", "reset"} /\ k.who = a)
      BY <1>2, <1>3, <1>5, <2>2 DEF Touched
    <3> QED
      BY <1>4, <3>1, <3>2 DEF TableIsServed
  <2>6. AnswersAreServed => AnswersAreServed'
    <3> SUFFICES ASSUME AnswersAreServed, NEW d \in UserCall, NEW a \in Account, Stamp(d)' > 0, ~ Touched(a, Stamp(d))'
                 PROVE  userCall'[d].rows[a] = users'[a]
      BY DEF AnswersAreServed
    <3>1. CASE d = c
      BY <1>5, <3>1
    <3>2. CASE d # c
      <4>1. ~ Touched(a, Stamp(d))
        BY <2>1, <2>2, <2>4, <3>2 DEF Touched
      <4>2. ~ (k.kind \in {"patch", "create", "reset"} /\ k.who = a)
        BY <1>2, <1>5, <2>1, <2>2, <3>2 DEF Touched
      <4> QED
        BY <1>1, <1>4, <2>1, <3>2, <4>1, <4>2 DEF AnswersAreServed
    <3> QED
      BY <3>1, <3>2
  <2>7. CreatedOnce => CreatedOnce'
    <3> SUFFICES ASSUME CreatedOnce, NEW e \in UserCall, Stamp(e)' > 0, userCall'[e].kind = "create"
                 PROVE  /\ table[userCall'[e].who] = <<>>
                        /\ \A d \in UserCall : 0 < Stamp(d)' /\ Stamp(d)' < Stamp(e)' =>
                             userCall'[d].rows[userCall'[e].who] = <<>>
      BY <1>6 DEF CreatedOnce
    <3>1. CASE e # c
      BY <1>1, <1>2, <2>1, <2>2, <2>4, <3>1 DEF CreatedOnce
    <3>2. CASE e = c
      <4>1. /\ k.kind = "create" /\ users[k.who] = <<>> /\ k.who \in Account
            /\ userCall'[e].who = k.who
        BY <1>1, <1>4, <1>5, <3>2 DEF CallFits, AdminTypes
      <4>2. table[k.who] = <<>>
        BY <4>1 DEF AdminTypes
      <4>3. \A d \in UserCall : d # c /\ Stamp(d) > 0 => userCall[d].rows[k.who] = <<>>
        BY <4>1 DEF AdminTypes, CallFits, Stamp
      <4> QED
        BY <1>1, <1>2, <2>1, <2>2, <3>2, <4>1, <4>2, <4>3
    <3> QED
      BY <3>1, <3>2
  <2> QED
    BY <1>6, <2>3, <2>5, <2>6, <2>7 DEF TableFits, OneRow
<1> QED
  BY <1>7, <1>8

\* An answer that comes in its turn shows what the server made of the call.
LEMMA AnswerKeeps ==
  ASSUME AdminTypes, StampsDiffer, TableFits, NEW c \in UserCall, UsersAnswered(c)
  PROVE  AdminTypes' /\ TableFits'
<1> DEFINE k == userCall[c]
           w == k.who
<1>1. /\ DOMAIN userCall' = UserCall /\ \A d \in UserCall : d # c => userCall'[d] = userCall[d]
      /\ userCall'[c] = IF k.kind = "reset" THEN [NoUserCall EXCEPT !.kind = "list", !.who = w] ELSE NoUserCall
      /\ k.stamp > 0 /\ CallFits(k) /\ table' = Show(k) /\ users' = users
  BY DEF UsersAnswered, AdminTypes
<1>2. turns.served \in Nat /\ turns.seen \in 0..turns.served /\ DOMAIN turns = {"served", "seen"}
  BY DEF AdminTypes
<1>3. /\ DOMAIN turns' = {"served", "seen"} /\ turns'.served = turns.served
      /\ turns'.seen = IF k.stamp > turns.seen THEN k.stamp ELSE turns.seen
  BY <1>2 DEF UsersAnswered
<1>4. /\ doings'.crossed \in BOOLEAN /\ DOMAIN doings' = DOMAIN doings
      /\ ~ doings'.crossed => ~ doings.crossed /\ ~ (k.stamp < turns.seen)
      /\ doings'.lost = doings.lost /\ doings'.early = doings.early
  BY DEF UsersAnswered, AdminTypes
<1>5. /\ k.kind \in UserKind \ {"none"} /\ k.stamp \in Nat /\ k.stamp <= turns.served
      /\ k.rows \in [Account -> ARow] /\ \A a \in Account : k.rows[a] # <<>> => users[a] # <<>>
      /\ k.kind \in {"patch", "create", "reset"} => w \in Account
      /\ k.kind \in {"patch", "create"} => k.rows[w] # <<>>
  BY <1>1, <1>2 DEF CallFits, NoUserCall
<1> HIDE DEF k
<1>6. k.kind \in {"patch", "create"} => \E r \in Row : k.rows[w] = <<r>>
  BY <1>5 DEF ARow
<1>7. table \in [Account -> Seq(Row)] /\ \A a \in Account : table[a] # <<>> => users[a] # <<>>
  BY DEF AdminTypes
\* The rows of the table after the answer.
<1>8. /\ k.kind = "list" => table' = k.rows
      /\ k.kind = "patch" => table' = [table EXCEPT ![w] = [i \in DOMAIN table[w] |-> k.rows[w][1]]]
      /\ k.kind = "create" => table' = [table EXCEPT ![w] = table[w] \o k.rows[w]]
      /\ k.kind = "reset" => table' = table
  BY <1>1 DEF Show
<1>9. table' \in [Account -> Seq(Row)] /\ \A a \in Account : table'[a] # <<>> => users[a] # <<>>
  <2>1. CASE k.kind = "list"
    <3>1. \A r \in ARow : r \in Seq(Row)
      <4>1. <<>> \in Seq(Row) /\ \A q \in Row : <<q>> \in Seq(Row)
        OBVIOUS
      <4> QED
        BY <4>1 DEF ARow
    <3> QED
      BY <1>5, <1>8, <2>1, <3>1
  <2>2. CASE k.kind = "patch"
    <3>1. PICK r \in Row : k.rows[w] = <<r>>
      BY <1>6, <2>2
    <3> DEFINE new == [i \in DOMAIN table[w] |-> r]
    <3>2. new \in Seq(Row)
      <4>1. Len(table[w]) \in Nat /\ DOMAIN table[w] = 1..Len(table[w])
        BY <1>5, <1>7, <2>2
      <4>2. new \in [1..Len(table[w]) -> Row]
        BY <4>1
      <4> QED
        BY <4>1, <4>2
    <3>3. users[w] # <<>>
      BY <1>5, <2>2
    <3>4. table' = [table EXCEPT ![w] = new]
      <4>1. k.rows[w][1] = r
        BY <3>1
      <4> QED
        BY <1>8, <2>2, <4>1
    <3> HIDE DEF new
    <3> QED
      BY <1>7, <3>2, <3>3, <3>4
  <2>3. CASE k.kind = "create"
    <3>1. PICK r \in Row : k.rows[w] = <<r>>
      BY <1>6, <2>3
    <3> DEFINE new == table[w] \o <<r>>
    <3>2. new \in Seq(Row)
      BY <1>5, <1>7, <2>3
    <3>3. users[w] # <<>> /\ table' = [table EXCEPT ![w] = new]
      BY <1>5, <1>8, <2>3, <3>1
    <3> HIDE DEF new
    <3> QED
      BY <1>7, <3>2, <3>3
  <2>4. CASE k.kind = "reset"
    BY <1>7, <1>8, <2>4
  <2> QED
    BY <1>5, <2>1, <2>2, <2>3, <2>4 DEF UserKind
<1>10. AdminTypes'
  <2>1. \A x : CallFits(x) => CallFits(x)'
    BY <1>1, <1>2, <1>3, CallsStay
  <2>2. CallFits(userCall[c])'
    BY <1>1, <1>2, <1>3, <1>5 DEF CallFits, NoUserCall, UserKind
  <2>3. \A d \in UserCall : d # c => CallFits(userCall[d])'
    BY <1>1, <2>1 DEF AdminTypes
  <2>4. turns'.seen \in 0..turns'.served
    BY <1>2, <1>3, <1>5
  <2> QED
    BY <1>1, <1>2, <1>3, <1>4, <1>9, <2>2, <2>3, <2>4 DEF AdminTypes
<1>11. TableFits'
  <2> SUFFICES ASSUME ~ doings'.crossed, ~ Overdue' PROVE (OneRow /\ TableIsServed /\ AnswersAreServed /\ CreatedOnce)'
    BY DEF TableFits
  <2>1. \A d \in UserCall : Stamp(d) \in Nat
    BY DEF AdminTypes, CallFits, Stamp
  <2>2. Stamp(c) = k.stamp /\ Stamp(c)' = 0 /\ \A d \in UserCall : d # c => Stamp(d)' = Stamp(d)
    BY <1>1 DEF Stamp, NoUserCall, k
  <2>3. ~ doings.crossed /\ k.stamp > turns.seen /\ turns'.seen = k.stamp
    BY <1>1, <1>2, <1>3, <1>4, <1>5, <2>2 DEF StampsDiffer
  <2>4. \A d \in UserCall : d # c => Stamp(d) = 0 \/ Stamp(d) > k.stamp
    BY <2>1, <2>2, <2>3, <1>5 DEF Overdue, StampsDiffer
  <2>5. ~ Overdue
    BY <1>2, <1>5, <2>1, <2>2, <2>3, <2>4 DEF Overdue
  <2>6. OneRow /\ TableIsServed /\ AnswersAreServed /\ CreatedOnce
    BY <2>3, <2>5 DEF TableFits
  <2>7. k.kind = "create" => table[w] = <<>>
    BY <1>1, <2>2, <2>6 DEF CreatedOnce, k
  \* A user that is not touched after the answer was not touched before, except by the call.
  <2>8. \A a \in Account, n \in Nat : Touched(a, n) /\ n >= k.stamp => \E d \in UserCall : d # c /\ Stamp(d) > n
          /\ userCall[d].kind \in {"patch", "create", "reset"} /\ userCall[d].who = a
    BY <1>5, <2>1, <2>2 DEF Touched
  <2>9. \A a \in Account : ~ Touched(a, turns.seen)' => ~ Touched(a, k.stamp)
    BY <1>1, <1>5, <2>1, <2>2, <2>3 DEF Touched
  <2>10. \A a \in Account : ~ Touched(a, k.stamp) => k.rows[a] = users[a]
    BY <1>1, <2>2, <2>6 DEF AnswersAreServed, k
  <2>11. \A a \in Account : Touched(a, turns.seen) /\ ~ Touched(a, turns.seen)' =>
            k.kind \in {"patch", "create", "reset"} /\ w = a
    BY <1>1, <1>2, <1>5, <2>1, <2>2, <2>3, <2>4 DEF Touched, k
  <2>12. \A a \in Account : Owed(a) /\ ~ Owed(a)' => k.kind = "list"
    BY <1>1 DEF Owed, k
  <2>13. OneRow'
    <3>1. CASE k.kind = "list"
      BY <1>5, <1>8, <3>1 DEF OneRow
    <3>2. CASE k.kind = "patch"
      <4>1. PICK r \in Row : k.rows[w] = <<r>>
        BY <1>6, <3>2
      <4> DEFINE new == [i \in DOMAIN table[w] |-> r]
      <4>2. new \in ARow
        <5>1. CASE table[w] = <<>>
          BY <5>1 DEF ARow
        <5>2. CASE table[w] # <<>>
          <6>1. PICK q \in Row : table[w] = <<q>>
            BY <1>5, <2>6, <3>2, <5>2 DEF OneRow, ARow
          <6> QED
            BY <6>1 DEF ARow
        <5> QED
          BY <5>1, <5>2
      <4>3. table' = [table EXCEPT ![w] = new]
        BY <1>8, <3>2, <4>1
      <4> HIDE DEF new
      <4> QED
        BY <1>7, <2>6, <4>2, <4>3 DEF OneRow
    <3>3. CASE k.kind = "create"
      <4>1. PICK r \in Row : k.rows[w] = <<r>>
        BY <1>6, <3>3
      <4>2. table[w] \o <<r>> = <<r>>
        <5>1. <<r>> \in Seq(Row)
          OBVIOUS
        <5>2. <<>> \o <<r>> = <<r>>
          BY <5>1, ConcatEmptySeq
        <5> QED
          BY <2>7, <3>3, <5>2
      <4> QED
        BY <1>5, <1>7, <1>8, <2>6, <3>3, <4>1, <4>2 DEF OneRow, ARow
    <3>4. CASE k.kind = "reset"
      BY <1>8, <2>6, <3>4 DEF OneRow
    <3> QED
      BY <1>5, <3>1, <3>2, <3>3, <3>4 DEF UserKind
  <2>14. TableIsServed'
    <3> SUFFICES ASSUME NEW a \in Account, table'[a] # <<>>, ~ Touched(a, turns.seen)', ~ Owed(a)'
                 PROVE  table'[a] = users[a]
      BY <1>1 DEF TableIsServed
    <3>1. k.rows[a] = users[a]
      BY <2>9, <2>10
    <3>2. CASE k.kind = "list"
      BY <1>8, <3>1, <3>2
    <3>3. CASE k.kind # "list" /\ (k.kind \in {"patch", "create", "reset"} => w # a)
      <4>1. table'[a] = table[a]
        BY <1>5, <1>7, <1>8, <3>3 DEF UserKind
      <4> QED
        BY <2>6, <2>11, <2>12, <3>3, <4>1 DEF TableIsServed
    <3>4. CASE k.kind = "patch" /\ w = a
      <4>1. table'[a] = [i \in DOMAIN table[a] |-> k.rows[a][1]]
        BY <1>7, <1>8, <3>4
      <4>2. PICK r \in Row : k.rows[a] = <<r>>
        BY <1>6, <3>4
      <4>3. table[a] # <<>>
        BY <4>1
      <4>4. PICK q \in Row : table[a] = <<q>>
        BY <2>6, <4>3 DEF OneRow, ARow
      <4> QED
        BY <3>1, <4>1, <4>2, <4>4
    <3>5. CASE k.kind = "create" /\ w = a
      <4>1. table'[a] = <<>> \o k.rows[a]
        BY <1>7, <1>8, <2>7, <3>5
      <4>2. PICK r \in Row : k.rows[a] = <<r>>
        BY <1>6, <3>5
      <4> QED
        BY <3>1, <4>1, <4>2
    <3>6. CASE k.kind = "reset" /\ w = a
      <4>1. Owed(a)'
        BY <1>1, <3>6 DEF Owed, NoUserCall
      <4> QED
        BY <4>1
    <3> QED
      BY <1>5, <3>2, <3>3, <3>4, <3>5, <3>6 DEF UserKind
  <2>15. AnswersAreServed'
    <3> SUFFICES ASSUME NEW d \in UserCall, NEW a \in Account, Stamp(d)' > 0, ~ Touched(a, Stamp(d))'
                 PROVE  userCall'[d].rows[a] = users[a]
      BY <1>1 DEF AnswersAreServed
    <3>1. d # c /\ Stamp(d)' = Stamp(d) /\ userCall'[d] = userCall[d] /\ Stamp(d) > k.stamp
      BY <1>1, <2>1, <2>2, <2>4
    <3>2. ~ Touched(a, Stamp(d))
      BY <1>1, <1>5, <2>1, <2>2, <3>1 DEF Touched
    <3> QED
      BY <2>1, <2>6, <3>1, <3>2, <1>5 DEF AnswersAreServed
  <2>16. CreatedOnce'
    <3> SUFFICES ASSUME NEW e \in UserCall, Stamp(e)' > 0, userCall'[e].kind = "create"
                 PROVE  /\ table'[userCall'[e].who] = <<>>
                        /\ \A d \in UserCall : 0 < Stamp(d)' /\ Stamp(d)' < Stamp(e)' =>
                             userCall'[d].rows[userCall'[e].who] = <<>>
      BY DEF CreatedOnce
    <3> DEFINE u == userCall[e].who
    <3>1. /\ e # c /\ userCall'[e] = userCall[e] /\ Stamp(e)' = Stamp(e) /\ Stamp(e) > k.stamp
          /\ u \in Account
      BY <1>1, <2>1, <2>2, <2>4 DEF AdminTypes, CallFits
    <3>2. table[u] = <<>> /\ k.rows[u] = <<>>
      BY <1>1, <1>5, <2>1, <2>2, <2>6, <3>1 DEF CreatedOnce, k
    <3>3. table'[u] = <<>>
      <4>1. CASE k.kind = "list"
        BY <1>8, <3>2, <4>1
      <4>2. CASE k.kind = "patch" \/ k.kind = "create"
        <5>1. u # w
          BY <1>5, <3>2, <4>2
        <5> QED
          BY <1>7, <1>8, <3>1, <3>2, <4>2, <5>1
      <4>3. CASE k.kind = "reset"
        BY <1>8, <3>2, <4>3
      <4> QED
        BY <1>5, <4>1, <4>2, <4>3 DEF UserKind
    <3>4. ASSUME NEW d \in UserCall, 0 < Stamp(d)', Stamp(d)' < Stamp(e)'
          PROVE  userCall'[d].rows[u] = <<>>
      BY <1>1, <2>1, <2>2, <2>6, <3>1, <3>4 DEF CreatedOnce
    <3> QED
      BY <3>1, <3>3, <3>4
  <2> QED
    BY <2>13, <2>14, <2>15, <2>16
<1> QED
  BY <1>10, <1>11

\* A call that fails before it is served changes nothing.
LEMMA FailKeeps ==
  ASSUME AdminTypes, TableFits, NEW c \in UserCall, UsersFail(c)
  PROVE  AdminTypes' /\ TableFits'
<1> DEFINE k == userCall[c]
<1>1. /\ userCall'[c] = NoUserCall /\ DOMAIN userCall' = UserCall
      /\ \A d \in UserCall : d # c => userCall'[d] = userCall[d]
      /\ UNCHANGED <<users, table, turns>>
  BY DEF UsersFail, AdminTypes
<1>2. /\ ~ doings'.crossed => ~ doings.crossed /\ ~ k.stamp > 0 /\ ~ (k.kind = "list" /\ k.who # Unset)
      /\ doings'.crossed \in BOOLEAN /\ doings'.lost \in Nat /\ doings'.early = doings.early
      /\ DOMAIN doings' = DOMAIN doings
  <2> DEFINE free == k.stamp = 0 /\ ~ Permits(k)
             harm == k.stamp > 0 \/ (k.kind = "list" /\ k.who # Unset)
  <2>1. doings' = [doings EXCEPT !.lost = IF free THEN @ ELSE @ + 1, !.crossed = @ \/ harm]
    BY DEF UsersFail
  <2> HIDE DEF free, harm
  <2>2. /\ doings'.crossed = (doings.crossed \/ harm) /\ doings'.lost = IF free THEN doings.lost ELSE doings.lost + 1
        /\ doings'.early = doings.early /\ DOMAIN doings' = DOMAIN doings
    BY <2>1 DEF AdminTypes
  <2>3. doings'.lost \in Nat /\ doings'.crossed \in BOOLEAN
    BY <2>2 DEF AdminTypes
  <2> QED
    BY <2>2, <2>3 DEF harm
<1>3. AdminTypes'
  <2>1. \A x : CallFits(x) => CallFits(x)'
    BY <1>1, CallsStay DEF AdminTypes
  <2>2. CallFits(NoUserCall)
    BY DEF CallFits, NoUserCall, UserKind, AdminTypes
  <2>3. \A d \in UserCall : CallFits(userCall'[d])
    BY <1>1, <2>2 DEF AdminTypes
  <2>4. \A d \in UserCall : CallFits(userCall[d])'
    BY <1>1, <2>3 DEF CallFits
  <2> QED
    BY <1>1, <1>2, <2>4 DEF AdminTypes
<1>4. TableFits'
  <2> SUFFICES ASSUME ~ doings'.crossed, ~ Overdue' PROVE (OneRow /\ TableIsServed /\ AnswersAreServed /\ CreatedOnce)'
    BY DEF TableFits
  <2>1. ~ doings.crossed /\ k.stamp = 0 /\ ~ (k.kind = "list" /\ k.who # Unset)
    BY <1>2 DEF AdminTypes, CallFits
  <2>2. /\ \A d \in UserCall : Stamp(d)' = Stamp(d) /\ (Stamp(d) > 0 => userCall'[d] = userCall[d])
        /\ \A d \in UserCall : Stamp(d) \in Nat
        /\ turns.seen \in Nat
    BY <1>1, <2>1 DEF Stamp, NoUserCall, AdminTypes, CallFits
  <2>3. \A a \in Account : Owed(a) => Owed(a)'
    BY <1>1, <2>1, AdminConstants DEF Owed
  <2>4. ~ Overdue
    BY <1>1, <2>2 DEF Overdue
  <2>5. OneRow /\ TableIsServed /\ AnswersAreServed /\ CreatedOnce
    BY <2>1, <2>4 DEF TableFits
  <2>6. OneRow'
    BY <1>1, <2>5 DEF OneRow
  <2>7. TableIsServed'
    BY <1>1, <2>2, <2>3, <2>5 DEF TableIsServed, Touched
  <2>8. AnswersAreServed'
    BY <1>1, <2>2, <2>5 DEF AnswersAreServed, Touched
  <2>9. CreatedOnce'
    BY <1>1, <2>2, <2>5 DEF CreatedOnce
  <2> QED
    BY <2>6, <2>7, <2>8, <2>9
<1> QED
  BY <1>3, <1>4

LEMMA AdminStep == AdminInv /\ [(UsersNext \/ SwitchNext \/ LimitNext)]_adminPage => AdminInv'
<1> SUFFICES ASSUME AdminInv, [(UsersNext \/ SwitchNext \/ LimitNext)]_adminPage PROVE AdminInv'
  OBVIOUS
<1>0. AdminTypes /\ StampsDiffer /\ TableFits /\ SwitchesFit /\ FormFits
  BY DEF AdminInv
<1>1. ASSUME NEW c \in UserCall, LoadUsers(c)
      PROVE  AdminInv'
  <2>1. AdminTypes'
    <3>1. CallFits([NoUserCall EXCEPT !.kind = "list"])
      BY <1>0 DEF CallFits, NoUserCall, UserKind, AdminTypes
    <3> QED
      BY <1>0, <1>1, <3>1, SendKeeps DEF LoadUsers, NoUserCall
  <2>2. StampsDiffer'
    BY <1>0, <1>1 DEF LoadUsers, Acts, Sends, StampsDiffer, Stamp, AdminTypes, CallFits, NoUserCall
  <2>3. TableFits'
    <3>1. CallFits([NoUserCall EXCEPT !.kind = "list"])
      BY <1>0 DEF CallFits, NoUserCall, UserKind, AdminTypes
    <3> QED
      BY <1>0, <1>1, <3>1, SendKeeps DEF LoadUsers, NoUserCall
  <2>4. SwitchesFit'
    BY <1>0, <1>1 DEF LoadUsers, Acts, Sends, SwitchesFit, AdminTypes
  <2>5. FormFits'
    BY <1>0, <1>1 DEF LoadUsers, Acts, Sends, FormFits, Maybe, AdminTypes
  <2> QED
    BY <2>1, <2>2, <2>3, <2>4, <2>5 DEF AdminInv
<1>2. ASSUME NEW c \in UserCall, ServeUsers(c)
      PROVE  AdminInv'
  <2>1. AdminTypes'
    BY <1>0, <1>2, ServeKeeps
  <2>2. StampsDiffer'
    BY <1>0, <1>2 DEF ServeUsers, StampsDiffer, Stamp, AdminTypes, CallFits, NoUserCall
  <2>3. TableFits'
    BY <1>0, <1>2, ServeKeeps
  <2>4. SwitchesFit'
    BY <1>0, <1>2 DEF ServeUsers, SwitchesFit, AdminTypes
  <2>5. FormFits'
    BY <1>0, <1>2 DEF ServeUsers, FormFits, Maybe, AdminTypes
  <2> QED
    BY <2>1, <2>2, <2>3, <2>4, <2>5 DEF AdminInv
<1>3. ASSUME NEW c \in UserCall, UsersAnswered(c)
      PROVE  AdminInv'
  <2>1. AdminTypes'
    BY <1>0, <1>3, AnswerKeeps
  <2>2. StampsDiffer'
    BY <1>0, <1>3 DEF UsersAnswered, StampsDiffer, Stamp, AdminTypes, CallFits, NoUserCall
  <2>3. TableFits'
    BY <1>0, <1>3, AnswerKeeps
  <2>4. SwitchesFit'
    BY <1>0, <1>3 DEF UsersAnswered, SwitchesFit, AdminTypes
  <2>5. FormFits'
    BY <1>0, <1>3 DEF UsersAnswered, FormFits, Maybe, AdminTypes
  <2> QED
    BY <2>1, <2>2, <2>3, <2>4, <2>5 DEF AdminInv
<1>4. ASSUME NEW c \in UserCall, UsersFail(c)
      PROVE  AdminInv'
  <2>1. AdminTypes'
    BY <1>0, <1>4, FailKeeps
  <2>2. StampsDiffer'
    BY <1>0, <1>4 DEF UsersFail, Trouble, StampsDiffer, Stamp, AdminTypes, CallFits, NoUserCall
  <2>3. TableFits'
    BY <1>0, <1>4, FailKeeps
  <2>4. SwitchesFit'
    BY <1>0, <1>4 DEF UsersFail, Trouble, SwitchesFit, AdminTypes
  <2>5. FormFits'
    BY <1>0, <1>4 DEF UsersFail, Trouble, FormFits, Maybe, AdminTypes
  <2> QED
    BY <2>1, <2>2, <2>3, <2>4, <2>5 DEF AdminInv
<1>5. ASSUME NEW c \in UserCall, NEW a \in Account, PatchUser(c, a)
      PROVE  AdminInv'
  <2>1. AdminTypes'
    <3> DEFINE before == table[a][1]
    <3>1. PICK row \in {[before EXCEPT !.active = ~ @], [before EXCEPT !.reset = ~ @]} :
            Sends(c, [NoUserCall EXCEPT !.kind = "patch", !.who = a, !.row = <<before, row>>])
      BY <1>5 DEF PatchUser
    <3>2. before \in Row
      BY <1>0, <1>5 DEF PatchUser, AdminTypes
    <3>3. row \in Row
      BY <3>2 DEF Row
    <3>4. CallFits([NoUserCall EXCEPT !.kind = "patch", !.who = a, !.row = <<before, row>>])
      BY <1>0, <3>2, <3>3 DEF CallFits, NoUserCall, UserKind, AdminTypes
    <3> QED
      BY <1>0, <1>5, <3>1, <3>4, SendKeeps DEF PatchUser, NoUserCall
  <2>2. StampsDiffer'
    BY <1>0, <1>5 DEF PatchUser, Acts, Sends, StampsDiffer, Stamp, AdminTypes, CallFits, NoUserCall
  <2>3. TableFits'
    <3> DEFINE before == table[a][1]
    <3>1. PICK row \in {[before EXCEPT !.active = ~ @], [before EXCEPT !.reset = ~ @]} :
            Sends(c, [NoUserCall EXCEPT !.kind = "patch", !.who = a, !.row = <<before, row>>])
      BY <1>5 DEF PatchUser
    <3>2. before \in Row
      BY <1>0, <1>5 DEF PatchUser, AdminTypes
    <3>3. row \in Row
      BY <3>2 DEF Row
    <3>4. CallFits([NoUserCall EXCEPT !.kind = "patch", !.who = a, !.row = <<before, row>>])
      BY <1>0, <3>2, <3>3 DEF CallFits, NoUserCall, UserKind, AdminTypes
    <3> QED
      BY <1>0, <1>5, <3>1, <3>4, SendKeeps DEF PatchUser, NoUserCall
  <2>4. SwitchesFit'
    BY <1>0, <1>5 DEF PatchUser, Acts, Sends, SwitchesFit, AdminTypes
  <2>5. FormFits'
    BY <1>0, <1>5 DEF PatchUser, Acts, Sends, FormFits, Maybe, AdminTypes
  <2> QED
    BY <2>1, <2>2, <2>3, <2>4, <2>5 DEF AdminInv
<1>6. ASSUME NEW c \in UserCall, NEW a \in Account, CreateUser(c, a)
      PROVE  AdminInv'
  <2>1. AdminTypes'
    <3>1. CallFits([NoUserCall EXCEPT !.kind = "create", !.who = a])
      BY <1>0 DEF CallFits, NoUserCall, UserKind, AdminTypes
    <3> QED
      BY <1>0, <1>6, <3>1, SendKeeps DEF CreateUser, NoUserCall
  <2>2. StampsDiffer'
    BY <1>0, <1>6 DEF CreateUser, Acts, Sends, StampsDiffer, Stamp, AdminTypes, CallFits, NoUserCall
  <2>3. TableFits'
    <3>1. CallFits([NoUserCall EXCEPT !.kind = "create", !.who = a])
      BY <1>0 DEF CallFits, NoUserCall, UserKind, AdminTypes
    <3> QED
      BY <1>0, <1>6, <3>1, SendKeeps DEF CreateUser, NoUserCall
  <2>4. SwitchesFit'
    BY <1>0, <1>6 DEF CreateUser, Acts, Sends, SwitchesFit, AdminTypes
  <2>5. FormFits'
    BY <1>0, <1>6 DEF CreateUser, Acts, Sends, FormFits, Maybe, AdminTypes
  <2> QED
    BY <2>1, <2>2, <2>3, <2>4, <2>5 DEF AdminInv
<1>7. ASSUME NEW c \in UserCall, NEW a \in Account, ResetUser(c, a)
      PROVE  AdminInv'
  <2>1. AdminTypes'
    <3>1. CallFits([NoUserCall EXCEPT !.kind = "reset", !.who = a])
      BY <1>0 DEF CallFits, NoUserCall, UserKind, AdminTypes
    <3> QED
      BY <1>0, <1>7, <3>1, SendKeeps DEF ResetUser, NoUserCall
  <2>2. StampsDiffer'
    BY <1>0, <1>7 DEF ResetUser, Acts, Sends, StampsDiffer, Stamp, AdminTypes, CallFits, NoUserCall
  <2>3. TableFits'
    <3>1. CallFits([NoUserCall EXCEPT !.kind = "reset", !.who = a])
      BY <1>0 DEF CallFits, NoUserCall, UserKind, AdminTypes
    <3> QED
      BY <1>0, <1>7, <3>1, SendKeeps DEF ResetUser, NoUserCall
  <2>4. SwitchesFit'
    BY <1>0, <1>7 DEF ResetUser, Acts, Sends, SwitchesFit, AdminTypes
  <2>5. FormFits'
    BY <1>0, <1>7 DEF ResetUser, Acts, Sends, FormFits, Maybe, AdminTypes
  <2> QED
    BY <2>1, <2>2, <2>3, <2>4, <2>5 DEF AdminInv
<1>8. CASE LoadSwitches
  <2>1. AdminTypes'
    BY <1>0, <1>8 DEF LoadSwitches, AskFlags, Acts, usersPart, AdminTypes, CallFits, NoUserCall
  <2>2. StampsDiffer'
    BY <1>0, <1>8 DEF LoadSwitches, AskFlags, Acts, usersPart, StampsDiffer, Stamp, AdminTypes,
         CallFits, NoUserCall
  <2>3. TableFits'
    BY <1>0, <1>8 DEF LoadSwitches, AskFlags, Acts, usersPart, TableFits, OneRow, TableIsServed,
         AnswersAreServed, CreatedOnce, StampsDiffer, Stamp, Overdue, Touched, Owed, ARow,
         AdminTypes, CallFits, NoUserCall
  <2>4. SwitchesFit'
    BY <1>0, <1>8 DEF LoadSwitches, AskFlags, Acts, usersPart, SwitchesFit, AdminTypes
  <2>5. FormFits'
    BY <1>0, <1>8 DEF LoadSwitches, AskFlags, Acts, usersPart, FormFits, Maybe, AdminTypes
  <2> QED
    BY <2>1, <2>2, <2>3, <2>4, <2>5 DEF AdminInv
<1>9. CASE ServeFlags
  <2>1. AdminTypes'
    BY <1>0, <1>9 DEF ServeFlags, usersPart, AdminTypes, CallFits, NoUserCall
  <2>2. StampsDiffer'
    BY <1>0, <1>9 DEF ServeFlags, usersPart, StampsDiffer, Stamp, AdminTypes, CallFits, NoUserCall
  <2>3. TableFits'
    BY <1>0, <1>9 DEF ServeFlags, usersPart, TableFits, OneRow, TableIsServed, AnswersAreServed,
         CreatedOnce, StampsDiffer, Stamp, Overdue, Touched, Owed, ARow, AdminTypes, CallFits,
         NoUserCall
  <2>4. SwitchesFit'
    BY <1>0, <1>9 DEF ServeFlags, usersPart, SwitchesFit, AdminTypes
  <2>5. FormFits'
    BY <1>0, <1>9 DEF ServeFlags, usersPart, FormFits, Maybe, AdminTypes
  <2> QED
    BY <2>1, <2>2, <2>3, <2>4, <2>5 DEF AdminInv
<1>10. CASE FlagsAnswered
  <2>1. AdminTypes'
    BY <1>0, <1>10 DEF FlagsAnswered, usersPart, AdminTypes, CallFits, NoUserCall
  <2>2. StampsDiffer'
    BY <1>0, <1>10 DEF FlagsAnswered, usersPart, StampsDiffer, Stamp, AdminTypes, CallFits,
         NoUserCall
  <2>3. TableFits'
    BY <1>0, <1>10 DEF FlagsAnswered, usersPart, TableFits, OneRow, TableIsServed,
         AnswersAreServed, CreatedOnce, StampsDiffer, Stamp, Overdue, Touched, Owed, ARow,
         AdminTypes, CallFits, NoUserCall
  <2>4. SwitchesFit'
    BY <1>0, <1>10 DEF FlagsAnswered, usersPart, SwitchesFit, AdminTypes
  <2>5. FormFits'
    BY <1>0, <1>10 DEF FlagsAnswered, usersPart, FormFits, Maybe, AdminTypes
  <2> QED
    BY <2>1, <2>2, <2>3, <2>4, <2>5 DEF AdminInv
<1>11. CASE FlagsFail
  <2>1. AdminTypes'
    BY <1>0, <1>11 DEF FlagsFail, Trouble, usersPart, AdminTypes, CallFits, NoUserCall
  <2>2. StampsDiffer'
    BY <1>0, <1>11 DEF FlagsFail, Trouble, usersPart, StampsDiffer, Stamp, AdminTypes, CallFits,
         NoUserCall
  <2>3. TableFits'
    BY <1>0, <1>11 DEF FlagsFail, Trouble, usersPart, TableFits, OneRow, TableIsServed,
         AnswersAreServed, CreatedOnce, StampsDiffer, Stamp, Overdue, Touched, Owed, ARow,
         AdminTypes, CallFits, NoUserCall
  <2>4. SwitchesFit'
    BY <1>0, <1>11 DEF FlagsFail, Trouble, usersPart, SwitchesFit, AdminTypes
  <2>5. FormFits'
    BY <1>0, <1>11 DEF FlagsFail, Trouble, usersPart, FormFits, Maybe, AdminTypes
  <2> QED
    BY <2>1, <2>2, <2>3, <2>4, <2>5 DEF AdminInv
<1>12. ASSUME NEW s \in Switch, Flip(s)
      PROVE  AdminInv'
  <2>1. AdminTypes'
    BY <1>0, <1>12 DEF Flip, AskFlags, Acts, usersPart, AdminTypes, CallFits, NoUserCall
  <2>2. StampsDiffer'
    BY <1>0, <1>12 DEF Flip, AskFlags, Acts, usersPart, StampsDiffer, Stamp, AdminTypes, CallFits,
         NoUserCall
  <2>3. TableFits'
    BY <1>0, <1>12 DEF Flip, AskFlags, Acts, usersPart, TableFits, OneRow, TableIsServed,
         AnswersAreServed, CreatedOnce, StampsDiffer, Stamp, Overdue, Touched, Owed, ARow,
         AdminTypes, CallFits, NoUserCall
  <2>4. SwitchesFit'
    BY <1>0, <1>12 DEF Flip, AskFlags, Acts, usersPart, SwitchesFit, AdminTypes
  <2>5. FormFits'
    BY <1>0, <1>12 DEF Flip, AskFlags, Acts, usersPart, FormFits, Maybe, AdminTypes
  <2> QED
    BY <2>1, <2>2, <2>3, <2>4, <2>5 DEF AdminInv
<1>13. CASE LoadConfig
  <2>1. AdminTypes'
    BY <1>0, <1>13 DEF LoadConfig, Acts, LimitCall, usersPart, AdminTypes, CallFits, NoUserCall
  <2>2. StampsDiffer'
    BY <1>0, <1>13 DEF LoadConfig, Acts, LimitCall, usersPart, StampsDiffer, Stamp, AdminTypes,
         CallFits, NoUserCall
  <2>3. TableFits'
    BY <1>0, <1>13 DEF LoadConfig, Acts, LimitCall, usersPart, TableFits, OneRow, TableIsServed,
         AnswersAreServed, CreatedOnce, StampsDiffer, Stamp, Overdue, Touched, Owed, ARow,
         AdminTypes, CallFits, NoUserCall
  <2>4. SwitchesFit'
    BY <1>0, <1>13 DEF LoadConfig, Acts, LimitCall, usersPart, SwitchesFit, AdminTypes
  <2>5. FormFits'
    BY <1>0, <1>13 DEF LoadConfig, Acts, LimitCall, usersPart, FormFits, Maybe, AdminTypes
  <2> QED
    BY <2>1, <2>2, <2>3, <2>4, <2>5 DEF AdminInv
<1>14. CASE SaveConfig
  <2>1. AdminTypes'
    BY <1>0, <1>14 DEF SaveConfig, LimitCall, usersPart, AdminTypes, CallFits, NoUserCall
  <2>2. StampsDiffer'
    BY <1>0, <1>14 DEF SaveConfig, LimitCall, usersPart, StampsDiffer, Stamp, AdminTypes, CallFits,
         NoUserCall
  <2>3. TableFits'
    BY <1>0, <1>14 DEF SaveConfig, LimitCall, usersPart, TableFits, OneRow, TableIsServed,
         AnswersAreServed, CreatedOnce, StampsDiffer, Stamp, Overdue, Touched, Owed, ARow,
         AdminTypes, CallFits, NoUserCall
  <2>4. SwitchesFit'
    BY <1>0, <1>14 DEF SaveConfig, LimitCall, usersPart, SwitchesFit, AdminTypes
  <2>5. FormFits'
    BY <1>0, <1>14 DEF SaveConfig, LimitCall, usersPart, FormFits, Maybe, AdminTypes
  <2> QED
    BY <2>1, <2>2, <2>3, <2>4, <2>5 DEF AdminInv
<1>15. CASE ServeLimit
  <2>1. AdminTypes'
    BY <1>0, <1>15 DEF ServeLimit, usersPart, AdminTypes, CallFits, NoUserCall
  <2>2. StampsDiffer'
    BY <1>0, <1>15 DEF ServeLimit, usersPart, StampsDiffer, Stamp, AdminTypes, CallFits, NoUserCall
  <2>3. TableFits'
    BY <1>0, <1>15 DEF ServeLimit, usersPart, TableFits, OneRow, TableIsServed, AnswersAreServed,
         CreatedOnce, StampsDiffer, Stamp, Overdue, Touched, Owed, ARow, AdminTypes, CallFits,
         NoUserCall
  <2>4. SwitchesFit'
    BY <1>0, <1>15 DEF ServeLimit, usersPart, SwitchesFit, AdminTypes
  <2>5. FormFits'
    BY <1>0, <1>15 DEF ServeLimit, usersPart, FormFits, Maybe, AdminTypes
  <2> QED
    BY <2>1, <2>2, <2>3, <2>4, <2>5 DEF AdminInv
<1>16. CASE LimitAnswered
  <2>1. AdminTypes'
    BY <1>0, <1>16 DEF LimitAnswered, Effects, usersPart, AdminTypes, CallFits, NoUserCall
  <2>2. StampsDiffer'
    BY <1>0, <1>16 DEF LimitAnswered, Effects, usersPart, StampsDiffer, Stamp, AdminTypes,
         CallFits, NoUserCall
  <2>3. TableFits'
    BY <1>0, <1>16 DEF LimitAnswered, Effects, usersPart, TableFits, OneRow, TableIsServed,
         AnswersAreServed, CreatedOnce, StampsDiffer, Stamp, Overdue, Touched, Owed, ARow,
         AdminTypes, CallFits, NoUserCall
  <2>4. SwitchesFit'
    BY <1>0, <1>16 DEF LimitAnswered, Effects, usersPart, SwitchesFit, AdminTypes
  <2>5. FormFits'
    BY <1>0, <1>16 DEF LimitAnswered, Effects, usersPart, FormFits, Maybe, AdminTypes
  <2> QED
    BY <2>1, <2>2, <2>3, <2>4, <2>5 DEF AdminInv
<1>17. CASE LimitFails
  <2>1. AdminTypes'
    BY <1>0, <1>17 DEF LimitFails, Trouble, Effects, usersPart, AdminTypes, CallFits, NoUserCall
  <2>2. StampsDiffer'
    BY <1>0, <1>17 DEF LimitFails, Trouble, Effects, usersPart, StampsDiffer, Stamp, AdminTypes,
         CallFits, NoUserCall
  <2>3. TableFits'
    BY <1>0, <1>17 DEF LimitFails, Trouble, Effects, usersPart, TableFits, OneRow, TableIsServed,
         AnswersAreServed, CreatedOnce, StampsDiffer, Stamp, Overdue, Touched, Owed, ARow,
         AdminTypes, CallFits, NoUserCall
  <2>4. SwitchesFit'
    BY <1>0, <1>17 DEF LimitFails, Trouble, Effects, usersPart, SwitchesFit, AdminTypes
  <2>5. FormFits'
    BY <1>0, <1>17 DEF LimitFails, Trouble, Effects, usersPart, FormFits, Maybe, AdminTypes
  <2> QED
    BY <2>1, <2>2, <2>3, <2>4, <2>5 DEF AdminInv
<1>18. ASSUME NEW v \in Limit, EditLimit(v)
      PROVE  AdminInv'
  <2>1. AdminTypes'
    BY <1>0, <1>18 DEF EditLimit, Effects, usersPart, AdminTypes, CallFits, NoUserCall
  <2>2. StampsDiffer'
    BY <1>0, <1>18 DEF EditLimit, Effects, usersPart, StampsDiffer, Stamp, AdminTypes, CallFits,
         NoUserCall
  <2>3. TableFits'
    BY <1>0, <1>18 DEF EditLimit, Effects, usersPart, TableFits, OneRow, TableIsServed,
         AnswersAreServed, CreatedOnce, StampsDiffer, Stamp, Overdue, Touched, Owed, ARow,
         AdminTypes, CallFits, NoUserCall
  <2>4. SwitchesFit'
    BY <1>0, <1>18 DEF EditLimit, Effects, usersPart, SwitchesFit, AdminTypes
  <2>5. FormFits'
    BY <1>0, <1>18 DEF EditLimit, Effects, usersPart, FormFits, Maybe, AdminTypes
  <2> QED
    BY <2>1, <2>2, <2>3, <2>4, <2>5 DEF AdminInv
<1>19. CASE UNCHANGED adminPage
  <2>1. AdminTypes'
    BY <1>0, <1>19 DEF adminPage, AdminTypes, CallFits, NoUserCall
  <2>2. StampsDiffer'
    BY <1>0, <1>19 DEF adminPage, StampsDiffer, Stamp, AdminTypes, CallFits, NoUserCall
  <2>3. TableFits'
    BY <1>0, <1>19 DEF adminPage, TableFits, OneRow, TableIsServed, AnswersAreServed, CreatedOnce,
         StampsDiffer, Stamp, Overdue, Touched, Owed, ARow, AdminTypes, CallFits, NoUserCall
  <2>4. SwitchesFit'
    BY <1>0, <1>19 DEF adminPage, SwitchesFit, AdminTypes
  <2>5. FormFits'
    BY <1>0, <1>19 DEF adminPage, FormFits, Maybe, AdminTypes
  <2> QED
    BY <2>1, <2>2, <2>3, <2>4, <2>5 DEF AdminInv
<1> QED
  BY <1>1, <1>2, <1>3, <1>4, <1>5, <1>6, <1>7, <1>8, <1>9, <1>10, <1>11, <1>12, <1>13, <1>14,
       <1>15, <1>16, <1>17, <1>18, <1>19 DEF UsersNext, SwitchNext, LimitNext

LEMMA AdminBegins == AdminInit => AdminInv
<1> SUFFICES ASSUME AdminInit PROVE AdminInv
  OBVIOUS
<1>1. AdminTypes
  <2>1. users \in [Account -> ARow]
    BY DEF AdminInit, ARow, Row
  <2>2. table \in [Account -> Seq(Row)] /\ \A a \in Account : table[a] = <<>>
    BY EmptySeq DEF AdminInit
  <2>3. DOMAIN userCall = UserCall /\ \A c \in UserCall : CallFits(userCall[c])
    BY DEF AdminInit, CallFits, NoUserCall, UserKind
  <2> QED
    BY <2>1, <2>2, <2>3 DEF AdminInit, AdminTypes
<1>2. StampsDiffer /\ TableFits
  BY DEF AdminInit, StampsDiffer, TableFits, OneRow, TableIsServed, AnswersAreServed, CreatedOnce,
       Stamp, NoUserCall, ARow
<1>3. SwitchesFit
  BY DEF AdminInit, SwitchesFit
<1>4. FormFits
  BY AdminConstants DEF AdminInit, FormFits, Maybe
<1> QED
  BY <1>1, <1>2, <1>3, <1>4 DEF AdminInv

LEMMA AdminInvSuffices == AdminInv => QuietAdminPageIsTrue
<1> SUFFICES ASSUME AdminInv PROVE QuietAdminPageIsTrue
  OBVIOUS
<1>1. TableIsTrue
  BY DEF AdminInv, TableFits, TableIsServed, TableIsTrue, Overdue, Touched, Owed, Stamp, NoUserCall
<1>2. SwitchesAreTrue
  BY DEF AdminInv, SwitchesFit, SwitchesAreTrue
<1>3. FormIsTrue
  BY AdminConstants DEF AdminInv, FormFits, FormIsTrue, Maybe
<1> QED
  BY <1>1, <1>2, <1>3 DEF QuietAdminPageIsTrue

(***************************************************************************)
(* For every set of users, switches and settings of the limit, any number  *)
(* of calls under way and of failures, the page that is quiet is true.     *)
(***************************************************************************)
THEOREM AdminPageIsTrue ==
  AdminInit /\ [][UsersNext \/ SwitchNext \/ LimitNext]_adminPage => []QuietAdminPageIsTrue
<1>1. AdminInit => AdminInv
  BY AdminBegins
<1>2. AdminInv /\ [UsersNext \/ SwitchNext \/ LimitNext]_adminPage => AdminInv'
  BY AdminStep
<1>3. AdminInv => QuietAdminPageIsTrue
  BY AdminInvSuffices
<1> QED
  BY <1>1, <1>2, <1>3, PTL

-----------------------------------------------------------------------------
(***************************************************************************)
(* The import of files. What makes the counts add up is that a file is     *)
(* past a drawing when it has been answered or given up, that a drawing    *)
(* is made where its file is and never behind it, and that one that was    *)
(* made and not answered is in flight.                                     *)
(***************************************************************************)
\* The drawings of a file, those it is past, and one whose answer is on its way.
IsDrawing(f, m, n) == m \in DOMAIN shape[f].members /\ n \in DOMAIN shape[f].members[m]
Before(q, m, n) == q = <<0, 0>> \/ m < q[1] \/ (m = q[1] /\ n < q[2])
Past(f, m, n) == Before(at[f], m, n)
InFlight(d) ==
  call[d.file].kind = "drawing" /\ call[d.file].stage = "served" /\ at[d.file] = <<d.member, d.nth>>
Landed == {d \in made : ~ InFlight(d)}

MadeAt(f, m, n) == \E d \in made : d.file = f /\ d.member = m /\ d.nth = n

\* One collection of a name.
OneOfAName(S) == \A d, e \in S : d.name = e.name => d = e

\* What a drawing may be filed under, and in.
Names(folder) == {x.name : x \in folder}
Filed(f, m, n, folder) ==
  Names(folder) = IF way = "dropped" THEN {} ELSE {shape[f].members[m][n].name} \ {Unfiled}
FiledAt(r, folder) == r \notin mishaps.crossed => folder \subseteq Entries(r)

ImportTypes ==
  /\ way \in {"dropped", "chosen"} /\ shape \in [Upload -> Shapes]
  /\ way = "dropped" =>
       \A f \in Upload : ~ shape[f].zip /\ Len(shape[f].members) = 1 /\ Len(shape[f].members[1]) = 1
  /\ DOMAIN at = Upload /\ DOMAIN call = Upload /\ DOMAIN tasks = Upload
  /\ DOMAIN index = Upload \cup {"shared"}
  /\ \A r \in DOMAIN index : index[r] = Unread \/ (index[r] = <<Entries(r)>> /\ OneOfAName(Entries(r)))
  /\ IsFiniteSet(made) /\ counts \in [success : Nat, failed : Nat]
  /\ DOMAIN mishaps = {"n", "lost", "crossed"} /\ mishaps.lost \in BOOLEAN

\* Where a file is, and its request.
UploadFits(f) ==
  /\ at[f] \in {<<0, 0>>, <<0, 1>>} \/ \E m, n \in Nat : IsDrawing(f, m, n) /\ at[f] = <<m, n>>
  /\ \/ call[f] = NoRequest
     \/ /\ at[f] \notin {<<0, 0>>, <<0, 1>>} /\ Item(f).ok
        /\ DOMAIN call[f] = {"kind", "stage", "data"}
        /\ call[f].kind \in {"index", "folder", "drawing"} /\ call[f].stage \in {"sent", "served"}
        /\ call[f].kind # "drawing" => Name(f) # Unfiled
        /\ call[f].kind = "drawing" =>
             /\ Filed(f, at[f][1], at[f][2], call[f].data) /\ FiledAt(Resolver(f), call[f].data)
             /\ call[f].stage = "served" => MadeAt(f, at[f][1], at[f][2])

UploadsFit == \A f \in Upload : UploadFits(f)

\* Each drawing is posted once, and filed where its resolver says.
MadeFits ==
  /\ \A d \in made :
       /\ DOMAIN d = {"file", "member", "nth", "folder"}
       /\ d.file \in Upload /\ d.member \in Nat /\ d.nth \in Nat
       /\ IsDrawing(d.file, d.member, d.nth)
       /\ Past(d.file, d.member, d.nth) \/ InFlight(d)
       /\ Filed(d.file, d.member, d.nth, d.folder) /\ FiledAt(Resolver(d.file), d.folder)
  /\ \A d, e \in made : d.file = e.file /\ d.member = e.member /\ d.nth = e.nth => d = e

\* The page has counted what landed, except for the answers that were lost.
CountsFit ==
  /\ counts.success <= Cardinality(Landed)
  /\ (~ mishaps.lost => counts.success = Cardinality(Landed))
  /\ mishaps.lost => counts.failed # 0
  /\ counts.failed = 0 =>
       \A f \in Upload : \A m, n \in Nat : IsDrawing(f, m, n) /\ Past(f, m, n) => MadeAt(f, m, n)

TasksFit ==
  way = "dropped" => \A f \in Upload :
    /\ Done(f) => tasks[f] \in {"success", "error"}
    /\ ~ Done(f) => tasks[f] \notin {"success", "error"}
    /\ tasks[f] = "success" => MadeAt(f, 1, 1)
    /\ tasks[f] = "error" => mishaps.lost \/ ~ MadeAt(f, 1, 1)

ImportsInv == ImportTypes /\ UploadsFit /\ MadeFits /\ CountsFit /\ TasksFit
-----------------------------------------------------------------------------
\* A place where a file may be.
Spot(f, q) == q = <<0, 0>> \/ \E m, n \in Nat : IsDrawing(f, m, n) /\ q = <<m, n>>

LEMMA DrawingsAreNumbered ==
  ASSUME ImportTypes, NEW f \in Upload
  PROVE  /\ shape[f].members \in Seq(Seq([ok : BOOLEAN, name : FolderName]))
         /\ \A m, n : IsDrawing(f, m, n) => m \in Nat \ {0} /\ n \in Nat \ {0}
         /\ \A m \in DOMAIN shape[f].members :
              /\ DOMAIN shape[f].members[m] = 1..Len(shape[f].members[m])
              /\ Len(shape[f].members[m]) \in Nat
              /\ shape[f].members[m] # <<>> <=> 1 \in DOMAIN shape[f].members[m]
<1> DEFINE ms == shape[f].members
           I == [ok : BOOLEAN, name : FolderName]
<1>1. ms \in Seq(Seq(I)) /\ shape[f] \in Shapes
  BY ImportConstants DEF ImportTypes
<1>2. DOMAIN ms = 1..Len(ms) /\ Len(ms) \in Nat /\ \A m \in DOMAIN ms : ms[m] \in Seq(I)
  BY <1>1
<1> HIDE DEF ms, I
<1>3. \A s \in Seq(I) : DOMAIN s = 1..Len(s) /\ Len(s) \in Nat /\ (s # <<>> <=> 1 \in DOMAIN s)
  BY EmptySeq
<1>4. \A m \in DOMAIN ms : DOMAIN ms[m] = 1..Len(ms[m]) /\ Len(ms[m]) \in Nat /\ (ms[m] # <<>> <=> 1 \in DOMAIN ms[m])
  BY <1>2, <1>3
<1>5. \A m, n : m \in DOMAIN ms /\ n \in DOMAIN ms[m] => m \in Nat \ {0} /\ n \in Nat \ {0}
  BY <1>2, <1>4
<1> QED
  BY <1>1, <1>4, <1>5 DEF IsDrawing, ms, I

\* The next member that has a drawing is the first one after this.
LEMMA MembersAdvance ==
  ASSUME ImportTypes, NEW f \in Upload, NEW m \in Nat
  PROVE  /\ Spot(f, NextMember(f, m))
         /\ \A i, j : IsDrawing(f, i, j) => (Before(NextMember(f, m), i, j) <=> i <= m)
<1> DEFINE rest == {k \in DOMAIN shape[f].members : k > m /\ shape[f].members[k] # <<>>}
           q == NextMember(f, m)
<1>1. /\ rest \in SUBSET Nat /\ \A k \in rest : k > m /\ k # 0 /\ IsDrawing(f, k, 1)
      /\ \A i, j : IsDrawing(f, i, j) => i \in Nat \ {0} /\ j \in Nat \ {0} /\ (i > m => i \in rest)
  <2>1. DOMAIN shape[f].members \in SUBSET Nat
    BY DrawingsAreNumbered
  <2>2. ASSUME NEW i, NEW j, IsDrawing(f, i, j)
        PROVE  i \in Nat \ {0} /\ j \in Nat \ {0} /\ (i > m => i \in rest)
    <3>1. shape[f].members[i] # <<>> /\ i \in DOMAIN shape[f].members
      BY <2>2, DrawingsAreNumbered DEF IsDrawing
    <3> QED
      BY <2>2, <3>1, DrawingsAreNumbered
  <2>3. \A k \in rest : k > m /\ IsDrawing(f, k, 1)
    BY DrawingsAreNumbered DEF IsDrawing
  <2> QED
    BY <2>1, <2>2, <2>3, DrawingsAreNumbered
<1>2. CASE rest = {}
  <2>1. q = <<0, 0>>
    BY <1>2 DEF NextMember
  <2> HIDE DEF rest, q
  <2> QED
    BY <1>1, <1>2, <2>1 DEF Spot, Before, q
<1>3. CASE rest # {}
  <2> DEFINE k == CHOOSE k \in rest : \A j \in rest : k <= j
  <2>1. q = <<k, 1>>
    BY <1>3 DEF NextMember
  <2> HIDE DEF rest
  <2>2. k \in rest /\ \A j \in rest : k <= j
    BY <1>1, <1>3, LeastNatural
  <2> HIDE DEF k, q
  <2>3. Spot(f, q)
    BY <1>1, <2>1, <2>2 DEF Spot
  <2>4. \A i, j : IsDrawing(f, i, j) => (Before(q, i, j) <=> i <= m)
    <3> SUFFICES ASSUME NEW i, NEW j, IsDrawing(f, i, j) PROVE Before(q, i, j) <=> i <= m
      OBVIOUS
    <3>1. i \in Nat \ {0} /\ j \in Nat \ {0} /\ k \in Nat /\ k > m /\ (i > m => k <= i)
      BY <1>1, <2>2
    <3>2. Before(q, i, j) <=> k = 0 \/ i < k \/ (i = k /\ j < 1)
      BY <2>1, <3>1 DEF Before
    <3> QED
      BY <3>1, <3>2
  <2> QED
    BY <2>3, <2>4 DEF q
<1> QED
  BY <1>2, <1>3

\* After a drawing, just that one is behind.
LEMMA ItemsAdvance ==
  ASSUME ImportTypes, NEW f \in Upload, NEW m \in Nat, NEW n \in Nat, at[f] = <<m, n>>, IsDrawing(f, m, n)
  PROVE  /\ Spot(f, NextItem(f))
         /\ \A i, j : IsDrawing(f, i, j) =>
              (Before(NextItem(f), i, j) <=> Before(at[f], i, j) \/ (i = m /\ j = n))
<1>1. /\ m # 0 /\ n # 0 /\ n \in 1..Len(Member(f)) /\ Len(Member(f)) \in Nat
      /\ DOMAIN shape[f].members[m] = 1..Len(Member(f))
  BY DrawingsAreNumbered DEF IsDrawing, Member
<1>2. \A i, j : IsDrawing(f, i, j) => i \in Nat \ {0} /\ j \in Nat \ {0} /\ (i = m => j <= Len(Member(f)))
  BY <1>1, DrawingsAreNumbered DEF IsDrawing
<1>3. \A i, j \in Nat : Before(at[f], i, j) <=> i < m \/ (i = m /\ j < n)
  BY <1>1 DEF Before
<1>4. CASE n < Len(Member(f))
  <2>1. NextItem(f) = <<m, n + 1>>
    BY <1>4 DEF NextItem
  <2>2. Spot(f, NextItem(f))
    BY <1>1, <1>4, <2>1 DEF Spot, IsDrawing
  <2>3. \A i, j \in Nat : Before(NextItem(f), i, j) <=> i < m \/ (i = m /\ j < n + 1)
    BY <1>1, <2>1 DEF Before
  <2> QED
    BY <1>2, <1>3, <2>2, <2>3
<1>5. CASE ~ (n < Len(Member(f)))
  <2>1. NextItem(f) = NextMember(f, m)
    BY <1>5 DEF NextItem
  <2> QED
    BY <1>1, <1>2, <1>3, <1>5, <2>1, MembersAdvance
<1> QED
  BY <1>4, <1>5

\* A dropped file is one drawing.
LEMMA DroppedIsOne ==
  ASSUME ImportTypes, way = "dropped", NEW f \in Upload
  PROVE  /\ \A m, n : IsDrawing(f, m, n) <=> m = 1 /\ n = 1
         /\ NextMember(f, 0) = <<1, 1>> /\ NextMember(f, 1) = <<0, 0>>
         /\ shape[f].members # <<>> /\ shape[f].members[1] # <<>>
<1>1. /\ DOMAIN shape[f].members = {1} /\ DOMAIN shape[f].members[1] = {1}
      /\ shape[f].members # <<>> /\ shape[f].members[1] # <<>>
  <2>1. Len(shape[f].members) = 1 /\ Len(shape[f].members[1]) = 1
    BY DEF ImportTypes
  <2>2. DOMAIN shape[f].members = 1..1
    BY <2>1, DrawingsAreNumbered
  <2>3. DOMAIN shape[f].members[1] = 1..1 /\ shape[f].members[1] # <<>>
    BY <2>1, <2>2, DrawingsAreNumbered
  <2> QED
    BY <2>1, <2>2, <2>3
<1>2. \A m, n : IsDrawing(f, m, n) <=> m = 1 /\ n = 1
  BY <1>1 DEF IsDrawing
<1>3. NextMember(f, 1) = <<0, 0>>
  BY <1>1 DEF NextMember
<1>4. {k \in DOMAIN shape[f].members : k > 0 /\ shape[f].members[k] # <<>>} = {1}
  BY <1>1
<1>5. NextMember(f, 0) = <<1, 1>>
  BY <1>4 DEF NextMember
<1> QED
  BY <1>1, <1>2, <1>3, <1>5

-----------------------------------------------------------------------------
(***************************************************************************)
(* A step that takes a file on, without a request from then: a drawing is  *)
(* past where it was in flight.                                            *)
(***************************************************************************)
LEMMA OthersStay ==
  ASSUME NEW f, UploadFits(f), UNCHANGED <<way, shape>>, at'[f] = at[f], call'[f] = call[f],
         FiledAt(Resolver(f), call[f].data) => FiledAt(Resolver(f), call[f].data)',
         \A m, n : MadeAt(f, m, n) => MadeAt(f, m, n)'
  PROVE  UploadFits(f)'
<1>1. /\ Item(f)' = Item(f) /\ Name(f)' = Name(f) /\ Resolver(f)' = Resolver(f)
      /\ \A m, n : IsDrawing(f, m, n)' = IsDrawing(f, m, n)
      /\ Filed(f, at[f][1], at[f][2], call[f].data)' = Filed(f, at[f][1], at[f][2], call[f].data)
  BY DEF Item, Member, Name, Resolver, IsDrawing, Filed
<1>2. at[f] \in {<<0, 0>>, <<0, 1>>} \/ \E m, n \in Nat : IsDrawing(f, m, n)' /\ at'[f] = <<m, n>>
  BY <1>1 DEF UploadFits
<1>3. CASE call[f] = NoRequest
  BY <1>2, <1>3 DEF UploadFits
<1>4. CASE call[f] # NoRequest
  <2>1. /\ at'[f] \notin {<<0, 0>>, <<0, 1>>} /\ Item(f)'.ok
        /\ DOMAIN call'[f] = {"kind", "stage", "data"}
        /\ call'[f].kind \in {"index", "folder", "drawing"} /\ call'[f].stage \in {"sent", "served"}
        /\ call'[f].kind # "drawing" => Name(f)' # Unfiled
    BY <1>1, <1>4 DEF UploadFits
  <2>2. call'[f].kind = "drawing" =>
          /\ Filed(f, at[f][1], at[f][2], call[f].data)' /\ FiledAt(Resolver(f), call[f].data)'
          /\ call'[f].stage = "served" => MadeAt(f, at[f][1], at[f][2])'
    <3>1. call[f].kind = "drawing" =>
            /\ Filed(f, at[f][1], at[f][2], call[f].data) /\ FiledAt(Resolver(f), call[f].data)
            /\ call[f].stage = "served" => MadeAt(f, at[f][1], at[f][2])
      BY <1>4 DEF UploadFits
    <3>2. MadeAt(f, at[f][1], at[f][2]) => MadeAt(f, at[f][1], at[f][2])'
      BY DEF MadeAt
    <3> QED
      BY <1>1, <3>1, <3>2
  <2> QED
    BY <1>2, <2>1, <2>2 DEF UploadFits
<1> QED
  BY <1>3, <1>4

LEMMA FilesMoveOn ==
  ASSUME ImportsInv, NEW f \in Upload, NEW q, Spot(f, q),
         at' = [at EXCEPT ![f] = q], DOMAIN call' = Upload, call'[f] = NoRequest,
         \A g \in Upload \ {f} : call'[g] = call[g],
         UNCHANGED <<way, shape, index, made>>, mishaps.crossed = mishaps'.crossed,
         \A m, n : IsDrawing(f, m, n) /\ Past(f, m, n) => Before(q, m, n),
         \A m, n : IsDrawing(f, m, n) /\ at[f] = <<m, n>> => Before(q, m, n)
  PROVE  /\ UploadsFit' /\ MadeFits'
         /\ Landed' = Landed \cup {d \in made : d.file = f /\ InFlight(d)}
<1>1. /\ DOMAIN at = Upload /\ DOMAIN call = Upload /\ at'[f] = q /\ call'[f] = NoRequest
      /\ \A g \in Upload : g # f => at'[g] = at[g] /\ call'[g] = call[g]
  BY DEF ImportsInv, ImportTypes
<1>2. \A g : \A m, n : IsDrawing(g, m, n)' = IsDrawing(g, m, n)
  BY DEF IsDrawing
<1>3. UploadsFit'
  <2> SUFFICES ASSUME NEW g \in Upload PROVE UploadFits(g)'
    BY DEF UploadsFit
  <2>1. CASE g = f
    BY <1>1, <1>2, <2>1 DEF Spot, UploadFits
  <2>2. CASE g # f
    <3>1. UploadFits(g) /\ at'[g] = at[g] /\ call'[g] = call[g]
      BY <1>1, <2>2 DEF ImportsInv, UploadsFit
    <3>2. FiledAt(Resolver(g), call[g].data) => FiledAt(Resolver(g), call[g].data)'
      BY <3>1 DEF FiledAt, Resolver, Entries
    <3>3. \A m, n : MadeAt(g, m, n) => MadeAt(g, m, n)'
      BY DEF MadeAt
    <3> QED
      BY <3>1, <3>2, <3>3, OthersStay
  <2> QED
    BY <2>1, <2>2
<1>4. \A d \in made :
        /\ d.file = f => ~ InFlight(d)' /\ Past(d.file, d.member, d.nth)'
        /\ d.file # f => InFlight(d)' = InFlight(d) /\ Past(d.file, d.member, d.nth)' = Past(d.file, d.member, d.nth)
  BY <1>1 DEF InFlight, Past, NoRequest, ImportsInv, MadeFits
<1>5. MadeFits'
  <2>1. ASSUME NEW d \in made
        PROVE  /\ Filed(d.file, d.member, d.nth, d.folder)' = Filed(d.file, d.member, d.nth, d.folder)
               /\ FiledAt(Resolver(d.file), d.folder)' = FiledAt(Resolver(d.file), d.folder)
    BY DEF Filed, FiledAt, Resolver, Entries
  <2> QED
    BY <1>2, <1>4, <2>1 DEF ImportsInv, MadeFits
<1>6. Landed' = Landed \cup {d \in made : d.file = f /\ InFlight(d)}
  BY <1>4 DEF Landed
<1> QED
  BY <1>3, <1>5, <1>6

\* What is in flight for a file lands: it was not counted among what has landed.
LEMMA LandedCounts ==
  ASSUME ImportsInv, NEW f \in Upload
  PROVE  LET F == {d \in made : d.file = f /\ InFlight(d)} IN
           /\ IsFiniteSet(Landed) /\ Cardinality(Landed) \in Nat
           /\ ~ (call[f].kind = "drawing" /\ call[f].stage = "served") => F = {}
           /\ call[f].kind = "drawing" /\ call[f].stage = "served" =>
                Cardinality(Landed \cup F) = Cardinality(Landed) + 1
<1> DEFINE F == {d \in made : d.file = f /\ InFlight(d)}
<1>1. IsFiniteSet(Landed) /\ Cardinality(Landed) \in Nat
  <2>1. IsFiniteSet(made) /\ Landed \in SUBSET made
    BY DEF ImportsInv, ImportTypes, Landed
  <2> QED
    BY <2>1, FS_Subset, FS_CardinalityType
<1>2. ~ (call[f].kind = "drawing" /\ call[f].stage = "served") => F = {}
  BY DEF InFlight
<1>3. ASSUME call[f].kind = "drawing", call[f].stage = "served"
      PROVE  Cardinality(Landed \cup F) = Cardinality(Landed) + 1
  <2>1. UploadFits(f) /\ call[f] # NoRequest
    BY <1>3 DEF ImportsInv, UploadsFit, NoRequest
  <2>2. PICK m \in Nat, n \in Nat : at[f] = <<m, n>> /\ MadeAt(f, m, n)
    BY <1>3, <2>1 DEF UploadFits
  <2>3. PICK d \in made : d.file = f /\ d.member = m /\ d.nth = n
    BY <2>2 DEF MadeAt
  <2>4. InFlight(d)
    BY <1>3, <2>2, <2>3 DEF InFlight
  <2>5. \A e \in F : e = d
    BY <2>2, <2>3 DEF InFlight, ImportsInv, MadeFits
  <2>6. F = {d} /\ d \notin Landed
    BY <2>3, <2>4, <2>5 DEF Landed
  <2> HIDE DEF F
  <2> QED
    BY <1>1, <2>6, FS_AddElement
<1> QED
  BY <1>1, <1>2, <1>3

\* No drawing has been made at the place of a file that has none in flight, nor after it.
LEMMA NoneIsMade ==
  ASSUME ImportsInv, NEW f \in Upload, NEW m, NEW n, IsDrawing(f, m, n), ~ Past(f, m, n),
         ~ (call[f].kind = "drawing" /\ call[f].stage = "served")
  PROVE  ~ MadeAt(f, m, n)
BY DEF ImportsInv, MadeFits, MadeAt, InFlight

\* Where a file that is worked on is.
LEMMA WorkedOn ==
  ASSUME ImportsInv, NEW f \in Upload, at[f] # <<0, 0>>, at[f] # <<0, 1>>
  PROVE  /\ at[f][1] \in Nat \ {0} /\ at[f][2] \in Nat /\ at[f] = <<at[f][1], at[f][2]>>
         /\ IsDrawing(f, at[f][1], at[f][2]) /\ ~ Past(f, at[f][1], at[f][2])
         /\ way = "dropped" => at[f] = <<1, 1>> /\ NextItem(f) = <<0, 0>> /\ NextMember(f, at[f][1]) = <<0, 0>>
<1>1. PICK m \in Nat, n \in Nat : IsDrawing(f, m, n) /\ at[f] = <<m, n>>
  BY DEF ImportsInv, UploadsFit, UploadFits
<1>2. m # 0
  BY <1>1, DrawingsAreNumbered DEF ImportsInv
<1>3. ~ Past(f, m, n)
  BY <1>1, <1>2 DEF Past, Before
<1>4. ASSUME way = "dropped"
      PROVE  at[f] = <<1, 1>> /\ NextItem(f) = <<0, 0>> /\ NextMember(f, at[f][1]) = <<0, 0>>
  <2>1. m = 1 /\ n = 1 /\ NextMember(f, 1) = <<0, 0>>
    BY <1>1, <1>4, DroppedIsOne DEF ImportsInv
  <2>2. Len(Member(f)) = 1
    BY <1>1, <1>4, <2>1 DEF ImportsInv, ImportTypes, Member
  <2> QED
    BY <1>1, <2>1, <2>2 DEF NextItem
<1> QED
  BY <1>1, <1>2, <1>3, <1>4

\* A file goes on after a drawing that landed, after nothing was in flight, or after its answer was lost.
LEMMA FileGoesOn ==
  ASSUME ImportsInv, NEW f \in Upload, NEW q, Spot(f, q), at' = [at EXCEPT ![f] = q],
         DOMAIN call' = Upload, call'[f] = NoRequest, \A g \in Upload \ {f} : call'[g] = call[g],
         UNCHANGED <<way, shape, index, made>>, mishaps'.lost => counts'.failed # 0,
         mishaps' = mishaps \/ (/\ DOMAIN mishaps' = DOMAIN mishaps /\ mishaps'.lost \in BOOLEAN
                                /\ mishaps'.crossed = mishaps.crossed /\ (mishaps.lost => mishaps'.lost)),
         \A m, n : IsDrawing(f, m, n) /\ Past(f, m, n) => Before(q, m, n),
         \A m, n : IsDrawing(f, m, n) /\ at[f] = <<m, n>> => Before(q, m, n),
         counts' \in [success : Nat, failed : Nat], DOMAIN tasks' = Upload, TasksFit',
         \/ /\ call[f].kind = "drawing" /\ call[f].stage = "served"
            /\ counts'.success = counts.success + 1 /\ counts'.failed = counts.failed
            /\ \A m, n : IsDrawing(f, m, n) /\ Before(q, m, n) => Past(f, m, n) \/ at[f] = <<m, n>>
         \/ /\ ~ (call[f].kind = "drawing" /\ call[f].stage = "served") /\ counts'.success = counts.success
            /\ \/ counts'.failed # 0
               \/ /\ counts'.failed = counts.failed
                  /\ \A m, n : IsDrawing(f, m, n) /\ Before(q, m, n) => Past(f, m, n)
         \/ mishaps'.lost /\ counts'.success = counts.success /\ counts'.failed # 0
  PROVE  ImportsInv'
<1> DEFINE F == {d \in made : d.file = f /\ InFlight(d)}
<1>1. UploadsFit' /\ MadeFits' /\ Landed' = Landed \cup F
  BY FilesMoveOn
<1>2. /\ IsFiniteSet(Landed) /\ Cardinality(Landed) \in Nat
      /\ ~ (call[f].kind = "drawing" /\ call[f].stage = "served") => F = {}
      /\ call[f].kind = "drawing" /\ call[f].stage = "served" => Cardinality(Landed \cup F) = Cardinality(Landed) + 1
  BY LandedCounts
<1> HIDE DEF F
<1>3. ImportTypes'
  <2>1. \A r : Entries(r)' = Entries(r) /\ index'[r] = index[r] /\ OneOfAName(Entries(r))' = OneOfAName(Entries(r))
    BY DEF Entries, OneOfAName
  <2>2. \A r \in DOMAIN index' : index'[r] = Unread \/ (index'[r] = <<Entries(r)>>' /\ OneOfAName(Entries(r))')
    BY <2>1 DEF ImportsInv, ImportTypes
  <2>3. DOMAIN at' = Upload /\ DOMAIN call' = Upload
    BY DEF ImportsInv, ImportTypes
  <2>4. DOMAIN mishaps' = {"n", "lost", "crossed"} /\ mishaps'.lost \in BOOLEAN
    BY DEF ImportsInv, ImportTypes
  <2> QED
    BY <2>2, <2>3, <2>4 DEF ImportsInv, ImportTypes
<1>4. /\ (mishaps.lost => mishaps'.lost) /\ counts.success \in Nat /\ counts.failed \in Nat
      /\ counts'.success \in Nat /\ counts'.failed \in Nat
  BY DEF ImportsInv, ImportTypes
<1>5. Cardinality(Landed') = Cardinality(Landed) \/ Cardinality(Landed') = Cardinality(Landed) + 1
  <2>1. F = {} => Landed \cup F = Landed
    OBVIOUS
  <2> QED
    BY <1>1, <1>2, <2>1
<1>6. /\ counts'.success <= Cardinality(Landed')
      /\ (~ mishaps'.lost => counts'.success = Cardinality(Landed'))
  <2>1. /\ counts.success <= Cardinality(Landed)
        /\ (~ mishaps.lost => counts.success = Cardinality(Landed))
    BY DEF ImportsInv, CountsFit
  <2>2. CASE call[f].kind = "drawing" /\ call[f].stage = "served" /\ counts'.success = counts.success + 1
    BY <1>1, <1>2, <1>4, <2>1, <2>2
  <2>3. CASE ~ (call[f].kind = "drawing" /\ call[f].stage = "served") /\ counts'.success = counts.success
    <3>1. Landed' = Landed
      BY <1>1, <1>2, <2>3
    <3> QED
      BY <1>2, <1>4, <2>1, <2>3, <3>1
  <2>4. CASE mishaps'.lost /\ counts'.success = counts.success
    BY <1>2, <1>4, <1>5, <2>1, <2>4
  <2> QED
    BY <2>2, <2>3, <2>4
<1>7. ASSUME counts'.failed = 0, NEW g \in Upload, NEW m \in Nat, NEW n \in Nat, IsDrawing(g, m, n)', Past(g, m, n)'
      PROVE  MadeAt(g, m, n)'
  <2>1. /\ counts.failed = 0
        /\ \A i, j : IsDrawing(f, i, j) /\ Before(q, i, j) =>
             Past(f, i, j) \/ (at[f] = <<i, j>> /\ call[f].kind = "drawing" /\ call[f].stage = "served")
    BY <1>7
  <2>2. IsDrawing(g, m, n) /\ MadeAt(g, m, n)' = MadeAt(g, m, n)
    BY <1>7 DEF IsDrawing, MadeAt
  <2>3. IsDrawing(g, m, n) /\ Past(g, m, n) => MadeAt(g, m, n)
    BY <2>1 DEF ImportsInv, CountsFit
  <2>4. CASE g # f
    <3>1. Past(g, m, n)
      BY <1>7, <2>4 DEF Past, ImportsInv, ImportTypes
    <3> QED
      BY <2>2, <2>3, <3>1
  <2>5. CASE g = f
    <3>1. Before(q, m, n)
      BY <1>7, <2>5 DEF Past, ImportsInv, ImportTypes
    <3>2. CASE at[f] = <<m, n>> /\ call[f].kind = "drawing" /\ call[f].stage = "served"
      <4>1. UploadFits(f) /\ call[f] # NoRequest
        BY <3>2 DEF ImportsInv, UploadsFit, NoRequest
      <4> QED
        BY <2>2, <2>5, <3>2, <4>1 DEF UploadFits
    <3> QED
      BY <2>1, <2>2, <2>3, <2>5, <3>1, <3>2
  <2> QED
    BY <2>4, <2>5
<1>8. CountsFit'
  BY <1>6, <1>7 DEF CountsFit
<1> QED
  BY <1>1, <1>3, <1>8 DEF ImportsInv

-----------------------------------------------------------------------------
(***************************************************************************)
(* A step of a request that neither serves nor ends a drawing.             *)
(***************************************************************************)
LEMMA RequestsGoOn ==
  ASSUME ImportsInv, NEW f \in Upload, UNCHANGED <<way, shape, at, made, counts>>, UploadFits(f)',
         DOMAIN call' = Upload, \A g \in Upload \ {f} : call'[g] = call[g],
         ~ (call[f].kind = "drawing" /\ call[f].stage = "served"),
         ~ (call'[f].kind = "drawing" /\ call'[f].stage = "served"),
         DOMAIN index' = Upload \cup {"shared"},
         \A r \in DOMAIN index :
           /\ index'[r] = Unread \/ (index'[r] = <<Entries(r)'>> /\ OneOfAName(Entries(r)'))
           /\ r \notin mishaps'.crossed => r \notin mishaps.crossed /\ Entries(r) \subseteq Entries(r)',
         DOMAIN mishaps' = {"n", "lost", "crossed"}, mishaps'.lost = mishaps.lost,
         DOMAIN tasks' = Upload, TasksFit'
  PROVE  ImportsInv'
<1>1. \A g \in Upload : Resolver(g)' = Resolver(g) /\ Resolver(g) \in DOMAIN index
  BY DEF Resolver, ImportsInv, ImportTypes
<1>2. \A g \in Upload : \A folder : FiledAt(Resolver(g), folder) => FiledAt(Resolver(g), folder)'
  BY <1>1 DEF FiledAt
<1>3. \A g : /\ \A m, n : IsDrawing(g, m, n)' = IsDrawing(g, m, n) /\ Past(g, m, n)' = Past(g, m, n)
             /\ \A m, n : MadeAt(g, m, n)' = MadeAt(g, m, n)
  BY DEF IsDrawing, Past, MadeAt
<1>4. UploadsFit'
  <2> SUFFICES ASSUME NEW g \in Upload, g # f PROVE UploadFits(g)'
    BY DEF UploadsFit
  <2>1. UploadFits(g) /\ at'[g] = at[g] /\ call'[g] = call[g]
    BY DEF ImportsInv, UploadsFit
  <2>2. FiledAt(Resolver(g), call[g].data) => FiledAt(Resolver(g), call[g].data)'
    <3> DEFINE r == Resolver(g)
    <3>1. r \in DOMAIN index /\ r' = r
      BY <1>1
    <3>2. r \notin mishaps'.crossed => r \notin mishaps.crossed /\ Entries(r) \subseteq Entries(r)'
      BY <3>1
    <3> HIDE DEF r
    <3>3. FiledAt(r, call[g].data) => FiledAt(r, call[g].data)'
      BY <2>1, <3>1, <3>2 DEF FiledAt, Entries
    <3> QED
      BY <3>3 DEF r
  <2>3. \A m, n : MadeAt(g, m, n) => MadeAt(g, m, n)'
    BY <1>3
  <2> QED
    BY <2>1, <2>2, <2>3, OthersStay
<1>5. \A d \in made : InFlight(d)' = InFlight(d)
  <2> SUFFICES ASSUME NEW d \in made PROVE InFlight(d)' = InFlight(d)
    OBVIOUS
  <2>1. d.file \in Upload
    BY DEF ImportsInv, MadeFits
  <2>2. CASE d.file = f
    BY <2>2 DEF InFlight
  <2>3. CASE d.file # f
    BY <2>1, <2>3 DEF InFlight
  <2> QED
    BY <2>2, <2>3
<1>6. MadeFits'
  <2>1. ASSUME NEW d \in made
        PROVE  /\ DOMAIN d = {"file", "member", "nth", "folder"}
               /\ d.file \in Upload /\ d.member \in Nat /\ d.nth \in Nat
               /\ IsDrawing(d.file, d.member, d.nth)'
               /\ Past(d.file, d.member, d.nth)' \/ InFlight(d)'
               /\ Filed(d.file, d.member, d.nth, d.folder)' /\ FiledAt(Resolver(d.file), d.folder)'
    <3>1. /\ DOMAIN d = {"file", "member", "nth", "folder"}
          /\ d.file \in Upload /\ d.member \in Nat /\ d.nth \in Nat
          /\ IsDrawing(d.file, d.member, d.nth)
          /\ Past(d.file, d.member, d.nth) \/ InFlight(d)
          /\ Filed(d.file, d.member, d.nth, d.folder) /\ FiledAt(Resolver(d.file), d.folder)
      BY DEF ImportsInv, MadeFits
    <3>2. Filed(d.file, d.member, d.nth, d.folder)' = Filed(d.file, d.member, d.nth, d.folder)
      BY DEF Filed, Names
    <3>3. FiledAt(Resolver(d.file), d.folder)'
      BY <1>2, <3>1
    <3> QED
      BY <1>3, <1>5, <3>1, <3>2, <3>3
  <2> QED
    BY <2>1 DEF ImportsInv, MadeFits
<1>7. Landed' = Landed
  BY <1>5 DEF Landed
<1>8. CountsFit'
  BY <1>3, <1>7 DEF ImportsInv, CountsFit
<1>9. ImportTypes'
  BY DEF ImportsInv, ImportTypes
<1> QED
  BY <1>4, <1>6, <1>8, <1>9 DEF ImportsInv

-----------------------------------------------------------------------------
(***************************************************************************)
(* What the steps do to the task of a file, and to the others.             *)
(***************************************************************************)
LEMMA TasksMove ==
  ASSUME ImportsInv, NEW f \in Upload, NEW status, Says(f, status), UNCHANGED <<way, made>>,
         \A g \in Upload \ {f} : at'[g] = at[g], mishaps.lost => mishaps'.lost,
         way = "dropped" =>
           \/ at'[f] # <<0, 0>> /\ status \in {"processing", "uploading"}
           \/ at'[f] = <<0, 0>> /\ status = "success" /\ MadeAt(f, 1, 1)
           \/ at'[f] = <<0, 0>> /\ status = "error" /\ (mishaps'.lost \/ ~ MadeAt(f, 1, 1))
  PROVE  DOMAIN tasks' = Upload /\ TasksFit'
<1>1. DOMAIN tasks = Upload
  BY DEF ImportsInv, ImportTypes
<1>2. DOMAIN tasks' = Upload
  BY <1>1 DEF Says
<1>3. ASSUME way = "dropped", NEW g \in Upload
      PROVE  /\ Done(g)' => tasks'[g] \in {"success", "error"}
             /\ ~ Done(g)' => tasks'[g] \notin {"success", "error"}
             /\ tasks'[g] = "success" => MadeAt(g, 1, 1)'
             /\ tasks'[g] = "error" => mishaps'.lost \/ ~ MadeAt(g, 1, 1)'
  <2>1. MadeAt(g, 1, 1)' = MadeAt(g, 1, 1)
    BY DEF MadeAt
  <2>2. CASE g = f
    <3>1. tasks'[f] = status
      BY <1>1, <1>3 DEF Says
    <3> QED
      BY <1>3, <2>1, <2>2, <3>1 DEF Done
  <2>3. CASE g # f
    <3>1. tasks'[g] = tasks[g] /\ at'[g] = at[g]
      BY <1>1, <1>3, <2>3 DEF Says
    <3> QED
      BY <1>3, <2>1, <3>1 DEF Done, ImportsInv, TasksFit
  <2> QED
    BY <2>2, <2>3
<1> QED
  BY <1>2, <1>3 DEF TasksFit

LEMMA FileBegins ==
  ASSUME ImportsInv, NEW f \in Upload, Begin(f)
  PROVE  ImportsInv'
<1> DEFINE empty == shape[f].members = <<>> \/ (~ shape[f].zip /\ shape[f].members[1] = <<>>)
           q == IF empty THEN <<0, 0>> ELSE NextMember(f, 0)
<1>1. /\ at[f] = <<0, 1>> /\ at' = [at EXCEPT ![f] = q]
      /\ counts' = IF empty THEN [counts EXCEPT !.failed = @ + 1] ELSE counts
      /\ Says(f, IF empty THEN "error" ELSE "processing")
      /\ UNCHANGED <<way, shape, call, index, made, mishaps>>
  BY DEF Begin, Server
<1>2. /\ ImportTypes /\ DOMAIN at = Upload /\ DOMAIN call = Upload
      /\ counts \in [success : Nat, failed : Nat]
  BY DEF ImportsInv, ImportTypes
<1>3. call[f] = NoRequest
  BY <1>1 DEF ImportsInv, UploadsFit, UploadFits
<1>4. Spot(f, q) /\ \A m, n : IsDrawing(f, m, n) => m \in Nat \ {0} /\ (~ empty => ~ Before(q, m, n))
  <2>1. Spot(f, NextMember(f, 0)) /\ \A m, n : IsDrawing(f, m, n) => (Before(NextMember(f, 0), m, n) <=> m <= 0)
    BY <1>2, MembersAdvance
  <2>2. \A m, n : IsDrawing(f, m, n) => m \in Nat \ {0}
    BY <1>2, DrawingsAreNumbered
  <2>3. Spot(f, <<0, 0>>)
    BY DEF Spot
  <2> HIDE DEF empty
  <2> QED
    BY <2>1, <2>2, <2>3
<1>5. \A m, n : IsDrawing(f, m, n) => ~ Past(f, m, n) /\ at[f] # <<m, n>> /\ (empty => Before(q, m, n))
  BY <1>1, <1>4 DEF Past, Before
<1>6. way = "dropped" => ~ empty /\ q = <<1, 1>>
  BY <1>2, DroppedIsOne
<1> HIDE DEF empty, q
<1>7. /\ counts' \in [success : Nat, failed : Nat] /\ counts'.success = counts.success
      /\ empty => counts'.failed # 0
      /\ ~ empty => counts'.failed = counts.failed
      /\ counts.failed # 0 => counts'.failed # 0
  BY <1>1, <1>2
<1>8. mishaps'.lost => counts'.failed # 0
  BY <1>1, <1>7 DEF ImportsInv, CountsFit
<1>9. DOMAIN tasks' = Upload /\ TasksFit'
  <2>1. at'[f] = q /\ \A g \in Upload \ {f} : at'[g] = at[g]
    BY <1>1, <1>2
  <2>2. mishaps.lost => mishaps'.lost
    BY <1>1
  <2> QED
    BY <1>1, <1>6, <2>1, <2>2, TasksMove
<1>10. ~ (call[f].kind = "drawing" /\ call[f].stage = "served")
  BY <1>3 DEF NoRequest
<1>11. DOMAIN call' = Upload /\ call'[f] = NoRequest /\ \A g \in Upload \ {f} : call'[g] = call[g]
  BY <1>1, <1>2, <1>3
<1>12. \A m, n : IsDrawing(f, m, n) /\ Past(f, m, n) => Before(q, m, n)
  BY <1>5
<1>13. \A m, n : IsDrawing(f, m, n) /\ at[f] = <<m, n>> => Before(q, m, n)
  BY <1>5
<1>14. \/ counts'.failed # 0
       \/ counts'.failed = counts.failed /\ \A m, n : IsDrawing(f, m, n) /\ Before(q, m, n) => Past(f, m, n)
  BY <1>4, <1>7
<1> QED
  BY <1>1, <1>4, <1>7, <1>8, <1>9, <1>10, <1>11, <1>12, <1>13, <1>14, FileGoesOn

LEMMA DrawingIsSkipped ==
  ASSUME ImportsInv, NEW f \in Upload, Skip(f)
  PROVE  ImportsInv'
<1> DEFINE q == NextItem(f)
           m == at[f][1]
           n == at[f][2]
<1>1. /\ at' = [at EXCEPT ![f] = q] /\ counts' = [counts EXCEPT !.failed = @ + 1]
      /\ Says(f, "error")
      /\ UNCHANGED <<way, shape, call, index, made, mishaps>>
      /\ at[f] # <<0, 0>> /\ at[f] # <<0, 1>> /\ call[f] = NoRequest
  BY DEF Skip, Server, Working, Done
<1>2. /\ ImportTypes /\ DOMAIN at = Upload /\ DOMAIN call = Upload
      /\ counts \in [success : Nat, failed : Nat]
  BY DEF ImportsInv, ImportTypes
<1>3. /\ m \in Nat /\ n \in Nat /\ at[f] = <<m, n>> /\ IsDrawing(f, m, n) /\ ~ Past(f, m, n)
      /\ way = "dropped" => at[f] = <<1, 1>> /\ q = <<0, 0>>
  BY <1>1, WorkedOn
<1> HIDE DEF m, n
<1>4. /\ Spot(f, q)
      /\ \A i, j : IsDrawing(f, i, j) => (Before(q, i, j) <=> Before(at[f], i, j) \/ (i = m /\ j = n))
  BY <1>2, <1>3, ItemsAdvance
<1> HIDE DEF q
<1>5. ~ (call[f].kind = "drawing" /\ call[f].stage = "served")
  BY <1>1 DEF NoRequest
<1>6. /\ counts' \in [success : Nat, failed : Nat] /\ counts'.success = counts.success
      /\ counts'.failed # 0
  BY <1>1, <1>2
<1>7. DOMAIN tasks' = Upload /\ TasksFit'
  <2>1. at'[f] = q /\ \A g \in Upload \ {f} : at'[g] = at[g]
    BY <1>1, <1>2
  <2>2. way = "dropped" => at'[f] = <<0, 0>> /\ ~ MadeAt(f, 1, 1)
    <3>1. ~ MadeAt(f, m, n)
      BY <1>3, <1>5, NoneIsMade
    <3>2. at[f] = <<1, 1>> => m = 1 /\ n = 1
      BY <1>3
    <3> QED
      BY <1>3, <2>1, <3>1, <3>2
  <2> QED
    BY <1>1, <2>1, <2>2, TasksMove
<1>8. DOMAIN call' = Upload /\ call'[f] = NoRequest /\ \A g \in Upload \ {f} : call'[g] = call[g]
  BY <1>1, <1>2
<1>9. \A i, j : IsDrawing(f, i, j) /\ Past(f, i, j) => Before(q, i, j)
  BY <1>4 DEF Past
<1>10. \A i, j : IsDrawing(f, i, j) /\ at[f] = <<i, j>> => Before(q, i, j)
  BY <1>3, <1>4
<1> QED
  BY <1>1, <1>4, <1>5, <1>6, <1>7, <1>8, <1>9, <1>10, FileGoesOn

LEMMA DrawingIsPosted ==
  ASSUME ImportsInv, NEW f \in Upload, DrawingPosted(f)
  PROVE  ImportsInv'
<1> DEFINE q == NextItem(f)
           m == at[f][1]
           n == at[f][2]
<1>1. /\ at' = [at EXCEPT ![f] = q] /\ counts' = [counts EXCEPT !.success = @ + 1]
      /\ Says(f, "success")
      /\ call' = [call EXCEPT ![f] = NoRequest] /\ UNCHANGED <<way, shape, index, made, mishaps>>
      /\ call[f].kind = "drawing" /\ call[f].stage = "served"
  BY DEF DrawingPosted, Server
<1>2. /\ ImportTypes /\ DOMAIN at = Upload /\ DOMAIN call = Upload
      /\ counts \in [success : Nat, failed : Nat]
  BY DEF ImportsInv, ImportTypes
<1>3. at[f] # <<0, 0>> /\ at[f] # <<0, 1>> /\ MadeAt(f, m, n)
  <2>1. UploadFits(f) /\ call[f] # NoRequest
    BY <1>1 DEF ImportsInv, UploadsFit, NoRequest
  <2> QED
    BY <1>1, <2>1 DEF UploadFits
<1>4. /\ m \in Nat /\ n \in Nat /\ at[f] = <<m, n>> /\ IsDrawing(f, m, n) /\ ~ Past(f, m, n)
      /\ way = "dropped" => at[f] = <<1, 1>> /\ q = <<0, 0>>
  BY <1>3, WorkedOn
<1> HIDE DEF m, n
<1>5. /\ Spot(f, q)
      /\ \A i, j : IsDrawing(f, i, j) => (Before(q, i, j) <=> Before(at[f], i, j) \/ (i = m /\ j = n))
  BY <1>2, <1>4, ItemsAdvance
<1> HIDE DEF q
<1>6. /\ counts' \in [success : Nat, failed : Nat] /\ counts'.success = counts.success + 1
      /\ counts'.failed = counts.failed
  BY <1>1, <1>2
<1>7. DOMAIN tasks' = Upload /\ TasksFit'
  <2>1. at'[f] = q /\ \A g \in Upload \ {f} : at'[g] = at[g]
    BY <1>1, <1>2
  <2>2. way = "dropped" => at'[f] = <<0, 0>> /\ MadeAt(f, 1, 1)
    <3>1. at[f] = <<1, 1>> => m = 1 /\ n = 1
      BY <1>4
    <3> QED
      BY <1>3, <1>4, <2>1, <3>1
  <2> QED
    BY <1>1, <2>1, <2>2, TasksMove
<1>8. DOMAIN call' = Upload /\ call'[f] = NoRequest /\ \A g \in Upload \ {f} : call'[g] = call[g]
  BY <1>1, <1>2
<1>9. \A i, j : IsDrawing(f, i, j) /\ Past(f, i, j) => Before(q, i, j)
  BY <1>5 DEF Past
<1>10. \A i, j : IsDrawing(f, i, j) /\ at[f] = <<i, j>> => Before(q, i, j)
  BY <1>4, <1>5
<1>11. \A i, j : IsDrawing(f, i, j) /\ Before(q, i, j) => Past(f, i, j) \/ at[f] = <<i, j>>
  BY <1>4, <1>5 DEF Past
<1>12. mishaps'.lost => counts'.failed # 0
  BY <1>1, <1>6 DEF ImportsInv, CountsFit
<1> QED
  BY <1>1, <1>5, <1>6, <1>7, <1>8, <1>9, <1>10, <1>11, <1>12, FileGoesOn

LEMMA ImportRequestFails ==
  ASSUME ImportsInv, NEW f \in Upload, RequestFails(f)
  PROVE  ImportsInv'
<1> DEFINE m == at[f][1]
           n == at[f][2]
           q == NextMember(f, m)
<1>1. /\ at' = [at EXCEPT ![f] = q] /\ counts' = [counts EXCEPT !.failed = @ + 1]
      /\ Says(f, "error")
      /\ call' = [call EXCEPT ![f] = NoRequest] /\ UNCHANGED <<way, shape, index, made>>
      /\ mishaps' = [mishaps EXCEPT !.n = @ + 1, !.lost = @ \/ call[f].stage = "served"]
      /\ call[f] # NoRequest
  BY DEF RequestFails, Server, CountFailure
<1>2. /\ ImportTypes /\ DOMAIN at = Upload /\ DOMAIN call = Upload
      /\ counts \in [success : Nat, failed : Nat]
      /\ DOMAIN mishaps = {"n", "lost", "crossed"} /\ mishaps.lost \in BOOLEAN
  BY DEF ImportsInv, ImportTypes
<1>3. at[f] # <<0, 0>> /\ at[f] # <<0, 1>>
  BY <1>1 DEF ImportsInv, UploadsFit, UploadFits
<1>4. /\ m \in Nat /\ n \in Nat /\ at[f] = <<m, n>> /\ IsDrawing(f, m, n) /\ ~ Past(f, m, n)
      /\ m # 0
      /\ way = "dropped" => at[f] = <<1, 1>> /\ q = <<0, 0>>
  BY <1>3, WorkedOn
<1> HIDE DEF m, n
<1>5. /\ Spot(f, q)
      /\ \A i, j : IsDrawing(f, i, j) => (Before(q, i, j) <=> i <= m) /\ i \in Nat /\ j \in Nat
  BY <1>2, <1>4, MembersAdvance, DrawingsAreNumbered
<1> HIDE DEF q
<1>6. /\ counts' \in [success : Nat, failed : Nat] /\ counts'.success = counts.success
      /\ counts'.failed # 0
  BY <1>1, <1>2
<1>7. /\ DOMAIN mishaps' = DOMAIN mishaps /\ mishaps'.crossed = mishaps.crossed
      /\ mishaps'.lost \in BOOLEAN
      /\ mishaps.lost => mishaps'.lost
      /\ call[f].stage = "served" => mishaps'.lost
  <2> DEFINE b == mishaps.lost \/ call[f].stage = "served"
  <2>1. mishaps' = [mishaps EXCEPT !.n = @ + 1, !.lost = b]
    BY <1>1, Zenon
  <2>2. b \in BOOLEAN /\ (mishaps.lost => b) /\ (call[f].stage = "served" => b)
    BY <1>2
  <2> HIDE DEF b
  <2> QED
    BY <1>2, <2>1, <2>2
<1>8. DOMAIN tasks' = Upload /\ TasksFit'
  <2>1. at'[f] = q /\ \A g \in Upload \ {f} : at'[g] = at[g]
    BY <1>1, <1>2
  <2>2. way = "dropped" => at'[f] = <<0, 0>> /\ (mishaps'.lost \/ ~ MadeAt(f, 1, 1))
    <3>1. ~ (call[f].kind = "drawing" /\ call[f].stage = "served") => ~ MadeAt(f, m, n)
      BY <1>4, NoneIsMade
    <3>2. at[f] = <<1, 1>> => m = 1 /\ n = 1
      BY <1>4
    <3> QED
      BY <1>4, <1>7, <2>1, <3>1, <3>2
  <2> QED
    BY <1>1, <1>7, <2>1, <2>2, TasksMove
<1>9. DOMAIN call' = Upload /\ call'[f] = NoRequest /\ \A g \in Upload \ {f} : call'[g] = call[g]
  BY <1>1, <1>2
<1>10. \A i, j : IsDrawing(f, i, j) /\ Past(f, i, j) => Before(q, i, j)
  BY <1>4, <1>5 DEF Past, Before
<1>11. \A i, j : IsDrawing(f, i, j) /\ at[f] = <<i, j>> => Before(q, i, j)
  BY <1>4, <1>5
<1> QED
  BY <1>1, <1>2, <1>5, <1>6, <1>7, <1>8, <1>9, <1>10, <1>11, FileGoesOn

-----------------------------------------------------------------------------
(***************************************************************************)
(* The requests of a file that is worked on, and their answers.            *)
(***************************************************************************)
LEMMA FileAsks ==
  ASSUME ImportsInv, NEW f \in Upload, ReadIndex(f) \/ CreateFolder(f) \/ PostDrawing(f)
  PROVE  ImportsInv'
<1>1. /\ at[f] # <<0, 0>> /\ at[f] # <<0, 1>> /\ call[f] = NoRequest /\ Item(f).ok /\ ~ Done(f)
      /\ UNCHANGED <<way, shape, at, index, made, counts, mishaps>>
  BY DEF ReadIndex, CreateFolder, PostDrawing, Requests, Working, Done, Server
<1>2. /\ DOMAIN call = Upload /\ DOMAIN tasks = Upload /\ DOMAIN index = Upload \cup {"shared"}
      /\ DOMAIN mishaps = {"n", "lost", "crossed"}
      /\ \A r \in DOMAIN index : index[r] = Unread \/ (index[r] = <<Entries(r)>> /\ OneOfAName(Entries(r)))
  BY DEF ImportsInv, ImportTypes
<1>3. PICK kind, body :
        /\ call' = [call EXCEPT ![f] = [kind |-> kind, stage |-> "sent", data |-> body]]
        /\ kind \in {"index", "folder", "drawing"}
        /\ kind # "drawing" => Name(f) # Unfiled
        /\ kind = "drawing" => body = In(f) /\ (Name(f) # Unfiled => Known(f) # {})
        /\ UNCHANGED tasks \/ Says(f, "uploading")
  <2>1. CASE ReadIndex(f)
    BY <2>1 DEF ReadIndex, Requests
  <2>2. CASE CreateFolder(f)
    BY <2>2 DEF CreateFolder, Requests
  <2>3. CASE PostDrawing(f)
    BY <2>3 DEF PostDrawing, Requests
  <2> QED
    BY <2>1, <2>2, <2>3
<1>4. /\ DOMAIN call' = Upload /\ \A g \in Upload \ {f} : call'[g] = call[g]
      /\ call'[f] = [kind |-> kind, stage |-> "sent", data |-> body]
  BY <1>2, <1>3
<1>5. PICK m \in Nat, n \in Nat : at[f] = <<m, n>> /\ IsDrawing(f, m, n)
  BY <1>1 DEF ImportsInv, UploadsFit, UploadFits
<1>6. Item(f)' = Item(f) /\ Name(f)' = Name(f) /\ Resolver(f)' = Resolver(f) /\ \A i, j : IsDrawing(f, i, j)' = IsDrawing(f, i, j)
  BY <1>1 DEF Item, Member, Name, Resolver, IsDrawing
<1>7. kind = "drawing" => Filed(f, at[f][1], at[f][2], body) /\ FiledAt(Resolver(f), body)
  <2> SUFFICES ASSUME kind = "drawing" PROVE Filed(f, at[f][1], at[f][2], body) /\ FiledAt(Resolver(f), body)
    OBVIOUS
  <2>1. Name(f) = IF way = "dropped" THEN Unfiled ELSE shape[f].members[at[f][1]][at[f][2]].name
    BY DEF Name, Item, Member
  <2>2. CASE Name(f) = Unfiled
    <3>1. body = {}
      BY <1>3, <2>2 DEF In
    <3> QED
      BY <2>1, <2>2, <3>1 DEF Filed, Names, FiledAt
  <2>3. CASE Name(f) # Unfiled
    <3>1. body = Known(f) /\ Known(f) # {}
      BY <1>3, <2>3 DEF In
    <3>2. Names(body) = {Name(f)} /\ body \subseteq Entries(Resolver(f))
      BY <3>1 DEF Known, Names
    <3> QED
      BY <2>1, <2>3, <3>2 DEF Filed, FiledAt
  <2> QED
    BY <2>2, <2>3
<1>8. \A r : Entries(r)' = Entries(r) /\ index'[r] = index[r]
  BY <1>1 DEF Entries
<1>9. UploadFits(f)'
  <2>1. kind = "drawing" => Filed(f, at[f][1], at[f][2], call[f].data)' /\ FiledAt(Resolver(f), call[f].data)'
    BY <1>1, <1>4, <1>6, <1>7, <1>8 DEF Filed, FiledAt, Names
  <2> QED
    BY <1>1, <1>3, <1>4, <1>5, <1>6, <2>1 DEF UploadFits
<1>10. DOMAIN tasks' = Upload /\ TasksFit'
  <2>1. CASE UNCHANGED tasks
    <3>1. \A g : MadeAt(g, 1, 1)' = MadeAt(g, 1, 1) /\ Done(g)' = Done(g)
      BY <1>1 DEF MadeAt, Done
    <3> QED
      BY <1>1, <1>2, <2>1, <3>1 DEF ImportsInv, TasksFit
  <2>2. CASE Says(f, "uploading")
    BY <1>1, <2>2, TasksMove
  <2> QED
    BY <1>3, <2>1, <2>2
<1>11. \A r \in DOMAIN index :
           /\ index'[r] = Unread \/ (index'[r] = <<Entries(r)'>> /\ OneOfAName(Entries(r)'))
           /\ r \notin mishaps'.crossed => r \notin mishaps.crossed /\ Entries(r) \subseteq Entries(r)'
  BY <1>1, <1>2, <1>8
<1>12. /\ ~ (call[f].kind = "drawing" /\ call[f].stage = "served")
       /\ ~ (call'[f].kind = "drawing" /\ call'[f].stage = "served")
  BY <1>1, <1>4 DEF NoRequest
<1>13. /\ DOMAIN index' = Upload \cup {"shared"} /\ DOMAIN mishaps' = {"n", "lost", "crossed"}
       /\ mishaps'.lost = mishaps.lost
  BY <1>1, <1>2
<1> QED
  BY <1>1, <1>4, <1>9, <1>10, <1>11, <1>12, <1>13, RequestsGoOn

\* What an index that is put in knows.
LEMMA IndexIsPut ==
  ASSUME ImportsInv, NEW r0 \in Upload \cup {"shared"}, NEW entries, OneOfAName(entries),
         index' = [index EXCEPT ![r0] = <<entries>>],
         \/ mishaps' = mishaps /\ Entries(r0) \subseteq entries
         \/ mishaps' = [mishaps EXCEPT !.crossed = @ \cup {r0}]
  PROVE  /\ DOMAIN index' = Upload \cup {"shared"} /\ Entries(r0)' = entries
         /\ DOMAIN mishaps' = {"n", "lost", "crossed"} /\ mishaps'.lost = mishaps.lost
         /\ \A r \in DOMAIN index :
              /\ index'[r] = Unread \/ (index'[r] = <<Entries(r)'>> /\ OneOfAName(Entries(r)'))
              /\ r \notin mishaps'.crossed => r \notin mishaps.crossed /\ Entries(r) \subseteq Entries(r)'
<1>1. /\ DOMAIN index = Upload \cup {"shared"} /\ DOMAIN mishaps = {"n", "lost", "crossed"}
      /\ \A r \in DOMAIN index : index[r] = Unread \/ (index[r] = <<Entries(r)>> /\ OneOfAName(Entries(r)))
  BY DEF ImportsInv, ImportTypes
<1>2. /\ DOMAIN index' = Upload \cup {"shared"} /\ index'[r0] = <<entries>>
      /\ \A r \in DOMAIN index : r # r0 => index'[r] = index[r]
  BY <1>1
<1>3. Entries(r0)' = entries
  <2>1. DOMAIN <<entries>> = {1} /\ <<entries>>[1] = entries
    OBVIOUS
  <2>2. UNION {<<entries>>[i] : i \in DOMAIN <<entries>>} = entries
    BY <2>1
  <2> QED
    BY <1>2, <2>2 DEF Entries
<1>4. \A r \in DOMAIN index : r # r0 => Entries(r)' = Entries(r)
  BY <1>2 DEF Entries
<1>5. /\ DOMAIN mishaps' = {"n", "lost", "crossed"} /\ mishaps'.lost = mishaps.lost
      /\ mishaps.crossed \subseteq mishaps'.crossed
      /\ Entries(r0) \subseteq entries \/ r0 \in mishaps'.crossed
  BY <1>1
<1>6. ASSUME NEW r \in DOMAIN index
      PROVE  /\ index'[r] = Unread \/ (index'[r] = <<Entries(r)'>> /\ OneOfAName(Entries(r)'))
             /\ r \notin mishaps'.crossed => r \notin mishaps.crossed /\ Entries(r) \subseteq Entries(r)'
  <2>1. CASE r = r0
    <3>1. Entries(r)' = entries
      BY <1>3, <2>1
    <3>2. index'[r] = <<Entries(r)'>> /\ OneOfAName(Entries(r)')
      BY <1>2, <2>1, <3>1 DEF OneOfAName
    <3> QED
      BY <1>5, <2>1, <3>1, <3>2
  <2>2. CASE r # r0
    <3>1. index'[r] = index[r] /\ Entries(r)' = Entries(r)
      BY <1>2, <1>4, <2>2
    <3>2. index[r] = Unread \/ (index[r] = <<Entries(r)>> /\ OneOfAName(Entries(r)))
      BY <1>1
    <3>3. index'[r] = Unread \/ (index'[r] = <<Entries(r)'>> /\ OneOfAName(Entries(r)'))
      BY <3>1, <3>2 DEF OneOfAName
    <3> QED
      BY <1>5, <3>1, <3>3
  <2> QED
    BY <2>1, <2>2
<1> QED
  BY <1>2, <1>3, <1>5, <1>6

LEMMA IndexIsRead ==
  ASSUME ImportsInv, NEW f \in Upload, IndexArrives(f)
  PROVE  ImportsInv'
<1> DEFINE r0 == Resolver(f)
<1>1. PICK entries \in SUBSET call[f].data :
        /\ \A d, e \in entries : d.name = e.name => d = e
        /\ index' = [index EXCEPT ![r0] = <<entries>>]
  BY DEF IndexArrives
<1>2. /\ call[f].kind = "index" /\ call' = [call EXCEPT ![f] = NoRequest]
      /\ UNCHANGED <<way, shape, at, made, counts, tasks>>
      /\ mishaps' = IF index[r0] = Unread THEN mishaps ELSE [mishaps EXCEPT !.crossed = @ \cup {r0}]
  BY DEF IndexArrives, Server
<1>3. r0 \in Upload \cup {"shared"}
  BY DEF Resolver
<1> HIDE DEF r0
<1>4. OneOfAName(entries)
  BY <1>1 DEF OneOfAName
<1>5. index[r0] = Unread => Entries(r0) = {}
  BY DEF Entries, Unread
<1>6. /\ DOMAIN index' = Upload \cup {"shared"}
      /\ DOMAIN mishaps' = {"n", "lost", "crossed"} /\ mishaps'.lost = mishaps.lost
      /\ \A r \in DOMAIN index :
           /\ index'[r] = Unread \/ (index'[r] = <<Entries(r)'>> /\ OneOfAName(Entries(r)'))
           /\ r \notin mishaps'.crossed => r \notin mishaps.crossed /\ Entries(r) \subseteq Entries(r)'
  <2>1. \/ mishaps' = mishaps /\ Entries(r0) \subseteq entries
        \/ mishaps' = [mishaps EXCEPT !.crossed = @ \cup {r0}]
    BY <1>2, <1>5
  <2> QED
    BY <1>1, <1>3, <1>4, <2>1, IndexIsPut
<1>7. DOMAIN call = Upload /\ DOMAIN tasks = Upload
  BY DEF ImportsInv, ImportTypes
<1>8. DOMAIN call' = Upload /\ call'[f] = NoRequest /\ \A g \in Upload \ {f} : call'[g] = call[g]
  BY <1>2, <1>7
<1>9. UploadFits(f)'
  <2>1. \A i, j : IsDrawing(f, i, j)' = IsDrawing(f, i, j)
    BY <1>2 DEF IsDrawing
  <2> QED
    BY <1>2, <1>8, <2>1 DEF ImportsInv, UploadsFit, UploadFits
<1>10. TasksFit'
  <2>1. \A g : MadeAt(g, 1, 1)' = MadeAt(g, 1, 1) /\ Done(g)' = Done(g)
    BY <1>2 DEF MadeAt, Done
  <2> QED
    BY <1>2, <1>6, <2>1 DEF ImportsInv, TasksFit
<1>11. ~ (call'[f].kind = "drawing" /\ call'[f].stage = "served")
  BY <1>8 DEF NoRequest
<1> QED
  BY <1>2, <1>6, <1>7, <1>8, <1>9, <1>10, <1>11, RequestsGoOn

LEMMA FolderIsRemembered ==
  ASSUME ImportsInv, NEW f \in Upload, FolderCreated(f)
  PROVE  ImportsInv'
<1> DEFINE r0 == Resolver(f)
           entries == RememberFolder(f)
<1>1. /\ call[f].kind = "folder" /\ call[f].stage = "served"
      /\ call' = [call EXCEPT ![f] = [kind |-> "drawing", stage |-> "sent", data |-> {FolderOf(f)}]]
      /\ UNCHANGED <<way, shape, at, made, counts, tasks>>
      /\ index' = [index EXCEPT ![r0] = <<entries>>]
      /\ mishaps' = IF Known(f) = {} THEN mishaps ELSE [mishaps EXCEPT !.crossed = @ \cup {r0}]
  BY DEF FolderCreated, Server
<1>2. /\ r0 \in Upload \cup {"shared"} /\ OneOfAName(Entries(r0))
      /\ FolderOf(f).name = Name(f) /\ FolderOf(f) \in entries
      /\ entries = {e \in Entries(r0) : e.name # Name(f)} \cup {FolderOf(f)}
      /\ Known(f) = {e \in Entries(r0) : e.name = Name(f)}
  <2>1. r0 \in DOMAIN index /\ (index[r0] = Unread \/ OneOfAName(Entries(r0)))
    BY DEF ImportsInv, ImportTypes, Resolver
  <2>2. index[r0] = Unread => Entries(r0) = {}
    BY DEF Entries, Unread
  <2>3. OneOfAName(Entries(r0)) /\ r0 \in Upload \cup {"shared"}
    BY <2>1, <2>2 DEF OneOfAName, Resolver
  <2>4. FolderOf(f).name = Name(f)
    BY DEF FolderOf
  <2> QED
    BY <2>3, <2>4 DEF RememberFolder, Known
<1>13. r0' = r0
  BY <1>1 DEF Resolver
<1> HIDE DEF entries, r0
<1>3. OneOfAName(entries)
  BY <1>2 DEF OneOfAName
<1>4. Known(f) = {} => Entries(r0) \subseteq entries
  BY <1>2
<1>5. /\ DOMAIN index' = Upload \cup {"shared"} /\ Entries(r0)' = entries
      /\ DOMAIN mishaps' = {"n", "lost", "crossed"} /\ mishaps'.lost = mishaps.lost
      /\ \A r \in DOMAIN index :
           /\ index'[r] = Unread \/ (index'[r] = <<Entries(r)'>> /\ OneOfAName(Entries(r)'))
           /\ r \notin mishaps'.crossed => r \notin mishaps.crossed /\ Entries(r) \subseteq Entries(r)'
  <2>1. \/ mishaps' = mishaps /\ Entries(r0) \subseteq entries
        \/ mishaps' = [mishaps EXCEPT !.crossed = @ \cup {r0}]
    BY <1>1, <1>4
  <2> QED
    BY <1>1, <1>2, <1>3, <1>13, <2>1, IndexIsPut
<1>6. DOMAIN call = Upload /\ DOMAIN tasks = Upload
  BY DEF ImportsInv, ImportTypes
<1>7. /\ DOMAIN call' = Upload /\ \A g \in Upload \ {f} : call'[g] = call[g]
      /\ call'[f] = [kind |-> "drawing", stage |-> "sent", data |-> {FolderOf(f)}]
  BY <1>1, <1>6
<1>8. /\ at[f] \notin {<<0, 0>>, <<0, 1>>} /\ Item(f).ok /\ Name(f) # Unfiled
      /\ \E m, n \in Nat : IsDrawing(f, m, n) /\ at[f] = <<m, n>>
  BY <1>1 DEF ImportsInv, UploadsFit, UploadFits, NoRequest
<1>9. UploadFits(f)'
  <2>1. /\ Item(f)' = Item(f) /\ Name(f)' = Name(f) /\ Resolver(f)' = Resolver(f)
        /\ \A i, j : IsDrawing(f, i, j)' = IsDrawing(f, i, j)
    BY <1>1 DEF Item, Member, Name, Resolver, IsDrawing
  <2>2. Filed(f, at[f][1], at[f][2], {FolderOf(f)})
    <3>1. Names({FolderOf(f)}) = {Name(f)}
      BY <1>2 DEF Names
    <3>2. way # "dropped" /\ Name(f) = shape[f].members[at[f][1]][at[f][2]].name
      BY <1>8 DEF Name, Item, Member
    <3> QED
      BY <1>8, <3>1, <3>2 DEF Filed
  <2>3. Filed(f, at[f][1], at[f][2], call[f].data)'
    <3>1. call'[f].data = {FolderOf(f)}
      BY <1>7
    <3> QED
      BY <1>1, <2>2, <3>1 DEF Filed, Names
  <2>4. FiledAt(Resolver(f), call[f].data)'
    <3>1. call'[f].data = {FolderOf(f)} /\ Resolver(f)' = r0
      BY <1>7, <2>1 DEF r0
    <3> QED
      BY <1>2, <1>5, <1>13, <3>1 DEF FiledAt, Entries
  <2> QED
    BY <1>1, <1>7, <1>8, <2>1, <2>3, <2>4 DEF UploadFits
<1>10. TasksFit'
  <2>1. \A g : MadeAt(g, 1, 1)' = MadeAt(g, 1, 1) /\ Done(g)' = Done(g)
    BY <1>1 DEF MadeAt, Done
  <2> QED
    BY <1>1, <1>5, <2>1 DEF ImportsInv, TasksFit
<1>11. ~ (call'[f].kind = "drawing" /\ call'[f].stage = "served")
  BY <1>7
<1>12. ~ (call[f].kind = "drawing" /\ call[f].stage = "served")
  BY <1>1
<1> QED
  BY <1>1, <1>5, <1>6, <1>7, <1>9, <1>10, <1>11, <1>12, RequestsGoOn

\* Requests that make no drawing.
LEMMA OtherIsServed ==
  ASSUME ImportsInv, NEW f \in Upload, ServeImport(f), call[f].kind # "drawing"
  PROVE  ImportsInv'
<1> DEFINE data == IF call[f].kind = "index" THEN folders ELSE call[f].data
<1>1. /\ call[f].stage = "sent" /\ UNCHANGED <<way, shape, at, made, index, counts, tasks, mishaps>>
      /\ call' = [call EXCEPT ![f].stage = "served", ![f].data = IF call[f].kind = "index" THEN folders ELSE @]
  BY DEF ServeImport
<1>2. /\ DOMAIN call = Upload /\ DOMAIN tasks = Upload /\ DOMAIN index = Upload \cup {"shared"}
      /\ DOMAIN mishaps = {"n", "lost", "crossed"}
      /\ \A r \in DOMAIN index : index[r] = Unread \/ (index[r] = <<Entries(r)>> /\ OneOfAName(Entries(r)))
  BY DEF ImportsInv, ImportTypes
<1>3. UploadFits(f) /\ call[f] # NoRequest
  BY <1>1 DEF ImportsInv, UploadsFit, NoRequest
<1>4. /\ DOMAIN call[f] = {"kind", "stage", "data"} /\ call[f].kind \in {"index", "folder"}
      /\ Name(f) # Unfiled
  BY <1>3 DEF UploadFits
<1>5. /\ DOMAIN call' = Upload /\ \A g \in Upload \ {f} : call'[g] = call[g]
      /\ DOMAIN call'[f] = {"kind", "stage", "data"} /\ call'[f].kind = call[f].kind
      /\ call'[f].stage = "served"
  <2>1. call' = [call EXCEPT ![f] = [call[f] EXCEPT !.stage = "served", !.data = data]]
    BY <1>1, <1>2, <1>4
  <2> HIDE DEF data
  <2> QED
    BY <1>2, <1>4, <2>1
<1>6. UploadFits(f)'
  <2>1. Item(f)' = Item(f) /\ Name(f)' = Name(f) /\ \A i, j : IsDrawing(f, i, j)' = IsDrawing(f, i, j)
    BY <1>1 DEF Item, Member, Name, IsDrawing
  <2>2. \/ at[f] \in {<<0, 0>>, <<0, 1>>} \/ \E m, n \in Nat : IsDrawing(f, m, n) /\ at[f] = <<m, n>>
    BY <1>3 DEF UploadFits
  <2>3. at[f] \notin {<<0, 0>>, <<0, 1>>} /\ Item(f).ok
    BY <1>3 DEF UploadFits
  <2> QED
    BY <1>1, <1>4, <1>5, <2>1, <2>2, <2>3 DEF UploadFits
<1>7. TasksFit'
  <2>1. \A g : MadeAt(g, 1, 1)' = MadeAt(g, 1, 1) /\ Done(g)' = Done(g)
    BY <1>1 DEF MadeAt, Done
  <2> QED
    BY <1>1, <2>1 DEF ImportsInv, TasksFit
<1>8. \A r \in DOMAIN index :
        /\ index'[r] = Unread \/ (index'[r] = <<Entries(r)'>> /\ OneOfAName(Entries(r)'))
        /\ r \notin mishaps'.crossed => r \notin mishaps.crossed /\ Entries(r) \subseteq Entries(r)'
  <2>1. \A r : Entries(r)' = Entries(r) /\ index'[r] = index[r]
    BY <1>1 DEF Entries
  <2> QED
    BY <1>1, <1>2, <2>1
<1>9. /\ DOMAIN tasks' = Upload /\ DOMAIN index' = Upload \cup {"shared"}
      /\ DOMAIN mishaps' = {"n", "lost", "crossed"} /\ mishaps'.lost = mishaps.lost
      /\ ~ (call[f].kind = "drawing" /\ call[f].stage = "served")
      /\ ~ (call'[f].kind = "drawing" /\ call'[f].stage = "served")
  BY <1>1, <1>2, <1>4, <1>5
<1> QED
  BY <1>1, <1>5, <1>6, <1>7, <1>8, <1>9, RequestsGoOn

\* A drawing that is made was not made before, and is in flight from then.
LEMMA DrawingIsServed ==
  ASSUME ImportsInv, NEW f \in Upload, ServeImport(f), call[f].kind = "drawing"
  PROVE  ImportsInv'
<1>1. /\ call[f].stage = "sent" /\ UNCHANGED <<way, shape, at, index, counts, tasks, mishaps>>
      /\ made' = made \cup {DrawingOf(f, call[f].data)}
      /\ call' = [call EXCEPT ![f].stage = "served", ![f].data = IF call[f].kind = "index" THEN folders ELSE @]
  BY DEF ServeImport
<1>2. DOMAIN call = Upload /\ IsFiniteSet(made)
  BY DEF ImportsInv, ImportTypes
<1>3. UploadFits(f) /\ call[f] # NoRequest
  BY <1>1 DEF ImportsInv, UploadsFit, NoRequest
<1>4. /\ DOMAIN call[f] = {"kind", "stage", "data"} /\ at[f] # <<0, 0>> /\ at[f] # <<0, 1>>
      /\ Item(f).ok
      /\ Filed(f, at[f][1], at[f][2], call[f].data) /\ FiledAt(Resolver(f), call[f].data)
  BY <1>3 DEF UploadFits
<1>5. PICK m \in Nat \ {0}, n \in Nat :
        at[f] = <<m, n>> /\ at[f][1] = m /\ at[f][2] = n /\ IsDrawing(f, m, n) /\ ~ Past(f, m, n)
  BY <1>4, WorkedOn
<1>6. ~ MadeAt(f, m, n)
  BY <1>1, <1>5, NoneIsMade
<1>7. PICK dd :
      /\ dd = DrawingOf(f, call[f].data) /\ made' = made \cup {dd}
      /\ dd = [file |-> f, member |-> m, nth |-> n, folder |-> call[f].data]
      /\ dd.file = f /\ dd.member = m /\ dd.nth = n /\ dd.folder = call[f].data
      /\ DOMAIN dd = {"file", "member", "nth", "folder"}
  <2> DEFINE x == [file |-> f, member |-> m, nth |-> n, folder |-> call[f].data]
  <2>1. x = DrawingOf(f, call[f].data)
    BY <1>5 DEF DrawingOf
  <2>2. /\ x.file = f /\ x.member = m /\ x.nth = n /\ x.folder = call[f].data
        /\ DOMAIN x = {"file", "member", "nth", "folder"}
    OBVIOUS
  <2> QED
    BY <1>1, <2>1, <2>2
<1>8. /\ DOMAIN call' = Upload /\ \A g \in Upload \ {f} : call'[g] = call[g]
      /\ DOMAIN call'[f] = {"kind", "stage", "data"}
      /\ call'[f].kind = "drawing" /\ call'[f].stage = "served" /\ call'[f].data = call[f].data
  <2>1. call' = [call EXCEPT ![f] = [call[f] EXCEPT !.stage = "served", !.data = call[f].data]]
    BY <1>1, <1>2, <1>4
  <2> QED
    BY <1>2, <1>4, <2>1
<1>9. /\ \A g, i, j : IsDrawing(g, i, j)' = IsDrawing(g, i, j) /\ Past(g, i, j)' = Past(g, i, j)
      /\ \A g, i, j, folder : Filed(g, i, j, folder)' = Filed(g, i, j, folder)
      /\ \A g, folder : FiledAt(Resolver(g), folder)' = FiledAt(Resolver(g), folder)
      /\ \A g : Item(g)' = Item(g) /\ Name(g)' = Name(g) /\ Done(g)' = Done(g)
  BY <1>1 DEF IsDrawing, Past, Filed, Names, FiledAt, Resolver, Entries, Item, Member, Name, Done
<1>10. /\ \A g, i, j : MadeAt(g, i, j) => MadeAt(g, i, j)'
       /\ \A g, i, j : MadeAt(g, i, j)' => MadeAt(g, i, j) \/ g = f
       /\ MadeAt(f, m, n)'
  BY <1>7 DEF MadeAt
<1>11. UploadsFit'
  <2> SUFFICES ASSUME NEW g \in Upload PROVE UploadFits(g)'
    BY DEF UploadsFit
  <2>1. CASE g = f
    <3>1. at'[f] = at[f] /\ at[f][1] = m /\ at[f][2] = n
      BY <1>1, <1>5
    <3>2. Filed(f, at[f][1], at[f][2], call[f].data)' /\ FiledAt(Resolver(f), call[f].data)'
      BY <1>1, <1>4, <1>8, <3>1 DEF Filed, Names, FiledAt, Resolver, Entries
    <3>3. MadeAt(f, at[f][1], at[f][2])'
      BY <1>10, <3>1 DEF MadeAt
    <3> QED
      BY <1>4, <1>5, <1>8, <1>9, <2>1, <3>1, <3>2, <3>3 DEF UploadFits
  <2>2. CASE g # f
    <3>1. UploadFits(g) /\ at'[g] = at[g] /\ call'[g] = call[g]
      BY <1>1, <1>8, <2>2 DEF ImportsInv, UploadsFit
    <3>2. FiledAt(Resolver(g), call[g].data) => FiledAt(Resolver(g), call[g].data)'
      BY <1>1, <3>1 DEF FiledAt, Resolver, Entries
    <3>3. \A i, j : MadeAt(g, i, j) => MadeAt(g, i, j)'
      BY <1>10
    <3> QED
      BY <1>1, <3>1, <3>2, <3>3, OthersStay
  <2> QED
    BY <2>1, <2>2
<1>12. \A d \in made : InFlight(d)' = InFlight(d)
  <2> SUFFICES ASSUME NEW d \in made PROVE InFlight(d)' = InFlight(d)
    OBVIOUS
  <2>1. /\ d.file \in Upload /\ d.member \in Nat /\ d.nth \in Nat
        /\ Past(d.file, d.member, d.nth) \/ InFlight(d)
    BY DEF ImportsInv, MadeFits
  <2>2. CASE d.file = f
    <3>1. ~ InFlight(d) /\ Past(f, d.member, d.nth)
      BY <1>1, <2>1, <2>2 DEF InFlight
    <3>2. at[f] # <<d.member, d.nth>>
      BY <1>5, <3>1
    <3> QED
      BY <1>1, <2>2, <3>1, <3>2 DEF InFlight
  <2>3. CASE d.file # f
    BY <1>1, <1>8, <2>1, <2>3 DEF InFlight
  <2> QED
    BY <2>2, <2>3
<1>13. InFlight(dd)'
  BY <1>1, <1>5, <1>7, <1>8 DEF InFlight
<1>14. Landed' = Landed
  BY <1>7, <1>12, <1>13 DEF Landed
<1>15. MadeFits'
  <2>1. ASSUME NEW d \in made'
        PROVE  /\ DOMAIN d = {"file", "member", "nth", "folder"}
               /\ d.file \in Upload /\ d.member \in Nat /\ d.nth \in Nat
               /\ IsDrawing(d.file, d.member, d.nth)'
               /\ Past(d.file, d.member, d.nth)' \/ InFlight(d)'
               /\ Filed(d.file, d.member, d.nth, d.folder)' /\ FiledAt(Resolver(d.file), d.folder)'
    <3>1. CASE d \in made
      BY <1>9, <1>12, <3>1 DEF ImportsInv, MadeFits
    <3>2. CASE d = dd
      BY <1>4, <1>5, <1>7, <1>9, <1>13, <3>2
    <3> QED
      BY <1>7, <2>1, <3>1, <3>2
  <2>2. ASSUME NEW d \in made', NEW e \in made', d.file = e.file, d.member = e.member, d.nth = e.nth
        PROVE  d = e
    <3>1. \A x \in made : ~ (x.file = f /\ x.member = m /\ x.nth = n)
      BY <1>6, <1>5 DEF MadeAt
    <3> QED
      BY <1>7, <2>2, <3>1 DEF ImportsInv, MadeFits
  <2> QED
    BY <2>1, <2>2 DEF MadeFits
<1>16. CountsFit'
  <2>1. counts' = counts /\ mishaps' = mishaps
    BY <1>1
  <2> QED
    BY <1>9, <1>10, <1>14, <2>1 DEF ImportsInv, CountsFit
<1>17. TasksFit'
  <2> SUFFICES ASSUME way = "dropped", NEW g \in Upload
               PROVE  /\ Done(g) => tasks[g] \in {"success", "error"}
                      /\ ~ Done(g) => tasks[g] \notin {"success", "error"}
                      /\ tasks[g] = "success" => MadeAt(g, 1, 1)'
                      /\ tasks[g] = "error" => mishaps.lost \/ ~ MadeAt(g, 1, 1)'
    BY <1>1, <1>9 DEF TasksFit
  <2>1. /\ Done(g) => tasks[g] \in {"success", "error"}
        /\ ~ Done(g) => tasks[g] \notin {"success", "error"}
        /\ tasks[g] = "success" => MadeAt(g, 1, 1)
        /\ tasks[g] = "error" => mishaps.lost \/ ~ MadeAt(g, 1, 1)
    BY DEF ImportsInv, TasksFit
  <2>2. ~ Done(f)
    BY <1>4 DEF Done
  <2> QED
    BY <1>10, <2>1, <2>2
<1>18. ImportTypes'
  <2>1. IsFiniteSet(made')
    BY <1>2, <1>7, FS_AddElement
  <2>2. \A r : Entries(r)' = Entries(r) /\ index'[r] = index[r] /\ OneOfAName(Entries(r))' = OneOfAName(Entries(r))
    BY <1>1 DEF Entries, OneOfAName
  <2>3. \A r \in DOMAIN index' : index'[r] = Unread \/ (index'[r] = <<Entries(r)>>' /\ OneOfAName(Entries(r))')
    BY <1>1, <2>2 DEF ImportsInv, ImportTypes
  <2> QED
    BY <1>1, <1>8, <2>1, <2>3 DEF ImportsInv, ImportTypes
<1> QED
  BY <1>11, <1>15, <1>16, <1>17, <1>18 DEF ImportsInv

-----------------------------------------------------------------------------
LEMMA ImportsBegin == ImportsInit => ImportsInv
<1> SUFFICES ASSUME ImportsInit PROVE ImportsInv
  OBVIOUS
<1>1. /\ \A f \in Upload : at[f] = <<0, 1>> /\ call[f] = NoRequest /\ tasks[f] = "pending"
      /\ \A r \in DOMAIN index : index[r] = Unread
      /\ made = {} /\ counts = [success |-> 0, failed |-> 0]
      /\ mishaps = [n |-> 0, lost |-> FALSE, crossed |-> {}]
  BY DEF ImportsInit
<1>2. ImportTypes
  BY <1>1, FS_EmptySet DEF ImportTypes, ImportsInit
<1>3. UploadsFit
  BY <1>1 DEF UploadsFit, UploadFits
<1>4. MadeFits
  BY <1>1 DEF MadeFits
<1>5. CountsFit
  <2>1. Landed = {} /\ Cardinality(Landed) = 0
    BY <1>1, FS_EmptySet DEF Landed
  <2>2. \A f \in Upload : \A m, n \in Nat : IsDrawing(f, m, n) => ~ Past(f, m, n)
    <3>1. \A f \in Upload : \A m, n \in Nat : IsDrawing(f, m, n) => m # 0
      BY <1>2, DrawingsAreNumbered
    <3> QED
      BY <1>1, <3>1 DEF Past, Before
  <2> QED
    BY <1>1, <2>1, <2>2 DEF CountsFit
<1>6. TasksFit
  BY <1>1 DEF TasksFit, Done
<1> QED
  BY <1>2, <1>3, <1>4, <1>5, <1>6 DEF ImportsInv

LEMMA ImportsStep == ImportsInv /\ [ImportsNext]_imports => ImportsInv'
<1> SUFFICES ASSUME ImportsInv, [ImportsNext]_imports PROVE ImportsInv'
  OBVIOUS
<1>1. ASSUME NEW f \in Upload, Begin(f)
      PROVE  ImportsInv'
  BY <1>1, FileBegins
<1>2. ASSUME NEW f \in Upload, Skip(f)
      PROVE  ImportsInv'
  BY <1>2, DrawingIsSkipped
<1>3. ASSUME NEW f \in Upload, ReadIndex(f) \/ CreateFolder(f) \/ PostDrawing(f)
      PROVE  ImportsInv'
  BY <1>3, FileAsks
<1>4. ASSUME NEW f \in Upload, ServeImport(f)
      PROVE  ImportsInv'
  BY <1>4, OtherIsServed, DrawingIsServed
<1>5. ASSUME NEW f \in Upload, IndexArrives(f)
      PROVE  ImportsInv'
  BY <1>5, IndexIsRead
<1>6. ASSUME NEW f \in Upload, FolderCreated(f)
      PROVE  ImportsInv'
  BY <1>6, FolderIsRemembered
<1>7. ASSUME NEW f \in Upload, DrawingPosted(f)
      PROVE  ImportsInv'
  BY <1>7, DrawingIsPosted
<1>8. ASSUME NEW f \in Upload, RequestFails(f)
      PROVE  ImportsInv'
  BY <1>8, ImportRequestFails
<1>9. ASSUME UNCHANGED imports
      PROVE  ImportsInv'
  <2>1. /\ UNCHANGED <<way, shape, at, call, index, made, counts, tasks, mishaps>>
        /\ \A r : Entries(r)' = Entries(r)
    BY <1>9 DEF imports, Entries
  <2>2. ImportTypes'
    BY <2>1 DEF ImportsInv, ImportTypes, OneOfAName
  <2>3. UploadsFit'
    <3> SUFFICES ASSUME NEW f \in Upload PROVE UploadFits(f)'
      BY DEF UploadsFit
    <3>1. FiledAt(Resolver(f), call[f].data) => FiledAt(Resolver(f), call[f].data)'
      BY <2>1 DEF FiledAt, Resolver, Entries
    <3>2. \A m, n : MadeAt(f, m, n) => MadeAt(f, m, n)'
      BY <2>1 DEF MadeAt
    <3> QED
      BY <2>1, <3>1, <3>2, OthersStay DEF ImportsInv, UploadsFit
  <2>4. MadeFits'
    <3>1. \A d : FiledAt(Resolver(d.file), d.folder)' = FiledAt(Resolver(d.file), d.folder)
      BY <2>1 DEF FiledAt, Resolver, Entries
    <3>2. \A d : /\ IsDrawing(d.file, d.member, d.nth)' = IsDrawing(d.file, d.member, d.nth)
                 /\ Past(d.file, d.member, d.nth)' = Past(d.file, d.member, d.nth)
                 /\ InFlight(d)' = InFlight(d)
                 /\ Filed(d.file, d.member, d.nth, d.folder)' = Filed(d.file, d.member, d.nth, d.folder)
      BY <2>1 DEF IsDrawing, Past, InFlight, Filed
    <3> QED
      BY <2>1, <3>1, <3>2 DEF ImportsInv, MadeFits
  <2>5. CountsFit'
    <3>1. /\ \A f, m, n : IsDrawing(f, m, n)' = IsDrawing(f, m, n) /\ Past(f, m, n)' = Past(f, m, n)
          /\ \A f, m, n : MadeAt(f, m, n)' = MadeAt(f, m, n)
          /\ Landed' = Landed
      BY <2>1 DEF IsDrawing, Past, MadeAt, Landed, InFlight
    <3> QED
      BY <2>1, <3>1 DEF ImportsInv, CountsFit
  <2>6. TasksFit'
    <3>1. \A f : MadeAt(f, 1, 1)' = MadeAt(f, 1, 1) /\ Done(f)' = Done(f)
      BY <2>1 DEF MadeAt, Done
    <3> QED
      BY <2>1, <3>1 DEF ImportsInv, TasksFit
  <2> QED
    BY <2>2, <2>3, <2>4, <2>5, <2>6 DEF ImportsInv
<1> QED
  BY <1>1, <1>2, <1>3, <1>4, <1>5, <1>6, <1>7, <1>8, <1>9 DEF ImportsNext

\* Each drawing that is made counts once.
LEMMA MadeAreThere ==
  ASSUME ImportsInv
  PROVE  Cardinality(There) = Cardinality(made)
<1> DEFINE tag == [d \in made |-> [file |-> d.file, member |-> d.member, nth |-> d.nth]]
<1>1. IsFiniteSet(made) /\ \A d, e \in made : d.file = e.file /\ d.member = e.member /\ d.nth = e.nth => d = e
  BY DEF ImportsInv, ImportTypes, MadeFits
<1>2. \A d, e \in made : tag[d] = tag[e] => d = e
  <2>1. \A d \in made : tag[d].file = d.file /\ tag[d].member = d.member /\ tag[d].nth = d.nth
    OBVIOUS
  <2> HIDE DEF tag
  <2> QED
    BY <1>1, <2>1
<1>3. tag \in [made -> There] /\ \A t \in There : \E d \in made : tag[d] = t
  BY DEF There
<1> HIDE DEF tag
<1>4. tag \in Bijection(made, There)
  BY <1>2, <1>3 DEF Bijection, Injection, Surjection, IsInjective
<1> QED
  BY <1>1, <1>4, FS_Bijection DEF ExistsBijection

LEMMA ImportsInvSuffices == ImportsInv => ImportsKeepTheirWord
<1> SUFFICES ASSUME ImportsInv PROVE ImportsKeepTheirWord
  OBVIOUS
<1>1. ImportTypes /\ \A f \in Upload : \A m, n : IsDrawing(f, m, n) => m \in Nat \ {0} /\ n \in Nat \ {0}
  BY DrawingsAreNumbered DEF ImportsInv
<1>2. \A f, t : t \in Promised(f) <=> \E m, n : IsDrawing(f, m, n) /\ t = [file |-> f, member |-> m, nth |-> n]
  BY DEF Promised, IsDrawing
<1>3. \A f, m, n : [file |-> f, member |-> m, nth |-> n] \in There <=> MadeAt(f, m, n)
  <2> SUFFICES ASSUME NEW f, NEW m, NEW n PROVE [file |-> f, member |-> m, nth |-> n] \in There <=> MadeAt(f, m, n)
    OBVIOUS
  <2> DEFINE t == [file |-> f, member |-> m, nth |-> n]
  <2>1. t.file = f /\ t.member = m /\ t.nth = n
    OBVIOUS
  <2>2. \A d : t = [file |-> d.file, member |-> d.member, nth |-> d.nth] <=> d.file = f /\ d.member = m /\ d.nth = n
    <3> SUFFICES ASSUME NEW d
                 PROVE  t = [file |-> d.file, member |-> d.member, nth |-> d.nth] <=>
                          d.file = f /\ d.member = m /\ d.nth = n
      OBVIOUS
    <3> DEFINE u == [file |-> d.file, member |-> d.member, nth |-> d.nth]
    <3>1. u.file = d.file /\ u.member = d.member /\ u.nth = d.nth
      OBVIOUS
    <3>2. d.file = f /\ d.member = m /\ d.nth = n => t = u
      OBVIOUS
    <3> HIDE DEF t, u
    <3>3. t = u => d.file = f /\ d.member = m /\ d.nth = n
      BY <2>1, <3>1
    <3> QED
      BY <3>2, <3>3 DEF u
  <2> HIDE DEF t
  <2>3. t \in There <=> \E d \in made : t = [file |-> d.file, member |-> d.member, nth |-> d.nth]
    BY DEF There
  <2>4. t \in There <=> MadeAt(f, m, n)
    BY <2>2, <2>3 DEF MadeAt
  <2> QED
    BY <2>4 DEF t
<1>4. ASSUME \A f \in Upload : Done(f)
      PROVE  /\ counts.failed = 0 => There = UNION {Promised(f) : f \in Upload} /\ counts.success = Cardinality(made)
             /\ counts.success <= Cardinality(There)
             /\ (~ mishaps.lost => counts.success = Cardinality(There))
  <2>1. Landed = made
    <3>1. \A d \in made : ~ InFlight(d)
      <4> SUFFICES ASSUME NEW d \in made PROVE ~ InFlight(d)
        OBVIOUS
      <4>1. d.file \in Upload /\ d.member # 0
        BY <1>1 DEF ImportsInv, MadeFits
      <4> QED
        BY <1>4, <4>1 DEF InFlight, Done
    <3> QED
      BY <3>1 DEF Landed
  <2>2. Cardinality(There) = Cardinality(made)
    BY MadeAreThere
  <2>3. /\ counts.success <= Cardinality(There)
        /\ (~ mishaps.lost => counts.success = Cardinality(There))
    BY <2>1, <2>2 DEF ImportsInv, CountsFit
  <2>4. counts.failed = 0 => counts.success = Cardinality(made)
    BY <2>1 DEF ImportsInv, CountsFit
  <2>5. \A t \in There : t \in UNION {Promised(f) : f \in Upload}
    <3> SUFFICES ASSUME NEW d \in made
                 PROVE  \E f \in Upload : [file |-> d.file, member |-> d.member, nth |-> d.nth] \in Promised(f)
      BY DEF There
    <3>1. d.file \in Upload /\ IsDrawing(d.file, d.member, d.nth)
      BY DEF ImportsInv, MadeFits
    <3> QED
      BY <1>2, <3>1
  <2>6. ASSUME counts.failed = 0, NEW f \in Upload, NEW t \in Promised(f)
        PROVE  t \in There
    <3>1. PICK m, n : IsDrawing(f, m, n) /\ t = [file |-> f, member |-> m, nth |-> n]
      BY <1>2, <2>6
    <3>2. m \in Nat /\ n \in Nat /\ Past(f, m, n)
      BY <1>1, <1>4, <3>1 DEF Past, Before, Done
    <3>3. MadeAt(f, m, n)
      BY <2>6, <3>1, <3>2 DEF ImportsInv, CountsFit
    <3> QED
      BY <1>3, <3>1, <3>3
  <2>7. counts.failed = 0 => There = UNION {Promised(f) : f \in Upload}
    BY <2>5, <2>6
  <2> QED
    BY <2>3, <2>4, <2>7
<1>5. ASSUME \A f \in Upload : Done(f), way = "dropped", NEW f \in Upload
      PROVE  /\ tasks[f] = "success" => Promised(f) \subseteq There
             /\ tasks[f] = "error" => mishaps.lost \/ Promised(f) \cap There = {}
             /\ tasks[f] \in {"success", "error"}
  <2>1. Promised(f) = {[file |-> f, member |-> 1, nth |-> 1]}
    <3>1. \A m, n : IsDrawing(f, m, n) <=> m = 1 /\ n = 1
      BY <1>1, <1>5, DroppedIsOne
    <3>2. \A t : t \in Promised(f) <=> t = [file |-> f, member |-> 1, nth |-> 1]
      BY <1>2, <3>1
    <3> QED
      BY <3>2
  <2>2. [file |-> f, member |-> 1, nth |-> 1] \in There <=> MadeAt(f, 1, 1)
    BY <1>3
  <2>3. /\ tasks[f] \in {"success", "error"} /\ (tasks[f] = "success" => MadeAt(f, 1, 1))
        /\ tasks[f] = "error" => mishaps.lost \/ ~ MadeAt(f, 1, 1)
    BY <1>5 DEF ImportsInv, TasksFit
  <2> QED
    BY <2>1, <2>2, <2>3
<1>6. ImportsAddUp
  BY <1>4, <1>5 DEF ImportsAddUp
<1>7. ASSUME NEW d \in made, NEW e \in made, Resolver(d.file) = Resolver(e.file),
             Resolver(d.file) \notin mishaps.crossed, {x.name : x \in d.folder} = {x.name : x \in e.folder}
      PROVE  d.folder \subseteq e.folder
  <2> DEFINE S == Entries(Resolver(d.file))
  <2>1. d.folder \subseteq S /\ e.folder \subseteq S
    BY <1>7 DEF ImportsInv, MadeFits, FiledAt
  <2>2. OneOfAName(S)
    <3>1. d.file \in Upload
      BY DEF ImportsInv, MadeFits
    <3>2. Resolver(d.file) \in DOMAIN index
      BY <3>1 DEF Resolver, ImportsInv, ImportTypes
    <3>3. index[Resolver(d.file)] = Unread => S = {}
      BY DEF Entries, Unread
    <3> QED
      BY <3>2, <3>3 DEF ImportsInv, ImportTypes, OneOfAName
  <2> HIDE DEF S
  <2> QED
    BY <1>7, <2>1, <2>2 DEF OneOfAName
<1>8. ASSUME NEW d \in made, way = "chosen"
      PROVE  {x.name : x \in d.folder} = {shape[d.file].members[d.member][d.nth].name} \ {Unfiled}
  BY <1>8 DEF ImportsInv, MadeFits, Filed, Names
<1>9. FiledTogether
  <2>1. ASSUME NEW d \in made, NEW e \in made, Resolver(d.file) = Resolver(e.file),
               Resolver(d.file) \notin mishaps.crossed, {x.name : x \in d.folder} = {x.name : x \in e.folder}
        PROVE  d.folder = e.folder
    <3>1. d.folder \subseteq e.folder
      BY <1>7, <2>1
    <3>2. e.folder \subseteq d.folder
      BY <1>7, <2>1
    <3> QED
      BY <3>1, <3>2
  <2>2. \A d, e \in made :
          Resolver(d.file) = Resolver(e.file) /\ Resolver(d.file) \notin mishaps.crossed
          /\ d.folder # {} /\ {x.name : x \in d.folder} = {x.name : x \in e.folder} => d.folder = e.folder
    BY <2>1
  <2> QED
    BY <1>8, <2>2, Zenon DEF FiledTogether
<1> QED
  BY <1>6, <1>9 DEF ImportsKeepTheirWord

(***************************************************************************)
(* Whatever the files are and whichever requests fail, an import keeps its *)
(* word: the counts and the tasks tell what is on the server, and drawings *)
(* of one name are filed together, unless two files crossed.               *)
(***************************************************************************)
THEOREM ImportsAreKept == ImportsInit /\ [][ImportsNext]_imports => []ImportsKeepTheirWord
<1>1. ImportsInit => ImportsInv
  BY ImportsBegin
<1>2. ImportsInv /\ [ImportsNext]_imports => ImportsInv'
  BY ImportsStep
<1>3. ImportsInv => ImportsKeepTheirWord
  BY ImportsInvSuffices
<1> QED
  BY <1>1, <1>2, <1>3, PTL
=============================================================================
