---------------------------- MODULE EditorSaves ----------------------------
(***************************************************************************)
(* How the editor pages of one drawing save it: the throttled change       *)
(* handler, the debounced autosave, Ctrl+S, the Back button, the queue     *)
(* that sends one save at a time, the retry after a version conflict, and  *)
(* a network that fails, loses replies and delivers requests late.         *)
(*                                                                         *)
(* A page is one mounted Editor: it opens the drawing once.  Reloading the *)
(* tab ends the page, what opens then is another one.  The server side of  *)
(* PUT /drawings/:id is one compare-and-set, which is what DrawingStore    *)
(* implements (VersionLog).  Changes of other pages that arrive over the   *)
(* socket are PeerChanges: any time, or never.                             *)
(***************************************************************************)
EXTENDS Naturals, Sequences, FiniteSetsExt

CONSTANTS
  Page,       \* the editor pages
  Mark,       \* the elements that may be drawn
  Storage,    \* the storage manager's trim, as a writer
  Null,       \* nothing pending, nothing in flight
  MaxEdits,   \* bound on the local changes of all pages together
  MaxSaves,   \* bound on all saves asked for with Ctrl+S or Back
  MaxTrims,   \* bound on the trims
  MaxLate     \* bound on the abandoned requests under way at a time

ASSUME EditorAssumption ==
  /\ Storage \notin Page
  /\ MaxEdits \in Nat /\ MaxSaves \in Nat /\ MaxTrims \in Nat /\ MaxLate \in Nat

\* Deleting an element keeps it in the scene with isDeleted set.
Scene == [Mark -> {"absent", "live", "deleted"}]

(***************************************************************************)
(* What a change handler captured: the scene, and how many local changes   *)
(* it contains.                                                            *)
(***************************************************************************)
Capture == [scene : Scene, upto : Nat]

(***************************************************************************)
(* A queued save; no counts the saves of a page in the order of the queue. *)
(***************************************************************************)
Save == [capture : Capture, no : Nat, kind : {"auto", "shortcut", "back"}]

Request == [by : Page, save : Save, base : Nat]

(***************************************************************************)
(* The request of the save at the head of the queue and how far it came.   *)
(***************************************************************************)
Flight == [phase : {"request", "saved", "conflict", "failed"},
           attempt : {0, 1}, base : Nat, version : Nat]

ASSUME NullAssumption == Null \notin Capture \cup Flight

VARIABLES
  version,   \* Drawing.version
  scene,     \* Drawing.elements
  writes,    \* history: who wrote version 2, 3, ...
  trimmed,   \* history: the marks that a trim has removed
  late,      \* requests under way that no page waits for any more
  mode,      \* closed, loading, open, leaving (Back waits), left, dead
  notified,  \* pages that were sent drawing-server-update
  canvas,    \* the elements on the page
  ver,       \* currentDrawingVersion
  dirty,     \* hasSceneChangesSinceLoad
  trailing,  \* the capture the 100 ms throttle holds back
  debounce,  \* the capture the 1 s autosave debounce holds back
  queue,     \* saveQueue
  flight,    \* the request of the queue's head
  edits,     \* how many local changes the page has seen
  saves,     \* how many saves were queued
  used,      \* the marks that were ever drawn: element ids are not reused
  asked,     \* how many of all of them the users asked for (for MaxSaves)
  failed,    \* the last save that was settled failed
  said       \* history: the shortcut saves that were reported as saved

server == <<version, scene, writes, trimmed>>
counts == <<edits, saves, asked, used>>
timers == <<dirty, trailing, debounce>>
line   == <<queue, flight, failed, said>>
vars == <<version, scene, writes, trimmed, used, late, mode, notified, canvas, ver, dirty,
          trailing, debounce, queue, flight, edits, saves, asked, failed, said>>

-----------------------------------------------------------------------------
(***************************************************************************)
(* The server: PUT with the version the editor believes in.                *)
(***************************************************************************)
Write(by, no, upto, s) ==
  /\ version' = version + 1
  /\ scene' = s
  /\ writes' = Append(writes, [by |-> by, no |-> no, upto |-> upto])

\* Defect: the update is not conditional on the version.
AcceptsAnyBase(base) == TRUE

Accepts(base) == base = version

WriteSave(p, save) ==
  /\ Write(p, save.no, save.capture.upto, save.capture.scene)
  /\ UNCHANGED trimmed

-----------------------------------------------------------------------------
Mounted(p) == mode[p] \in {"open", "leaving"}

OnCanvas(p) == [scene |-> canvas[p], upto |-> edits[p]]

Enqueue(p, kind, capture) ==
  /\ saves' = [saves EXCEPT ![p] = @ + 1]
  /\ queue' = [queue EXCEPT ![p] =
                 Append(@, [capture |-> capture, no |-> saves[p] + 1, kind |-> kind])]
  /\ UNCHANGED <<flight, failed, said>>

Ask(p, kind) ==
  /\ asked < MaxSaves
  /\ asked' = asked + 1
  /\ Enqueue(p, kind, OnCanvas(p))

\* emitChanges: the throttle is empty now, the debounce starts again.
Emit(p, capture) ==
  /\ dirty' = [dirty EXCEPT ![p] = TRUE]
  /\ debounce' = [debounce EXCEPT ![p] = capture]
  /\ trailing' = [trailing EXCEPT ![p] = Null]

\* Defect: a running throttle keeps the capture it was started with.
HoldBackFirst(p, capture) ==
  /\ trailing' = [trailing EXCEPT ![p] = IF @ = Null THEN capture ELSE @]
  /\ UNCHANGED <<dirty, debounce>>

HoldBack(p, capture) ==
  /\ trailing' = [trailing EXCEPT ![p] = capture]
  /\ UNCHANGED <<dirty, debounce>>

\* Unmounting cancels the timers; the queue goes on.
Unmount(p) ==
  /\ mode' = [mode EXCEPT ![p] = "left"]
  /\ trailing' = [trailing EXCEPT ![p] = Null]
  /\ debounce' = [debounce EXCEPT ![p] = Null]
  /\ notified' = notified \ {p}
  /\ UNCHANGED dirty

-----------------------------------------------------------------------------
Init ==
  /\ version = 1
  /\ scene \in Scene
  /\ writes = <<>>
  /\ trimmed = {}
  /\ late = {}
  /\ mode = [p \in Page |-> "closed"]
  /\ notified = {}
  /\ canvas = [p \in Page |-> [m \in Mark |-> "absent"]]
  /\ ver = [p \in Page |-> 0]
  /\ dirty = [p \in Page |-> FALSE]
  /\ trailing = [p \in Page |-> Null]
  /\ debounce = [p \in Page |-> Null]
  /\ queue = [p \in Page |-> <<>>]
  /\ flight = [p \in Page |-> Null]
  /\ edits = [p \in Page |-> 0]
  /\ saves = [p \in Page |-> 0]
  /\ asked = 0
  /\ used = {m \in Mark : scene[m] # "absent"}
  /\ failed = [p \in Page |-> FALSE]
  /\ said = [p \in Page |-> {}]

(***************************************************************************)
(* The page loads the drawing; only when it shows it does it join the      *)
(* room in which the server announces a trim.                              *)
(***************************************************************************)
Fetch(p) ==
  /\ mode[p] = "closed"
  /\ mode' = [mode EXCEPT ![p] = "loading"]
  /\ canvas' = [canvas EXCEPT ![p] = scene]
  /\ ver' = [ver EXCEPT ![p] = version]
  /\ UNCHANGED <<server, late, notified, timers, line, counts>>

Show(p) ==
  /\ mode[p] = "loading"
  /\ mode' = [mode EXCEPT ![p] = "open"]
  /\ UNCHANGED <<server, late, notified, canvas, ver, timers, line, counts>>

(***************************************************************************)
(* A local change: emitted at once when the last one was 100 ms ago, else  *)
(* held back, replacing what was held back before.                         *)
(***************************************************************************)
Draw(s, m)   == /\ s[m] = "absent" /\ m \notin used
                /\ used' = used \cup {m}
Change(s, m) == s[m] = "live" /\ UNCHANGED used

Edit(p) ==
  /\ Mounted(p)
  /\ MapThenSumSet(LAMBDA q : edits[q], Page) < MaxEdits
  /\ edits' = [edits EXCEPT ![p] = @ + 1]
  /\ \E m \in Mark, to \in {"live", "deleted"} :
       /\ Draw(canvas[p], m) \/ Change(canvas[p], m)
       /\ canvas' = [canvas EXCEPT ![p][m] = to]
       /\ Emit(p, [scene |-> canvas'[p], upto |-> edits'[p]])
          \/ HoldBack(p, [scene |-> canvas'[p], upto |-> edits'[p]])
  /\ UNCHANGED <<server, late, mode, notified, ver, line, saves, asked>>

TrailingFires(p) ==
  /\ trailing[p] # Null
  /\ Emit(p, trailing[p])
  /\ UNCHANGED <<server, late, mode, notified, canvas, ver, line, counts>>

\* Changes of another page arrive; they are merged and not saved again.
PeerChanges(p, q) ==
  /\ Mounted(p) /\ Mounted(q)
  /\ canvas' = [canvas EXCEPT ![p] = [m \in Mark |->
       IF canvas[p][m] = "absent" \/ canvas[q][m] = "deleted"
         THEN canvas[q][m] ELSE canvas[p][m]]]
  /\ UNCHANGED <<server, late, mode, notified, ver, timers, line, counts>>

AutosaveFires(p) ==
  /\ debounce[p] # Null
  /\ Enqueue(p, "auto", debounce[p])
  /\ debounce' = [debounce EXCEPT ![p] = Null]
  /\ UNCHANGED <<server, late, mode, notified, canvas, ver, dirty, trailing,
                 edits, asked, used>>

SaveShortcut(p) ==
  /\ Mounted(p)
  /\ Ask(p, "shortcut")
  /\ UNCHANGED <<server, late, mode, notified, canvas, ver, timers, edits,
                 used>>

(***************************************************************************)
(* The Back button leaves at once when nothing was changed, and otherwise  *)
(* waits for a save of the canvas as it is now.                            *)
(***************************************************************************)
BackClean(p) ==
  /\ mode[p] = "open" /\ ~ dirty[p]
  /\ Unmount(p)
  /\ UNCHANGED <<server, late, canvas, ver, line, counts>>

BackSaves(p) ==
  /\ mode[p] = "open" /\ dirty[p]
  /\ mode' = [mode EXCEPT ![p] = "leaving"]
  /\ Ask(p, "back")
  /\ UNCHANGED <<server, late, notified, canvas, ver, timers, edits,
                 used>>

\* The browser's own Back, or a link: nothing is saved.
Navigate(p) ==
  /\ Mounted(p)
  /\ Unmount(p)
  /\ UNCHANGED <<server, late, canvas, ver, line, counts>>

(***************************************************************************)
(* The tab closes or reloads, by the user or on drawing-server-update.  A  *)
(* request that was sent may reach the server all the same.                *)
(***************************************************************************)
Abandoned(p) ==
  IF flight[p] # Null /\ flight[p].phase = "request"
    THEN {[by |-> p, save |-> Head(queue[p]), base |-> flight[p].base]}
    ELSE {}

Abandon(p) ==
  \/ UNCHANGED late
  \/ Cardinality(late) < MaxLate /\ late' = late \cup Abandoned(p)

\* The memory of the page goes with it.
Die(p) ==
  /\ mode' = [mode EXCEPT ![p] = "dead"]
  /\ notified' = notified \ {p}
  /\ Abandon(p)
  /\ canvas' = [canvas EXCEPT ![p] = [m \in Mark |-> "absent"]]
  /\ ver' = [ver EXCEPT ![p] = 0]
  /\ dirty' = [dirty EXCEPT ![p] = FALSE]
  /\ trailing' = [trailing EXCEPT ![p] = Null]
  /\ debounce' = [debounce EXCEPT ![p] = Null]
  /\ queue' = [queue EXCEPT ![p] = <<>>]
  /\ flight' = [flight EXCEPT ![p] = Null]
  /\ failed' = [failed EXCEPT ![p] = FALSE]
  /\ UNCHANGED <<server, counts, said>>

CloseTab(p) == (Mounted(p) \/ mode[p] = "left") /\ Die(p)

ReloadOnUpdate(p) == p \in notified /\ Die(p)

-----------------------------------------------------------------------------
(***************************************************************************)
(* One save at a time: the head of the queue goes out with the version the *)
(* page believes in at that moment.                                        *)
(***************************************************************************)
Transmit(p, attempt, base) ==
  flight' = [flight EXCEPT ![p] =
    [phase |-> "request", attempt |-> attempt, base |-> base, version |-> 0]]

Send(p) ==
  /\ queue[p] # <<>> /\ flight[p] = Null
  /\ Transmit(p, 0, ver[p])
  /\ UNCHANGED <<server, late, mode, notified, canvas, ver, timers, queue,
                 counts, failed, said>>

InFlight(p, phase) == flight[p] # Null /\ flight[p].phase = phase

Reach(p, phase, v) ==
  flight' = [flight EXCEPT ![p].phase = phase, ![p].version = v]

ServerSaves(p) ==
  /\ InFlight(p, "request")
  /\ Accepts(flight[p].base)
  /\ WriteSave(p, Head(queue[p]))
  /\ Reach(p, "saved", version + 1)
  /\ UNCHANGED <<late, mode, notified, canvas, ver, timers, queue, counts,
                 failed, said>>

ServerConflicts(p) ==
  /\ InFlight(p, "request")
  /\ ~ Accepts(flight[p].base)
  /\ Reach(p, "conflict", version)
  /\ UNCHANGED <<server, late, mode, notified, canvas, ver, timers, queue,
                 counts, failed, said>>

(***************************************************************************)
(* The page sees an error: the server failed, the request was lost or is   *)
(* still under way, or the reply was lost.                                 *)
(***************************************************************************)
LoseRequest(p) ==
  /\ InFlight(p, "request")
  /\ Abandon(p)
  /\ Reach(p, "failed", 0)
  /\ UNCHANGED <<server, mode, notified, canvas, ver, timers, queue, counts,
                 failed, said>>

LoseReply(p) ==
  /\ InFlight(p, "saved") \/ InFlight(p, "conflict")
  /\ Reach(p, "failed", 0)
  /\ UNCHANGED <<server, late, mode, notified, canvas, ver, timers, queue,
                 counts, failed, said>>

LateArrives ==
  \E r \in late :
    /\ late' = late \ {r}
    /\ \/ Accepts(r.base) /\ WriteSave(r.by, r.save)
       \/ ~ Accepts(r.base) /\ UNCHANGED server
    /\ UNCHANGED <<mode, notified, canvas, ver, timers, line, counts>>

(***************************************************************************)
(* The save is over and the next one may go.  Ctrl+S reports success: its  *)
(* errors are suppressed as those of an autosave.  Back leaves, or stays.  *)
(***************************************************************************)
\* Defects: the Back button's save suppresses its errors; the button stays
\* disabled after a failure.
LeavesAnyway(p, kind, ok) == kind = "back" /\ mode[p] = "leaving"
NeverStays(p, kind, ok) == FALSE

Leaves(p, kind, ok) == kind = "back" /\ mode[p] = "leaving" /\ ok
Stays(p, kind, ok) == kind = "back" /\ mode[p] = "leaving" /\ ~ ok

Report(p, save) ==
  said' = IF save.kind = "shortcut"
            THEN [said EXCEPT ![p] = @ \cup {save.no}] ELSE said

Settle(p, ok) ==
  LET save == Head(queue[p])
  IN  /\ queue' = [queue EXCEPT ![p] = Tail(@)]
      /\ flight' = [flight EXCEPT ![p] = Null]
      /\ failed' = [failed EXCEPT ![p] = ~ ok]
      /\ Report(p, save)
      /\ \/ Leaves(p, save.kind, ok) /\ Unmount(p)
         \/ /\ ~ Leaves(p, save.kind, ok)
            /\ mode' = IF Stays(p, save.kind, ok)
                         THEN [mode EXCEPT ![p] = "open"] ELSE mode
            /\ UNCHANGED <<notified, timers>>
      /\ UNCHANGED <<server, late, canvas, counts>>

TakeSaved(p) ==
  /\ InFlight(p, "saved")
  /\ ver' = [ver EXCEPT ![p] = flight[p].version]
  /\ Settle(p, TRUE)

\* The first conflict: try once more on top of the version the server named.
Retry(p) ==
  /\ InFlight(p, "conflict") /\ flight[p].attempt = 0
  /\ ver' = [ver EXCEPT ![p] = flight[p].version]
  /\ Transmit(p, 1, flight[p].version)
  /\ UNCHANGED <<server, late, mode, notified, canvas, timers, queue,
                 counts, failed, said>>

TakeConflict(p) ==
  /\ InFlight(p, "conflict") /\ flight[p].attempt = 1
  /\ ver' = [ver EXCEPT ![p] = flight[p].version]
  /\ Settle(p, FALSE)

TakeFailure(p) ==
  /\ InFlight(p, "failed")
  /\ UNCHANGED ver
  /\ Settle(p, FALSE)

(***************************************************************************)
(* The owner trims the drawing: soft-deleted elements go, the version      *)
(* moves, and every page in the room is told to reload.                    *)
(***************************************************************************)
Trim ==
  /\ Cardinality({i \in DOMAIN writes : writes[i].by = Storage}) < MaxTrims
  /\ Write(Storage, 0, 0, [m \in Mark |-> IF scene[m] = "live" THEN "live" ELSE "absent"])
  /\ trimmed' = trimmed \cup {m \in Mark : scene[m] = "deleted"}
  /\ notified' = notified \cup {p \in Page : Mounted(p)}
  /\ UNCHANGED <<late, mode, canvas, ver, timers, line, counts>>

-----------------------------------------------------------------------------
Timer(p) == TrailingFires(p) \/ AutosaveFires(p)

Progress(p) ==
  \/ Send(p) \/ ServerSaves(p) \/ ServerConflicts(p)
  \/ TakeSaved(p) \/ Retry(p) \/ TakeConflict(p) \/ TakeFailure(p)

Next ==
  \/ LateArrives \/ Trim
  \/ \E p \in Page :
       \/ Fetch(p) \/ Show(p) \/ Edit(p) \/ Timer(p)
       \/ \E q \in Page \ {p} : PeerChanges(p, q)
       \/ SaveShortcut(p) \/ BackClean(p) \/ BackSaves(p) \/ Navigate(p)
       \/ CloseTab(p) \/ ReloadOnUpdate(p)
       \/ LoseRequest(p) \/ LoseReply(p) \/ Progress(p)

Spec == Init /\ [][Next]_vars

(***************************************************************************)
(* Timers fire and requests are answered or fail; nobody has to edit, to   *)
(* leave or to lose a message.                                             *)
(***************************************************************************)
Fairness == \A p \in Page :
  /\ WF_vars(TrailingFires(p))
  /\ WF_vars(AutosaveFires(p))
  /\ WF_vars(Progress(p))
  /\ WF_vars(ReloadOnUpdate(p))

FairSpec == Spec /\ Fairness

-----------------------------------------------------------------------------
TypeOK ==
  /\ version \in Nat
  /\ scene \in Scene
  /\ writes \in Seq([by : Page \cup {Storage}, no : Nat, upto : Nat])
  /\ trimmed \subseteq used /\ used \subseteq Mark
  /\ late \subseteq Request
  /\ mode \in [Page -> {"closed", "loading", "open", "leaving", "left", "dead"}]
  /\ notified \subseteq {p \in Page : Mounted(p)}
  /\ canvas \in [Page -> Scene]
  /\ ver \in [Page -> Nat]
  /\ dirty \in [Page -> BOOLEAN]
  /\ trailing \in [Page -> Capture \cup {Null}]
  /\ debounce \in [Page -> Capture \cup {Null}]
  /\ queue \in [Page -> Seq(Save)]
  /\ flight \in [Page -> Flight \cup {Null}]
  /\ edits \in [Page -> Nat]
  /\ saves \in [Page -> Nat]
  /\ asked \in Nat
  /\ failed \in [Page -> BOOLEAN]
  /\ said \in [Page -> SUBSET Nat]

WrittenBy(p) == {i \in DOMAIN writes : writes[i].by = p}

(***************************************************************************)
(* The saves of a page reach the drawing in the order in which the page    *)
(* made them, each at most once: no request that the page gave up on       *)
(* overwrites a later save of it, however late it arrives, and no retry    *)
(* repeats a save that was applied.                                        *)
(***************************************************************************)
SavesApplyInOrder ==
  \A p \in Page : \A i, j \in WrittenBy(p) : i < j => writes[i].no < writes[j].no

(***************************************************************************)
(* An open page on which nothing is pending and whose last save did not    *)
(* fail has saved every local change: neither the throttle, the debounce   *)
(* nor an earlier save that was still queued has swallowed the last one.   *)
(***************************************************************************)
Quiet(p) ==
  /\ mode[p] = "open"
  /\ trailing[p] = Null /\ debounce[p] = Null /\ queue[p] = <<>>

QuietMeansSaved ==
  \A p \in Page : Quiet(p) /\ ~ failed[p] /\ edits[p] > 0 =>
    \E i \in WrittenBy(p) :
      /\ writes[i].upto = edits[p]
      /\ \A j \in WrittenBy(p) : j <= i

(***************************************************************************)
(* The Back button takes the user away only after the server has stored    *)
(* the canvas as it was when Back was clicked.                             *)
(***************************************************************************)
BackLeavesOnlySaved ==
  [][\A p \in Page :
       mode[p] = "leaving" /\ mode'[p] = "left" /\ queue'[p] # queue[p] =>
         \E i \in WrittenBy(p) : writes[i].no = Head(queue[p]).no]_vars

(***************************************************************************)
(* The queue never wedges: every save that was queued is settled, whatever *)
(* became of the ones before it, unless the tab goes.                      *)
(***************************************************************************)
Waits(p, no) == \E i \in DOMAIN queue[p] : queue[p][i].no = no

EverySaveSettles ==
  \A p \in Page : \A no \in 1..(MaxEdits + MaxSaves) :
    Waits(p, no) ~> ~ Waits(p, no)

(***************************************************************************)
(* Back does not wait for ever: the user leaves, or is told and may go on. *)
(***************************************************************************)
BackEnds ==
  \A p \in Page : mode[p] = "leaving" ~> mode[p] # "leaving"

NothingWaitsForEver == EverySaveSettles /\ BackEnds

-----------------------------------------------------------------------------
(***************************************************************************)
(* What comments of the code say.                                          *)
(***************************************************************************)

(***************************************************************************)
(* "Best-effort autosave errors are surfaced by explicit saves."           *)
(* (useEditorPersistence.ts:218): when Ctrl+S reports that the changes     *)
(* were saved, they were.                                                  *)
(***************************************************************************)
ShortcutReportsTruth ==
  \A p \in Page : \A n \in said[p] : \E i \in WrittenBy(p) : writes[i].no = n

(***************************************************************************)
(* "The frontend reacts by reloading the drawing - otherwise a             *)
(* collaborator's next save would re-introduce the trimmed-away elements." *)
(* (storage.ts:57): an element that a trim removed stays away.             *)
(***************************************************************************)
TrimmedStaysTrimmed ==
  \A m \in trimmed : scene[m] = "absent"
=============================================================================
