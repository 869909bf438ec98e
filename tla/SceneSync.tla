------------------------------ MODULE SceneSync ------------------------------
(***************************************************************************)
(* How the editor pages of one drawing keep their canvases the same: what  *)
(* a page broadcasts, how the server relays it, how a page collects what   *)
(* arrives until the next animation frame and merges it, and what the      *)
(* autosave of each page leaves in the database.                           *)
(*                                                                         *)
(* An element is abstracted to its stamp: version, updated and             *)
(* versionNonce.  Two states of an element with one stamp are the same.    *)
(* Files and the order of the elements are left out.                       *)
(***************************************************************************)
EXTENDS Naturals, Sequences, SequencesExt, FiniteSetsExt

CONSTANTS
  Page,         \* the editor pages
  Editor,       \* those of users who may edit, and not only view
  Element,      \* the elements of the drawing
  Null,         \* nothing captured
  MaxEdits,     \* bound on the changes the users make
  MaxWait,      \* bound on the updates of, and those for, one page on the wire
  Mishap,       \* what may go wrong, see below
  Saving        \* what the autosaves write is followed

ASSUME SyncAssumption ==
  /\ Editor \subseteq Page
  /\ MaxEdits \in Nat /\ MaxWait \in Nat
  /\ Mishap \subseteq {"late", "reconnect", "reorder", "instant"}
  /\ Saving \in BOOLEAN

(***************************************************************************)
(* Stamps.  The nonce is random; here it numbers the changes.  An element  *)
(* that is not there has version 0.                                        *)
(***************************************************************************)
Stamp  == [version : Nat, updated : Nat, nonce : Nat]
Absent == [version |-> 0, updated |-> 0, nonce |-> 0]
Scene  == [Element -> Stamp]
Nothing == [e \in Element |-> Absent]

VARIABLES
  mode,      \* closed, fetched, joined, or mute after a reconnect
  canvas,    \* the elements on the page
  known,     \* elementVersionMap: the stamps as last sent or received
  held,      \* the scene the change handler's throttle holds, if any
  relaying,  \* updates of a page that the server has not relayed yet
  arriving,  \* updates on their way to a page
  pending,   \* pendingRemoteElements: arrived since the last frame
  unsaved,   \* the scene that the page's autosave is going to write
  saved,     \* the scene in the database
  clock,     \* the latest instant at which an element was changed
  edits,     \* the number of changes
  mishaps    \* history variable: what has gone wrong so far

vars == <<mode, canvas, known, held, relaying, arriving, pending, unsaved,
          saved, clock, edits, mishaps>>

wire == <<relaying, arriving>>
db   == <<unsaved, saved>>
user == <<clock, edits>>

(***************************************************************************)
(* A mishap that Mishap allows may happen, and is remembered: a page joins *)
(* the room "late", after others have edited; a connection breaks and is   *)
(* restored ("reconnect"); access lookups of the server are answered out   *)
(* of order ("reorder"); two changes fall into one millisecond ("instant").*)
(***************************************************************************)
Happens(name, occurs) ==
  /\ occurs => name \in Mishap
  /\ mishaps' = IF occurs THEN mishaps \cup {name} ELSE mishaps

Shown(p) == mode[p] \in {"fetched", "joined", "mute"}

-----------------------------------------------------------------------------
(***************************************************************************)
(* reconcileElements: the higher version wins, then the later change, and  *)
(* among these the remote one.                                             *)
(***************************************************************************)
Beats(remote, local) ==
  \/ remote.version > local.version
  \/ remote.version = local.version /\ remote.updated > local.updated
  \/ /\ remote.version = local.version /\ remote.updated = local.updated
     /\ remote.nonce # local.nonce

\* Defect: the remote element always wins.
TakeRemote(local, remote) ==
  [e \in Element |-> IF remote[e] # Absent THEN remote[e] ELSE local[e]]

Reconcile(local, remote) ==
  [e \in Element |->
     IF remote[e] # Absent /\ Beats(remote[e], local[e]) THEN remote[e] ELSE local[e]]

\* What of one update replaces what is there.
Overlay(old, new) ==
  [e \in Element |-> IF new[e] # Absent THEN new[e] ELSE old[e]]

\* hasElementChanged, for every element of a scene.
Changes(p, scene) ==
  [e \in Element |-> IF scene[e] # known[p][e] THEN scene[e] ELSE Absent]

-----------------------------------------------------------------------------
Init ==
  /\ \E s \in {Nothing, [e \in Element |-> [version |-> 1, updated |-> 0, nonce |-> 0]]} :
       /\ saved = s
       /\ \/ /\ mode = [p \in Page |-> "joined"]
             /\ canvas = [p \in Page |-> s]
          \/ /\ "late" \in Mishap
             /\ mode = [p \in Page |-> "closed"]
             /\ canvas = [p \in Page |-> Nothing]
  /\ known = canvas
  /\ held = [p \in Page |-> Null]
  /\ relaying = [p \in Page |-> <<>>]
  /\ arriving = [p \in Page |-> <<>>]
  /\ pending = [p \in Page |-> Nothing]
  /\ unsaved = [p \in Page |-> Null]
  /\ clock = 0
  /\ edits = 0
  /\ mishaps = {}

(***************************************************************************)
(* The page shows what it loaded, and emits join-room then; the server has *)
(* the page in the room, and accepts its updates, only after it has looked *)
(* up its access.                                                          *)
(***************************************************************************)
Fetch(p) ==
  /\ mode[p] = "closed"
  /\ mode' = [mode EXCEPT ![p] = "fetched"]
  /\ canvas' = [canvas EXCEPT ![p] = saved]
  /\ known' = [known EXCEPT ![p] = saved]
  /\ UNCHANGED <<held, wire, pending, db, user, mishaps>>

Join(p) ==
  /\ mode[p] = "fetched"
  /\ Happens("late", edits > 0)
  /\ mode' = [mode EXCEPT ![p] = "joined"]
  /\ UNCHANGED <<canvas, known, held, wire, pending, db, user>>

\* The socket comes back as another one, which never emits join-room.
Reconnect(p) ==
  /\ mode[p] = "joined"
  /\ Happens("reconnect", TRUE)
  /\ mode' = [mode EXCEPT ![p] = "mute"]
  /\ arriving' = [arriving EXCEPT ![p] = <<>>]
  /\ UNCHANGED <<canvas, known, held, relaying, pending, db, user>>

(***************************************************************************)
(* The user changes an element; Excalidraw raises the version, stamps the  *)
(* time and draws a new nonce.                                             *)
(***************************************************************************)
Edit(p, e) ==
  /\ Shown(p) /\ p \in Editor
  /\ edits < MaxEdits
  /\ edits' = edits + 1
  /\ clock' \in {clock, clock + 1}
  /\ Happens("instant", clock' = clock)
  /\ canvas' = [canvas EXCEPT ![p][e] =
       [version |-> @.version + 1, updated |-> clock', nonce |-> edits']]
  /\ UNCHANGED <<mode, known, held, wire, pending, db>>

\* Defect: what is captured counts as sent.
RecordAtReport(p) ==
  /\ Shown(p) /\ p \in Editor
  /\ held' = [held EXCEPT ![p] = canvas[p]]
  /\ known' = [known EXCEPT ![p] = canvas[p]]
  /\ UNCHANGED <<mode, canvas, wire, pending, db, user, mishaps>>

(***************************************************************************)
(* Excalidraw calls the change handler after any change of the scene, a    *)
(* merged one included.  The throttle keeps the last call.                 *)
(***************************************************************************)
Report(p) ==
  /\ Shown(p) /\ p \in Editor
  /\ held' = [held EXCEPT ![p] = canvas[p]]
  /\ UNCHANGED <<mode, canvas, known, wire, pending, db, user, mishaps>>

\* emitChanges with nothing to tell.
EmitNothing(p) ==
  /\ held[p] # Null
  /\ Changes(p, held[p]) = Nothing
  /\ held' = [held EXCEPT ![p] = Null]
  /\ UNCHANGED <<mode, canvas, known, wire, pending, db, user, mishaps>>

\* emitChanges; the server drops what comes from a socket outside the room.
EmitChanges(p) ==
  /\ held[p] # Null
  /\ LET changes == Changes(p, held[p])
     IN  /\ changes # Nothing
         /\ known' = [known EXCEPT ![p] = Overlay(@, changes)]
         /\ \/ mode[p] = "joined" /\ Len(relaying[p]) < MaxWait
               /\ relaying' = [relaying EXCEPT ![p] = Append(@, changes)]
            \/ mode[p] # "joined" /\ UNCHANGED relaying
  /\ unsaved' = IF Saving THEN [unsaved EXCEPT ![p] = held[p]] ELSE unsaved
  /\ held' = [held EXCEPT ![p] = Null]
  /\ UNCHANGED <<mode, canvas, arriving, pending, saved, user, mishaps>>

(***************************************************************************)
(* The server relays an update to the others in the room, at once or after *)
(* an access lookup; lookups that run side by side end in any order.       *)
(***************************************************************************)
Relay(p) ==
  /\ relaying[p] # <<>>
  /\ \A q \in Page \ {p} : Len(arriving[q]) < MaxWait
  /\ \E i \in DOMAIN relaying[p] :
       /\ Happens("reorder", i # 1)
       /\ relaying' = [relaying EXCEPT ![p] = RemoveAt(@, i)]
       /\ arriving' = [q \in Page |->
            IF q # p /\ mode[q] = "joined"
              THEN Append(arriving[q], relaying[p][i]) ELSE arriving[q]]
  /\ UNCHANGED <<mode, canvas, known, held, pending, db, user>>

\* element-update arrives: the pending map keeps the last one per element.
Arrive(p) ==
  /\ arriving[p] # <<>>
  /\ pending' = [pending EXCEPT ![p] = Overlay(@, Head(arriving[p]))]
  /\ arriving' = [arriving EXCEPT ![p] = Tail(@)]
  /\ UNCHANGED <<mode, canvas, known, held, relaying, db, user, mishaps>>

\* Defect: the element that won is recorded, not the one that arrived.
RecordWinner(p) ==
  /\ pending[p] # Nothing
  /\ canvas' = [canvas EXCEPT ![p] = Reconcile(@, pending[p])]
  /\ known' = [known EXCEPT ![p] = Overlay(@, [e \in Element |->
       IF pending[p][e] # Absent THEN canvas'[p][e] ELSE Absent])]
  /\ pending' = [pending EXCEPT ![p] = Nothing]
  /\ UNCHANGED <<mode, held, wire, db, user, mishaps>>

(***************************************************************************)
(* flushRemoteUpdates, at the next animation frame.  What arrived counts   *)
(* as known even where the element of the page won.                        *)
(***************************************************************************)
Flush(p) ==
  /\ pending[p] # Nothing
  /\ canvas' = [canvas EXCEPT ![p] = Reconcile(@, pending[p])]
  /\ known' = [known EXCEPT ![p] = Overlay(@, pending[p])]
  /\ pending' = [pending EXCEPT ![p] = Nothing]
  /\ UNCHANGED <<mode, held, wire, db, user, mishaps>>

\* The autosave; a conflict is overwritten by the retry (see EditorSaves).
Autosave(p) ==
  /\ unsaved[p] # Null
  /\ saved' = unsaved[p]
  /\ unsaved' = [unsaved EXCEPT ![p] = Null]
  /\ UNCHANGED <<mode, canvas, known, held, wire, pending, user, mishaps>>

Next ==
  \E p \in Page :
    \/ Fetch(p) \/ Join(p) \/ Reconnect(p)
    \/ \E e \in Element : Edit(p, e)
    \/ Report(p) \/ EmitNothing(p) \/ EmitChanges(p)
    \/ Relay(p) \/ Arrive(p) \/ Flush(p) \/ Autosave(p)

Spec == Init /\ [][Next]_vars

Stale(p) == canvas[p] # known[p]

\* Timers and animation frames fire, the change handler is called, the server
\* answers.  Nobody has to edit, to open a page or to reconnect.
Fairness == \A p \in Page :
  /\ WF_vars(Stale(p) /\ Report(p))
  /\ WF_vars(EmitNothing(p) \/ EmitChanges(p))
  /\ WF_vars(Relay(p))
  /\ WF_vars(Arrive(p))
  /\ WF_vars(Flush(p))

FairSpec == Spec /\ Fairness

-----------------------------------------------------------------------------
TypeOK ==
  /\ mode \in [Page -> {"closed", "fetched", "joined", "mute"}]
  /\ canvas \in [Page -> Scene]
  /\ known \in [Page -> Scene]
  /\ held \in [Page -> Scene \cup {Null}]
  /\ relaying \in [Page -> Seq(Scene)]
  /\ arriving \in [Page -> Seq(Scene)]
  /\ pending \in [Page -> Scene]
  /\ unsaved \in [Page -> Scene \cup {Null}]
  /\ saved \in Scene
  /\ clock \in Nat /\ edits \in Nat
  /\ mishaps \subseteq Mishap

(***************************************************************************)
(* Nothing is left to send, to relay, to merge or to save.                 *)
(***************************************************************************)
Quiet ==
  \A p \in Page :
    /\ p \in Editor => ~ Stale(p)
    /\ held[p] = Null
    /\ relaying[p] = <<>> /\ arriving[p] = <<>> /\ pending[p] = Nothing
    /\ unsaved[p] = Null

(***************************************************************************)
(* When nothing is under way and nothing went wrong, all pages in the room *)
(* show the same elements: an update that another one replaced in the      *)
(* pending map, or that lost the merge, is made good by the page whose     *)
(* element won.                                                            *)
(***************************************************************************)
Agree(P) == \A p, q \in P : canvas[p] = canvas[q]

QuietMeansConverged ==
  Quiet /\ mishaps = {} => Agree({p \in Page : mode[p] = "joined"})

(***************************************************************************)
(* An element on a page never goes back to an earlier state, whatever the  *)
(* order in which updates, late and repeated ones, arrive.                 *)
(***************************************************************************)
NotOlder(new, old) ==
  \/ new.version > old.version
  \/ new.version = old.version /\ new.updated >= old.updated

NothingGoesBack ==
  [][\A p \in Page : \A e \in Element :
       NotOlder(canvas'[p][e], canvas[p][e])]_vars

(***************************************************************************)
(* Unless something goes wrong, every change is seen on every page in the  *)
(* room in the end, or a newer one is.                                     *)
(***************************************************************************)
EveryChangeArrives ==
  \A p \in Page : \A q \in Page \ {p} : \A e \in Element : \A n \in 1..MaxEdits :
    mode[p] = "joined" /\ mode[q] = "joined" /\ canvas[p][e].nonce = n ~>
      \/ canvas[q][e].nonce = n
      \/ canvas[p][e].nonce # n
      \/ mishaps # {}

-----------------------------------------------------------------------------
(***************************************************************************)
(* "Multiple users can edit drawings simultaneously" and "should persist   *)
(* drawing changes across page reload" (e2e collaboration.spec.ts 12 and   *)
(* 111): with nothing under way, what a reload would show is on the pages. *)
(***************************************************************************)
ChangesPersist ==
  Quiet => \A p \in Page : Shown(p) => canvas[p] = saved
=============================================================================
