------------------------------ MODULE LiveRoom ------------------------------
(***************************************************************************)
(* The socket server (server/socket.ts) for one drawing: connections, the  *)
(* room, the presence list, the access that each connection was granted    *)
(* and for how long it is trusted; and what the pages show of presence     *)
(* (useEditorCollaboration.ts).                                            *)
(*                                                                         *)
(* An event handler runs alone between two awaits.  getDrawingAccess       *)
(* queries the database three times, so the rows may change in between.    *)
(* Messages of one connection arrive in order, and what a page does with   *)
(* them depends on nothing else: a page is shown as it is once it has      *)
(* handled all that was sent to it.  cursor-move is relayed without any    *)
(* change of state and is left out.                                        *)
(***************************************************************************)
EXTENDS DrawingAccess

CONSTANTS
  Socket,     \* connections; a page that reconnects gets another one
  Update,     \* the element-update events a connection may send
  Device,     \* ids that browsers keep for users who are not signed in
  Bootstrap,  \* the account of everybody while authentication is off
  TTL,        \* ACCESS_CACHE_TTL_MS
  MaxTime,    \* bound: the clock
  Null

ASSUME RoomAssumption ==
  /\ TTL \in Nat \ {0} /\ MaxTime \in Nat
  /\ "join" \notin Update
  /\ Null \notin [access : Access, at : Nat]
  /\ Device \cap (User \cup Socket) = {} /\ User \cap Socket = {}

VARIABLES
  conn,       \* "off", "on" or "left"
  principal,  \* socketPrincipalMap
  entry,      \* authorizedDrawingAccess of each connection, for this drawing
  room,       \* the sockets that joined the room
  users,      \* roomUsers: the presence list
  work,       \* where each event's handler is suspended, and its locals
  page,       \* what each page knows of presence
  clock,
  relayed,    \* history: updates passed on to the room
  lastEdit,   \* history: when some row last let the user of each connection edit
  entitled,   \* history: pages that could view when they asked to join
  withdrawn,  \* history: pages that saw a withdrawal since they asked
  early,      \* history: pages that left while their join was waiting
  replaced    \* history: pages whose entry made way for one of the same person

server  == <<conn, principal, entry, room, users, work, page>>
history == <<entitled, withdrawn, early, replaced>>
vars    == <<sharing, server, clock, relayed, lastEdit, history>>

Event  == {"join"} \cup Update
Person == User \cup Device \cup Socket
Peer   == [id : Person, socket : Socket, isActive : BOOLEAN]

\* The handler waits for one of the queries of getDrawingAccess.
Waiting == {"direct", "collection", "link"}

\* since: when the event arrived; base: what the queries found so far
Work == [pc : Waiting \cup {"idle", "account", "done", "refused", "failed"},
         since : 0 .. MaxTime, base : Access]

\* A handler without a lookup under way.
At(pc) == [pc |-> pc, since |-> 0, base |-> "none"]

(***************************************************************************)
(* Pages: the presence-update handler and the acknowledgement of join-room.*)
(***************************************************************************)
Received(pg, list) ==
  [self |-> pg.self, list |-> list, peers |-> {u \in list : u.id # pg.self}]

\* Defect: the list that came before the acknowledgement is not looked at again.
AcknowledgedOnly(pg, id) == [pg EXCEPT !.self = id]

Acknowledged(pg, id) ==
  [self |-> id, list |-> pg.list, peers |-> {u \in pg.list : u.id # id}]

\* io.to(roomId).emit("presence-update", list)
Shown(members, list) ==
  [s \in Socket |->
     IF s \in members /\ conn[s] = "on" THEN Received(page[s], list) ELSE page[s]]

\* The id under which the server lists a connection.
trustedUserId(s) ==
  IF principal[s] = Nobody THEN s
  ELSE IF principal[s] = Bootstrap THEN page[s].self ELSE principal[s]

-----------------------------------------------------------------------------
RoomInit ==
  /\ conn = [s \in Socket |-> "off"]
  /\ principal = [s \in Socket |-> Nobody]
  /\ entry = [s \in Socket |-> Null]
  /\ room = {}
  /\ users = {}
  /\ work = [s \in Socket |-> [e \in Event |-> At("idle")]]
  /\ page = [s \in Socket |-> [self |-> s, list |-> {}, peers |-> {}]]
  /\ clock = 0
  /\ relayed = [s \in Socket |-> 0]
  /\ entitled = {} /\ withdrawn = {} /\ early = {} /\ replaced = {}

\* A page connects: io.use finds its account; the page knows itself as that
\* account, or by the id that its browser keeps.
Connect(s, p, self) ==
  /\ conn[s] = "off"
  /\ self \in IF p = Nobody THEN Device
              ELSE IF p = Bootstrap THEN Device \cup {Bootstrap} ELSE {p}
  /\ conn' = [conn EXCEPT ![s] = "on"]
  /\ principal' = [principal EXCEPT ![s] = p]
  /\ page' = [page EXCEPT ![s].self = self]
  /\ UNCHANGED <<entry, room, users, work, relayed, early, replaced>>

\* The lookup is over; its locals are not needed any more.
Go(s, e, pc) == work' = [work EXCEPT ![s][e] = At(pc)]

-----------------------------------------------------------------------------
(***************************************************************************)
(* What a handler does once it knows the access.  Join: enter the room,    *)
(* then look up the name of the account.  Update: pass it on.              *)
(***************************************************************************)
Push(s) ==
  LET id == trustedUserId(s) IN
    {u \in users : u.id # id} \cup {[id |-> id, socket |-> s, isActive |-> TRUE]}

ListUser(s, members) ==
  /\ users' = Push(s)
  /\ page' = [Shown(members, users') EXCEPT ![s] = Acknowledged(@, trustedUserId(s))]
  /\ replaced' = replaced \cup {u.socket : u \in {v \in users : v.id = trustedUserId(s)}}

Decide(s, e, access) ==
  IF e = "join"
    THEN IF canView(access)
           THEN /\ room' = room \cup {s}
                /\ IF principal[s] \in {Nobody, Bootstrap}
                     THEN Go(s, e, "done") /\ ListUser(s, room')
                     ELSE Go(s, e, "account") /\ UNCHANGED <<users, page, replaced>>
                /\ UNCHANGED relayed
           ELSE /\ Go(s, e, "refused")
                /\ UNCHANGED <<room, users, page, replaced, relayed>>
    ELSE /\ Go(s, e, "done")
         /\ relayed' = [relayed EXCEPT ![s] = @ + IF canEdit(access) THEN 1 ELSE 0]
         /\ UNCHANGED <<room, users, page, replaced>>

\* Defect: an answer is trusted from when it was complete, not from when it
\* was asked for.
RememberFromNow(s, e, access) ==
  entry' = [entry EXCEPT ![s] =
              IF canView(access) THEN [access |-> access, at |-> clock] ELSE Null]

\* The end of getCachedOrFreshAccess after a lookup.
Remember(s, e, access) ==
  entry' = [entry EXCEPT ![s] =
              IF canView(access)
                THEN [access |-> access, at |-> work[s][e].since] ELSE Null]

Conclude(s, e, access) ==
  /\ Remember(s, e, access)
  /\ Decide(s, e, access)

-----------------------------------------------------------------------------
(***************************************************************************)
(* An event arrives.  join-room is the first thing a page sends; an update *)
(* of a connection without an entry is ignored.                            *)
(***************************************************************************)
Arrives(s, e) ==
  /\ conn[s] = "on"
  /\ work[s][e].pc = "idle"
  /\ IF e = "join" THEN TRUE ELSE work[s]["join"].pc # "idle"

IsCached(s) == entry[s] # Null /\ clock - entry[s].at < TTL

UseCached(s, e) ==
  /\ Arrives(s, e)
  /\ IsCached(s)
  /\ Decide(s, e, entry[s].access)
  /\ UNCHANGED <<conn, principal, entry, early>>

AskDatabase(s, e) ==
  /\ Arrives(s, e)
  /\ ~ IsCached(s)
  /\ e = "join" \/ entry[s] # Null
  /\ work' = [work EXCEPT ![s][e] = [pc |-> "direct", since |-> clock, base |-> "none"]]
  /\ UNCHANGED <<conn, principal, entry, room, users, page, relayed, early, replaced>>

Ignore(s, e) ==
  /\ Arrives(s, e)
  /\ e # "join" /\ entry[s] = Null
  /\ Go(s, e, "done")
  /\ UNCHANGED <<conn, principal, entry, room, users, page, relayed, early, replaced>>

\* The lookup found this much, and goes on with another query.
GoOn(s, e, found, query) ==
  work' = [work EXCEPT ![s][e] = [pc |-> query, since |-> @.since, base |-> found]]

\* The three queries of getDrawingAccess.
ReadDirect(s, e) ==
  LET found == DirectAccess(principal[s]) IN
    /\ work[s][e].pc = "direct"
    /\ IF found = "owner" \/ (principal[s] # Nobody /\ ~ exists)
         THEN Conclude(s, e, found)
         ELSE /\ GoOn(s, e, found, IF found = "none" /\ principal[s] # Nobody
                                     THEN "collection" ELSE "link")
              /\ UNCHANGED <<entry, room, users, page, relayed, replaced>>
    /\ UNCHANGED <<conn, principal, early>>

ReadCollection(s, e) ==
  /\ work[s][e].pc = "collection"
  /\ GoOn(s, e, CollectionAccess(principal[s]), "link")
  /\ UNCHANGED <<conn, principal, entry, room, users, page, relayed, early, replaced>>

\* Defect: the link policy counts, not the better of both.
ReadLinkOnly(s, e) ==
  /\ work[s][e].pc = "link"
  /\ Conclude(s, e, LinkAccess)
  /\ UNCHANGED <<conn, principal, early>>

ReadLink(s, e) ==
  /\ work[s][e].pc = "link"
  /\ Conclude(s, e, maxAccess(work[s][e].base, LinkAccess))
  /\ UNCHANGED <<conn, principal, early>>

\* The name of the account is known: list the user and acknowledge.
ReadAccount(s) ==
  /\ work[s]["join"].pc = "account"
  /\ Go(s, "join", "done")
  /\ ListUser(s, room)
  /\ UNCHANGED <<conn, principal, entry, room, relayed, early>>

\* A query of a join throws: the page is told; it stays in the room if it was.
FailJoin(s) ==
  /\ work[s]["join"].pc \in Waiting \cup {"account"}
  /\ Go(s, "join", "failed")
  /\ UNCHANGED <<conn, principal, entry, room, users, page, relayed, early, replaced>>

(***************************************************************************)
(* A query of an update throws.  Its handler catches nothing, and node     *)
(* ends on an unhandled rejection; the restarted process knows no sockets. *)
(***************************************************************************)
ServerEnds(s, e) ==
  /\ e \in Update
  /\ work[s][e].pc \in Waiting
  /\ conn' = [t \in Socket |-> IF conn[t] = "on" THEN "left" ELSE conn[t]]
  /\ room' = {}
  /\ users' = {}
  /\ entry' = [t \in Socket |-> Null]
  /\ work' = [t \in Socket |-> [f \in Event |->
                IF work[t][f].pc = "idle" THEN At("idle") ELSE At("done")]]
  /\ UNCHANGED <<principal, page, relayed, early, replaced>>

-----------------------------------------------------------------------------
SetActive(s, isActive) ==
  {IF u.socket = s THEN [id |-> u.id, socket |-> s, isActive |-> isActive] ELSE u :
     u \in users}

\* user-activity: the window is focused or blurred.
Activity(s, isActive) ==
  /\ conn[s] = "on"
  /\ entry[s] # Null
  /\ \E u \in users : u.socket = s /\ u.isActive # isActive
  /\ users' = SetActive(s, isActive)
  /\ page' = Shown(room, users')
  /\ UNCHANGED <<conn, principal, entry, room, work, relayed, early, replaced>>

\* Defects: the entry stays in the list; every entry of the person goes.
Leaves(s) ==
  /\ conn[s] = "on"
  /\ conn' = [conn EXCEPT ![s] = "left"]
  /\ room' = room \ {s}
  /\ early' = IF work[s]["join"].pc \in Waiting \cup {"account"}
                THEN early \cup {s} ELSE early
  /\ UNCHANGED <<principal, entry, work, relayed, replaced>>

\* Defect: the entry stays in the list.
DisconnectOnly(s) == Leaves(s) /\ UNCHANGED <<users, page>>

\* The connection ends; its handlers go on.
Disconnect(s) ==
  /\ Leaves(s)
  /\ users' = {u \in users : u.socket # s}
  /\ page' = IF users' = users THEN page ELSE Shown(room', users')

-----------------------------------------------------------------------------
RoomStep ==
  \E s \in Socket :
    \/ \E p \in Principal, self \in Person : Connect(s, p, self)
    \/ \E e \in Event :
         \/ UseCached(s, e) \/ AskDatabase(s, e) \/ Ignore(s, e)
         \/ ReadDirect(s, e) \/ ReadCollection(s, e) \/ ReadLink(s, e)
         \/ ServerEnds(s, e)
    \/ ReadAccount(s) \/ FailJoin(s)
    \/ \E b \in BOOLEAN : Activity(s, b)
    \/ Disconnect(s)

Tick == clock < MaxTime /\ clock' = clock + 1

\* Some row says so, be it one that another row overrides.
MayEdit(p) ==
  \E access \in {DirectAccess(p), CollectionAccess(p), LinkAccess} : canEdit(access)

(***************************************************************************)
(* History: who could view when asking to join, whether anything was       *)
(* withdrawn since, and when each user could last edit.                    *)
(***************************************************************************)
Asks(s) == work[s]["join"].pc = "idle" /\ work'[s]["join"].pc # "idle"

Observe ==
  /\ entitled' = entitled \cup
       {s \in Socket : Asks(s) /\ canView(Effective(principal[s]))}
  /\ withdrawn' = IF Withdrawal
                    THEN withdrawn \cup {s \in Socket : work[s]["join"].pc # "idle"}
                    ELSE withdrawn
  /\ lastEdit' = [s \in Socket |->
                    IF conn'[s] # "off" /\ MayEdit(principal[s])'
                      THEN clock' ELSE lastEdit[s]]

Init ==
  /\ SharingInit
  /\ RoomInit
  /\ lastEdit = [s \in Socket |-> - TTL]

Next ==
  /\ \/ RoomStep /\ UNCHANGED <<sharing, clock>>
     \/ SharingStep /\ UNCHANGED <<server, clock, relayed, early, replaced>>
     \/ Tick /\ UNCHANGED <<sharing, server, relayed, early, replaced>>
  /\ Observe

Spec == Init /\ [][Next]_vars

-----------------------------------------------------------------------------
TypeOK ==
  /\ SharingTypeOK
  /\ conn \in [Socket -> {"off", "on", "left"}]
  /\ principal \in [Socket -> Principal]
  /\ entry \in [Socket -> [access : Access \ {"none"}, at : 0 .. MaxTime] \cup {Null}]
  /\ room \subseteq Socket
  /\ users \subseteq Peer
  /\ work \in [Socket -> [Event -> Work]]
  /\ page \in [Socket -> [self : Person, list : SUBSET Peer, peers : SUBSET Peer]]
  /\ clock \in 0 .. MaxTime
  /\ relayed \in [Socket -> Nat]
  /\ lastEdit \in [Socket -> Int]
  /\ entitled \cup withdrawn \cup early \cup replaced \subseteq Socket

Joined(s) == conn[s] = "on" /\ work[s]["join"].pc = "done"

(***************************************************************************)
(* Two tabs, a reload or a slow join never list one person twice, and no   *)
(* connection holds two entries.                                           *)
(***************************************************************************)
OnePersonOneEntry ==
  \A u, v \in users : u.id = v.id \/ u.socket = v.socket => u = v

(***************************************************************************)
(* Everybody listed is connected.  The one exception is a page that left   *)
(* while its join was waiting for the database: it is listed after it left.*)
(***************************************************************************)
OnlyTheConnectedAreListed ==
  \A u \in users : conn[u.socket] = "on" \/ u.socket \in early

(***************************************************************************)
(* A page whose join was acknowledged stays listed as long as it is        *)
(* connected, however joins, departures and activity of others interleave, *)
(* unless another page of the same person took its place.                  *)
(***************************************************************************)
JoinedAreListed ==
  \A s \in Socket :
    Joined(s) => s \in replaced \/ \E u \in users : u.socket = s

PresenceIsTrue == OnePersonOneEntry /\ OnlyTheConnectedAreListed /\ JoinedAreListed

(***************************************************************************)
(* Every page that joined shows the server's list, activity included, and  *)
(* never itself: also when the server knows it under another id than the   *)
(* page did, and however many lists arrived before the acknowledgement.    *)
(***************************************************************************)
PagesShowTheList ==
  \A s \in Socket :
    Joined(s) => page[s].peers = {u \in users : u.id # trustedUserId(s)}

(***************************************************************************)
(* Withdrawn rights take effect: an update that reaches the room was sent  *)
(* less than TTL after some row last let its sender edit, although lookups *)
(* take their time, overlap, and overwrite each other's entries.           *)
(***************************************************************************)
SentAt(s, e) == IF work[s][e].pc = "idle" THEN clock ELSE work[s][e].since

WithdrawnEditsStop ==
  [][\A s \in Socket, e \in Update :
       relayed'[s] # relayed[s] /\ work'[s][e].pc # work[s][e].pc =>
         lastEdit[s] > SentAt(s, e) - TTL]_vars

(***************************************************************************)
(* A page that could view when it asked is let in, and is not ignored      *)
(* later, as long as nobody withdraws any right: granting another one, or  *)
(* raising one, never locks a page out.                                    *)
(***************************************************************************)
LetIn(s) == work[s]["join"].pc # "refused" /\ (Joined(s) => entry[s] # Null)

EntitledAreHeard ==
  \A s \in entitled : s \in withdrawn \/ LetIn(s)
=============================================================================
