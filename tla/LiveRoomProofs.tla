--------------------------- MODULE LiveRoomProofs ---------------------------
(***************************************************************************)
(* Proofs about presence and about rights in LiveRoom, for any number of   *)
(* connections, accounts, updates and changes of the sharing rows, and     *)
(* about the voice co-pilot, for any number of its clients and panels.     *)
(***************************************************************************)
EXTENDS LiveRoom, VoiceCopilot, FiniteSetTheorems, WellFoundedInduction, TLAPS

Join(s) == work[s]["join"].pc

Types ==
  /\ direct \in [User -> Access]
  /\ role \in [User -> Access]
  /\ clock \in 0 .. MaxTime
  /\ conn \in [Socket -> {"off", "on", "left"}]
  /\ principal \in [Socket -> Principal]
  /\ room \subseteq Socket
  /\ users \subseteq Peer
  /\ work \in [Socket -> [Event -> Work]]
  /\ page \in [Socket -> [self : Person, list : SUBSET Peer, peers : SUBSET Peer]]
  /\ early \subseteq Socket
  /\ replaced \subseteq Socket

(***************************************************************************)
(* The inductive invariant.  A connection that is off has done nothing; an *)
(* entry bears the id of its connection, and no two bear one id; whoever   *)
(* waits for an account is in the room; whoever left in the middle of a    *)
(* join is remembered; and a page that joined is in the room, is listed or *)
(* replaced, and knows list and id as the server does.                     *)
(***************************************************************************)
OffIsIdle ==
  \A s \in Socket :
    conn[s] = "off" => Join(s) = "idle" /\ \A u \in users : u.socket # s

NamedByConnection == \A u \in users : u.id = trustedUserId(u.socket)

OneEntryPerId == \A u, v \in users : u.id = v.id => u = v

WaitingInRoom ==
  \A s \in Socket : conn[s] = "on" /\ Join(s) = "account" => s \in room

LeftEarly ==
  \A s \in Socket :
    conn[s] = "left" /\ Join(s) \in Waiting \cup {"account"} => s \in early

Views ==
  \A s \in Socket :
    Joined(s) =>
      /\ s \in room
      /\ s \in replaced \/ \E u \in users : u.socket = s
      /\ page[s].list = users
      /\ page[s].self = trustedUserId(s)
      /\ page[s].peers = {u \in users : u.id # trustedUserId(s)}

PresenceInv ==
  /\ Types
  /\ OffIsIdle /\ NamedByConnection /\ OneEntryPerId
  /\ WaitingInRoom /\ LeftEarly /\ OnlyTheConnectedAreListed /\ Views

-----------------------------------------------------------------------------
(***************************************************************************)
(* What a handler's step does to the control state of the joins.           *)
(***************************************************************************)
LEMMA GoTo ==
  ASSUME Types, NEW s \in Socket, NEW e \in Event,
         NEW pc \in Waiting \cup {"idle", "account", "done", "refused", "failed"},
         Go(s, e, pc)
  PROVE  /\ work' \in [Socket -> [Event -> Work]]
         /\ \A t \in Socket : Join(t)' = IF t = s /\ e = "join" THEN pc ELSE Join(t)
<1>1. "join" \in Event
  BY DEF Event
<1>2. At(pc) \in Work /\ At(pc).pc = pc
  BY RoomAssumption DEF At, Work, Access, Permission
<1> QED
  BY <1>1, <1>2 DEF Go, Join, Types

\* element-update is another event than join-room.
LEMMA NotAJoin ==
  ASSUME NEW e \in Update
  PROVE  e # "join"
BY RoomAssumption

\* A connection is listed under the id of a person.
LEMMA NameType ==
  ASSUME Types, NEW s \in Socket
  PROVE  trustedUserId(s) \in Person
BY DEF Types, trustedUserId, Person, Principal

(***************************************************************************)
(* A step that only moves joins that are not over.                         *)
(***************************************************************************)
LEMMA HandlerMoves ==
  ASSUME PresenceInv, Types',
         UNCHANGED <<conn, principal, room, users, page, early, replaced>>,
         \A t \in Socket :
           \/ Join(t)' = Join(t)
           \/ /\ Join(t)' \in Waiting \cup {"refused", "failed"}
              /\ conn[t] = "on" \/ Join(t) \in Waiting \cup {"account"}
  PROVE  PresenceInv'
<1> USE DEF PresenceInv
<1>1. OffIsIdle'
  BY DEF OffIsIdle, Types, Waiting
<1>2. NamedByConnection' /\ OneEntryPerId'
  BY DEF NamedByConnection, OneEntryPerId, trustedUserId
<1>3. WaitingInRoom'
  BY DEF WaitingInRoom, Waiting
<1>4. LeftEarly'
  BY DEF LeftEarly, Waiting
<1>5. OnlyTheConnectedAreListed'
  BY DEF OnlyTheConnectedAreListed
<1>6. Views'
  BY DEF Views, Joined, Join, Waiting, trustedUserId
<1> QED
  BY <1>1, <1>2, <1>3, <1>4, <1>5, <1>6

(***************************************************************************)
(* The step that lists a connection and acknowledges its join.             *)
(***************************************************************************)
LEMMA ListingKeeps ==
  ASSUME PresenceInv, Types', NEW s \in Socket,
         conn[s] # "off", conn[s] = "left" => s \in early,
         room \subseteq room', conn[s] = "on" => s \in room',
         ListUser(s, room'),
         Join(s)' = "done",
         \A t \in Socket \ {s} : Join(t)' = Join(t),
         UNCHANGED <<conn, principal, early>>
  PROVE  PresenceInv'
<1> DEFINE id == trustedUserId(s)
           own == [id |-> id, socket |-> s, isActive |-> TRUE]
<1> USE DEF PresenceInv
<1>1. users' = {u \in users : u.id # id} \cup {own}
  BY DEF ListUser, Push
<1>2. /\ own \in Peer /\ own.id = id /\ own.socket = s
      /\ \A u \in users : u.socket \in Socket
  BY NameType DEF Peer, Types
<1>3. /\ page'[s].self = id
      /\ page'[s].peers = {u \in page'[s].list : u.id # id}
      /\ conn[s] = "on" => page'[s].list = users'
  BY DEF ListUser, Shown, Received, Acknowledged, Types
<1>4. \A t \in Socket \ {s} : page'[t].self = page[t].self
  BY DEF ListUser, Shown, Received, Types
<1>5. \A t \in Socket \ {s} : conn[t] = "on" /\ t \in room' =>
        /\ page'[t].list = users'
        /\ page'[t].peers = {u \in users' : u.id # page[t].self}
  BY DEF ListUser, Shown, Received, Types
<1>6. \A t \in Socket : trustedUserId(t)' = trustedUserId(t)
  <2>1. trustedUserId(s)' = trustedUserId(s)
    BY <1>3 DEF trustedUserId
  <2>2. \A t \in Socket \ {s} : trustedUserId(t)' = trustedUserId(t)
    BY <1>4 DEF trustedUserId
  <2> QED
    BY <2>1, <2>2
<1>7. OffIsIdle'
  BY <1>1, <1>2 DEF OffIsIdle
<1>8. NamedByConnection'
  BY <1>1, <1>2, <1>6 DEF NamedByConnection
<1>9. OneEntryPerId'
  BY <1>1, <1>2 DEF OneEntryPerId
<1>10. WaitingInRoom' /\ LeftEarly'
  BY DEF WaitingInRoom, LeftEarly, Waiting
<1>11. OnlyTheConnectedAreListed'
  BY <1>1, <1>2, conn[s] \in {"off", "on", "left"} DEF OnlyTheConnectedAreListed, Types
<1>12. Views'
  <2> SUFFICES ASSUME NEW t \in Socket, Joined(t)'
               PROVE  /\ t \in room'
                      /\ t \in replaced' \/ \E u \in users' : u.socket = t
                      /\ page'[t].list = users'
                      /\ page'[t].self = trustedUserId(t)
                      /\ page'[t].peers = {u \in users' : u.id # trustedUserId(t)}
    BY <1>6 DEF Views
  <2>1. CASE t = s
    BY <2>1, <1>1, <1>2, <1>3 DEF Joined
  <2>2. CASE t # s
    <3>1. Joined(t)
      BY <2>2 DEF Joined, Join
    <3>2. t \in room /\ page[t].self = trustedUserId(t)
      BY <3>1 DEF Views
    <3>3. conn[t] = "on"
      BY <3>1 DEF Joined
    <3>4. t \in replaced' \/ \E u \in users' : u.socket = t
      <4>1. CASE t \in replaced
        BY <4>1 DEF ListUser
      <4>2. CASE \E u \in users : u.socket = t
        <5>1. PICK u \in users : u.socket = t
          BY <4>2
        <5>2. CASE u.id = id
          BY <5>1, <5>2 DEF ListUser
        <5>3. CASE u.id # id
          BY <5>1, <5>3, <1>1
        <5> QED
          BY <5>2, <5>3
      <4> QED
        BY <3>1, <4>1, <4>2 DEF Views
    <3> QED
      BY <2>2, <3>2, <3>3, <3>4, <1>4, <1>5
  <2> QED
    BY <2>1, <2>2
<1> QED
  BY <1>7, <1>8, <1>9, <1>10, <1>11, <1>12

-----------------------------------------------------------------------------
(***************************************************************************)
(* Types of what the steps write.                                          *)
(***************************************************************************)
LEMMA ShownType ==
  ASSUME Types, NEW members, NEW list \in SUBSET Peer
  PROVE  Shown(members, list) \in
           [Socket -> [self : Person, list : SUBSET Peer, peers : SUBSET Peer]]
BY DEF Shown, Received, Types

\* The list, the pages and the replaced ones keep their types.
LEMMA ListUserType ==
  ASSUME Types, NEW s \in Socket, NEW members, ListUser(s, members)
  PROVE  /\ users' \subseteq Peer
         /\ page' \in [Socket -> [self : Person, list : SUBSET Peer, peers : SUBSET Peer]]
         /\ replaced' \subseteq Socket
<1>1. trustedUserId(s) \in Person
  BY NameType
<1>2. users' \subseteq Peer
  <2>1. [id |-> trustedUserId(s), socket |-> s, isActive |-> TRUE] \in Peer
    BY <1>1 DEF Peer
  <2> QED
    BY <2>1 DEF ListUser, Push, Types
<1>3. Shown(members, users') \in
        [Socket -> [self : Person, list : SUBSET Peer, peers : SUBSET Peer]]
  BY <1>2, ShownType
<1>4. Acknowledged(Shown(members, users')[s], trustedUserId(s)) \in
        [self : Person, list : SUBSET Peer, peers : SUBSET Peer]
  BY <1>1, <1>3 DEF Acknowledged
<1>5. page' \in [Socket -> [self : Person, list : SUBSET Peer, peers : SUBSET Peer]]
  BY <1>3, <1>4 DEF ListUser
<1>6. replaced' \subseteq Socket
  BY DEF ListUser, Peer, Types
<1> QED
  BY <1>2, <1>5, <1>6

(***************************************************************************)
(* The end of an access check, for a join and for an update.               *)
(***************************************************************************)
LEMMA DecideKeeps ==
  ASSUME PresenceInv, NEW s \in Socket, NEW e \in Event, NEW access,
         Decide(s, e, access),
         e = "join" => conn[s] = "on" \/ Join(s) \in Waiting,
         UNCHANGED <<conn, principal, early, clock, direct, role>>
  PROVE  PresenceInv'
<1>1. Types
  BY DEF PresenceInv
<1>2. CASE e = "join"
  <2>1. conn[s] # "off" /\ (conn[s] = "left" => s \in early)
    BY <1>2 DEF PresenceInv, OffIsIdle, LeftEarly, Types, Waiting
  <2>2. CASE ~ canView(access)
    <3>1. Go(s, e, "refused") /\ UNCHANGED <<room, users, page, replaced>>
      BY <1>2, <2>2 DEF Decide
    <3>2. /\ work' \in [Socket -> [Event -> Work]]
          /\ \A t \in Socket : Join(t)' = IF t = s /\ e = "join" THEN "refused" ELSE Join(t)
      BY <1>1, <3>1, GoTo
    <3>3. Types'
      BY <1>1, <3>1, <3>2 DEF Types
    <3> QED
      BY <1>2, <3>1, <3>2, <3>3, HandlerMoves
  <2>3. CASE canView(access) /\ principal[s] \in {Nobody, Bootstrap}
    <3>1. Go(s, e, "done") /\ room' = room \cup {s} /\ ListUser(s, room')
      BY <1>2, <2>3 DEF Decide
    <3>2. /\ work' \in [Socket -> [Event -> Work]]
          /\ \A t \in Socket : Join(t)' = IF t = s /\ e = "join" THEN "done" ELSE Join(t)
      BY <1>1, <3>1, GoTo
    <3>3. Types'
      <4>1. room' \subseteq Socket
        BY <1>1, <3>1 DEF Types
      <4> QED
        BY <1>1, <3>1, <3>2, <4>1, ListUserType DEF Types
    <3>4. Join(s)' = "done" /\ \A t \in Socket \ {s} : Join(t)' = Join(t)
      BY <1>2, <3>2
    <3>5. room \subseteq room' /\ s \in room'
      BY <3>1
    <3> QED
      BY <2>1, <3>1, <3>3, <3>4, <3>5, ListingKeeps
  <2>4. CASE canView(access) /\ principal[s] \notin {Nobody, Bootstrap}
    <3>1. /\ Go(s, e, "account") /\ room' = room \cup {s}
          /\ UNCHANGED <<users, page, replaced>>
      BY <1>2, <2>4 DEF Decide
    <3>2. /\ work' \in [Socket -> [Event -> Work]]
          /\ \A t \in Socket : Join(t)' = IF t = s THEN "account" ELSE Join(t)
      BY <1>1, <1>2, <3>1, GoTo
    <3>3. Types'
      BY <1>1, <3>1, <3>2 DEF Types
    <3>4. OffIsIdle' /\ NamedByConnection' /\ OneEntryPerId'
      BY <2>1, <3>1, <3>2
      DEF PresenceInv, OffIsIdle, NamedByConnection, OneEntryPerId, trustedUserId
    <3>5. WaitingInRoom' /\ LeftEarly' /\ OnlyTheConnectedAreListed'
      BY <2>1, <3>1, <3>2
      DEF PresenceInv, WaitingInRoom, LeftEarly, OnlyTheConnectedAreListed, Waiting
    <3>6. Views'
      BY <3>1, <3>2 DEF PresenceInv, Views, Joined, Join, trustedUserId
    <3> QED
      BY <3>3, <3>4, <3>5, <3>6 DEF PresenceInv
  <2> QED
    BY <2>2, <2>3, <2>4
<1>3. CASE e # "join"
  <2>1. Go(s, e, "done") /\ UNCHANGED <<room, users, page, replaced>>
    BY <1>3 DEF Decide
  <2>2. /\ work' \in [Socket -> [Event -> Work]]
        /\ \A t \in Socket : Join(t)' = IF t = s /\ e = "join" THEN "done" ELSE Join(t)
    BY <1>1, <2>1, GoTo
  <2>3. Types'
    BY <1>1, <2>1, <2>2 DEF Types
  <2> QED
    BY <1>3, <2>1, <2>2, <2>3, HandlerMoves
<1> QED
  BY <1>2, <1>3

(***************************************************************************)
(* A connection begins, and the page's activity changes.                   *)
(***************************************************************************)
LEMMA ConnectKeeps ==
  ASSUME PresenceInv, NEW s \in Socket, NEW p \in Principal, NEW self \in Person,
         Connect(s, p, self), UNCHANGED <<clock, direct, role>>
  PROVE  PresenceInv'
<1> USE DEF PresenceInv
<1>1. /\ conn[s] = "off" /\ Join(s) = "idle"
      /\ \A u \in users : u.socket # s /\ u.socket \in Socket
  BY DEF Connect, OffIsIdle, Types, Peer
<1>2. /\ conn' = [conn EXCEPT ![s] = "on"]
      /\ principal' = [principal EXCEPT ![s] = p]
      /\ page' = [page EXCEPT ![s].self = self]
      /\ UNCHANGED <<room, users, work, early, replaced>>
  BY DEF Connect
<1>3. Types'
  BY <1>2 DEF Types
<1>4. \A t \in Socket \ {s} :
        /\ trustedUserId(t)' = trustedUserId(t)
        /\ conn'[t] = conn[t] /\ page'[t] = page[t] /\ Join(t)' = Join(t)
  BY <1>2 DEF trustedUserId, Types, Join
<1>5. Join(s)' = "idle" /\ conn'[s] = "on"
  BY <1>1, <1>2 DEF Join, Types
<1>6. OffIsIdle' /\ OneEntryPerId'
  BY <1>2, <1>4, <1>5 DEF OffIsIdle, OneEntryPerId
<1>7. NamedByConnection'
  BY <1>1, <1>2, <1>4 DEF NamedByConnection
<1>8. WaitingInRoom' /\ LeftEarly'
  BY <1>2, <1>4, <1>5 DEF WaitingInRoom, LeftEarly, Waiting
<1>9. OnlyTheConnectedAreListed'
  BY <1>1, <1>2, <1>4 DEF OnlyTheConnectedAreListed
<1>10. Views'
  <2> SUFFICES ASSUME NEW t \in Socket, Joined(t)'
               PROVE  /\ t \in room'
                      /\ t \in replaced' \/ \E u \in users' : u.socket = t
                      /\ page'[t].list = users'
                      /\ page'[t].self = trustedUserId(t)'
                      /\ page'[t].peers = {u \in users' : u.id # trustedUserId(t)'}
    BY DEF Views
  <2>1. t # s
    BY <1>5 DEF Joined, Join
  <2>2. Joined(t)
    BY <2>1, <1>4 DEF Joined, Join
  <2> QED
    BY <2>1, <2>2, <1>2, <1>4 DEF Views
<1> QED
  BY <1>3, <1>6, <1>7, <1>8, <1>9, <1>10

\* user-activity.
LEMMA ActivityKeeps ==
  ASSUME PresenceInv, NEW s \in Socket, NEW isActive \in BOOLEAN,
         Activity(s, isActive), UNCHANGED <<clock, direct, role>>
  PROVE  PresenceInv'
<1> USE DEF PresenceInv
<1>1. /\ users' = SetActive(s, isActive)
      /\ page' = Shown(room, users')
      /\ UNCHANGED <<conn, principal, room, work, early, replaced>>
  BY DEF Activity
<1>2. /\ \A u \in users' : /\ u \in Peer
                           /\ \E v \in users : v.id = u.id /\ v.socket = u.socket
      /\ \A v \in users : \E u \in users' : v.socket = u.socket
  <2> DEFINE new(v) == IF v.socket = s
                         THEN [id |-> v.id, socket |-> s, isActive |-> isActive] ELSE v
  <2>1. users' = {new(v) : v \in users}
    BY <1>1 DEF SetActive
  <2>2. \A v \in users : new(v) \in Peer /\ new(v).id = v.id /\ new(v).socket = v.socket
    BY DEF Peer, Types
  <2> HIDE DEF new
  <2> QED
    BY <2>1, <2>2
<1>3. Types'
  BY <1>1, <1>2, ShownType DEF Types
<1>4. \A t \in Socket : page'[t].self = page[t].self
  BY <1>1 DEF Shown, Received, Types
<1>5. \A t \in Socket : trustedUserId(t)' = trustedUserId(t)
  BY <1>1, <1>4 DEF trustedUserId
<1>6. OffIsIdle'
  BY <1>1, <1>2 DEF OffIsIdle, Join
<1>7. NamedByConnection'
  <2> SUFFICES ASSUME NEW u \in users'
               PROVE  u.id = trustedUserId(u.socket)'
    BY DEF NamedByConnection
  <2>1. PICK v \in users : v.id = u.id /\ v.socket = u.socket
    BY <1>2
  <2>2. v.id = trustedUserId(v.socket) /\ v.socket \in Socket
    BY DEF NamedByConnection, Types, Peer
  <2> QED
    BY <2>1, <2>2, <1>5
<1>8. OneEntryPerId'
  BY <1>1 DEF OneEntryPerId, SetActive, Peer, Types
<1>9. WaitingInRoom' /\ LeftEarly'
  BY <1>1 DEF WaitingInRoom, LeftEarly, Join
<1>10. OnlyTheConnectedAreListed'
  BY <1>1, <1>2 DEF OnlyTheConnectedAreListed
<1>11. Views'
  <2> SUFFICES ASSUME NEW t \in Socket, Joined(t)
               PROVE  /\ t \in room
                      /\ t \in replaced \/ \E u \in users' : u.socket = t
                      /\ page'[t].list = users'
                      /\ page'[t].self = trustedUserId(t)
                      /\ page'[t].peers = {u \in users' : u.id # trustedUserId(t)}
    BY <1>1, <1>5 DEF Views, Joined
  <2>1. /\ t \in room /\ page[t].self = trustedUserId(t) /\ conn[t] = "on"
        /\ t \in replaced \/ \E u \in users : u.socket = t
    BY DEF Views, Joined
  <2>2. page'[t] = Received(page[t], users')
    BY <1>1, <2>1 DEF Shown
  <2> QED
    BY <2>1, <2>2, <1>2 DEF Received
<1> QED
  BY <1>3, <1>6, <1>7, <1>8, <1>9, <1>10, <1>11

(***************************************************************************)
(* A connection ends: the page leaves, or the server process ends.         *)
(***************************************************************************)
LEMMA DisconnectKeeps ==
  ASSUME PresenceInv, NEW s \in Socket, Disconnect(s),
         UNCHANGED <<clock, direct, role>>
  PROVE  PresenceInv'
<1> USE DEF PresenceInv
<1>1. /\ conn[s] = "on" /\ conn' = [conn EXCEPT ![s] = "left"]
      /\ room' = room \ {s}
      /\ users' = {u \in users : u.socket # s}
      /\ page' = IF users' = users THEN page ELSE Shown(room', users')
      /\ early' = IF Join(s) \in Waiting \cup {"account"} THEN early \cup {s} ELSE early
      /\ UNCHANGED <<principal, work, replaced>>
  BY DEF Disconnect, Leaves, Join
<1>2. \A t \in Socket : conn'[t] = IF t = s THEN "left" ELSE conn[t]
  BY <1>1 DEF Types
<1>3. Types'
  <2>1. users' \in SUBSET Peer
    BY <1>1 DEF Types
  <2>2. page' \in [Socket -> [self : Person, list : SUBSET Peer, peers : SUBSET Peer]]
    BY <1>1, <2>1, ShownType DEF Types
  <2> QED
    BY <1>1, <2>1, <2>2 DEF Types
<1>4. \A t \in Socket : page'[t].self = page[t].self
  BY <1>1 DEF Shown, Received, Types
<1>5. \A t \in Socket : trustedUserId(t)' = trustedUserId(t)
  BY <1>1, <1>4 DEF trustedUserId
<1>6. OffIsIdle' /\ OneEntryPerId'
  BY <1>1, <1>2 DEF OffIsIdle, OneEntryPerId, Join
<1>7. NamedByConnection'
  BY <1>1, <1>5 DEF NamedByConnection, Types, Peer
<1>8. WaitingInRoom' /\ LeftEarly'
  BY <1>1, <1>2 DEF WaitingInRoom, LeftEarly, Join
<1>9. OnlyTheConnectedAreListed'
  BY <1>1, <1>2 DEF OnlyTheConnectedAreListed, Types, Peer
<1>10. Views'
  <2> SUFFICES ASSUME NEW t \in Socket, Joined(t)'
               PROVE  /\ t \in room'
                      /\ t \in replaced' \/ \E u \in users' : u.socket = t
                      /\ page'[t].list = users'
                      /\ page'[t].self = trustedUserId(t)'
                      /\ page'[t].peers = {u \in users' : u.id # trustedUserId(t)'}
    BY DEF Views
  <2>1. t # s /\ conn[t] = "on" /\ Joined(t)
    BY <1>1, <1>2 DEF Joined, Join
  <2>2. /\ t \in room' /\ page[t].self = trustedUserId(t)
        /\ page[t].list = users
        /\ page[t].peers = {u \in users : u.id # trustedUserId(t)}
        /\ t \in replaced \/ \E u \in users' : u.socket = t
    BY <2>1, <1>1 DEF Views
  <2>3. CASE users' = users
    BY <2>2, <2>3, <1>1, <1>5
  <2>4. CASE users' # users
    <3>1. page'[t] = IF conn[t] = "on" THEN Received(page[t], users') ELSE page[t]
      BY <2>2, <2>4, <1>1 DEF Shown
    <3> QED
      BY <2>1, <2>2, <3>1, <1>1, <1>5 DEF Received
  <2> QED
    BY <2>3, <2>4
<1> QED
  BY <1>3, <1>6, <1>7, <1>8, <1>9, <1>10

\* The process ends: every list and every connection is gone.
LEMMA ServerEndsKeeps ==
  ASSUME PresenceInv, NEW s \in Socket, NEW e \in Event, ServerEnds(s, e),
         UNCHANGED <<clock, direct, role>>
  PROVE  PresenceInv'
<1> USE DEF PresenceInv
<1>1. /\ conn' = [t \in Socket |-> IF conn[t] = "on" THEN "left" ELSE conn[t]]
      /\ room' = {} /\ users' = {}
      /\ work' = [t \in Socket |-> [f \in Event |->
                    IF work[t][f].pc = "idle" THEN At("idle") ELSE At("done")]]
      /\ UNCHANGED <<principal, page, early, replaced>>
  BY DEF ServerEnds
<1>2. At("idle") \in Work /\ At("done") \in Work
  BY RoomAssumption DEF At, Work, Access, Permission
<1>3. \A t \in Socket : Join(t)' = IF Join(t) = "idle" THEN "idle" ELSE "done"
  BY <1>1 DEF Join, Event, At
<1>4. Types'
  BY <1>1, <1>2 DEF Types
<1>5. \A t \in Socket : conn'[t] # "on" /\ (conn'[t] = "off" => conn[t] = "off")
  BY <1>1 DEF Types
<1>6. OffIsIdle' /\ NamedByConnection' /\ OneEntryPerId' /\ OnlyTheConnectedAreListed'
  BY <1>1, <1>3, <1>5
  DEF OffIsIdle, NamedByConnection, OneEntryPerId, OnlyTheConnectedAreListed
<1>7. WaitingInRoom' /\ LeftEarly' /\ Views'
  BY <1>3, <1>5 DEF WaitingInRoom, LeftEarly, Views, Joined, Waiting
<1> QED
  BY <1>4, <1>6, <1>7

-----------------------------------------------------------------------------
\* An empty room satisfies the invariant.
LEMMA InitPresence == Init => PresenceInv
<1> SUFFICES ASSUME Init
             PROVE  PresenceInv
  OBVIOUS
<1>1. At("idle") \in Work /\ At("idle").pc = "idle"
  BY RoomAssumption DEF At, Work, Access, Permission
<1>2. \A s \in Socket : conn[s] = "off" /\ Join(s) = "idle" /\ users = {}
  BY <1>1 DEF Init, RoomInit, Join, Event
<1>3. Types
  BY <1>1, RoomAssumption, SharingAssumption
  DEF Init, RoomInit, SharingInit, Shared, Hosted, Types, Person, Principal, Peer, Access, Permission
<1>4. OffIsIdle /\ NamedByConnection /\ OneEntryPerId /\ OnlyTheConnectedAreListed
  <2>1. users = {}
    BY DEF Init, RoomInit
  <2> QED
    BY <1>2, <2>1 DEF OffIsIdle, NamedByConnection, OneEntryPerId, OnlyTheConnectedAreListed
<1>5. WaitingInRoom /\ LeftEarly /\ Views
  BY <1>2 DEF WaitingInRoom, LeftEarly, Views, Joined
<1> QED
  BY <1>3, <1>4, <1>5 DEF PresenceInv

(***************************************************************************)
(* The sharing rows keep their types, and nothing else of presence moves.  *)
(***************************************************************************)
LEMMA SharingKeeps ==
  ASSUME PresenceInv, SharingStep, UNCHANGED <<server, clock, early, replaced>>
  PROVE  PresenceInv'
<1>1. direct' \in [User -> Access] /\ role' \in [User -> Access]
  BY DEF PresenceInv, Types, SharingStep, Grant, RevokeGrant, ShareCollection,
         UnshareCollection, DropCollection, RevokeActiveLinks, CreateLink, EndLink,
         DeleteDrawing, Access, Permission
<1>2. UNCHANGED <<conn, principal, room, users, page, work, early, replaced, clock>>
  BY DEF server
<1>3. Types'
  BY <1>1, <1>2 DEF PresenceInv, Types
<1>4. \A t \in Socket : Join(t)' = Join(t)
  BY <1>2 DEF Join
<1> QED
  BY <1>2, <1>3, <1>4, HandlerMoves

(***************************************************************************)
(* A handler that goes on waiting, ends without effect, or fails.          *)
(***************************************************************************)
LEMMA WaitKeeps ==
  ASSUME PresenceInv, NEW s \in Socket, NEW e \in Event,
         NEW w \in Work, w.pc \in Waiting,
         work' = [work EXCEPT ![s][e] = w],
         e = "join" => conn[s] = "on" \/ Join(s) \in Waiting,
         UNCHANGED <<conn, principal, room, users, page, early, replaced,
                     clock, direct, role>>
  PROVE  PresenceInv'
<1>1. Types'
  BY DEF PresenceInv, Types
<1>2. \A t \in Socket : Join(t)' = IF t = s /\ e = "join" THEN w.pc ELSE Join(t)
  BY DEF PresenceInv, Types, Join, Event
<1> QED
  BY <1>1, <1>2, HandlerMoves

\* A handler ends without effect, or its query throws.
LEMMA StopKeeps ==
  ASSUME PresenceInv, NEW s \in Socket, NEW e \in Event,
         NEW pc \in {"done", "failed"}, Go(s, e, pc),
         \/ e # "join"
         \/ pc = "failed" /\ Join(s) \in Waiting \cup {"account"},
         UNCHANGED <<conn, principal, room, users, page, early, replaced,
                     clock, direct, role>>
  PROVE  PresenceInv'
<1>1. Types
  BY DEF PresenceInv
<1>2. /\ work' \in [Socket -> [Event -> Work]]
      /\ \A t \in Socket : Join(t)' = IF t = s /\ e = "join" THEN pc ELSE Join(t)
  BY <1>1, GoTo
<1>3. Types'
  BY <1>1, <1>2 DEF Types
<1> QED
  BY <1>2, <1>3, HandlerMoves

(***************************************************************************)
(* The queries return accesses.                                            *)
(***************************************************************************)
LEMMA RowTypes ==
  ASSUME Types, NEW p \in Principal
  PROVE  DirectAccess(p) \in Access /\ CollectionAccess(p) \in Access
BY DEF Types, Principal, DirectAccess, CollectionAccess, Access, Permission

\* A lookup goes on with its next query.
LEMMA GoOnKeeps ==
  ASSUME PresenceInv, NEW s \in Socket, NEW e \in Event,
         NEW found \in Access, NEW query \in Waiting, GoOn(s, e, found, query),
         work[s][e].pc \in Waiting,
         UNCHANGED <<conn, principal, room, users, page, early, replaced,
                     clock, direct, role>>
  PROVE  PresenceInv'
<1> DEFINE w == [pc |-> query, since |-> work[s][e].since, base |-> found]
<1>1. work[s][e] \in Work
  BY DEF PresenceInv, Types
<1>2. w \in Work /\ w.pc \in Waiting
  BY <1>1 DEF Work
<1>3. work' = [work EXCEPT ![s][e] = w]
  BY DEF GoOn
<1>4. e = "join" => Join(s) \in Waiting
  BY DEF Join
<1> HIDE DEF w
<1> QED
  BY <1>2, <1>3, <1>4, WaitKeeps

\* The query for the owner and for a permission of one's own.
LEMMA ReadDirectKeeps ==
  ASSUME PresenceInv, NEW s \in Socket, NEW e \in Event, ReadDirect(s, e),
         UNCHANGED <<clock, direct, role>>
  PROVE  PresenceInv'
<1> DEFINE found == DirectAccess(principal[s])
           query == IF found = "none" /\ principal[s] # Nobody THEN "collection" ELSE "link"
<1>1. work[s][e].pc \in Waiting /\ UNCHANGED <<conn, principal, early>>
  BY DEF ReadDirect, Waiting
<1>2. e = "join" => Join(s) \in Waiting
  BY <1>1 DEF Join
<1>3. CASE Conclude(s, e, found)
  BY <1>1, <1>2, <1>3, DecideKeeps DEF Conclude
<1>4. CASE GoOn(s, e, found, query) /\ UNCHANGED <<room, users, page, replaced>>
  <2>1. found \in Access
    BY RowTypes DEF PresenceInv, Types
  <2>2. query \in Waiting
    BY DEF Waiting
  <2> QED
    BY <1>1, <1>4, <2>1, <2>2, GoOnKeeps
<1> QED
  BY <1>3, <1>4 DEF ReadDirect

\* The query for a share of the collection.
LEMMA ReadCollectionKeeps ==
  ASSUME PresenceInv, NEW s \in Socket, NEW e \in Event, ReadCollection(s, e),
         UNCHANGED <<clock, direct, role>>
  PROVE  PresenceInv'
<1>1. CollectionAccess(principal[s]) \in Access
  BY RowTypes DEF PresenceInv, Types
<1>2. "link" \in Waiting /\ work[s][e].pc \in Waiting
  BY DEF ReadCollection, Waiting
<1> QED
  BY <1>1, <1>2, GoOnKeeps DEF ReadCollection

\* The account of a join was read.
LEMMA ReadAccountKeeps ==
  ASSUME PresenceInv, NEW s \in Socket, ReadAccount(s),
         UNCHANGED <<clock, direct, role>>
  PROVE  PresenceInv'
<1>1. Types
  BY DEF PresenceInv
<1>2. "join" \in Event /\ Join(s) = "account"
  BY DEF ReadAccount, Join, Event
<1>3. /\ work' \in [Socket -> [Event -> Work]]
      /\ \A t \in Socket : Join(t)' = IF t = s THEN "done" ELSE Join(t)
  BY <1>1, <1>2, GoTo DEF ReadAccount
<1>4. ListUser(s, room') /\ UNCHANGED <<conn, principal, room, early>>
  BY DEF ReadAccount
<1>5. Types'
  BY <1>1, <1>3, <1>4, ListUserType DEF Types
<1>6. /\ conn[s] # "off" /\ (conn[s] = "left" => s \in early)
      /\ conn[s] = "on" => s \in room'
  BY <1>2, <1>4 DEF PresenceInv, OffIsIdle, LeftEarly, WaitingInRoom
<1>7. Join(s)' = "done" /\ \A t \in Socket \ {s} : Join(t)' = Join(t)
  BY <1>3
<1> QED
  BY <1>4, <1>5, <1>6, <1>7, ListingKeeps

-----------------------------------------------------------------------------
(***************************************************************************)
(* Every step of the room, one case per event or query.                    *)
(***************************************************************************)
LEMMA RoomKeeps ==
  ASSUME PresenceInv, RoomStep, UNCHANGED <<sharing, clock>>
  PROVE  PresenceInv'
<1>1. UNCHANGED <<clock, direct, role>>
  BY DEF sharing
<1>2. PICK s \in Socket :
        \/ \E p \in Principal, self \in Person : Connect(s, p, self)
        \/ \E e \in Event :
             \/ UseCached(s, e) \/ AskDatabase(s, e) \/ Ignore(s, e)
             \/ ReadDirect(s, e) \/ ReadCollection(s, e) \/ ReadLink(s, e)
             \/ ServerEnds(s, e)
        \/ ReadAccount(s) \/ FailJoin(s)
        \/ \E b \in BOOLEAN : Activity(s, b)
        \/ Disconnect(s)
  BY DEF RoomStep
<1>3. CASE \E p \in Principal, self \in Person : Connect(s, p, self)
  BY <1>1, <1>3, ConnectKeeps
<1>4. ASSUME NEW e \in Event, UseCached(s, e)
      PROVE  PresenceInv'
  BY <1>1, <1>4, DecideKeeps DEF UseCached, Arrives
<1>5. ASSUME NEW e \in Event, AskDatabase(s, e)
      PROVE  PresenceInv'
  <2> DEFINE w == [pc |-> "direct", since |-> clock, base |-> "none"]
  <2>1. w \in Work /\ w.pc \in Waiting
    BY DEF Work, Waiting, Access, PresenceInv, Types
  <2>2. work' = [work EXCEPT ![s][e] = w] /\ conn[s] = "on"
    BY <1>5 DEF AskDatabase, Arrives
  <2>3. UNCHANGED <<conn, principal, room, users, page, early, replaced>>
    BY <1>5 DEF AskDatabase
  <2> HIDE DEF w
  <2> QED
    BY <1>1, <2>1, <2>2, <2>3, WaitKeeps
<1>6. ASSUME NEW e \in Event, Ignore(s, e)
      PROVE  PresenceInv'
  BY <1>1, <1>6, StopKeeps DEF Ignore
<1>7. ASSUME NEW e \in Event, ReadDirect(s, e)
      PROVE  PresenceInv'
  BY <1>1, <1>7, ReadDirectKeeps
<1>8. ASSUME NEW e \in Event, ReadCollection(s, e)
      PROVE  PresenceInv'
  BY <1>1, <1>8, ReadCollectionKeeps
<1>9. ASSUME NEW e \in Event, ReadLink(s, e)
      PROVE  PresenceInv'
  <2>1. /\ Decide(s, e, maxAccess(work[s][e].base, LinkAccess))
        /\ UNCHANGED <<conn, principal, early>>
        /\ e = "join" => Join(s) \in Waiting
    BY <1>9 DEF ReadLink, Conclude, Join, Waiting
  <2> QED
    BY <1>1, <2>1, DecideKeeps
<1>10. ASSUME NEW e \in Event, ServerEnds(s, e)
       PROVE  PresenceInv'
  BY <1>1, <1>10, ServerEndsKeeps
<1>11. CASE ReadAccount(s)
  BY <1>1, <1>11, ReadAccountKeeps
<1>12. CASE FailJoin(s)
  <2>1. "join" \in Event /\ Join(s) \in Waiting \cup {"account"}
    BY <1>12 DEF FailJoin, Join, Event
  <2> QED
    BY <1>1, <1>12, <2>1, StopKeeps DEF FailJoin
<1>13. CASE \E b \in BOOLEAN : Activity(s, b)
  BY <1>1, <1>13, ActivityKeeps
<1>14. CASE Disconnect(s)
  BY <1>1, <1>14, DisconnectKeeps
<1> QED
  BY <1>2, <1>3, <1>4, <1>5, <1>6, <1>7, <1>8, <1>9, <1>10, <1>11, <1>12, <1>13, <1>14

(***************************************************************************)
(* A step that leaves presence alone.                                      *)
(***************************************************************************)
LEMMA PresenceAlone ==
  ASSUME PresenceInv, clock' \in 0 .. MaxTime,
         UNCHANGED <<sharing, server, early, replaced>>
  PROVE  PresenceInv'
<1>1. UNCHANGED <<direct, role, conn, principal, room, users, page, work, early, replaced>>
  BY DEF sharing, server
<1>2. Types'
  BY <1>1 DEF PresenceInv, Types
<1>3. \A t \in Socket : Join(t)' = Join(t)
  BY <1>1 DEF Join
<1> QED
  BY <1>1, <1>2, <1>3, HandlerMoves

(***************************************************************************)
(* The presence invariant holds in every state: of the list, of the        *)
(* handlers of join-room, and of what each page was sent.                  *)
(***************************************************************************)
THEOREM PresenceInvariance == Spec => []PresenceInv
<1>1. Init => PresenceInv
  BY InitPresence
<1>2. PresenceInv /\ [Next]_vars => PresenceInv'
  <2> SUFFICES ASSUME PresenceInv, [Next]_vars
               PROVE  PresenceInv'
    OBVIOUS
  <2>1. CASE RoomStep /\ UNCHANGED <<sharing, clock>>
    BY <2>1, RoomKeeps
  <2>2. CASE SharingStep /\ UNCHANGED <<server, clock, relayed, early, replaced>>
    BY <2>2, SharingKeeps
  <2>3. CASE Tick /\ UNCHANGED <<sharing, server, relayed, early, replaced>>
    <3>1. clock' \in 0 .. MaxTime
      BY <2>3, RoomAssumption DEF Tick, PresenceInv, Types
    <3> QED
      BY <2>3, <3>1, PresenceAlone
  <2>4. CASE UNCHANGED vars
    <3>1. clock' \in 0 .. MaxTime
      BY <2>4 DEF vars, PresenceInv, Types
    <3> QED
      BY <2>4, <3>1, PresenceAlone DEF vars, history
  <2> QED
    BY <2>1, <2>2, <2>3, <2>4 DEF Next
<1> QED
  BY <1>1, <1>2, PTL DEF Spec

(***************************************************************************)
(* No person is listed twice and no connection holds two entries, however  *)
(* the joins of several tabs overlap; only connected pages are listed, and *)
(* pages that left during their join; and departures and activity of       *)
(* others never drop a connected page that was acknowledged (the push of   *)
(* join-room and the disconnect handler in socket.ts).                     *)
(***************************************************************************)
THEOREM PresenceHolds == Spec => []PresenceIsTrue
<1>1. PresenceInv => OnePersonOneEntry
  BY DEF PresenceInv, NamedByConnection, OneEntryPerId, OnePersonOneEntry
<1>2. PresenceInv => OnlyTheConnectedAreListed
  BY DEF PresenceInv
<1>3. PresenceInv => JoinedAreListed
  BY DEF PresenceInv, Views, JoinedAreListed
<1>4. PresenceInv => PresenceIsTrue
  BY <1>1, <1>2, <1>3 DEF PresenceIsTrue
<1> QED
  BY <1>4, PresenceInvariance, PTL

(***************************************************************************)
(* Every page that joined shows the server's list without itself, whatever *)
(* order lists and acknowledgement came in.                                *)
(***************************************************************************)
THEOREM PagesAgree == Spec => []PagesShowTheList
<1>1. PresenceInv => PagesShowTheList
  BY DEF PresenceInv, Views, PagesShowTheList
<1> QED
  BY <1>1, PresenceInvariance, PTL

-----------------------------------------------------------------------------
(***************************************************************************)
(* Rights.  The inductive invariant: what the link rows look like; nothing *)
(* was looked up for a page that has not asked to join; a page that was    *)
(* entitled and saw no withdrawal has a row that lets it view, and so will *)
(* every lookup of it that is under way; and everything that lets a page   *)
(* edit, the entry it was granted and the answers found so far, is no      *)
(* younger than the last time when some row let it.                        *)
(***************************************************************************)
Created == {q \in LinkRequest : linking[q] = "done"}

LinkRows ==
  /\ linking \in [LinkRequest -> {"idle", "revoked", "done"}]
  /\ IsFiniteSet(Created)
  /\ links \subseteq [id : Nat, permission : Permission]
  /\ \A l \in links : l.id <= Cardinality(Created)
  /\ ~ exists => links = {}

Entries ==
  /\ entry \in [Socket -> [access : Access \ {"none"}, at : 0 .. MaxTime] \cup {Null}]
  /\ relayed \in [Socket -> Nat]
  /\ lastEdit \in [Socket -> Int]

Untouched ==
  \A s \in Socket : Join(s) = "idle" =>
    entry[s] = Null /\ s \notin entitled /\ \A e \in Event : work[s][e].pc \notin Waiting

MayView(p) ==
  \E access \in {DirectAccess(p), CollectionAccess(p), LinkAccess} : canView(access)

Promising(s, e) ==
  /\ work[s][e].pc = "collection" =>
       canView(CollectionAccess(principal[s])) \/ canView(LinkAccess)
  /\ work[s][e].pc = "link" => canView(work[s][e].base) \/ canView(LinkAccess)

Heard ==
  \A s \in entitled \ withdrawn :
    /\ s \in Socket
    /\ MayView(principal[s])
    /\ Join(s) # "refused"
    /\ conn[s] = "on" /\ Join(s) \in {"account", "done"} => entry[s] # Null
    /\ \A e \in Event : Promising(s, e)

EditsDated ==
  /\ \A s \in Socket : lastEdit[s] <= clock
  /\ \A s \in Socket : conn[s] # "off" /\ MayEdit(principal[s]) => lastEdit[s] = clock
  /\ \A s \in Socket :
       entry[s] # Null /\ canEdit(entry[s].access) => lastEdit[s] >= entry[s].at
  /\ \A s \in Socket, e \in Event : work[s][e].pc \in Waiting =>
       /\ work[s][e].since <= clock
       /\ canEdit(work[s][e].base) => lastEdit[s] >= work[s][e].since

RightsInv == LinkRows /\ Entries /\ Untouched /\ Heard /\ EditsDated

-----------------------------------------------------------------------------
(***************************************************************************)
(* Natural numbers: a set of them has a least element, and a bounded one   *)
(* has a greatest.                                                         *)
(***************************************************************************)
LEMMA LeastNatural ==
  ASSUME NEW S \in SUBSET Nat, S # {}
  PROVE  \E m \in S : \A n \in S : m <= n
<1> DEFINE R == {ss \in Nat \X Nat : ss[1] < ss[2]}
<1>1. IsWellFoundedOn(R, Nat)
  BY NatLessThanWellFounded DEF OpToRel
<1> HIDE DEF R
<1>2. PICK m \in S : \A n \in S : <<n, m>> \notin R
  BY <1>1, WFMin
<1>3. ASSUME NEW n \in S
      PROVE  m <= n
  <2>1. m \in Nat /\ n \in Nat
    OBVIOUS
  <2>2. <<n, m>> \notin R
    BY <1>2
  <2> QED
    BY <2>1, <2>2 DEF R
<1> QED
  BY <1>2, <1>3

\* The greatest one is found from the distances to the bound.
LEMMA GreatestNatural ==
  ASSUME NEW S \in SUBSET Nat, S # {}, NEW b \in Nat, \A n \in S : n <= b
  PROVE  \E m \in S : \A n \in S : n <= m
<1> DEFINE T == {k \in Nat : b - k \in S}
<1>1. T \in SUBSET Nat
  OBVIOUS
<1>2. ASSUME NEW n \in S
      PROVE  b - n \in T
  <2>1. n \in Nat /\ n <= b
    OBVIOUS
  <2>2. b - n \in Nat /\ b - (b - n) = n
    BY <2>1
  <2> QED
    BY <2>2
<1>3. T # {}
  BY <1>2
<1>4. PICK k \in T : \A j \in T : k <= j
  BY <1>1, <1>3, LeastNatural
<1>5. k \in Nat /\ b - k \in S
  OBVIOUS
<1>6. ASSUME NEW n \in S
      PROVE  n <= b - k
  <2>1. k <= b - n /\ n \in Nat
    BY <1>2, <1>4, <1>6
  <2> QED
    BY <1>5, <2>1
<1> QED
  BY <1>5, <1>6

(***************************************************************************)
(* The newest link exists, so the link policy is an access.                *)
(***************************************************************************)
LEMMA NewestLink ==
  ASSUME NEW L \in SUBSET [id : Nat, permission : Permission], L # {},
         NEW b \in Nat, \A l \in L : l.id <= b
  PROVE  (CHOOSE l \in L : \A k \in L : k.id <= l.id).permission \in Permission
<1> DEFINE ids == {l.id : l \in L}
<1>1. ids \in SUBSET Nat /\ ids # {} /\ \A n \in ids : n <= b
  OBVIOUS
<1>2. PICK m \in ids : \A n \in ids : n <= m
  BY <1>1, GreatestNatural
<1>3. \E l \in L : \A k \in L : k.id <= l.id
  BY <1>2
<1>4. (CHOOSE l \in L : \A k \in L : k.id <= l.id) \in L
  BY <1>3
<1> QED
  BY <1>4

\* Before and after a step.
LEMMA LinkType ==
  /\ LinkRows => LinkAccess \in Access
  /\ LinkRows' => LinkAccess' \in Access
<1>1. ASSUME LinkRows
      PROVE  LinkAccess \in Access
  <2>1. Cardinality(Created) \in Nat
    BY <1>1, FS_CardinalityType DEF LinkRows
  <2>2. links # {} => LinkAccess \in Permission
    BY <1>1, <2>1, NewestLink DEF LinkRows, LinkAccess
  <2> QED
    BY <2>2 DEF LinkAccess, Access
<1>2. ASSUME LinkRows'
      PROVE  LinkAccess' \in Access
  <2>1. Cardinality(Created') \in Nat
    BY <1>2, FS_CardinalityType DEF LinkRows
  <2>2. links' # {} => LinkAccess' \in Permission
    BY <1>2, <2>1, NewestLink DEF LinkRows, LinkAccess
  <2> QED
    BY <2>2 DEF LinkAccess, Access
<1> QED
  BY <1>1, <1>2

(***************************************************************************)
(* Which accesses let a page view and edit.                                *)
(***************************************************************************)
LEMMA Ranks ==
  /\ \A a \in Access : /\ accessRank[a] \in Nat
                       /\ canView(a) <=> a # "none"
                       /\ canEdit(a) <=> a \in {"edit", "owner"}
  /\ ~ canEdit("none")
BY DEF accessRank, canView, canEdit, Access, Permission

LEMMA BetterOfBoth ==
  ASSUME NEW a \in Access, NEW b \in Access
  PROVE  /\ maxAccess(a, b) \in Access
         /\ canView(maxAccess(a, b)) <=> canView(a) \/ canView(b)
         /\ canEdit(maxAccess(a, b)) => canEdit(a) \/ canEdit(b)
BY DEF maxAccess, accessRank, canView, canEdit, Access, Permission

\* Nothing that was not lowered stops letting a page view.
LEMMA NotLowered ==
  ASSUME NEW a \in Access, NEW b \in Access, canView(a), ~ Lowered(a, b)
  PROVE  canView(b)
BY DEF Lowered, accessRank, canView, Access, Permission
-----------------------------------------------------------------------------
(***************************************************************************)
(* The rows change.                                                        *)
(***************************************************************************)
LEMMA LinksKeep ==
  ASSUME LinkRows, SharingStep
  PROVE  LinkRows'
<1> USE DEF LinkRows
<1>1. ASSUME UNCHANGED linking, links' \subseteq links, ~ exists' => links' = {}
      PROVE  LinkRows'
  BY <1>1 DEF Created
<1>2. ASSUME NEW u \in User, NEW p \in Permission, Grant(u, p) \/ ShareCollection(u, p)
      PROVE  LinkRows'
  BY <1>1, <1>2 DEF Grant, ShareCollection, Change
<1>3. ASSUME NEW u \in User, RevokeGrant(u) \/ UnshareCollection(u)
      PROVE  LinkRows'
  BY <1>1, <1>3 DEF RevokeGrant, UnshareCollection, Change
<1>4. CASE DropCollection \/ DeleteDrawing
  BY <1>1, <1>4 DEF DropCollection, DeleteDrawing, Change
<1>5. ASSUME NEW q \in LinkRequest, RevokeActiveLinks(q)
      PROVE  LinkRows'
  <2>1. /\ links' = {} /\ linking[q] = "idle"
        /\ linking' = [linking EXCEPT ![q] = "revoked"]
    BY <1>5 DEF RevokeActiveLinks
  <2>2. Created' = Created
    BY <2>1 DEF Created
  <2> QED
    BY <2>1, <2>2
<1>6. ASSUME NEW q \in LinkRequest, NEW p \in Permission, CreateLink(q, p)
      PROVE  LinkRows'
  <2> DEFINE n == Cardinality(Created)
             new == [id |-> 1 + n, permission |-> p]
  <2>1. /\ linking[q] = "revoked" /\ linking' = [linking EXCEPT ![q] = "done"]
        /\ links' = IF exists THEN links \cup {new} ELSE links
        /\ UNCHANGED exists
    BY <1>6 DEF CreateLink, Created
  <2>2. Created' = Created \cup {q} /\ q \notin Created
    BY <2>1 DEF Created
  <2>3. IsFiniteSet(Created') /\ Cardinality(Created') = n + 1 /\ n \in Nat
    BY <2>2, FS_AddElement, FS_CardinalityType
  <2>4. new \in [id : Nat, permission : Permission] /\ new.id = n + 1
    BY <2>3
  <2> HIDE DEF new
  <2>5. links' \subseteq [id : Nat, permission : Permission]
    BY <2>1, <2>4
  <2>6. \A l \in links' : l.id <= Cardinality(Created')
    <3> SUFFICES ASSUME NEW l \in links'
                 PROVE  l.id <= Cardinality(Created')
      OBVIOUS
    <3>1. CASE l \in links
      <4>1. l.id <= n /\ l.id \in Nat
        BY <3>1
      <4> QED
        BY <4>1, <2>3
    <3>2. CASE l = new
      BY <3>2, <2>3, <2>4
    <3> QED
      BY <2>1, <3>1, <3>2
  <2>7. linking' \in [LinkRequest -> {"idle", "revoked", "done"}]
    BY <2>1
  <2>8. ~ exists' => links' = {}
    BY <2>1
  <2> QED
    BY <2>3, <2>5, <2>6, <2>7, <2>8
<1>7. ASSUME NEW l \in links, EndLink(l)
      PROVE  LinkRows'
  BY <1>1, <1>7 DEF EndLink, Change
<1> QED
  BY <1>2, <1>3, <1>4, <1>5, <1>6, <1>7 DEF SharingStep

(***************************************************************************)
(* Without a withdrawal, who could view can view still.                    *)
(***************************************************************************)
LEMMA NothingLost ==
  ASSUME Types, LinkRows, Types', LinkRows', ~ Withdrawal, NEW p \in Principal
  PROVE  /\ MayView(p) => MayView(p)'
         /\ canView(CollectionAccess(p)) => canView(CollectionAccess(p)')
         /\ canView(LinkAccess) => canView(LinkAccess')
<1>1. DirectAccess(p) \in Access /\ CollectionAccess(p) \in Access /\ LinkAccess \in Access
  BY RowTypes, LinkType
<1>2. DirectAccess(p)' \in Access /\ CollectionAccess(p)' \in Access /\ LinkAccess' \in Access
  <2>1. DirectAccess(p)' \in Access /\ CollectionAccess(p)' \in Access
    BY DEF Types, Principal, DirectAccess, CollectionAccess, Access, Permission
  <2>2. LinkAccess' \in Access
    BY LinkType
  <2> QED
    BY <2>1, <2>2
<1>3. /\ ~ Lowered(DirectAccess(p), DirectAccess(p)')
      /\ ~ Lowered(CollectionAccess(p), CollectionAccess(p)')
      /\ ~ Lowered(LinkAccess, LinkAccess')
  BY DEF Withdrawal
<1>4. canView(DirectAccess(p)) => canView(DirectAccess(p)')
  BY <1>1, <1>2, <1>3, NotLowered
<1>5. canView(CollectionAccess(p)) => canView(CollectionAccess(p)')
  BY <1>1, <1>2, <1>3, NotLowered
<1>6. canView(LinkAccess) => canView(LinkAccess')
  BY <1>1, <1>2, <1>3, NotLowered
<1>7. MayView(p) => MayView(p)'
  BY <1>4, <1>5, <1>6 DEF MayView, canView, accessRank
<1> QED
  BY <1>5, <1>6, <1>7

(***************************************************************************)
(* One handler of a connection moves to w: what is heard stays heard if    *)
(* its lookup keeps the promise.                                           *)
(***************************************************************************)
LEMMA HeardMoves ==
  ASSUME Types, Entries, Untouched, Heard, Observe,
         UNCHANGED <<sharing, conn, principal>>,
         NEW s \in Socket, NEW e \in Event, NEW w \in Work,
         work' = [work EXCEPT ![s][e] = w],
         w.pc # "idle",
         e # "join" => Join(s) # "idle",
         \A t \in Socket \ {s} : entry'[t] = entry[t],
         MayView(principal[s]) /\ Promising(s, e)
           /\ (Join(s) = "account" /\ conn[s] = "on" => entry[s] # Null) =>
           /\ entry[s] # Null => entry'[s] # Null
           /\ e = "join" => /\ w.pc # "refused"
                            /\ w.pc \in {"account", "done"} /\ conn[s] = "on" => entry'[s] # Null
           /\ Promising(s, e)'
  PROVE  Untouched' /\ Heard'
<1>1. "join" \in Event
  BY DEF Event
<1>2. /\ \A t \in Socket, f \in Event :
           work'[t][f] = IF t = s /\ f = e THEN w ELSE work[t][f]
      /\ \A t \in Socket : Join(t)' = IF t = s /\ e = "join" THEN w.pc ELSE Join(t)
  <2>1. \A t \in Socket, f \in Event :
           work'[t][f] = IF t = s /\ f = e THEN w ELSE work[t][f]
    BY DEF Types
  <2> QED
    BY <1>1, <2>1 DEF Join
<1>3. \A p \in Principal :
        /\ MayView(p)' <=> MayView(p)
        /\ canView(CollectionAccess(p))' <=> canView(CollectionAccess(p))
        /\ canView(LinkAccess)' <=> canView(LinkAccess)
  BY DEF sharing, MayView, DirectAccess, CollectionAccess, LinkAccess, canView
<1>4. \A t \in Socket, f \in Event : t # s \/ f # e => (Promising(t, f) => Promising(t, f)')
  <2> SUFFICES ASSUME NEW t \in Socket, NEW f \in Event, t # s \/ f # e, Promising(t, f)
               PROVE  Promising(t, f)'
    OBVIOUS
  <2>1. work'[t][f] = work[t][f] /\ principal'[t] = principal[t] /\ principal[t] \in Principal
    BY <1>2 DEF Types
  <2> QED
    BY <2>1, <1>3 DEF Promising, canView
<1>5. Untouched'
  <2> SUFFICES ASSUME NEW t \in Socket, Join(t)' = "idle"
               PROVE  /\ entry'[t] = Null /\ t \notin entitled'
                      /\ \A f \in Event : work'[t][f].pc \notin Waiting
    BY DEF Untouched
  <2>1. t # s /\ Join(t) = "idle"
    BY <1>2
  <2>2. t \notin entitled'
    BY <2>1, <1>2 DEF Observe, Asks, Join, Untouched
  <2> QED
    BY <2>1, <2>2, <1>2 DEF Untouched
<1>6. Heard'
  <2> SUFFICES ASSUME NEW t \in entitled', t \notin withdrawn'
               PROVE  /\ t \in Socket
                      /\ MayView(principal[t])'
                      /\ Join(t)' # "refused"
                      /\ conn'[t] = "on" /\ Join(t)' \in {"account", "done"} => entry'[t] # Null
                      /\ \A f \in Event : Promising(t, f)'
    BY DEF Heard
  <2>1. t \notin withdrawn
    BY DEF Observe
  <2>2. CASE t \in entitled /\ t # s
    <3>1. /\ t \in Socket /\ MayView(principal[t]) /\ Join(t) # "refused"
          /\ conn[t] = "on" /\ Join(t) \in {"account", "done"} => entry[t] # Null
          /\ \A f \in Event : Promising(t, f)
      BY <2>1, <2>2 DEF Heard
    <3>2. MayView(principal[t])'
      BY <3>1, <1>3 DEF Types
    <3> QED
      BY <3>1, <3>2, <2>2, <1>2, <1>4
  <2>3. CASE t \in entitled /\ t = s
    <3>1. /\ MayView(principal[s]) /\ Join(s) # "refused"
          /\ conn[s] = "on" /\ Join(s) \in {"account", "done"} => entry[s] # Null
          /\ \A f \in Event : Promising(s, f)
      BY <2>1, <2>3 DEF Heard
    <3>2. MayView(principal[s])'
      BY <3>1, <1>3 DEF Types
    <3>3. /\ entry[s] # Null => entry'[s] # Null
          /\ e = "join" => /\ w.pc # "refused"
                           /\ w.pc \in {"account", "done"} /\ conn[s] = "on" => entry'[s] # Null
          /\ Promising(s, e)'
      BY <3>1
    <3> QED
      BY <2>3, <3>1, <3>2, <3>3, <1>2, <1>4
  <2>4. CASE t \notin entitled
    <3>1. t \in Socket /\ Asks(t) /\ canView(Effective(principal[t]))
      BY <2>4 DEF Observe
    <3>2. t = s /\ e = "join" /\ Join(s) = "idle"
      BY <3>1, <1>2 DEF Asks, Join
    <3>3. MayView(principal[s])
      BY <3>1, <3>2 DEF Effective, MayView, maxAccess
    <3>4. \A f \in Event : Promising(s, f)
      BY <3>2 DEF Untouched, Promising, Waiting
    <3>5. MayView(principal[s])'
      BY <3>3, <1>3 DEF Types
    <3>6. /\ w.pc # "refused"
          /\ w.pc \in {"account", "done"} /\ conn[s] = "on" => entry'[s] # Null
          /\ Promising(s, e)'
      BY <3>2, <3>3, <3>4
    <3> QED
      BY <3>2, <3>4, <3>5, <3>6, <1>2, <1>4
  <2> QED
    BY <2>2, <2>3, <2>4
<1> QED
  BY <1>5, <1>6
(***************************************************************************)
(* The same of the dates: lastEdit only grows in a handler's step.         *)
(***************************************************************************)
LEMMA DatesGrow ==
  ASSUME Types, Entries, EditsDated, Observe, clock' \in 0 .. MaxTime, clock <= clock'
  PROVE  /\ lastEdit' \in [Socket -> Int]
         /\ \A t \in Socket : lastEdit[t] <= lastEdit'[t] /\ lastEdit'[t] <= clock'
         /\ \A t \in Socket :
              conn'[t] # "off" /\ MayEdit(principal[t])' => lastEdit'[t] = clock'
<1>1. lastEdit' = [t \in Socket |->
                     IF conn'[t] # "off" /\ MayEdit(principal[t])' THEN clock' ELSE lastEdit[t]]
  BY DEF Observe
<1>2. \A t \in Socket : lastEdit[t] \in Int /\ lastEdit[t] <= clock
  BY DEF Entries, EditsDated
<1>3. clock \in Int /\ clock' \in Int
  BY RoomAssumption DEF Types
<1> QED
  BY <1>1, <1>2, <1>3

\* One handler of a connection moves to w.
LEMMA EditsMove ==
  ASSUME Types, Entries, EditsDated, Observe,
         UNCHANGED <<conn, principal, clock>>,
         NEW s \in Socket, NEW e \in Event, NEW w \in Work,
         work' = [work EXCEPT ![s][e] = w],
         Entries',
         \A t \in Socket \ {s} : entry'[t] = entry[t],
         w.pc \in Waiting => /\ w.since <= clock
                             /\ canEdit(w.base) => lastEdit[s] >= w.since,
         entry'[s] # Null /\ canEdit(entry'[s].access) => lastEdit[s] >= entry'[s].at
  PROVE  EditsDated'
<1>1. \A t \in Socket, f \in Event :
        work'[t][f] = IF t = s /\ f = e THEN w ELSE work[t][f]
  BY DEF Types
<1>2. /\ \A t \in Socket : lastEdit[t] <= lastEdit'[t] /\ lastEdit'[t] <= clock'
      /\ \A t \in Socket :
           conn'[t] # "off" /\ MayEdit(principal[t])' => lastEdit'[t] = clock'
  <2>1. clock' \in 0 .. MaxTime /\ clock <= clock'
    BY RoomAssumption DEF Types
  <2> QED
    BY <2>1, DatesGrow
<1>3. \A t \in Socket : lastEdit[t] \in Int /\ lastEdit'[t] \in Int
  BY DEF Entries
<1>4. \A t \in Socket :
        entry'[t] # Null /\ canEdit(entry'[t].access) => lastEdit'[t] >= entry'[t].at
  <2> SUFFICES ASSUME NEW t \in Socket, entry'[t] # Null, canEdit(entry'[t].access)
               PROVE  lastEdit'[t] >= entry'[t].at
    OBVIOUS
  <2>1. entry'[t].at \in Int
    BY RoomAssumption DEF Entries
  <2>2. lastEdit[t] >= entry'[t].at
    BY DEF EditsDated
  <2> QED
    BY <2>1, <2>2, <1>2, <1>3
<1>5. \A t \in Socket, f \in Event : work'[t][f].pc \in Waiting =>
        /\ work'[t][f].since <= clock'
        /\ canEdit(work'[t][f].base) => lastEdit'[t] >= work'[t][f].since
  <2> SUFFICES ASSUME NEW t \in Socket, NEW f \in Event, work'[t][f].pc \in Waiting
               PROVE  /\ work'[t][f].since <= clock'
                      /\ canEdit(work'[t][f].base) => lastEdit'[t] >= work'[t][f].since
    OBVIOUS
  <2>1. work'[t][f] \in Work
    BY <1>1 DEF Types
  <2>2. work'[t][f].since \in Int
    BY <2>1, RoomAssumption DEF Work
  <2>3. /\ work'[t][f].since <= clock
        /\ canEdit(work'[t][f].base) => lastEdit[t] >= work'[t][f].since
    BY <1>1 DEF EditsDated
  <2> QED
    BY <2>2, <2>3, <1>2, <1>3
<1> QED
  BY <1>2, <1>4, <1>5 DEF EditsDated, canEdit, MayEdit

(***************************************************************************)
(* The end of a lookup that found some access.                             *)
(***************************************************************************)
\* What a handler's decision writes of rights.
LEMMA Decided ==
  ASSUME Types, Entries, NEW s \in Socket, NEW e \in Event, NEW access, Decide(s, e, access)
  PROVE  /\ \E pc \in {"done", "account", "refused"} :
              /\ work' = [work EXCEPT ![s][e] = At(pc)]
              /\ pc = "refused" => e = "join" /\ ~ canView(access)
         /\ relayed' \in [Socket -> Nat]
         /\ \A t \in Socket : relayed'[t] # relayed[t] => t = s /\ e # "join" /\ canEdit(access)
<1>1. CASE e = "join"
  BY <1>1 DEF Decide, Go, Entries
<1>2. CASE e # "join"
  BY <1>2 DEF Decide, Go, Entries
<1> QED
  BY <1>1, <1>2

LEMMA DecideRights ==
  ASSUME Types, OffIsIdle, RightsInv, Observe, UNCHANGED <<sharing, conn, principal, clock>>,
         NEW s \in Socket, NEW e \in Event, NEW access \in Access, Decide(s, e, access),
         e # "join" => Join(s) # "idle",
         \/ UNCHANGED entry /\ entry[s] # Null /\ canView(access)
         \/ /\ Remember(s, e, access)
            /\ work[s][e].pc \in Waiting
            /\ canEdit(access) => lastEdit[s] >= work[s][e].since
            /\ MayView(principal[s]) /\ Promising(s, e) => canView(access)
  PROVE  RightsInv'
<1> USE DEF RightsInv
<1>1. PICK pc \in {"done", "account", "refused"} :
        /\ work' = [work EXCEPT ![s][e] = At(pc)]
        /\ pc = "refused" => e = "join" /\ ~ canView(access)
  BY Decided
<1> DEFINE w == At(pc)
<1>2. /\ work' = [work EXCEPT ![s][e] = w]
      /\ w \in Work /\ w.pc = pc /\ w.pc \notin Waiting /\ w.pc # "idle"
  BY <1>1, RoomAssumption DEF At, Work, Access, Permission, Waiting
<1>3. LinkRows'
  BY DEF LinkRows, sharing, Created
<1>4. work[s][e].since \in 0 .. MaxTime
  BY DEF Types, Work
<1>5. canView(access) => access \in Access \ {"none"}
  BY Ranks
<1>6. /\ \A t \in Socket \ {s} : entry'[t] = entry[t]
      /\ entry' \in [Socket -> [access : Access \ {"none"}, at : 0 .. MaxTime] \cup {Null}]
  BY <1>4, <1>5 DEF Remember, Entries
<1>7. Entries'
  BY <1>6, Decided DEF Entries, Observe, Types
<1>8. entry'[s] # Null /\ canEdit(entry'[s].access) => lastEdit[s] >= entry'[s].at
  BY DEF Remember, Entries, EditsDated
<1>9. MayView(principal[s]) /\ Promising(s, e) => entry'[s] # Null /\ canView(access)
  <2>1. canView(access) => [access |-> access, at |-> work[s][e].since] # Null
    BY <1>4, RoomAssumption
  <2> QED
    BY <2>1 DEF Remember, Entries
<1>10. Promising(s, e)'
  <2>1. work'[s][e] = w
    BY <1>1 DEF Types
  <2> QED
    BY <1>2, <2>1 DEF Promising, Waiting
<1> HIDE DEF w
<1>11. Untouched' /\ Heard'
  BY <1>1, <1>2, <1>6, <1>9, <1>10, HeardMoves
<1>12. EditsDated'
  <2>1. w.pc \in Waiting => /\ w.since <= clock
                            /\ canEdit(w.base) => lastEdit[s] >= w.since
    BY <1>2
  <2>2. UNCHANGED <<conn, principal, clock>> /\ EditsDated /\ Entries
    OBVIOUS
  <2> QED
    BY <1>2, <1>6, <1>7, <1>8, <2>1, <2>2, EditsMove
<1> QED
  BY <1>3, <1>7, <1>11, <1>12
(***************************************************************************)
(* A handler's step that decides nothing and leaves the entry.             *)
(***************************************************************************)
LEMMA MoveRights ==
  ASSUME Types, RightsInv, Observe,
         UNCHANGED <<sharing, conn, principal, clock, entry, relayed>>,
         NEW s \in Socket, NEW e \in Event, NEW w \in Work,
         work' = [work EXCEPT ![s][e] = w],
         w.pc # "idle", e # "join" => Join(s) # "idle",
         w.pc \in Waiting => /\ w.since <= clock
                             /\ canEdit(w.base) => lastEdit[s] >= w.since,
         e = "join" => w.pc \in Waiting \cup {"failed"} \/ (w.pc = "done" /\ Join(s) = "account"),
         MayView(principal[s]) /\ Promising(s, e) =>
           /\ w.pc = "collection" => canView(CollectionAccess(principal[s])) \/ canView(LinkAccess)
           /\ w.pc = "link" => canView(w.base) \/ canView(LinkAccess)
  PROVE  RightsInv'
<1> USE DEF RightsInv
<1>1. LinkRows'
  BY DEF LinkRows, sharing, Created
<1>2. Entries'
  BY DEF Entries, Observe, Types
<1>3. work'[s][e] = w /\ principal' = principal /\ principal[s] \in Principal
  BY DEF Types
<1>4. /\ CollectionAccess(principal[s])' = CollectionAccess(principal[s])
      /\ LinkAccess' = LinkAccess
  BY DEF sharing, CollectionAccess, LinkAccess
<1>5. MayView(principal[s]) /\ Promising(s, e) => Promising(s, e)'
  BY <1>3, <1>4 DEF Promising, canView
<1>6. \A t \in Socket \ {s} : entry'[t] = entry[t]
  OBVIOUS
<1>7. e = "join" => /\ w.pc # "refused"
                    /\ w.pc \in {"account", "done"} => Join(s) = "account"
  BY DEF Waiting
<1>8. Untouched' /\ Heard'
  BY <1>5, <1>6, <1>7, HeardMoves
<1>9. entry'[s] # Null /\ canEdit(entry'[s].access) => lastEdit[s] >= entry'[s].at
  BY DEF EditsDated
<1>10. EditsDated'
  <2>1. UNCHANGED <<conn, principal, clock>> /\ EditsDated /\ Entries
    OBVIOUS
  <2> QED
    BY <1>2, <1>6, <1>9, <2>1, EditsMove
<1> QED
  BY <1>1, <1>2, <1>8, <1>10

\* Who has an entry, or a lookup under way, has asked to join and is not off.
LEMMA Active ==
  ASSUME Types, OffIsIdle, Untouched, NEW s \in Socket, NEW e \in Event,
         \/ work[s][e].pc \in Waiting
         \/ entry[s] # Null
  PROVE  Join(s) # "idle" /\ conn[s] # "off"
BY DEF OffIsIdle, Untouched

-----------------------------------------------------------------------------
(***************************************************************************)
(* The actions.                                                            *)
(***************************************************************************)
LEMMA UseCachedRights ==
  ASSUME Types, OffIsIdle, RightsInv, Observe, UNCHANGED <<sharing, clock>>,
         NEW s \in Socket, NEW e \in Event, UseCached(s, e)
  PROVE  RightsInv'
<1>1. entry[s] # Null /\ entry[s].access \in Access /\ canView(entry[s].access)
  BY Ranks DEF UseCached, IsCached, RightsInv, Entries
<1>2. e # "join" => Join(s) # "idle"
  BY DEF UseCached, Arrives, Join
<1>3. Decide(s, e, entry[s].access) /\ UNCHANGED <<conn, principal, entry>>
  BY DEF UseCached
<1> QED
  BY <1>1, <1>2, <1>3, DecideRights

\* A lookup begins.
LEMMA AskDatabaseRights ==
  ASSUME Types, OffIsIdle, RightsInv, Observe, UNCHANGED <<sharing, clock>>,
         NEW s \in Socket, NEW e \in Event, AskDatabase(s, e)
  PROVE  RightsInv'
<1> DEFINE w == [pc |-> "direct", since |-> clock, base |-> "none"]
<1>1. /\ w \in Work /\ w.pc = "direct" /\ "direct" \in Waiting
      /\ w.since = clock /\ w.base = "none" /\ clock <= clock
  BY RoomAssumption DEF Work, Waiting, Access, Types
<1>2. ~ canEdit("none")
  BY Ranks
<1>3. work' = [work EXCEPT ![s][e] = w] /\ UNCHANGED <<conn, principal, entry, relayed>>
  BY DEF AskDatabase
<1>4. e # "join" => Join(s) # "idle"
  BY DEF AskDatabase, Arrives, Join
<1> HIDE DEF w
<1> QED
  BY <1>1, <1>2, <1>3, <1>4, MoveRights

\* A handler that stops.
LEMMA StopRights ==
  ASSUME Types, RightsInv, Observe,
         UNCHANGED <<sharing, conn, principal, clock, entry, relayed>>,
         NEW s \in Socket, NEW e \in Event, NEW pc \in {"done", "failed"}, Go(s, e, pc),
         e # "join" => Join(s) # "idle",
         e = "join" => pc = "failed" \/ Join(s) = "account"
  PROVE  RightsInv'
<1>1. At(pc) \in Work /\ At(pc).pc = pc
  BY RoomAssumption DEF At, Work, Access, Permission
<1>2. work' = [work EXCEPT ![s][e] = At(pc)] /\ pc \notin Waiting /\ pc # "idle"
      /\ pc # "collection" /\ pc # "link"
  BY DEF Go, Waiting
<1> QED
  BY <1>1, <1>2, MoveRights

\* A lookup goes on with its next query.
LEMMA GoOnRights ==
  ASSUME Types, OffIsIdle, RightsInv, Observe,
         UNCHANGED <<sharing, conn, principal, clock, entry, relayed>>,
         NEW s \in Socket, NEW e \in Event, work[s][e].pc \in Waiting,
         NEW found \in Access, NEW query \in Waiting, GoOn(s, e, found, query),
         canEdit(found) => MayEdit(principal[s]),
         MayView(principal[s]) /\ Promising(s, e) =>
           /\ query = "collection" => canView(CollectionAccess(principal[s])) \/ canView(LinkAccess)
           /\ query = "link" => canView(found) \/ canView(LinkAccess)
  PROVE  RightsInv'
<1> DEFINE w == [pc |-> query, since |-> work[s][e].since, base |-> found]
<1>1. work[s][e] \in Work
  BY DEF Types
<1>2. /\ w \in Work /\ w.pc = query /\ w.since = work[s][e].since /\ w.base = found
      /\ query # "idle"
  BY <1>1 DEF Work, Waiting
<1>3. work' = [work EXCEPT ![s][e] = w]
  BY DEF GoOn
<1>4. Join(s) # "idle" /\ conn[s] # "off"
  BY Active DEF RightsInv
<1>5. work[s][e].since <= clock
  BY DEF RightsInv, EditsDated
<1>6. canEdit(found) => lastEdit[s] = clock
  BY <1>4 DEF RightsInv, EditsDated
<1>7. canEdit(found) => lastEdit[s] >= work[s][e].since
  BY <1>1, <1>5, <1>6, RoomAssumption DEF Work, Types
<1> HIDE DEF w
<1> QED
  BY <1>2, <1>3, <1>4, <1>5, <1>7, MoveRights

\* The query for the owner and for a permission of one's own.
LEMMA ReadDirectRights ==
  ASSUME Types, OffIsIdle, RightsInv, Observe, UNCHANGED <<sharing, clock>>,
         NEW s \in Socket, NEW e \in Event, ReadDirect(s, e)
  PROVE  RightsInv'
<1> DEFINE p == principal[s]
           found == DirectAccess(p)
           query == IF found = "none" /\ p # Nobody THEN "collection" ELSE "link"
<1>1. /\ work[s][e].pc \in Waiting /\ Join(s) # "idle" /\ conn[s] # "off"
      /\ UNCHANGED <<conn, principal>>
  <2>1. work[s][e].pc \in Waiting
    BY DEF ReadDirect, Waiting
  <2> QED
    BY <2>1, Active DEF RightsInv, ReadDirect
<1>2. p \in Principal /\ found \in Access /\ CollectionAccess(p) \in Access /\ LinkAccess \in Access
  BY RowTypes, LinkType DEF Types, RightsInv
<1>3. canEdit(found) => MayEdit(p)
  BY DEF MayEdit
<1>4. canEdit(found) => lastEdit[s] >= work[s][e].since
  <2>1. canEdit(found) => lastEdit[s] = clock
    BY <1>1, <1>3 DEF RightsInv, EditsDated
  <2>2. work[s][e].since <= clock /\ work[s][e].since \in Int /\ clock \in Int
    BY <1>1, RoomAssumption DEF RightsInv, EditsDated, Types, Work
  <2> QED
    BY <2>1, <2>2
<1>5. MayView(p) => canView(found) \/ canView(CollectionAccess(p)) \/ canView(LinkAccess)
  BY DEF MayView
<1>6. ~ canView("none") /\ canView("owner")
  BY Ranks DEF Access
<1>7. CASE found = "owner" \/ (p # Nobody /\ ~ exists)
  <2>1. Conclude(s, e, found)
    BY <1>7 DEF ReadDirect
  <2>2. MayView(p) => canView(found)
    <3>1. CASE found = "owner"
      BY <3>1, <1>6
    <3>2. CASE ~ exists
      BY <3>2, <1>5, <1>6
      DEF RightsInv, LinkRows, LinkAccess, CollectionAccess, DirectAccess
    <3> QED
      BY <1>7, <3>1, <3>2
  <2>3. Decide(s, e, found) /\ Remember(s, e, found)
    BY <2>1 DEF Conclude
  <2> HIDE DEF found
  <2> QED
    BY <1>1, <1>2, <1>4, <2>2, <2>3, DecideRights
<1>8. CASE ~ (found = "owner" \/ (p # Nobody /\ ~ exists))
  <2>1. GoOn(s, e, found, query) /\ UNCHANGED <<entry, relayed>>
    BY <1>8 DEF ReadDirect
  <2>2. query \in Waiting
    BY DEF Waiting
  <2>3. MayView(p) =>
          /\ query = "collection" => canView(CollectionAccess(p)) \/ canView(LinkAccess)
          /\ query = "link" => canView(found) \/ canView(LinkAccess)
    <3>1. found # "none" => canView(found)
      BY <1>2, Ranks
    <3>2. p = Nobody => CollectionAccess(p) = "none"
      BY DEF CollectionAccess
    <3> QED
      BY <1>5, <1>6, <3>1, <3>2
  <2> HIDE DEF found, query
  <2> QED
    BY <1>1, <1>2, <1>3, <2>1, <2>2, <2>3, GoOnRights
<1> QED
  BY <1>7, <1>8

\* The query for a share of the collection.
LEMMA ReadCollectionRights ==
  ASSUME Types, OffIsIdle, RightsInv, Observe, UNCHANGED <<sharing, clock>>,
         NEW s \in Socket, NEW e \in Event, ReadCollection(s, e)
  PROVE  RightsInv'
<1>1. CollectionAccess(principal[s]) \in Access
  BY RowTypes DEF Types
<1>2. /\ work[s][e].pc = "collection" /\ work[s][e].pc \in Waiting /\ "link" \in Waiting
      /\ GoOn(s, e, CollectionAccess(principal[s]), "link")
      /\ UNCHANGED <<conn, principal, entry, relayed>>
  BY DEF ReadCollection, Waiting
<1>3. canEdit(CollectionAccess(principal[s])) => MayEdit(principal[s])
  BY DEF MayEdit
<1>4. Promising(s, e) => canView(CollectionAccess(principal[s])) \/ canView(LinkAccess)
  BY <1>2 DEF Promising
<1> QED
  BY <1>1, <1>2, <1>3, <1>4, GoOnRights

\* The query for the link policy, the last one.
LEMMA ReadLinkRights ==
  ASSUME Types, OffIsIdle, RightsInv, Observe, UNCHANGED <<sharing, clock>>,
         NEW s \in Socket, NEW e \in Event, ReadLink(s, e)
  PROVE  RightsInv'
<1> DEFINE access == maxAccess(work[s][e].base, LinkAccess)
<1>1. /\ work[s][e].pc = "link" /\ work[s][e].pc \in Waiting
      /\ Decide(s, e, access) /\ Remember(s, e, access)
      /\ UNCHANGED <<conn, principal>>
  BY DEF ReadLink, Conclude, Waiting
<1>2. Join(s) # "idle" /\ conn[s] # "off"
  BY <1>1, Active DEF RightsInv
<1>3. work[s][e].base \in Access /\ work[s][e].since \in 0 .. MaxTime /\ LinkAccess \in Access
  BY LinkType DEF Types, Work, RightsInv
<1>4. /\ access \in Access
      /\ canView(access) <=> canView(work[s][e].base) \/ canView(LinkAccess)
      /\ canEdit(access) => canEdit(work[s][e].base) \/ canEdit(LinkAccess)
  BY <1>3, BetterOfBoth
<1>5. Promising(s, e) => canView(access)
  BY <1>1, <1>4 DEF Promising
<1>6. canEdit(access) => lastEdit[s] >= work[s][e].since
  <2>1. canEdit(work[s][e].base) => lastEdit[s] >= work[s][e].since
    BY <1>1 DEF RightsInv, EditsDated
  <2>2. canEdit(LinkAccess) => lastEdit[s] = clock
    BY <1>2 DEF RightsInv, EditsDated, MayEdit
  <2>3. work[s][e].since <= clock /\ clock \in Int /\ work[s][e].since \in Int
    BY <1>1, <1>3, RoomAssumption DEF RightsInv, EditsDated, Types
  <2> QED
    BY <1>4, <2>1, <2>2, <2>3
<1> HIDE DEF access
<1> QED
  BY <1>1, <1>2, <1>4, <1>5, <1>6, DecideRights
(***************************************************************************)
(* Steps that touch no handler: nothing is asked, and entries only go.     *)
(***************************************************************************)
LEMMA CalmRights ==
  ASSUME Types, OffIsIdle, RightsInv, Observe, UNCHANGED <<sharing, clock, relayed>>,
         \A t \in Socket : conn'[t] # conn[t] => conn[t] = "off" \/ conn'[t] = "left",
         \A t \in Socket : principal'[t] # principal[t] => conn[t] = "off",
         principal' \in [Socket -> Principal],
         entry' \in [Socket -> [access : Access \ {"none"}, at : 0 .. MaxTime] \cup {Null}],
         \A t \in Socket : entry'[t] = entry[t] \/ (entry'[t] = Null /\ conn'[t] # "on"),
         \/ UNCHANGED work
         \/ work' = [t \in Socket |-> [f \in Event |->
                       IF work[t][f].pc = "idle" THEN At("idle") ELSE At("done")]]
            /\ \A t \in Socket : conn'[t] # "on",
         \A t \in Socket : conn'[t] = "off" => conn[t] = "off"
  PROVE  RightsInv'
<1> USE DEF RightsInv
<1>1. "join" \in Event /\ At("idle").pc = "idle" /\ At("done").pc = "done"
  BY DEF Event, At
<1>2. \A t \in Socket, f \in Event :
        \/ work'[t][f] = work[t][f]
        \/ /\ work'[t][f].pc = (IF work[t][f].pc = "idle" THEN "idle" ELSE "done")
           /\ conn'[t] # "on"
  BY <1>1
<1>3. \A t \in Socket : \/ Join(t)' = Join(t)
                        \/ Join(t)' = (IF Join(t) = "idle" THEN "idle" ELSE "done") /\ conn'[t] # "on"
  BY <1>1, <1>2 DEF Join
<1>4. LinkRows'
  BY DEF LinkRows, sharing, Created
<1>5. entitled' = entitled /\ withdrawn \subseteq withdrawn'
  BY <1>3 DEF Observe, Asks, Join
<1>6. Entries'
  BY DEF Entries, Observe, Types
<1>7. Untouched'
  BY <1>2, <1>3, <1>5 DEF Untouched, Waiting
<1>8. Heard'
  <2> SUFFICES ASSUME NEW t \in entitled, t \notin withdrawn
               PROVE  /\ t \in Socket
                      /\ MayView(principal[t])'
                      /\ Join(t)' # "refused"
                      /\ conn'[t] = "on" /\ Join(t)' \in {"account", "done"} => entry'[t] # Null
                      /\ \A f \in Event : Promising(t, f)'
    BY <1>5 DEF Heard
  <2>1. /\ t \in Socket /\ MayView(principal[t]) /\ Join(t) # "refused"
        /\ conn[t] = "on" /\ Join(t) \in {"account", "done"} => entry[t] # Null
        /\ \A f \in Event : Promising(t, f)
    BY DEF Heard
  <2>2. Join(t) # "idle" /\ conn[t] # "off"
    BY <2>1 DEF Untouched, OffIsIdle
  <2>3. principal'[t] = principal[t] /\ principal[t] \in Principal
    BY <2>1, <2>2 DEF Types
  <2>4. /\ MayView(principal[t])'
        /\ CollectionAccess(principal[t])' = CollectionAccess(principal[t])
        /\ LinkAccess' = LinkAccess
    BY <2>1, <2>3 DEF sharing, MayView, DirectAccess, CollectionAccess, LinkAccess, canView
  <2>5. \A f \in Event : Promising(t, f)'
    <3> SUFFICES ASSUME NEW f \in Event
                 PROVE  Promising(t, f)'
      OBVIOUS
    <3>1. CASE work'[t][f] = work[t][f]
      BY <2>1, <2>4, <3>1 DEF Promising, canView
    <3>2. CASE work'[t][f].pc \in {"idle", "done"}
      BY <3>2 DEF Promising
    <3> QED
      BY <2>1, <3>1, <3>2, <1>2
  <2>6. Join(t)' # "refused"
    BY <2>1, <1>3
  <2>7. conn'[t] = "on" /\ Join(t)' \in {"account", "done"} => entry'[t] # Null
    <3> SUFFICES ASSUME conn'[t] = "on", Join(t)' \in {"account", "done"}
                 PROVE  entry'[t] # Null
      OBVIOUS
    <3>1. conn[t] = "on"
      BY <2>1, <2>2
    <3>2. Join(t)' = Join(t) /\ entry'[t] = entry[t]
      BY <2>1, <1>3
    <3> QED
      BY <2>1, <3>1, <3>2
  <2> QED
    BY <2>1, <2>4, <2>5, <2>6, <2>7
<1>9. /\ \A t \in Socket : lastEdit[t] <= lastEdit'[t] /\ lastEdit'[t] <= clock'
      /\ \A t \in Socket :
           conn'[t] # "off" /\ MayEdit(principal[t])' => lastEdit'[t] = clock'
  <2>1. clock' \in 0 .. MaxTime /\ clock <= clock'
    BY RoomAssumption DEF Types
  <2> QED
    BY <2>1, DatesGrow
<1>10. \A t \in Socket : lastEdit[t] \in Int /\ lastEdit'[t] \in Int
  BY <1>6 DEF Entries
<1>11. \A t \in Socket :
        entry'[t] # Null /\ canEdit(entry'[t].access) => lastEdit'[t] >= entry'[t].at
  <2> SUFFICES ASSUME NEW t \in Socket, entry'[t] # Null, canEdit(entry'[t].access)
               PROVE  lastEdit'[t] >= entry'[t].at
    OBVIOUS
  <2>1. entry'[t] = entry[t] /\ entry[t].at \in Int
    BY RoomAssumption DEF Entries
  <2>2. lastEdit[t] >= entry[t].at
    BY <2>1 DEF EditsDated
  <2> QED
    BY <2>1, <2>2, <1>9, <1>10
<1>12. \A t \in Socket, f \in Event : work'[t][f].pc \in Waiting =>
        /\ work'[t][f].since <= clock'
        /\ canEdit(work'[t][f].base) => lastEdit'[t] >= work'[t][f].since
  <2> SUFFICES ASSUME NEW t \in Socket, NEW f \in Event, work'[t][f].pc \in Waiting
               PROVE  /\ work'[t][f].since <= clock'
                      /\ canEdit(work'[t][f].base) => lastEdit'[t] >= work'[t][f].since
    OBVIOUS
  <2>1. work'[t][f] = work[t][f]
    BY <1>2 DEF Waiting
  <2>2. work[t][f].since \in Int
    BY RoomAssumption DEF Work, Types
  <2>3. /\ work[t][f].since <= clock
        /\ canEdit(work[t][f].base) => lastEdit[t] >= work[t][f].since
    BY <2>1 DEF EditsDated
  <2> QED
    BY <2>1, <2>2, <2>3, <1>9, <1>10
<1>13. EditsDated'
  BY <1>9, <1>11, <1>12 DEF EditsDated, canEdit, MayEdit
<1> QED
  BY <1>4, <1>6, <1>7, <1>8, <1>13

\* Connections, departures, activity, and the end of the process.
LEMMA ConnectionRights ==
  ASSUME Types, OffIsIdle, RightsInv, Observe, UNCHANGED <<sharing, clock>>, NEW s \in Socket,
         \/ \E p \in Principal, self \in Person : Connect(s, p, self)
         \/ \E b \in BOOLEAN : Activity(s, b)
         \/ Disconnect(s)
         \/ \E e \in Event : ServerEnds(s, e)
  PROVE  RightsInv'
<1>1. Entries
  BY DEF RightsInv
<1>2. ASSUME NEW p \in Principal, NEW self \in Person, Connect(s, p, self)
      PROVE  RightsInv'
  <2>1. /\ conn[s] = "off" /\ conn' = [conn EXCEPT ![s] = "on"]
        /\ principal' = [principal EXCEPT ![s] = p]
        /\ UNCHANGED <<entry, work, relayed>>
    BY <1>2 DEF Connect
  <2>2. \A t \in Socket : /\ conn'[t] = IF t = s THEN "on" ELSE conn[t]
                          /\ principal'[t] = IF t = s THEN p ELSE principal[t]
    BY <2>1 DEF Types
  <2>3. principal' \in [Socket -> Principal]
    BY <2>1 DEF Types
  <2> QED
    BY <1>1, <2>1, <2>2, <2>3, CalmRights DEF Entries
<1>3. ASSUME NEW b \in BOOLEAN, Activity(s, b)
      PROVE  RightsInv'
  <2>1. UNCHANGED <<conn, principal, entry, work, relayed>>
    BY <1>3 DEF Activity
  <2> QED
    BY <1>1, <2>1, CalmRights DEF Entries, Types
<1>4. CASE Disconnect(s)
  <2>1. /\ conn' = [conn EXCEPT ![s] = "left"]
        /\ UNCHANGED <<principal, entry, work, relayed>>
    BY <1>4 DEF Disconnect, Leaves
  <2>2. \A t \in Socket : conn'[t] = IF t = s THEN "left" ELSE conn[t]
    BY <2>1 DEF Types
  <2>3. principal' \in [Socket -> Principal]
    BY <2>1 DEF Types
  <2> QED
    BY <1>1, <2>1, <2>2, <2>3, CalmRights DEF Entries
<1>5. ASSUME NEW e \in Event, ServerEnds(s, e)
      PROVE  RightsInv'
  <2>1. /\ conn' = [t \in Socket |-> IF conn[t] = "on" THEN "left" ELSE conn[t]]
        /\ entry' = [t \in Socket |-> Null]
        /\ work' = [t \in Socket |-> [f \in Event |->
                      IF work[t][f].pc = "idle" THEN At("idle") ELSE At("done")]]
        /\ UNCHANGED <<principal, relayed>>
    BY <1>5 DEF ServerEnds
  <2>2. \A t \in Socket : /\ conn'[t] # "on" /\ entry'[t] = Null
                          /\ conn'[t] # conn[t] => conn'[t] = "left"
                          /\ conn'[t] = "off" => conn[t] = "off"
    BY <2>1 DEF Types
  <2>3. /\ principal' \in [Socket -> Principal]
        /\ entry' \in [Socket -> [access : Access \ {"none"}, at : 0 .. MaxTime] \cup {Null}]
    BY <2>1 DEF Types
  <2> QED
    BY <2>1, <2>2, <2>3, CalmRights
<1> QED
  BY <1>2, <1>3, <1>4, <1>5

(***************************************************************************)
(* The sharing rows change, or time passes.                                *)
(***************************************************************************)
LEMMA SharingRights ==
  ASSUME Types, OffIsIdle, RightsInv, Observe, Types', LinkRows',
         UNCHANGED <<conn, principal, entry, work, relayed>>,
         clock' \in 0 .. MaxTime, clock <= clock'
  PROVE  RightsInv'
<1> USE DEF RightsInv
<1>1. entitled' = entitled
  BY DEF Observe, Asks
<1>2. Entries'
  BY DatesGrow DEF Entries
<1>3. Untouched'
  BY <1>1 DEF Untouched, Join
<1>4. Heard'
  <2> SUFFICES ASSUME NEW t \in entitled, t \notin withdrawn'
               PROVE  /\ t \in Socket
                      /\ MayView(principal[t])'
                      /\ Join(t)' # "refused"
                      /\ conn'[t] = "on" /\ Join(t)' \in {"account", "done"} => entry'[t] # Null
                      /\ \A f \in Event : Promising(t, f)'
    BY <1>1 DEF Heard
  <2>1. t \notin withdrawn
    BY DEF Observe
  <2>2. /\ t \in Socket /\ MayView(principal[t]) /\ Join(t) # "refused"
        /\ conn[t] = "on" /\ Join(t) \in {"account", "done"} => entry[t] # Null
        /\ \A f \in Event : Promising(t, f)
    BY <2>1 DEF Heard
  <2>3. Join(t) # "idle"
    BY <2>2 DEF Untouched
  <2>4. ~ Withdrawal
    BY <2>2, <2>3 DEF Observe, Join
  <2>5. principal[t] \in Principal /\ principal'[t] = principal[t]
    BY <2>2 DEF Types
  <2>6. LinkRows
    OBVIOUS
  <2>7. /\ MayView(principal[t]) => MayView(principal[t])'
        /\ canView(CollectionAccess(principal[t])) => canView(CollectionAccess(principal[t])')
        /\ canView(LinkAccess) => canView(LinkAccess')
    <3> DEFINE p == principal[t]
    <3>1. /\ MayView(p) => MayView(principal[t])'
          /\ canView(CollectionAccess(p)) => canView(CollectionAccess(principal[t])')
          /\ canView(LinkAccess) => canView(LinkAccess')
      BY <2>4, <2>5, <2>6, NothingLost
    <3> QED
      BY <3>1
  <2>8. \A f \in Event : Promising(t, f)'
    BY <2>2, <2>7 DEF Promising, canView
  <2> QED
    BY <2>2, <2>7, <2>8 DEF Join
<1>5. /\ \A t \in Socket : lastEdit[t] <= lastEdit'[t] /\ lastEdit'[t] <= clock'
      /\ \A t \in Socket :
           conn'[t] # "off" /\ MayEdit(principal[t])' => lastEdit'[t] = clock'
  BY DatesGrow
<1>6. \A t \in Socket : lastEdit[t] \in Int /\ lastEdit'[t] \in Int
  BY <1>2 DEF Entries
<1>7. \A t \in Socket :
        entry'[t] # Null /\ canEdit(entry'[t].access) => lastEdit'[t] >= entry'[t].at
  <2> SUFFICES ASSUME NEW t \in Socket, entry[t] # Null, canEdit(entry[t].access)
               PROVE  lastEdit'[t] >= entry[t].at
    BY DEF canEdit
  <2>1. entry[t].at \in Int
    BY RoomAssumption DEF Entries
  <2>2. lastEdit[t] >= entry[t].at
    BY DEF EditsDated
  <2> QED
    BY <2>1, <2>2, <1>5, <1>6
<1>8. \A t \in Socket, f \in Event : work'[t][f].pc \in Waiting =>
        /\ work'[t][f].since <= clock'
        /\ canEdit(work'[t][f].base) => lastEdit'[t] >= work'[t][f].since
  <2> SUFFICES ASSUME NEW t \in Socket, NEW f \in Event, work[t][f].pc \in Waiting
               PROVE  /\ work[t][f].since <= clock'
                      /\ canEdit(work[t][f].base) => lastEdit'[t] >= work[t][f].since
    BY DEF canEdit
  <2>1. work[t][f].since \in Int /\ clock \in Int /\ clock' \in Int
    BY RoomAssumption DEF Work, Types
  <2>2. /\ work[t][f].since <= clock
        /\ canEdit(work[t][f].base) => lastEdit[t] >= work[t][f].since
    BY DEF EditsDated
  <2> QED
    BY <2>1, <2>2, <1>5, <1>6
<1>9. EditsDated'
  BY <1>5, <1>7, <1>8 DEF EditsDated, canEdit, MayEdit
<1> QED
  BY <1>2, <1>3, <1>4, <1>9

\* Nobody has connected.
LEMMA InitRights == Init => RightsInv
<1> SUFFICES ASSUME Init
             PROVE  RightsInv
  OBVIOUS
<1>1. At("idle") \in Work /\ At("idle").pc = "idle" /\ "join" \in Event
  BY RoomAssumption DEF At, Work, Access, Permission, Event
<1>2. /\ \A s \in Socket : Join(s) = "idle" /\ conn[s] = "off" /\ entry[s] = Null
      /\ \A s \in Socket, e \in Event : work[s][e].pc = "idle"
      /\ entitled = {}
  BY <1>1 DEF Init, RoomInit, Join
<1>3. LinkRows
  <2>1. Created = {}
    BY DEF Init, SharingInit, Created
  <2>2. IsFiniteSet(Created) /\ Cardinality(Created) = 0
    BY <2>1, FS_EmptySet
  <2>3. /\ links \subseteq [id : Nat, permission : Permission]
        /\ \A l \in links : l.id = 0
    BY DEF Init, SharingInit, Shared, Hosted
  <2>4. linking \in [LinkRequest -> {"idle", "revoked", "done"}] /\ exists
    BY DEF Init, SharingInit
  <2> QED
    BY <2>2, <2>3, <2>4 DEF LinkRows
<1>4. Entries
  BY RoomAssumption DEF Init, RoomInit, Entries
<1>5. Untouched /\ Heard
  BY <1>2 DEF Untouched, Heard, Waiting
<1>6. EditsDated
  <2>1. \A s \in Socket : lastEdit[s] <= clock
    BY RoomAssumption DEF Init, RoomInit
  <2> QED
    BY <1>2, <2>1 DEF EditsDated, Waiting
<1> QED
  BY <1>3, <1>4, <1>5, <1>6 DEF RightsInv

(***************************************************************************)
(* Every step, one case per action.                                        *)
(***************************************************************************)
LEMMA RoomStepRights ==
  ASSUME Types, OffIsIdle, RightsInv, Observe, RoomStep, UNCHANGED <<sharing, clock>>
  PROVE  RightsInv'
<1>1. PICK s \in Socket :
        \/ \E p \in Principal, self \in Person : Connect(s, p, self)
        \/ \E e \in Event :
             \/ UseCached(s, e) \/ AskDatabase(s, e) \/ Ignore(s, e)
             \/ ReadDirect(s, e) \/ ReadCollection(s, e) \/ ReadLink(s, e)
             \/ ServerEnds(s, e)
        \/ ReadAccount(s) \/ FailJoin(s)
        \/ \E b \in BOOLEAN : Activity(s, b)
        \/ Disconnect(s)
  BY DEF RoomStep
<1>2. ASSUME NEW e \in Event, UseCached(s, e)
      PROVE  RightsInv'
  BY <1>2, UseCachedRights
<1>3. ASSUME NEW e \in Event, AskDatabase(s, e)
      PROVE  RightsInv'
  BY <1>3, AskDatabaseRights
<1>4. ASSUME NEW e \in Event, Ignore(s, e)
      PROVE  RightsInv'
  <2>1. /\ Go(s, e, "done") /\ e # "join" /\ Join(s) # "idle"
        /\ UNCHANGED <<conn, principal, entry, relayed>>
    BY <1>4 DEF Ignore, Arrives, Join
  <2> QED
    BY <2>1, StopRights
<1>5. ASSUME NEW e \in Event, ReadDirect(s, e)
      PROVE  RightsInv'
  BY <1>5, ReadDirectRights
<1>6. ASSUME NEW e \in Event, ReadCollection(s, e)
      PROVE  RightsInv'
  BY <1>6, ReadCollectionRights
<1>7. ASSUME NEW e \in Event, ReadLink(s, e)
      PROVE  RightsInv'
  BY <1>7, ReadLinkRights
<1>8. CASE ReadAccount(s)
  <2>1. /\ Go(s, "join", "done") /\ "join" \in Event /\ Join(s) = "account"
        /\ UNCHANGED <<conn, principal, entry, relayed>>
    BY <1>8 DEF ReadAccount, Join, Event
  <2> QED
    BY <2>1, StopRights
<1>9. CASE FailJoin(s)
  <2>1. /\ Go(s, "join", "failed") /\ "join" \in Event
        /\ UNCHANGED <<conn, principal, entry, relayed>>
    BY <1>9 DEF FailJoin, Event
  <2> QED
    BY <2>1, StopRights
<1>10. CASE \/ \E p \in Principal, self \in Person : Connect(s, p, self)
            \/ \E b \in BOOLEAN : Activity(s, b)
            \/ Disconnect(s)
            \/ \E e \in Event : ServerEnds(s, e)
  BY <1>10, ConnectionRights
<1> QED
  BY <1>1, <1>2, <1>3, <1>4, <1>5, <1>6, <1>7, <1>8, <1>9, <1>10

(***************************************************************************)
(* The invariant of rights holds in every state: of the rows, of what each *)
(* connection was granted, and of the lookups under way.                   *)
(***************************************************************************)
THEOREM RightsInvariance == Spec => []RightsInv
<1>1. Init => RightsInv
  BY InitRights
<1>2. PresenceInv /\ PresenceInv' /\ RightsInv /\ [Next]_vars => RightsInv'
  <2> SUFFICES ASSUME PresenceInv, PresenceInv', RightsInv, [Next]_vars
               PROVE  RightsInv'
    OBVIOUS
  <2>1. Types /\ OffIsIdle /\ Types'
    BY DEF PresenceInv
  <2>2. clock \in Int
    BY <2>1, RoomAssumption DEF Types
  <2>3. CASE RoomStep /\ UNCHANGED <<sharing, clock>> /\ Observe
    BY <2>1, <2>3, RoomStepRights
  <2>4. CASE SharingStep /\ UNCHANGED <<server, clock, relayed, early, replaced>> /\ Observe
    <3>1. LinkRows'
      BY <2>4, LinksKeep DEF RightsInv
    <3>2. UNCHANGED <<conn, principal, entry, work, relayed>> /\ clock <= clock'
          /\ clock' \in 0 .. MaxTime
      BY <2>1, <2>2, <2>4 DEF server, Types
    <3> QED
      BY <2>1, <2>4, <3>1, <3>2, SharingRights
  <2>5. CASE Tick /\ UNCHANGED <<sharing, server, relayed, early, replaced>> /\ Observe
    <3>1. LinkRows'
      BY <2>5 DEF RightsInv, LinkRows, Created, sharing
    <3>2. UNCHANGED <<conn, principal, entry, work, relayed>> /\ clock <= clock'
          /\ clock' \in 0 .. MaxTime
      BY <2>1, <2>2, <2>5 DEF server, Types, Tick
    <3> QED
      BY <2>1, <2>5, <3>1, <3>2, SharingRights
  <2>6. CASE UNCHANGED vars
    BY <2>6 DEF vars, sharing, server, history, RightsInv, LinkRows, Created, Entries, Untouched,
         Heard, EditsDated, Join, Promising, MayView, MayEdit, DirectAccess, CollectionAccess,
         LinkAccess, canView, canEdit
  <2> QED
    BY <2>3, <2>4, <2>5, <2>6 DEF Next
<1> QED
  BY <1>1, <1>2, PresenceInvariance, PTL DEF Spec

(***************************************************************************)
(* A page that could view when it asked to join is let in and heard, as    *)
(* long as nothing is withdrawn: getDrawingAccess reads its sources one    *)
(* after the other, lookups overlap and overwrite each other's entries,    *)
(* and still none of them ends without an access (getCachedOrFreshAccess   *)
(* of socket.ts).                                                          *)
(***************************************************************************)
THEOREM EntitledAreLetIn == Spec => []EntitledAreHeard
<1>1. RightsInv => EntitledAreHeard
  BY DEF RightsInv, Heard, EntitledAreHeard, LetIn, Joined, Join
<1> QED
  BY <1>1, RightsInvariance, PTL

\* Whose update a step passes on, and what let it.
LEMMA WhoIsRelayed ==
  ASSUME Types, Entries, NEW s \in Socket, NEW e \in Event, NEW access, Decide(s, e, access),
         NEW t \in Socket, NEW f \in Update, relayed'[t] # relayed[t],
         work'[t][f].pc # work[t][f].pc
  PROVE  t = s /\ f = e /\ canEdit(access)
<1>1. PICK pc \in {"done", "account", "refused"} : work' = [work EXCEPT ![s][e] = At(pc)]
  BY Decided
<1>2. t = s /\ canEdit(access)
  BY Decided
<1> QED
  BY <1>1, <1>2 DEF Types, Event

\* An update that reaches the room was sent less than TTL after a row let its sender edit.
LEMMA RelayedInTime ==
  ASSUME Types, OffIsIdle, RightsInv, RoomStep, UNCHANGED <<sharing, clock>>,
         NEW t \in Socket, NEW f \in Update, relayed'[t] # relayed[t],
         work'[t][f].pc # work[t][f].pc
  PROVE  lastEdit[t] > SentAt(t, f) - TTL
<1> USE DEF RightsInv
<1>1. PICK s \in Socket, e \in Event : UseCached(s, e) \/ ReadDirect(s, e) \/ ReadLink(s, e)
  BY DEF RoomStep, Connect, AskDatabase, Ignore, ReadCollection, ServerEnds, ReadAccount,
         FailJoin, Activity, Disconnect, Leaves
<1>2. /\ clock \in Int /\ TTL \in Int /\ TTL > 0 /\ lastEdit[t] \in Int
      /\ work[t][f].since \in Int
  BY RoomAssumption DEF Types, Entries, Work, Event
<1>3. CASE UseCached(s, e)
  <2>1. /\ Decide(s, e, entry[s].access) /\ work[s][e].pc = "idle"
        /\ entry[s] # Null /\ clock - entry[s].at < TTL
    BY <1>3 DEF UseCached, Arrives, IsCached
  <2>2. t = s /\ f = e /\ canEdit(entry[s].access)
    BY <2>1, WhoIsRelayed
  <2>3. lastEdit[s] >= entry[s].at /\ entry[s].at \in Int
    BY <2>1, <2>2, RoomAssumption DEF EditsDated, Entries
  <2>4. SentAt(t, f) = clock
    BY <2>1, <2>2 DEF SentAt
  <2> QED
    BY <1>2, <2>1, <2>2, <2>3, <2>4
<1>4. ASSUME NEW access, Decide(s, e, access), work[s][e].pc \in Waiting,
             canEdit(access) => MayEdit(principal[s]) \/ canEdit(work[s][e].base)
      PROVE  lastEdit[t] > SentAt(t, f) - TTL
  <2>1. t = s /\ f = e /\ canEdit(access)
    BY <1>4, WhoIsRelayed
  <2>2. conn[s] # "off"
    BY <1>4, Active
  <2>3. lastEdit[s] = clock \/ lastEdit[s] >= work[s][e].since
    BY <1>4, <2>1, <2>2 DEF EditsDated
  <2>4. work[s][e].since <= clock
    BY <1>4 DEF EditsDated
  <2>5. SentAt(t, f) = work[t][f].since
    BY <1>4, <2>1 DEF SentAt, Waiting
  <2> QED
    BY <1>2, <2>1, <2>3, <2>4, <2>5
<1>5. CASE ReadDirect(s, e)
  <2>1. work[s][e].pc \in Waiting
    BY <1>5 DEF ReadDirect, Waiting
  <2>2. Decide(s, e, DirectAccess(principal[s]))
    BY <1>5 DEF ReadDirect, Conclude
  <2> QED
    BY <1>4, <2>1, <2>2 DEF MayEdit
<1>6. CASE ReadLink(s, e)
  <2>1. /\ work[s][e].pc \in Waiting
        /\ Decide(s, e, maxAccess(work[s][e].base, LinkAccess))
    BY <1>6 DEF ReadLink, Conclude, Waiting
  <2>2. canEdit(maxAccess(work[s][e].base, LinkAccess)) =>
          MayEdit(principal[s]) \/ canEdit(work[s][e].base)
    BY DEF maxAccess, MayEdit
  <2> QED
    BY <1>4, <2>1, <2>2
<1> QED
  BY <1>1, <1>3, <1>5, <1>6

(***************************************************************************)
(* Withdrawn rights take effect within the time that an answer is trusted, *)
(* ACCESS_CACHE_TTL_MS in socket.ts, counted from when the update was      *)
(* sent: however long lookups take, overlap, or overwrite entries.         *)
(***************************************************************************)
THEOREM EditsStop == Spec => WithdrawnEditsStop
<1>1. PresenceInv /\ RightsInv /\ [Next]_vars =>
        [\A s \in Socket, e \in Update :
           relayed'[s] # relayed[s] /\ work'[s][e].pc # work[s][e].pc =>
             lastEdit[s] > SentAt(s, e) - TTL]_vars
  <2> SUFFICES ASSUME PresenceInv, RightsInv, Next, NEW s \in Socket, NEW e \in Update,
                      relayed'[s] # relayed[s], work'[s][e].pc # work[s][e].pc
               PROVE  lastEdit[s] > SentAt(s, e) - TTL
    OBVIOUS
  <2>1. RoomStep /\ UNCHANGED <<sharing, clock>>
    BY DEF Next
  <2> QED
    BY <2>1, RelayedInTime DEF PresenceInv
<1> QED
  BY <1>1, PresenceInvariance, RightsInvariance, PTL DEF Spec, WithdrawnEditsStop

-----------------------------------------------------------------------------
(***************************************************************************)
(* The voice co-pilot of the editor.  A client that the panel has let go   *)
(* of was disconnected: it has nothing open and nothing to report, except  *)
(* what was under way then.  The panel's own client and the panel say the  *)
(* same, and the effects mute the microphone when they stop to.            *)
(***************************************************************************)
\* What a client and the panel can be.
ClientState ==
  [mount : 0..MaxMounts, state : {"idle", "connecting", "live", "error"},
   step : {"none", "mint", "mic", "offer", "answer", "done"}, pc : {"none", "open", "closed"},
   mic : {"none", "asked", "on", "late", "stray", "stopped"}, enabled : BOOLEAN, timer : BOOLEAN,
   tool : BOOLEAN, cancelled : BOOLEAN, minting : BOOLEAN, busy : BOOLEAN]

PanelState ==
  [mount : 1..MaxMounts, mounted : BOOLEAN, open : BOOLEAN,
   state : {"idle", "connecting", "live", "error"}, rt : Client \cup {NoClient},
   micAvailable : BOOLEAN, micMode : {"ptt", "open"}, pressed : SUBSET Hold]

CopilotTypes ==
  /\ client \in [Client -> ClientState] /\ panel \in PanelState
  /\ held \in SUBSET Hold /\ stuck \in BOOLEAN

\* A client is live as long as it has a connection that was answered.
ClientFits(r) ==
  /\ r.state = "live" <=> r.pc = "open" /\ r.step = "done"
  /\ r.mic = "on" => r.step \in {"offer", "answer", "done"}
  /\ r.enabled => r.mic = "on"
  /\ r.minting => r.cancelled
  /\ r.step = "none" => r = NotMade

\* A client that the panel has let go of has nothing that is open, and will have
\* nothing to report, unless it was disconnected while something was under way.
LetGo(r) ==
  /\ ~ r.enabled
  /\ r.minting \/ (r.step # "mint" /\ r.pc # "open" /\ r.mic # "on")
  /\ r.step \in {"mint", "mic", "offer", "answer"} => r.cancelled
  /\ r.tool \/ r.timer => r.busy \/ r.cancelled

ClientsFit(clients, p) ==
  /\ \A c \in Client : ClientFits(clients[c]) /\ (c # p.rt => LetGo(clients[c]))
  /\ p.rt # NoClient => p.mounted /\ clients[p.rt].mount = p.mount /\ clients[p.rt].step # "none"

Disturbs(clients, p) ==
  \E c \in Client : clients[c].mount = p.mount /\ (clients[c].cancelled \/ clients[c].busy)

\* The panel shows the state of its client, and whether it has a microphone.
ShowsClient(p, r) ==
  /\ p.state = r.state
  /\ r.step \in {"mint", "mic"} => p.micAvailable
  /\ r.step \in {"offer", "answer"} \/ r.state = "live" => (p.micAvailable <=> r.mic = "on")

PanelFits(clients, p) ==
  p.mounted /\ ~ Disturbs(clients, p) =>
    IF p.rt = NoClient THEN p.state = "idle" ELSE ShowsClient(p, clients[p.rt])

\* A microphone that is open while the user is to hold something down is muted
\* by the next effect.
MicrophoneFits ==
  \A c \in Client : client[c].enabled =>
    \/ PushToTalk(panel) /\ (held # {} \/ stuck)
    \/ panel.micMode = "open" /\ (panel.state = "live" \/ Disturbed)

CopilotInv == CopilotTypes /\ ClientsFit(client, panel) /\ PanelFits(client, panel) /\ MicrophoneFits

-----------------------------------------------------------------------------
\* A client that is disconnected has nothing left that is open.
LEMMA OffFits ==
  ASSUME NEW r \in ClientState, r.minting => r.cancelled, r.step # "none"
  PROVE  /\ Off(r) \in ClientState /\ ClientFits(Off(r)) /\ LetGo(Off(r))
         /\ Off(r).mount = r.mount /\ Off(r).step = r.step
         /\ Off(r).state = IF r.state = "error" THEN "error" ELSE "idle"
         /\ (r.cancelled => Off(r).cancelled) /\ (r.busy => Off(r).busy)
<1> DEFINE cancelled == r.cancelled \/ r.step \in {"mint", "mic", "offer", "answer"}
           minting   == r.minting \/ r.step = "mint"
           busy      == r.busy \/ r.tool
           mic       == IF r.mic = "on" THEN "stopped" ELSE r.mic
           pc        == IF r.pc = "open" THEN "closed" ELSE r.pc
           state     == IF r.state = "error" THEN r.state ELSE "idle"
<1>1. Off(r) = [r EXCEPT !.timer = FALSE, !.enabled = FALSE, !.mic = mic, !.pc = pc, !.state = state,
                         !.cancelled = cancelled, !.minting = minting, !.busy = busy]
  BY Zenon DEF Off
<1>2. /\ cancelled \in BOOLEAN /\ minting \in BOOLEAN /\ busy \in BOOLEAN
      /\ mic \in {"none", "asked", "late", "stray", "stopped"} /\ pc \in {"none", "closed"}
      /\ state \in {"idle", "error"} /\ (minting => cancelled)
      /\ r.step = "mint" => minting /\ cancelled
      /\ r.step \in {"mic", "offer", "answer"} => cancelled
      /\ (r.tool => busy) /\ (r.cancelled => cancelled) /\ (r.busy => busy)
      /\ state = IF r.state = "error" THEN "error" ELSE "idle"
  BY DEF ClientState
<1> HIDE DEF cancelled, minting, busy, mic, pc, state
<1>3. /\ Off(r).timer = FALSE /\ Off(r).enabled = FALSE /\ Off(r).mic = mic /\ Off(r).pc = pc
      /\ Off(r).state = state /\ Off(r).mount = r.mount /\ Off(r).step = r.step
      /\ Off(r).tool = r.tool
      /\ Off(r).cancelled = cancelled /\ Off(r).minting = minting /\ Off(r).busy = busy
      /\ DOMAIN Off(r) = DOMAIN r
  BY <1>1 DEF ClientState
<1>4. Off(r) \in ClientState
  <2>1. Off(r) = [mount |-> r.mount, state |-> state, step |-> r.step, pc |-> pc, mic |-> mic,
                  enabled |-> FALSE,
                  timer |-> FALSE, tool |-> r.tool, cancelled |-> cancelled, minting |-> minting, busy |-> busy]
    BY <1>1 DEF ClientState
  <2> QED
    BY <2>1, <1>2 DEF ClientState
<1> QED
  BY <1>2, <1>3, <1>4 DEF ClientState, ClientFits, LetGo

\* The effects mute or open the microphone of the panel's client and change nothing else.
LEMMA EffectsMute ==
  ASSUME CopilotTypes, NEW clients \in [Client -> ClientState], NEW p \in PanelState
  PROVE  \/ Effects(clients, p) = clients
         \/ /\ p.rt # NoClient /\ clients[p.rt].mic = "on" /\ Watched(p) # Watched(panel)
            /\ \E b \in BOOLEAN :
                 /\ Effects(clients, p) = [clients EXCEPT ![p.rt].enabled = b]
                 /\ b => p.state = "live" /\ p.micMode = "open"
BY DEF Effects, WithMic, PanelState

-----------------------------------------------------------------------------
(***************************************************************************)
(* The effects keep what holds of the clients and the panel before them,   *)
(* and the microphone is open afterwards only as it is meant to be.        *)
(***************************************************************************)
LEMMA Rendered ==
  ASSUME CopilotInv, NEW clients \in [Client -> ClientState], NEW p \in PanelState,
         Render(clients, p), UNCHANGED held, ClientsFit(clients, p), PanelFits(clients, p),
         \A c \in Client : clients[c].enabled =>
           client[c].enabled /\ (client[c].state = "live" => clients[c].state = "live"),
         Disturbed => Disturbs(clients, p),
         p.micMode = panel.micMode \/ (p.state = "live" /\ p.micAvailable)
  PROVE  CopilotInv'
<1> DEFINE after == Effects(clients, p)
           button == IF p.open /\ PushToTalk(p) THEN p.pressed ELSE {}
<1>1. client' = after /\ panel' = [p EXCEPT !.pressed = button] /\ button \in SUBSET Hold
      /\ stuck' = (stuck /\ Watched(p) = Watched(panel))
  BY DEF Render, PanelState
<1>2. /\ after \in [Client -> ClientState]
      /\ \A c \in Client : /\ after[c] = [clients[c] EXCEPT !.enabled = after[c].enabled]
                           /\ after[c].enabled # clients[c].enabled => c = p.rt /\ clients[c].mic = "on"
  <2>1. \A c \in Client : clients[c] \in ClientState
    OBVIOUS
  <2>2. \A q \in ClientState, b \in BOOLEAN :
          /\ [q EXCEPT !.enabled = b] \in ClientState /\ [q EXCEPT !.enabled = b].enabled = b
          /\ q = [q EXCEPT !.enabled = q.enabled]
    BY DEF ClientState
  <2>3. CASE after = clients
    BY <2>1, <2>2, <2>3
  <2>4. CASE /\ p.rt # NoClient /\ clients[p.rt].mic = "on"
             /\ \E b \in BOOLEAN : after = [clients EXCEPT ![p.rt].enabled = b]
    <3>1. PICK b \in BOOLEAN : after = [clients EXCEPT ![p.rt] = [@ EXCEPT !.enabled = b]]
      BY <2>4
    <3>2. p.rt \in Client
      BY <2>4 DEF PanelState
    <3>3. clients[p.rt] \in ClientState
      BY <3>2
    <3> DEFINE muted == [clients[p.rt] EXCEPT !.enabled = b]
    <3>4. muted \in ClientState /\ muted = [clients[p.rt] EXCEPT !.enabled = muted.enabled]
      BY <3>3, <2>2
    <3> HIDE DEF after
    <3>5. after = [clients EXCEPT ![p.rt] = muted]
      BY <3>1
    <3> HIDE DEF muted
    <3>6. after[p.rt] = muted /\ \A c \in Client : c # p.rt => after[c] = clients[c]
      BY <3>2, <3>5
    <3>7. after \in [Client -> ClientState]
      BY <3>2, <3>4, <3>5
    <3>8. \A c \in Client : clients[c] = [clients[c] EXCEPT !.enabled = clients[c].enabled]
      BY <2>1, <2>2
    <3> QED
      BY <2>4, <3>4, <3>6, <3>7, <3>8
  <2>5. \/ after = clients
        \/ /\ p.rt # NoClient /\ clients[p.rt].mic = "on"
           /\ \E b \in BOOLEAN : after = [clients EXCEPT ![p.rt].enabled = b]
    BY EffectsMute DEF CopilotInv
  <2> QED
    BY <2>3, <2>4, <2>5
<1>3. /\ panel' \in PanelState /\ panel'.rt = p.rt /\ panel'.mount = p.mount
      /\ panel'.mounted = p.mounted
      /\ panel'.state = p.state /\ panel'.micAvailable = p.micAvailable
      /\ panel'.micMode = p.micMode
  BY <1>1 DEF PanelState
<1>4. CopilotTypes'
  BY <1>1, <1>2, <1>3 DEF CopilotInv, CopilotTypes
<1>5. \A c \in Client :
        /\ client'[c] \in ClientState
        /\ client'[c].mount = clients[c].mount /\ client'[c].state = clients[c].state
        /\ client'[c].step = clients[c].step /\ client'[c].pc = clients[c].pc
        /\ client'[c].mic = clients[c].mic
        /\ client'[c].timer = clients[c].timer /\ client'[c].tool = clients[c].tool
        /\ client'[c].cancelled = clients[c].cancelled /\ client'[c].minting = clients[c].minting
        /\ client'[c].busy = clients[c].busy
        /\ client'[c].enabled = clients[c].enabled \/ (c = p.rt /\ clients[c].mic = "on")
        /\ client'[c].enabled = clients[c].enabled => client'[c] = clients[c]
  <2> TAKE c \in Client
  <2>1. clients[c] \in ClientState /\ client'[c] \in ClientState
    BY <1>1, <1>2
  <2>2. client'[c] = [clients[c] EXCEPT !.enabled = client'[c].enabled]
    BY <1>1, <1>2
  <2> QED
    BY <1>1, <1>2, <2>1, <2>2 DEF ClientState
<1>6. ClientsFit(client, panel)'
  <2>1. \A c \in Client : ClientFits(client'[c])
    BY <1>5 DEF ClientsFit, ClientFits, NotMade, Fresh, ClientState
  <2>2. \A c \in Client : c # p.rt => LetGo(client'[c])
    BY <1>5 DEF ClientsFit
  <2>3. p.rt # NoClient => p.rt \in Client
    BY DEF PanelState
  <2> QED
    BY <1>3, <1>5, <2>1, <2>2, <2>3 DEF ClientsFit
<1>7. Disturbed' = Disturbs(clients, p) /\ Disturbs(client', panel') = Disturbs(clients, p)
  BY <1>3, <1>5 DEF Disturbed, Disturbs
<1>8. PanelFits(client, panel)'
  <2>1. p.rt # NoClient => p.rt \in Client
    BY DEF PanelState
  <2> QED
    BY <1>3, <1>5, <1>7, <2>1 DEF PanelFits, ShowsClient
<1>9. MicrophoneFits'
  <2> SUFFICES ASSUME NEW c \in Client, client'[c].enabled
               PROVE  \/ PushToTalk(panel)' /\ (held' # {} \/ stuck')
                      \/ panel'.micMode = "open" /\ (panel'.state = "live" \/ Disturbed')
    BY DEF MicrophoneFits
  <2>1. c = p.rt /\ p.rt \in Client /\ clients[c].mic = "on"
    BY <1>5, <1>6, <1>3 DEF ClientsFit, ClientFits, LetGo
  <2>2. CASE Watched(p) = Watched(panel)
    <3>1. /\ after = clients /\ p.state = panel.state /\ p.micMode = panel.micMode
          /\ p.micAvailable = panel.micAvailable
      BY <2>2 DEF Effects, Watched
    <3>2. client[c].enabled
      BY <1>1, <3>1
    <3> QED
      BY <1>1, <1>3, <1>7, <2>2, <3>1, <3>2 DEF CopilotInv, MicrophoneFits, PushToTalk
  <2>3. CASE Watched(p) # Watched(panel)
    <3>1. CASE p.state = "live" /\ p.micAvailable
      <4>1. client' = [clients EXCEPT ![c].enabled = (p.micMode = "open")]
        BY <1>1, <2>1, <2>3, <3>1, CopilotAssumption DEF Effects, WithMic, Client
      <4>2. clients[c] \in ClientState
        OBVIOUS
      <4>3. p.micMode = "open"
        BY <4>1, <4>2 DEF ClientState
      <4> QED
        BY <1>3, <3>1, <4>3
    <3>2. CASE ~ (p.state = "live" /\ p.micAvailable) /\ PushToTalk(panel)
      <4>1. client' = [clients EXCEPT ![c].enabled = FALSE]
        BY <1>1, <2>1, <2>3, <3>2, CopilotAssumption DEF Effects, WithMic, Client
      <4>2. clients[c] \in ClientState
        OBVIOUS
      <4> QED
        BY <4>1, <4>2 DEF ClientState
    <3>3. CASE ~ (p.state = "live" /\ p.micAvailable) /\ ~ PushToTalk(panel)
      <4>1. client' = clients /\ p.micMode = panel.micMode
        BY <1>1, <2>3, <3>3 DEF Effects
      <4>2. client[c].enabled /\ (client[c].state = "live" => clients[c].state = "live")
        BY <4>1
      <4>3. panel.micMode = "open" /\ (panel.state = "live" \/ Disturbed)
        BY <3>3, <4>2 DEF CopilotInv, MicrophoneFits
      <4>4. c = panel.rt /\ panel.mounted
        BY <4>2, <2>1, CopilotAssumption DEF CopilotInv, ClientsFit, LetGo, Client
      <4>5. p.mounted /\ p.rt # NoClient
        BY <2>1, CopilotAssumption DEF ClientsFit, Client
      <4>6. ~ Disturbs(clients, p) => p.state = "live"
        BY <2>1, <4>2, <4>3, <4>4, <4>5 DEF CopilotInv, PanelFits, ShowsClient, Disturbed, Disturbs
      <4> QED
        BY <1>3, <1>7, <4>1, <4>3, <4>6
    <3> QED
      BY <3>1, <3>2, <3>3
  <2> QED
    BY <2>2, <2>3
<1> QED
  BY <1>4, <1>6, <1>8, <1>9 DEF CopilotInv

-----------------------------------------------------------------------------
(***************************************************************************)
(* A step of one client.                                                   *)
(***************************************************************************)
LEMMA ClientSteps ==
  ASSUME CopilotInv, NEW c \in Client, NEW r \in ClientState, NEW p \in PanelState,
         Render([client EXCEPT ![c] = r], p), UNCHANGED held,
         r.step # "none", r.mount = client[c].mount, ClientFits(r), c # panel.rt => LetGo(r),
         client[c].cancelled => r.cancelled, client[c].busy => r.busy,
         r.enabled => client[c].enabled /\ (client[c].state = "live" => r.state = "live"),
         p.rt = panel.rt, p.mount = panel.mount, p.mounted = panel.mounted, p.micMode = panel.micMode,
         c = panel.rt /\ ~ Disturbed => r.cancelled \/ r.busy \/ ShowsClient(p, r),
         c # panel.rt => p = panel \/ Disturbed
  PROVE  CopilotInv'
<1> DEFINE clients == [client EXCEPT ![c] = r]
<1>1. /\ clients \in [Client -> ClientState] /\ clients[c] = r
      /\ \A d \in Client : d # c => clients[d] = client[d]
  BY DEF CopilotInv, CopilotTypes
<1>2. Render(clients, p)
  OBVIOUS
<1> HIDE DEF clients
<1>3. ClientsFit(clients, p)
  BY <1>1, CopilotAssumption DEF CopilotInv, CopilotTypes, PanelState, ClientsFit, Client
<1>4. Disturbed => Disturbs(clients, p)
  BY <1>1 DEF Disturbed, Disturbs
<1>5. PanelFits(clients, p)
  <2> SUFFICES ASSUME p.mounted, ~ Disturbs(clients, p)
               PROVE  IF p.rt = NoClient THEN p.state = "idle" ELSE ShowsClient(p, clients[p.rt])
    BY DEF PanelFits
  <2>1. ~ Disturbed /\ ~ Disturbs(client, panel)
    BY <1>4 DEF Disturbed, Disturbs
  <2>2. CASE c = panel.rt
    <3>1. panel.rt # NoClient /\ r.mount = panel.mount
      BY <2>2, CopilotAssumption DEF CopilotInv, ClientsFit, Client
    <3>2. ~ r.cancelled /\ ~ r.busy
      BY <1>1, <3>1 DEF Disturbs
    <3> QED
      BY <1>1, <2>1, <2>2, <3>1, <3>2
  <2>3. CASE c # panel.rt
    BY <1>1, <2>1, <2>3 DEF CopilotInv, CopilotTypes, PanelState, PanelFits
  <2> QED
    BY <2>2, <2>3
<1>6. \A d \in Client : clients[d].enabled =>
        client[d].enabled /\ (client[d].state = "live" => clients[d].state = "live")
  BY <1>1
<1> QED
  BY <1>1, <1>2, <1>3, <1>4, <1>5, <1>6, Rendered

\* A client that the panel let go of reports nothing unless it is disturbing.
LEMMA LetGoIsSilent ==
  ASSUME CopilotInv, NEW c \in Client, c # panel.rt, client[c].mount = panel.mount,
         Connecting(c) \/ client[c].timer \/ client[c].tool
  PROVE  Disturbed
BY DEF CopilotInv, ClientsFit, LetGo, Connecting, Disturbed

\* connect() gives up: the client is disconnected, and shown as failed.
LEMMA FailKeeps ==
  ASSUME CopilotInv, NEW c \in Client, NEW clients, NEW q \in ClientState, NEW p \in {panel, TextOnly(c)},
         Connecting(c), clients = [client EXCEPT ![c] = q], q.mount = client[c].mount,
         q.minting = client[c].minting, q.cancelled = client[c].cancelled, q.busy = client[c].busy,
         Fail(c, clients, p), UNCHANGED held
  PROVE  CopilotInv'
<1> DEFINE failed == [q EXCEPT !.state = "error", !.step = "done"]
           r == Off(failed)
           seen == ShownAs(p, c, "error")
<1>1. client[c] \in ClientState /\ ClientFits(client[c]) /\ (c # panel.rt => LetGo(client[c]))
  BY DEF CopilotInv, CopilotTypes, ClientsFit
<1>2. /\ failed \in ClientState /\ failed.state = "error" /\ failed.step = "done"
      /\ failed.mount = q.mount
      /\ failed.minting = q.minting /\ failed.cancelled = q.cancelled /\ failed.busy = q.busy
  BY DEF ClientState
<1>3. clients[c] = q /\ [clients EXCEPT ![c] = r] = [client EXCEPT ![c] = r]
  BY DEF CopilotInv, CopilotTypes
<1>4. Render([client EXCEPT ![c] = r], seen)
  BY <1>3 DEF Fail
<1> HIDE DEF failed
<1>5. /\ r \in ClientState /\ ClientFits(r) /\ LetGo(r) /\ r.mount = client[c].mount
      /\ r.step = "done"
      /\ r.state = "error" /\ (client[c].cancelled => r.cancelled) /\ (client[c].busy => r.busy)
  BY <1>1, <1>2, OffFits DEF ClientFits
<1>6. /\ p \in PanelState /\ p.rt = panel.rt /\ p.mount = panel.mount /\ p.mounted = panel.mounted
      /\ p.micMode = panel.micMode /\ (p = panel \/ Hears(panel, c))
  BY DEF CopilotInv, CopilotTypes, PanelState, TextOnly
<1>7. /\ seen \in PanelState /\ seen.rt = panel.rt /\ seen.mount = panel.mount
      /\ seen.mounted = panel.mounted
      /\ seen.micMode = panel.micMode /\ (Hears(p, c) => seen.state = "error")
      /\ (Hears(p, c) \/ seen = p)
  BY <1>6 DEF PanelState, ShownAs
<1>8. c = panel.rt => Hears(p, c)
  BY <1>6, CopilotAssumption DEF CopilotInv, ClientsFit, Hears, Client
<1>9. c # panel.rt => seen = panel \/ Disturbed
  BY <1>6, <1>7, LetGoIsSilent DEF Hears
<1> HIDE DEF r, seen
<1>10. ~ r.enabled /\ (c = panel.rt => ShowsClient(seen, r))
  BY <1>5, <1>7, <1>8 DEF LetGo, ShowsClient
<1> QED
  BY <1>4, <1>5, <1>7, <1>9, <1>10, ClientSteps

LEMMA FailsKeep ==
  ASSUME CopilotInv, NEW c \in Client, Connecting(c), Fail(c, client, panel), UNCHANGED held
  PROVE  CopilotInv'
<1>1. client[c] \in ClientState /\ client = [client EXCEPT ![c] = client[c]]
  BY DEF CopilotInv, CopilotTypes
<1> QED
  BY <1>1, FailKeeps

LEMMA MintKeeps ==
  ASSUME CopilotInv, NEW c \in Client, Mint(c)
  PROVE  CopilotInv'
<1>1. /\ client[c] \in ClientState /\ ClientFits(client[c]) /\ (c # panel.rt => LetGo(client[c]))
      /\ panel \in PanelState
  BY DEF CopilotInv, CopilotTypes, ClientsFit
<1>2. CASE Render([client EXCEPT ![c].step = "mic", ![c].pc = "open", ![c].mic = "asked"], panel)
  <2> DEFINE r == [client[c] EXCEPT !.step = "mic", !.pc = "open", !.mic = "asked"]
  <2>1. [client EXCEPT ![c].step = "mic", ![c].pc = "open", ![c].mic = "asked"] =
          [client EXCEPT ![c] = r]
    BY DEF CopilotInv, CopilotTypes
  <2>2. /\ r \in ClientState /\ r.mount = client[c].mount /\ r.step = "mic"
        /\ r.cancelled = client[c].cancelled
        /\ r.busy = client[c].busy /\ r.state = client[c].state /\ r.enabled = client[c].enabled
        /\ r.mic = "asked" /\ r.minting = client[c].minting /\ r.tool = client[c].tool
        /\ r.timer = client[c].timer
    BY <1>1 DEF ClientState
  <2>3. Render([client EXCEPT ![c] = r], panel)
    BY <1>2, <2>1
  <2> HIDE DEF r
  <2>4. client[c].step = "mint" /\ client[c].state # "live" /\ ~ client[c].enabled
    BY <1>1 DEF Mint, ClientFits
  <2>5. ClientFits(r) /\ (c # panel.rt => LetGo(r))
    BY <1>1, <2>2, <2>4 DEF ClientFits, LetGo
  <2>6. c = panel.rt /\ ~ Disturbed => ShowsClient(panel, r)
    BY <2>2, <2>4, CopilotAssumption
       DEF CopilotInv, ClientsFit, PanelFits, ShowsClient, Disturbed, Disturbs, Client
  <2>7. UNCHANGED held
    BY DEF Mint
  <2> QED
    BY <1>1, <2>2, <2>3, <2>4, <2>5, <2>6, <2>7, ClientSteps
<1>3. CASE Fail(c, client, panel)
  BY <1>3, FailsKeep DEF Mint, Connecting
<1> QED
  BY <1>2, <1>3 DEF Mint

LEMMA MicrophoneKeeps ==
  ASSUME CopilotInv, NEW c \in Client, client[c].step = "mic", UNCHANGED held,
         NEW mic \in {"on", "none", "late"}, NEW p \in {panel, TextOnly(c)},
         (mic = "on" /\ p = panel) \/ (mic # "on" /\ p = TextOnly(c)), AfterMic(c, mic, p)
  PROVE  CopilotInv'
<1> DEFINE r == [client[c] EXCEPT !.mic = mic, !.step = "offer"]
<1>1. /\ client[c] \in ClientState /\ ClientFits(client[c]) /\ (c # panel.rt => LetGo(client[c]))
      /\ panel \in PanelState
  BY DEF CopilotInv, CopilotTypes, ClientsFit
<1>2. [client EXCEPT ![c].mic = mic, ![c].step = "offer"] = [client EXCEPT ![c] = r]
  BY DEF CopilotInv, CopilotTypes
<1>3. /\ r \in ClientState /\ r.mount = client[c].mount /\ r.step = "offer"
      /\ r.cancelled = client[c].cancelled
      /\ r.busy = client[c].busy /\ r.state = client[c].state /\ r.enabled = client[c].enabled
      /\ r.mic = mic /\ r.minting = client[c].minting /\ r.tool = client[c].tool
      /\ r.timer = client[c].timer
      /\ r.pc = client[c].pc
  BY <1>1 DEF ClientState
<1> HIDE DEF r
<1>4. CASE client[c].pc # "open"
  <2>1. Fail(c, [client EXCEPT ![c] = r], TextOnly(c))
    BY <1>2, <1>4 DEF AfterMic
  <2> QED
    BY <1>3, <2>1, FailKeeps DEF Connecting
<1>5. CASE client[c].pc = "open"
  <2>1. Render([client EXCEPT ![c] = r], p)
    BY <1>2, <1>5 DEF AfterMic
  <2>2. client[c].state # "live" /\ ~ client[c].enabled
    BY <1>1 DEF ClientFits
  <2>3. ClientFits(r) /\ (c # panel.rt => LetGo(r))
    BY <1>1, <1>3, <1>5, <2>2 DEF ClientFits, LetGo
  <2>4. /\ p \in PanelState /\ p.rt = panel.rt /\ p.mount = panel.mount /\ p.mounted = panel.mounted
        /\ p.micMode = panel.micMode /\ p.state = panel.state /\ (p = panel \/ Hears(panel, c))
        /\ p = TextOnly(c) /\ Hears(panel, c) => ~ p.micAvailable
    BY <1>1 DEF PanelState, TextOnly
  <2>5. c # panel.rt => p = panel \/ Disturbed
    BY <2>4, LetGoIsSilent DEF Hears, Connecting
  <2>6. c = panel.rt /\ ~ Disturbed => ShowsClient(p, r)
    <3> SUFFICES ASSUME c = panel.rt, ~ Disturbed PROVE ShowsClient(p, r)
      OBVIOUS
    <3>1. Hears(panel, c) /\ ShowsClient(panel, client[c])
      BY CopilotAssumption DEF CopilotInv, ClientsFit, PanelFits, Disturbed, Disturbs, Client, Hears
    <3> QED
      BY <1>3, <2>2, <2>4, <3>1 DEF ShowsClient
  <2> QED
    BY <1>1, <1>3, <2>1, <2>2, <2>3, <2>4, <2>5, <2>6, ClientSteps
<1> QED
  BY <1>4, <1>5

LEMMA LateMicrophoneKeeps ==
  ASSUME CopilotInv, NEW c \in Client, LateMicrophone(c)
  PROVE  CopilotInv'
<1>1. /\ client[c] \in ClientState /\ ClientFits(client[c]) /\ (c # panel.rt => LetGo(client[c]))
      /\ panel \in PanelState
  BY DEF CopilotInv, CopilotTypes, ClientsFit
<1>2. PICK mic \in {"stray", "none"} : Render([client EXCEPT ![c].mic = mic], panel)
  BY DEF LateMicrophone
<1> DEFINE r == [client[c] EXCEPT !.mic = mic]
<1>3. [client EXCEPT ![c].mic = mic] = [client EXCEPT ![c] = r]
  BY DEF CopilotInv, CopilotTypes
<1>4. /\ r \in ClientState /\ r.mount = client[c].mount /\ r.step = client[c].step
      /\ r.cancelled = client[c].cancelled
      /\ r.busy = client[c].busy /\ r.state = client[c].state /\ r.enabled = client[c].enabled
      /\ r.mic = mic
      /\ r.minting = client[c].minting /\ r.tool = client[c].tool /\ r.timer = client[c].timer
      /\ r.pc = client[c].pc
  BY <1>1 DEF ClientState
<1>5. Render([client EXCEPT ![c] = r], panel)
  BY <1>2, <1>3
<1> HIDE DEF r
<1>6. client[c].mic = "late" /\ ~ client[c].enabled /\ client[c].step # "none" /\ UNCHANGED held
  BY <1>1 DEF LateMicrophone, ClientFits, NotMade, Fresh
<1>7. ClientFits(r) /\ (c # panel.rt => LetGo(r))
  BY <1>1, <1>4, <1>6 DEF ClientFits, LetGo
<1>8. c = panel.rt /\ ~ Disturbed => ShowsClient(panel, r)
  BY <1>4, <1>6, CopilotAssumption
     DEF CopilotInv, ClientsFit, PanelFits, ShowsClient, Disturbed, Disturbs, Client
<1> QED
  BY <1>1, <1>4, <1>5, <1>6, <1>7, <1>8, ClientSteps

LEMMA OfferKeeps ==
  ASSUME CopilotInv, NEW c \in Client, Offer(c)
  PROVE  CopilotInv'
<1>1. /\ client[c] \in ClientState /\ ClientFits(client[c]) /\ (c # panel.rt => LetGo(client[c]))
      /\ panel \in PanelState
  BY DEF CopilotInv, CopilotTypes, ClientsFit
<1>2. CASE client[c].pc # "open"
  BY <1>2, FailsKeep DEF Offer, Connecting
<1>3. CASE client[c].pc = "open"
  <2> DEFINE r == [client[c] EXCEPT !.step = "answer"]
  <2>1. [client EXCEPT ![c].step = "answer"] = [client EXCEPT ![c] = r]
    BY DEF CopilotInv, CopilotTypes
  <2>2. /\ r \in ClientState /\ r.mount = client[c].mount /\ r.step = "answer"
        /\ r.cancelled = client[c].cancelled
        /\ r.busy = client[c].busy /\ r.state = client[c].state /\ r.enabled = client[c].enabled
        /\ r.mic = client[c].mic /\ r.minting = client[c].minting /\ r.tool = client[c].tool
        /\ r.timer = client[c].timer /\ r.pc = client[c].pc
    BY <1>1 DEF ClientState
  <2>3. Render([client EXCEPT ![c] = r], panel)
    BY <1>3, <2>1 DEF Offer
  <2> HIDE DEF r
  <2>4. client[c].step = "offer" /\ client[c].state # "live" /\ UNCHANGED held
    BY <1>1 DEF Offer, ClientFits
  <2>5. ClientFits(r) /\ (c # panel.rt => LetGo(r))
    BY <1>1, <2>2, <2>4 DEF ClientFits, LetGo
  <2>6. c = panel.rt /\ ~ Disturbed => ShowsClient(panel, r)
    BY <2>2, <2>4, CopilotAssumption
       DEF CopilotInv, ClientsFit, PanelFits, ShowsClient, Disturbed, Disturbs, Client
  <2> QED
    BY <1>1, <2>2, <2>3, <2>4, <2>5, <2>6, ClientSteps
<1> QED
  BY <1>2, <1>3

LEMMA AnswerKeeps ==
  ASSUME CopilotInv, NEW c \in Client, Answer(c)
  PROVE  CopilotInv'
<1>1. /\ client[c] \in ClientState /\ ClientFits(client[c]) /\ (c # panel.rt => LetGo(client[c]))
      /\ panel \in PanelState
  BY DEF CopilotInv, CopilotTypes, ClientsFit
<1>2. CASE Fail(c, client, panel)
  BY <1>2, FailsKeep DEF Answer, Connecting
<1>3. CASE client[c].pc = "open" /\ Render([client EXCEPT ![c] = Live(@)], ShownAs(panel, c, "live"))
  <2> DEFINE r == Live(client[c])
             seen == ShownAs(panel, c, "live")
  <2>1. Render([client EXCEPT ![c] = r], seen)
    BY <1>3
  <2>2. /\ r \in ClientState /\ r.mount = client[c].mount /\ r.step = "done"
        /\ r.cancelled = client[c].cancelled
        /\ r.busy = client[c].busy /\ r.state = "live" /\ r.enabled = client[c].enabled
        /\ r.mic = client[c].mic /\ r.minting = client[c].minting /\ r.tool = client[c].tool
        /\ r.pc = client[c].pc
    BY <1>1 DEF ClientState, Live
  <2>3. /\ seen \in PanelState /\ seen.rt = panel.rt /\ seen.mount = panel.mount
        /\ seen.mounted = panel.mounted
        /\ seen.micMode = panel.micMode /\ seen.micAvailable = panel.micAvailable
        /\ (Hears(panel, c) => seen.state = "live") /\ (Hears(panel, c) \/ seen = panel)
    BY <1>1 DEF PanelState, ShownAs
  <2> HIDE DEF r, seen
  <2>4. client[c].step = "answer" /\ client[c].state # "live" /\ UNCHANGED held
    BY <1>1 DEF Answer, ClientFits
  <2>5. ClientFits(r) /\ (c # panel.rt => LetGo(r))
    BY <1>1, <1>3, <2>2, <2>4 DEF ClientFits, LetGo
  <2>6. c # panel.rt => seen = panel \/ Disturbed
    BY <2>3, <2>4, LetGoIsSilent DEF Hears, Connecting
  <2>7. c = panel.rt /\ ~ Disturbed => ShowsClient(seen, r)
    <3> SUFFICES ASSUME c = panel.rt, ~ Disturbed PROVE ShowsClient(seen, r)
      OBVIOUS
    <3>1. Hears(panel, c) /\ ShowsClient(panel, client[c])
      BY CopilotAssumption DEF CopilotInv, ClientsFit, PanelFits, Disturbed, Disturbs, Client, Hears
    <3> QED
      BY <2>2, <2>3, <2>4, <3>1 DEF ShowsClient
  <2> QED
    BY <1>1, <2>1, <2>2, <2>3, <2>4, <2>5, <2>6, <2>7, ClientSteps
<1> QED
  BY <1>2, <1>3 DEF Answer

\* The timer is set, and a tool may be called or be done.
LEMMA TimersKeep ==
  ASSUME CopilotInv, NEW c \in Client, NEW tool \in BOOLEAN, UNCHANGED held,
         Render([client EXCEPT ![c] = [@ EXCEPT !.timer = TRUE, !.tool = tool]], panel),
         client[c].step # "none", c # panel.rt => client[c].cancelled \/ client[c].busy
  PROVE  CopilotInv'
<1>1. /\ client[c] \in ClientState /\ ClientFits(client[c]) /\ (c # panel.rt => LetGo(client[c]))
      /\ panel \in PanelState
  BY DEF CopilotInv, CopilotTypes, ClientsFit
<1> DEFINE r == [client[c] EXCEPT !.timer = TRUE, !.tool = tool]
<1>2. Render([client EXCEPT ![c] = r], panel)
  OBVIOUS
<1>3. /\ r \in ClientState /\ r.mount = client[c].mount /\ r.step = client[c].step
      /\ r.cancelled = client[c].cancelled
      /\ r.busy = client[c].busy /\ r.state = client[c].state /\ r.enabled = client[c].enabled
      /\ r.mic = client[c].mic /\ r.minting = client[c].minting /\ r.pc = client[c].pc
  BY <1>1 DEF ClientState
<1> HIDE DEF r
<1>4. ClientFits(r) /\ (c # panel.rt => LetGo(r))
  BY <1>1, <1>3 DEF ClientFits, LetGo
<1>5. c = panel.rt /\ ~ Disturbed => ShowsClient(panel, r)
  BY <1>3, CopilotAssumption DEF CopilotInv, ClientsFit, PanelFits, ShowsClient, Disturbed,
       Disturbs, Client
<1> QED
  BY <1>1, <1>2, <1>3, <1>4, <1>5, ClientSteps

LEMMA ServerEventKeeps ==
  ASSUME CopilotInv, NEW c \in Client, ServerEvent(c)
  PROVE  CopilotInv'
<1>1. /\ client[c] \in ClientState /\ ClientFits(client[c]) /\ (c # panel.rt => LetGo(client[c]))
      /\ panel \in PanelState
  BY DEF CopilotInv, CopilotTypes, ClientsFit
<1>2. PICK call \in BOOLEAN : Render([client EXCEPT ![c].timer = TRUE, ![c].tool = @ \/ call], panel)
  BY DEF ServerEvent
<1> DEFINE tool == client[c].tool \/ call
<1>3. [client EXCEPT ![c].timer = TRUE, ![c].tool = @ \/ call] = [client EXCEPT ![c].timer = TRUE, ![c].tool = tool]
  BY Zenon DEF CopilotInv, CopilotTypes
<1>4. tool \in BOOLEAN
  OBVIOUS
<1> HIDE DEF tool
<1>5. [client EXCEPT ![c].timer = TRUE, ![c].tool = tool] =
          [client EXCEPT ![c] = [@ EXCEPT !.timer = TRUE, !.tool = tool]]
  BY DEF CopilotInv, CopilotTypes
<1>6. client[c].step # "none" /\ (c # panel.rt => client[c].cancelled) /\ UNCHANGED held
  BY <1>1 DEF ServerEvent, Talks, ClientFits, LetGo
<1> QED
  BY <1>2, <1>3, <1>4, <1>5, <1>6, TimersKeep

LEMMA ToolDoneKeeps ==
  ASSUME CopilotInv, NEW c \in Client, ToolDone(c)
  PROVE  CopilotInv'
<1>1. /\ client[c] \in ClientState /\ ClientFits(client[c]) /\ (c # panel.rt => LetGo(client[c]))
      /\ panel \in PanelState
  BY DEF CopilotInv, CopilotTypes, ClientsFit
<1>2. [client EXCEPT ![c].tool = FALSE, ![c].timer = TRUE] =
          [client EXCEPT ![c] = [@ EXCEPT !.timer = TRUE, !.tool = FALSE]]
  BY <1>1 DEF CopilotInv, CopilotTypes, ClientState
<1>3. client[c].step # "none" /\ (c # panel.rt => client[c].cancelled \/ client[c].busy)
  BY <1>1 DEF ToolDone, ClientFits, LetGo, NotMade, Fresh
<1> QED
  BY <1>2, <1>3, TimersKeep DEF ToolDone

LEMMA IdleTimeoutKeeps ==
  ASSUME CopilotInv, NEW c \in Client, IdleTimeout(c)
  PROVE  CopilotInv'
<1>1. /\ client[c] \in ClientState /\ ClientFits(client[c]) /\ (c # panel.rt => LetGo(client[c]))
      /\ panel \in PanelState
  BY DEF CopilotInv, CopilotTypes, ClientsFit
<1> DEFINE r == Off(client[c])
           seen == Told(panel, c)
<1>2. c # NoClient
  BY CopilotAssumption DEF Client
<1>3. Render([client EXCEPT ![c] = r], seen)
  BY <1>2 DEF IdleTimeout, Disconnected
<1>4. client[c].step # "none" /\ client[c].timer /\ UNCHANGED held
  BY <1>1 DEF IdleTimeout, ClientFits, NotMade, Fresh
<1>5. /\ r \in ClientState /\ ClientFits(r) /\ LetGo(r) /\ r.mount = client[c].mount
      /\ r.step = client[c].step
      /\ r.state = (IF client[c].state = "error" THEN "error" ELSE "idle")
      /\ (client[c].cancelled => r.cancelled) /\ (client[c].busy => r.busy)
  BY <1>1, <1>4, OffFits DEF ClientFits
<1>6. /\ seen \in PanelState /\ seen.rt = panel.rt /\ seen.mount = panel.mount
      /\ seen.mounted = panel.mounted
      /\ seen.micMode = panel.micMode /\ (seen = panel \/ Hears(panel, c))
      /\ (client[c].state = "error" => seen = panel)
      /\ (client[c].state # "error" /\ Hears(panel, c) => seen.state = "idle")
  BY <1>1, <1>2 DEF PanelState, Told, ShownAs
<1> HIDE DEF r, seen
<1>7. c # panel.rt => seen = panel \/ Disturbed
  BY <1>4, <1>6, LetGoIsSilent DEF Hears
<1>8. c = panel.rt /\ ~ Disturbed => r.cancelled \/ r.busy \/ ShowsClient(seen, r)
  <2> SUFFICES ASSUME c = panel.rt, ~ Disturbed, ~ r.cancelled PROVE ShowsClient(seen, r)
    OBVIOUS
  <2>1. Hears(panel, c) /\ ShowsClient(panel, client[c])
    BY CopilotAssumption DEF CopilotInv, ClientsFit, PanelFits, Disturbed, Disturbs, Client, Hears
  <2>2. r.step \notin {"mint", "mic", "offer", "answer"}
    BY <1>5 DEF LetGo
  <2> QED
    BY <1>5, <1>6, <2>1, <2>2 DEF ShowsClient
<1>9. ~ r.enabled
  BY <1>5 DEF LetGo
<1> QED
  BY <1>1, <1>3, <1>4, <1>5, <1>6, <1>7, <1>8, <1>9, ClientSteps

-----------------------------------------------------------------------------
(***************************************************************************)
(* The steps of the panel.  It lets go of no client that it has not        *)
(* disconnected.                                                           *)
(***************************************************************************)
LEMMA DisconnectedFits ==
  ASSUME CopilotInv, NEW clients, clients = Disconnected(client, panel.rt)
  PROVE  /\ clients \in [Client -> ClientState]
         /\ \A c \in Client : ClientFits(clients[c]) /\ LetGo(clients[c])
         /\ \A c \in Client : /\ clients[c].mount = client[c].mount /\ clients[c].step = client[c].step
                              /\ (client[c].cancelled => clients[c].cancelled)
                              /\ (client[c].busy => clients[c].busy)
<1>1. CASE panel.rt = NoClient
  BY <1>1, CopilotAssumption DEF CopilotInv, CopilotTypes, ClientsFit, Disconnected, Client
<1>2. CASE panel.rt # NoClient
  <2> DEFINE c == panel.rt
             r == Off(client[c])
  <2>1. c \in Client
    BY <1>2 DEF CopilotInv, CopilotTypes, PanelState
  <2>2. client[c] \in ClientState /\ client[c].step # "none" /\ ClientFits(client[c])
    BY <1>2, <2>1 DEF CopilotInv, CopilotTypes, ClientsFit
  <2>3. /\ r \in ClientState /\ ClientFits(r) /\ LetGo(r) /\ r.mount = client[c].mount
        /\ r.step = client[c].step
        /\ (client[c].cancelled => r.cancelled) /\ (client[c].busy => r.busy)
    BY <2>2, OffFits DEF ClientFits
  <2>4. clients = [client EXCEPT ![c] = r]
    BY <1>2 DEF Disconnected
  <2> HIDE DEF r
  <2>5. /\ clients \in [Client -> ClientState] /\ clients[c] = r
        /\ \A d \in Client : d # c => clients[d] = client[d]
    BY <2>1, <2>3, <2>4 DEF CopilotInv, CopilotTypes
  <2> QED
    BY <2>3, <2>5 DEF CopilotInv, ClientsFit
<1> QED
  BY <1>1, <1>2

LEMMA StartKeeps ==
  ASSUME CopilotInv, Start
  PROVE  CopilotInv'
<1> DEFINE off == Disconnected(client, panel.rt)
           clients(c) == [off EXCEPT ![c] = Fresh(panel.mount)]
           p(c) == [panel EXCEPT !.state = "connecting", !.rt = c, !.micAvailable = TRUE]
<1>1. PICK c \in Client : client[c] = NotMade /\ Render(clients(c), p(c))
  BY DEF Start
<1>2. panel \in PanelState /\ panel.mounted /\ UNCHANGED held
  BY DEF Start, CopilotInv, CopilotTypes
<1>3. /\ off \in [Client -> ClientState]
      /\ \A d \in Client : ClientFits(off[d]) /\ LetGo(off[d])
      /\ \A d \in Client : /\ off[d].mount = client[d].mount /\ off[d].step = client[d].step
                           /\ (client[d].cancelled => off[d].cancelled)
                           /\ (client[d].busy => off[d].busy)
  BY DisconnectedFits
<1>4. /\ p(c) \in PanelState /\ p(c).rt = c /\ p(c).mount = panel.mount
      /\ p(c).mounted = panel.mounted
      /\ p(c).micMode = panel.micMode /\ p(c).state = "connecting" /\ p(c).micAvailable
  BY <1>2 DEF PanelState
<1> DEFINE fresh == Fresh(panel.mount)
<1>5. /\ fresh \in ClientState /\ ClientFits(fresh) /\ fresh.mount = panel.mount
      /\ fresh.step = "mint"
      /\ fresh.state = "connecting" /\ ~ fresh.enabled
  BY <1>2 DEF PanelState, Fresh, ClientState, ClientFits
<1>6. clients(c) = [off EXCEPT ![c] = fresh]
  OBVIOUS
<1> HIDE DEF off, fresh
<1>7. /\ clients(c) \in [Client -> ClientState] /\ clients(c)[c] = fresh
      /\ \A d \in Client : d # c => clients(c)[d] = off[d]
  BY <1>3, <1>5, <1>6
<1> HIDE DEF clients, p
<1>8. ~ client[c].cancelled /\ ~ client[c].busy
  BY <1>1 DEF NotMade, Fresh
<1>9. Disturbed => Disturbs(clients(c), p(c))
  BY <1>3, <1>4, <1>7, <1>8 DEF Disturbed, Disturbs
<1>10. ClientsFit(clients(c), p(c)) /\ PanelFits(clients(c), p(c))
  BY <1>2, <1>3, <1>4, <1>5, <1>7, CopilotAssumption DEF ClientsFit, PanelFits, ShowsClient, Client
<1>11. \A d \in Client : ~ clients(c)[d].enabled
  BY <1>3, <1>5, <1>7 DEF LetGo
<1> QED
  BY <1>1, <1>2, <1>4, <1>7, <1>9, <1>10, <1>11, Rendered

LEMMA StopsKeep ==
  ASSUME CopilotInv, Stop
  PROVE  CopilotInv'
<1> DEFINE off == Disconnected(client, panel.rt)
           p == [panel EXCEPT !.state = "idle", !.rt = NoClient]
<1>1. Render(off, p) /\ UNCHANGED held /\ panel \in PanelState
  BY DEF Stop, CopilotInv, CopilotTypes
<1>2. /\ off \in [Client -> ClientState]
      /\ \A d \in Client : ClientFits(off[d]) /\ LetGo(off[d])
      /\ \A d \in Client : /\ off[d].mount = client[d].mount
                           /\ (client[d].cancelled => off[d].cancelled)
                           /\ (client[d].busy => off[d].busy)
  BY DisconnectedFits
<1>3. /\ p \in PanelState /\ p.rt = NoClient /\ p.mount = panel.mount /\ p.micMode = panel.micMode
      /\ p.state = "idle"
  BY <1>1 DEF PanelState
<1> HIDE DEF off, p
<1>4. Disturbed => Disturbs(off, p)
  BY <1>2, <1>3 DEF Disturbed, Disturbs
<1>5. ClientsFit(off, p) /\ PanelFits(off, p)
  BY <1>2, <1>3 DEF ClientsFit, PanelFits
<1>6. \A d \in Client : ~ off[d].enabled
  BY <1>2 DEF LetGo
<1> QED
  BY <1>1, <1>2, <1>3, <1>4, <1>5, <1>6, Rendered

LEMMA UnmountKeeps ==
  ASSUME CopilotInv, Unmount
  PROVE  CopilotInv'
<1>1. /\ client' \in [Client -> ClientState]
      /\ \A d \in Client : ClientFits(client'[d]) /\ LetGo(client'[d])
  BY DisconnectedFits DEF Unmount
<1>2. /\ panel' \in PanelState /\ panel'.rt = NoClient /\ panel'.mounted = FALSE
  BY DEF Unmount, NewPanel, CopilotInv, CopilotTypes, PanelState
<1>3. CopilotTypes'
  BY <1>1, <1>2 DEF CopilotInv, CopilotTypes, Unmount
<1>4. ClientsFit(client, panel)' /\ PanelFits(client, panel)' /\ MicrophoneFits'
  BY <1>1, <1>2 DEF ClientsFit, PanelFits, MicrophoneFits, LetGo
<1> QED
  BY <1>3, <1>4 DEF CopilotInv

LEMMA MountKeeps ==
  ASSUME CopilotInv, Mount
  PROVE  CopilotInv'
<1>1. /\ panel' \in PanelState /\ panel'.rt = NoClient /\ panel'.state = "idle"
  BY CopilotAssumption DEF Mount, NewPanel, CopilotInv, CopilotTypes, PanelState
<1>2. panel.rt = NoClient /\ UNCHANGED <<client, held, stuck>>
  BY DEF Mount, CopilotInv, ClientsFit
<1>3. CopilotTypes'
  BY <1>1, <1>2 DEF CopilotInv, CopilotTypes
<1>4. ClientsFit(client, panel)' /\ PanelFits(client, panel)' /\ MicrophoneFits'
  BY <1>1, <1>2, CopilotAssumption DEF CopilotInv, ClientsFit, PanelFits, MicrophoneFits, LetGo,
       Client
<1> QED
  BY <1>3, <1>4 DEF CopilotInv

LEMMA SetOpenKeeps ==
  ASSUME CopilotInv, NEW open \in BOOLEAN, SetOpen(open)
  PROVE  CopilotInv'
<1> DEFINE p == [panel EXCEPT !.open = open]
<1>1. /\ Render(client, p) /\ UNCHANGED held /\ panel \in PanelState
      /\ client \in [Client -> ClientState]
  BY DEF SetOpen, CopilotInv, CopilotTypes
<1>2. /\ p \in PanelState /\ p.rt = panel.rt /\ p.mount = panel.mount /\ p.mounted = panel.mounted
      /\ p.micMode = panel.micMode /\ p.state = panel.state /\ p.micAvailable = panel.micAvailable
  BY <1>1 DEF PanelState
<1> HIDE DEF p
<1>3. ClientsFit(client, p) /\ PanelFits(client, p) /\ (Disturbed => Disturbs(client, p))
  BY <1>2 DEF CopilotInv, ClientsFit, PanelFits, ShowsClient, Disturbed, Disturbs
<1> QED
  BY <1>1, <1>2, <1>3, Rendered

LEMMA ToggleKeeps ==
  ASSUME CopilotInv, ToggleMicMode
  PROVE  CopilotInv'
<1> DEFINE mode == IF panel.micMode = "ptt" THEN "open" ELSE "ptt"
           p == [panel EXCEPT !.micMode = mode]
<1>1. /\ Render(client, p) /\ UNCHANGED held /\ panel \in PanelState
      /\ client \in [Client -> ClientState]
      /\ panel.state = "live" /\ panel.micAvailable
  BY DEF ToggleMicMode, CopilotInv, CopilotTypes
<1>2. /\ p \in PanelState /\ p.rt = panel.rt /\ p.mount = panel.mount /\ p.mounted = panel.mounted
      /\ p.state = panel.state /\ p.micAvailable = panel.micAvailable
  BY <1>1 DEF PanelState
<1> HIDE DEF p
<1>3. ClientsFit(client, p) /\ PanelFits(client, p) /\ (Disturbed => Disturbs(client, p))
  BY <1>2 DEF CopilotInv, ClientsFit, PanelFits, ShowsClient, Disturbed, Disturbs
<1> QED
  BY <1>1, <1>2, <1>3, Rendered

LEMMA SendTextKeeps ==
  ASSUME CopilotInv, SendText
  PROVE  CopilotInv'
<1> DEFINE c == panel.rt
<1>1. c \in Client /\ client[c] \in ClientState /\ client[c].step # "none"
  BY DEF SendText, CopilotInv, CopilotTypes, ClientsFit, PanelState
<1>2. [client EXCEPT ![c].timer = TRUE] =
          [client EXCEPT ![c] = [@ EXCEPT !.timer = TRUE, !.tool = client[c].tool]]
  BY <1>1 DEF CopilotInv, CopilotTypes, ClientState
<1>3. client[c].tool \in BOOLEAN /\ UNCHANGED held
  BY <1>1 DEF SendText, ClientState
<1> QED
  BY <1>1, <1>2, <1>3, TimersKeep DEF SendText

\* The talk button, the space bar and the key open the microphone while they are held.
LEMMA HoldsKeep ==
  ASSUME CopilotInv, NEW on \in BOOLEAN, NEW pressed \in SUBSET Hold,
         client' = WithMic(client, panel.rt, on), panel' = [panel EXCEPT !.pressed = pressed],
         held' \in SUBSET Hold, stuck' \in BOOLEAN, on => PushToTalk(panel) /\ held' # {}
  PROVE  CopilotInv'
<1>1. /\ panel' \in PanelState /\ panel'.rt = panel.rt /\ panel'.mount = panel.mount
      /\ panel'.mounted = panel.mounted /\ panel'.state = panel.state
      /\ panel'.micMode = panel.micMode
      /\ panel'.micAvailable = panel.micAvailable
  BY DEF CopilotInv, CopilotTypes, PanelState
<1>2. CASE client' = client /\ \A c \in Client : ~ client[c].enabled
  <2>1. CopilotTypes'
    BY <1>1, <1>2 DEF CopilotInv, CopilotTypes
  <2>2. ClientsFit(client, panel)' /\ PanelFits(client, panel)' /\ MicrophoneFits'
    BY <1>1, <1>2 DEF CopilotInv, ClientsFit, PanelFits, ShowsClient, Disturbs, MicrophoneFits
  <2> QED
    BY <2>1, <2>2 DEF CopilotInv
<1>3. CASE panel.rt # NoClient /\ client[panel.rt].mic = "on"
  <2> DEFINE c == panel.rt
             r == [client[c] EXCEPT !.enabled = on]
  <2>1. c \in Client /\ client[c] \in ClientState /\ ClientFits(client[c])
    BY <1>3 DEF CopilotInv, CopilotTypes, ClientsFit, PanelState
  <2>2. /\ r \in ClientState /\ r.mount = client[c].mount /\ r.step = client[c].step
        /\ r.cancelled = client[c].cancelled
        /\ r.busy = client[c].busy /\ r.state = client[c].state /\ r.enabled = on
        /\ r.mic = client[c].mic /\ r.minting = client[c].minting /\ r.pc = client[c].pc
    BY <2>1 DEF ClientState
  <2>3. client' = [client EXCEPT ![c] = r]
    BY <1>3 DEF WithMic
  <2> HIDE DEF r
  <2>4. /\ client' \in [Client -> ClientState] /\ client'[c] = r
        /\ \A d \in Client : d # c => client'[d] = client[d]
    BY <2>1, <2>2, <2>3 DEF CopilotInv, CopilotTypes
  <2>5. CopilotTypes'
    BY <1>1, <2>4 DEF CopilotInv, CopilotTypes
  <2>6. ClientFits(r)
    BY <1>3, <2>1, <2>2 DEF ClientFits, NotMade, Fresh
  <2>7. ClientsFit(client, panel)'
    BY <1>1, <2>1, <2>2, <2>4, <2>6 DEF CopilotInv, ClientsFit
  <2>8. Disturbs(client, panel)' = Disturbs(client, panel)
    BY <1>1, <2>1, <2>2, <2>4 DEF Disturbs
  <2>9. PanelFits(client, panel)'
    BY <1>1, <2>1, <2>2, <2>4, <2>8 DEF CopilotInv, PanelFits, ShowsClient
  <2>10. MicrophoneFits'
    BY <1>1, <2>1, <2>2, <2>4 DEF CopilotInv, MicrophoneFits, PushToTalk, ClientsFit, LetGo
  <2> QED
    BY <2>5, <2>7, <2>9, <2>10 DEF CopilotInv
<1>4. ~ (panel.rt # NoClient /\ client[panel.rt].mic = "on") =>
        client' = client /\ \A c \in Client : ~ client[c].enabled
  BY CopilotAssumption DEF WithMic, CopilotInv, ClientsFit, ClientFits, LetGo, Client
<1> QED
  BY <1>2, <1>3, <1>4

LEMMA HoldKeeps ==
  ASSUME CopilotInv, NEW how \in Hold, Press(how) \/ Release(how)
  PROVE  CopilotInv'
<1>1. panel.pressed \in SUBSET Hold /\ held \in SUBSET Hold
  BY DEF CopilotInv, CopilotTypes, PanelState
<1>2. CASE Press(how)
  <2> DEFINE pressed == IF how = "key" THEN panel.pressed ELSE panel.pressed \cup {how}
  <2>1. pressed \in SUBSET Hold /\ panel' = [panel EXCEPT !.pressed = pressed]
    BY <1>1, <1>2 DEF Press
  <2> HIDE DEF pressed
  <2>2. /\ client' = WithMic(client, panel.rt, TRUE) /\ held' \in SUBSET Hold /\ held' # {}
        /\ stuck' \in BOOLEAN /\ PushToTalk(panel)
    BY <1>1, <1>2 DEF Press
  <2> QED
    BY <2>1, <2>2, HoldsKeep
<1>3. CASE Release(how)
  <2> DEFINE pressed == panel.pressed \ {how}
  <2>1. /\ pressed \in SUBSET Hold /\ panel' = [panel EXCEPT !.pressed = pressed]
        /\ client' = WithMic(client, panel.rt, FALSE) /\ held' \in SUBSET Hold /\ stuck' \in BOOLEAN
    BY <1>1, <1>3 DEF Release
  <2> HIDE DEF pressed
  <2> QED
    BY <2>1, HoldsKeep
<1> QED
  BY <1>2, <1>3

LEMMA ReleaseUnheardKeeps ==
  ASSUME CopilotInv, NEW how \in Hold, ReleaseUnheard(how)
  PROVE  CopilotInv'
<1>1. /\ panel' \in PanelState /\ panel'.rt = panel.rt /\ panel'.mount = panel.mount
      /\ panel'.mounted = panel.mounted /\ panel'.state = panel.state
      /\ panel'.micMode = panel.micMode
      /\ panel'.micAvailable = panel.micAvailable /\ client' = client /\ stuck'
  BY DEF CopilotInv, CopilotTypes, PanelState, ReleaseUnheard
<1>2. CopilotTypes'
  BY <1>1 DEF CopilotInv, CopilotTypes, ReleaseUnheard
<1>3. ClientsFit(client, panel)' /\ PanelFits(client, panel)' /\ MicrophoneFits'
  BY <1>1 DEF CopilotInv, ClientsFit, PanelFits, ShowsClient, Disturbs, Disturbed, MicrophoneFits,
       PushToTalk
<1> QED
  BY <1>2, <1>3 DEF CopilotInv

-----------------------------------------------------------------------------
LEMMA CopilotBegins == CopilotInit => CopilotInv
<1> SUFFICES ASSUME CopilotInit PROVE CopilotInv
  OBVIOUS
<1>1. NotMade \in ClientState /\ ClientFits(NotMade) /\ LetGo(NotMade) /\ ~ NotMade.enabled
  <2> DEFINE fresh == Fresh(0)
  <2>1. /\ fresh \in ClientState /\ fresh.pc = "none" /\ fresh.mic = "none" /\ fresh.enabled = FALSE
        /\ fresh.timer = FALSE /\ fresh.tool = FALSE /\ fresh.minting = FALSE
    BY CopilotAssumption DEF Fresh, ClientState
  <2>2. NotMade = [fresh EXCEPT !.state = "idle", !.step = "none"]
    BY DEF NotMade
  <2> HIDE DEF fresh
  <2>3. /\ NotMade \in ClientState /\ NotMade.pc = "none" /\ NotMade.mic = "none"
        /\ NotMade.enabled = FALSE
        /\ NotMade.timer = FALSE /\ NotMade.tool = FALSE /\ NotMade.minting = FALSE
        /\ NotMade.state = "idle" /\ NotMade.step = "none"
    BY <2>1, <2>2 DEF ClientState
  <2> QED
    BY <2>3 DEF ClientFits, LetGo
<1>2. NewPanel(1) \in PanelState /\ NewPanel(1).rt = NoClient /\ NewPanel(1).state = "idle"
  BY CopilotAssumption DEF NewPanel, PanelState
<1>3. CopilotTypes
  BY <1>1, <1>2 DEF CopilotInit, CopilotTypes
<1> QED
  BY <1>1, <1>2, <1>3 DEF CopilotInit, CopilotInv, ClientsFit, PanelFits, MicrophoneFits

LEMMA CopilotStep == CopilotInv /\ [CopilotNext]_copilotVars => CopilotInv'
<1> SUFFICES ASSUME CopilotInv, [CopilotNext]_copilotVars PROVE CopilotInv'
  OBVIOUS
<1>1. ASSUME NEW c \in Client, ClientStep(c) PROVE CopilotInv'
  <2>1. CASE Microphone(c)
    BY <2>1, MicrophoneKeeps DEF Microphone
  <2> QED
    BY <1>1, <2>1, MintKeeps, OfferKeeps, AnswerKeeps, LateMicrophoneKeeps, ServerEventKeeps,
         ToolDoneKeeps,
       IdleTimeoutKeeps DEF ClientStep
<1>2. ASSUME PanelStep PROVE CopilotInv'
  BY <1>2, SetOpenKeeps, StartKeeps, StopsKeep, UnmountKeeps, MountKeeps, SendTextKeeps,
       ToggleKeeps,
     HoldKeeps, ReleaseUnheardKeeps DEF PanelStep
<1>3. CASE UNCHANGED copilotVars
  BY <1>3 DEF copilotVars, CopilotInv, CopilotTypes, ClientsFit, PanelFits, ShowsClient, Disturbs,
       MicrophoneFits,
     Disturbed, PushToTalk
<1> QED
  BY <1>1, <1>2, <1>3 DEF CopilotNext

LEMMA CopilotInvSuffices == CopilotInv => PanelControlsItsClient
<1> SUFFICES ASSUME CopilotInv PROVE PanelControlsItsClient
  OBVIOUS
<1>1. NothingRunsUnseen
  BY CopilotAssumption DEF CopilotInv, ClientsFit, LetGo, NothingRunsUnseen, Client
<1>2. PanelShowsItsClient
  <2> SUFFICES ASSUME panel.mounted, ~ Disturbed
               PROVE  /\ panel.state = "live" <=> (panel.rt # NoClient /\ Talks(panel.rt))
                      /\ panel.state = "live" => (panel.micAvailable <=> client[panel.rt].mic = "on")
    BY DEF PanelShowsItsClient
  <2>1. CASE panel.rt = NoClient
    BY <2>1 DEF CopilotInv, PanelFits, Disturbs, Disturbed
  <2>2. CASE panel.rt # NoClient
    <3>1. ShowsClient(panel, client[panel.rt])
      BY <2>2 DEF CopilotInv, PanelFits, Disturbs, Disturbed
    <3>2. ClientFits(client[panel.rt])
      BY <2>2 DEF CopilotInv, CopilotTypes, PanelState, ClientsFit
    <3> QED
      BY <2>2, <3>1, <3>2 DEF ShowsClient, ClientFits, Talks
  <2> QED
    BY <2>1, <2>2
<1>3. HeardOnlyOnPurpose
  BY CopilotAssumption DEF CopilotInv, ClientsFit, LetGo, MicrophoneFits, HeardOnlyOnPurpose, Client
<1> QED
  BY <1>1, <1>2, <1>3 DEF PanelControlsItsClient

(***************************************************************************)
(* The panel of the voice co-pilot controls its client, for any number of  *)
(* clients and mounts.                                                     *)
(***************************************************************************)
THEOREM PanelIsInControl == CopilotSpec => []PanelControlsItsClient
<1>1. CopilotInit => CopilotInv
  BY CopilotBegins
<1>2. CopilotInv /\ [CopilotNext]_copilotVars => CopilotInv'
  BY CopilotStep
<1>3. CopilotInv => PanelControlsItsClient
  BY CopilotInvSuffices
<1> QED
  BY <1>1, <1>2, <1>3, PTL DEF CopilotSpec
=============================================================================
