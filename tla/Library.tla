------------------------------ MODULE Library -------------------------------
(***************************************************************************)
(* The drawings of an account in its folders: the routes that list them    *)
(* (drawingListRoutes.ts) through the cache of lists (drawingsCache.ts),   *)
(* and the routes that create, move, copy and delete them and drop a       *)
(* collection.  The statements of concurrent requests interleave.  Lists   *)
(* are sorted by creation, newest first; drawings are numbered in order.   *)
(***************************************************************************)
EXTENDS Naturals, FiniteSets, SequencesExt

CONSTANTS
  User, Me,
  Collection,  \* all of them belong to Me
  PageSize,    \* limit
  MaxFail      \* bound: requests that fail, and answers that are lost

ASSUME LibraryAssumption ==
  /\ Me \in User /\ PageSize \in Nat \ {0} /\ MaxFail \in Nat
  /\ Collection \cap {"all", "none", "trash", "gone"} = {}

VARIABLES
  drawing,     \* the rows, in the order of their creation
  collections, \* the collections that have not been dropped
  editors,     \* CollectionShare: the users who may create in a collection
  cache,       \* drawingsCache: key -> body
  reads,       \* the list requests under way
  writes,      \* the other requests under way
  fails,
  clock        \* history: how often the rows have changed

library == <<drawing, collections, editors, cache, reads, writes, fails, clock>>

Place == {"none", "trash"} \cup Collection
Filter == {"all"} \cup Place
Kind   == {"move", "delete", "duplicate", "create", "drop"}

Matches(u, f, r) ==
  CASE f = "all" -> r.owner = u /\ r.folder \notin {"trash", "gone"}
    [] f \in {"none", "trash"} -> r.owner = u /\ r.folder = f
    [] OTHER -> r.folder = f

\* findMany without limit: where, orderBy and select.
Cards(rows, u, f) ==
  LET ids == SetToSortSeq({i \in DOMAIN rows : Matches(u, f, rows[i])}, >) IN
    [k \in DOMAIN ids |-> [id |-> ids[k], folder |-> rows[ids[k]].folder]]

Listed(u, f) == Cards(drawing, u, f)

\* take and skip
PageOf(cards, offset) ==
  LET end == IF offset + PageSize < Len(cards) THEN offset + PageSize ELSE Len(cards) IN
    SubSeq(cards, offset + 1, end)

-----------------------------------------------------------------------------
(***************************************************************************)
(* GET /drawings                                                           *)
(***************************************************************************)
\* who asks, and for what; version is the page's.  at and late are history: the
\* clock when the list was read, and whether rows changed before it was stored.
ListRequest(who, version, u, f, offset) ==
  [who |-> who, version |-> version, user |-> u, filter |-> f, offset |-> offset,
   stage |-> "asked",
   body |-> [cards |-> <<>>, total |-> 0, at |-> 0, late |-> FALSE]]

CacheKey(r) == <<r.user, r.filter, r.offset>>

Advance(r, to) == reads' = (reads \ {r}) \cup {to}

\* Only one's own collections, and those that are shared with one, can be listed.
MayList(r) ==
  r.filter \in Collection => r.filter \in collections /\ (r.user = Me \/ <<r.filter, r.user>> \in editors)

\* Nothing is awaited before the cache is looked at, except for the collection.
CheckFolder(r) ==
  /\ r.stage = "asked" /\ r.filter \in Collection
  /\ Advance(r, [r EXCEPT !.stage = IF MayList(r) THEN "checked" ELSE "refused"])
  /\ UNCHANGED <<drawing, collections, editors, cache, writes, fails, clock>>

\* findMany and count, which Promise.all sends together.
Read(r) ==
  LET cards == Listed(r.user, r.filter) IN
    [cards |-> PageOf(cards, r.offset), total |-> Len(cards), at |-> clock, late |-> FALSE]

Lookup(r) ==
  /\ r.stage = IF r.filter \in Collection THEN "checked" ELSE "asked"
  /\ Advance(r, IF CacheKey(r) \in DOMAIN cache
                  THEN [r EXCEPT !.stage = "ok", !.body = cache[CacheKey(r)]]
                  ELSE [r EXCEPT !.stage = "read", !.body = Read(r)])
  /\ UNCHANGED <<drawing, collections, editors, cache, writes, fails, clock>>

\* cacheDrawingsResponse, and the answer.
Store(r) ==
  LET body == [r.body EXCEPT !.late = r.body.at < clock] IN
    /\ r.stage = "read"
    /\ cache' = [k \in DOMAIN cache \cup {CacheKey(r)} |-> IF k = CacheKey(r) THEN body ELSE cache[k]]
    /\ Advance(r, [r EXCEPT !.stage = "ok", !.body = body])
    /\ UNCHANGED <<drawing, collections, editors, writes, fails, clock>>

\* The time to live of an entry is over; bound: only while nothing is under way.
Evict(k) ==
  /\ reads = {} /\ writes = {}
  /\ cache' = [j \in DOMAIN cache \ {k} |-> cache[j]]
  /\ UNCHANGED <<drawing, collections, editors, reads, writes, fails, clock>>

-----------------------------------------------------------------------------
(***************************************************************************)
(* PUT, DELETE and POST /drawings, POST /drawings/:id/duplicate and        *)
(* DELETE /collections/:id: check, write, invalidate and answer.           *)
(***************************************************************************)
\* job is the page's
WriteRequest(job, u, kind, d, to) ==
  [job |-> job, user |-> u, kind |-> kind, id |-> d, to |-> to, stage |-> "asked"]

Goes(w, stage) == writes' = (writes \ {w}) \cup {[w EXCEPT !.stage = stage]}

Exists(w) == drawing[w.id].folder # "gone"

Allowed(w) ==
  CASE w.kind = "move" -> Exists(w) /\ drawing[w.id].owner = w.user
                          /\ (w.to \in Collection => w.to \in collections /\ w.user = Me)
    [] w.kind \in {"delete", "duplicate"} -> Exists(w) /\ drawing[w.id].owner = w.user
    [] w.kind = "create" -> w.to \in collections /\ (w.user = Me \/ <<w.to, w.user>> \in editors)
    [] w.kind = "drop" -> w.to \in collections

\* A copy goes to the folder that the original was read in.
CheckWrite(w) ==
  LET to == IF w.kind = "duplicate" /\ Allowed(w) THEN drawing[w.id].folder ELSE w.to IN
    /\ w.stage = "asked"
    /\ writes' = (writes \ {w})
                 \cup {[w EXCEPT !.stage = IF Allowed(w) THEN "checked" ELSE "refused", !.to = to]}
    /\ UNCHANGED <<drawing, collections, editors, cache, reads, fails, clock>>

\* The foreign key of the collection, and the row that the update looks for.
Accepted(w) ==
  /\ w.kind \in {"move", "create", "duplicate"} => w.to \in {"none", "trash"} \cup collections
  /\ w.kind \in {"move", "delete"} => Exists(w)

Written(w) ==
  CASE w.kind = "move" -> [drawing EXCEPT ![w.id].folder = w.to]
    [] w.kind = "delete" -> [drawing EXCEPT ![w.id].folder = "gone"]
    [] w.kind \in {"create", "duplicate"} -> Append(drawing, [owner |-> w.user, folder |-> w.to])
    [] w.kind = "drop" -> [i \in DOMAIN drawing |->
                             IF drawing[i].folder = w.to THEN [drawing[i] EXCEPT !.folder = "none"]
                             ELSE drawing[i]]

Write(w) ==
  /\ w.stage = "checked"
  /\ IF Accepted(w)
       THEN /\ drawing' = Written(w)
            /\ collections' = IF w.kind = "drop" THEN collections \ {w.to} ELSE collections
            /\ editors' = IF w.kind = "drop" THEN {e \in editors : e[1] # w.to} ELSE editors
            /\ clock' = clock + 1
            /\ Goes(w, "written")
       ELSE Goes(w, "refused") /\ UNCHANGED <<drawing, collections, editors, clock>>
  /\ UNCHANGED <<cache, reads, fails>>

\* Defect: the handler answers and leaves the lists in the cache.
FinishOnly(w) ==
  /\ w.stage = "written"
  /\ Goes(w, "ok")
  /\ UNCHANGED <<drawing, collections, editors, cache, reads, fails, clock>>

\* invalidateDrawingsCache, and the answer.
Finish(w) ==
  /\ w.stage = "written"
  /\ cache' = <<>>
  /\ Goes(w, "ok")
  /\ UNCHANGED <<drawing, collections, editors, reads, fails, clock>>

\* A request, or the answer to one, is lost.
Lose(w) ==
  /\ fails < MaxFail /\ w.stage \in {"asked", "ok"}
  /\ fails' = fails + 1
  /\ Goes(w, "refused")
  /\ UNCHANGED <<drawing, collections, editors, cache, reads, clock>>

ServerStep ==
  \/ \E r \in reads : CheckFolder(r) \/ Lookup(r) \/ Store(r)
  \/ \E w \in writes : CheckWrite(w) \/ Write(w) \/ Finish(w) \/ Lose(w)
  \/ \E k \in DOMAIN cache : Evict(k)

-----------------------------------------------------------------------------
\* What a query would give now.
Current(k, body) ==
  LET now == Listed(k[1], k[2]) IN
    body.cards = PageOf(now, k[3]) /\ body.total = Len(now)

(***************************************************************************)
(* A list in the cache is what a query would give now, for its user and    *)
(* folder, unless an invalidation is still to come, or the rows changed    *)
(* while the list was being read: that one stays until the next change or  *)
(* the end of its time to live.                                            *)
(***************************************************************************)
CachedListsAreCurrent ==
  (\A w \in writes : w.stage # "written") =>
    \A k \in DOMAIN cache : cache[k].late \/ Current(k, cache[k])
=============================================================================
