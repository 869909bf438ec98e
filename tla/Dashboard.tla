----------------------------- MODULE Dashboard ------------------------------
(***************************************************************************)
(* One dashboard page over the library: useDashboardData.ts asks for the   *)
(* list and for more of it, useDashboardDrawingActions.ts and              *)
(* useDashboardCollectionActions.ts change the page first and the server   *)
(* afterwards.  A handler keeps the refresh of the render it was made in,  *)
(* so it refreshes the view in which the button was pressed.  Another tab  *)
(* of Me lists drawings, and another user creates some in a shared         *)
(* collection.                                                             *)
(***************************************************************************)
EXTENDS Library

CONSTANTS
  Other,       \* may create in the collections
  MaxRequest   \* bound: requests of all pages

ASSUME DashboardAssumption == Other \in User \ {Me} /\ MaxRequest \in Nat

VARIABLES
  view,      \* selectedCollectionId
  shown,     \* drawings
  total,     \* totalCount
  offset,    \* nextOffsetRef
  version,   \* listRequestVersionRef
  loading,   \* isLoading
  fetching,  \* isFetchingMore
  jobs,      \* the handlers that wait for their requests
  asked,     \* requests so far
  trusted,   \* history: the page was told of every change after its list was read
  shortened  \* history: the page took cards away since its list was read

page == <<view, shown, total, offset, version, loading, fetching, jobs, trusted, shortened>>
vars == <<library, page, asked>>

Ids(cards) == {cards[k].id : k \in DOMAIN cards}
Without(S) == SelectSeq(shown, LAMBDA c : c.id \notin S)

-----------------------------------------------------------------------------
\* refreshData, with the view of the render that it belongs to.
Refresh(f) ==
  /\ version' = version + 1
  /\ loading' = TRUE
  /\ reads' = reads \cup {ListRequest("list", version + 1, Me, f, 0)}
  /\ asked' = asked + 1

MayAsk == asked < MaxRequest

Init ==
  /\ collections = Collection /\ editors = {<<c, Other>> : c \in Collection}
  /\ drawing \in {[i \in 1 .. 4 |-> [owner |-> Me, folder |-> <<f, "none", "none", "trash">>[i]]] :
                    f \in Collection}
  /\ cache = <<>> /\ reads = {} /\ writes = {} /\ fails = 0 /\ clock = 0
  /\ view = "all"
  /\ shown = PageOf(Listed(Me, "all"), 0) /\ total = Len(Listed(Me, "all")) /\ offset = Len(shown)
  /\ version = 1 /\ loading = FALSE /\ fetching = FALSE /\ jobs = {}
  /\ asked = 0
  /\ trusted = TRUE /\ shortened = FALSE

\* The view changes, and the effect of useDashboardData asks for its list.
SwitchView(f) ==
  /\ MayAsk /\ f # view
  /\ view' = f
  /\ Refresh(f)
  /\ UNCHANGED <<drawing, collections, editors, cache, writes, fails, clock,
                 shown, total, offset, fetching, jobs, trusted, shortened>>

\* The page has been told of all changes, as of the clock that a list was read at.
UpToDate(r) == r.body.at = clock /\ r.filter = view /\ writes = {}

ListShown(r) ==
  LET latest == r.version = version IN
    /\ r.who = "list" /\ r.stage \in {"ok", "refused"}
    /\ reads' = reads \ {r}
    /\ IF latest /\ r.stage = "ok"
         THEN /\ shown' = r.body.cards /\ total' = r.body.total /\ offset' = Len(r.body.cards)
              /\ shortened' = FALSE
         ELSE UNCHANGED <<shown, total, offset, shortened>>
    /\ trusted' = IF ~ latest THEN trusted ELSE r.stage = "ok" /\ UpToDate(r)
    /\ loading' = (loading /\ ~ latest)
    /\ UNCHANGED <<drawing, collections, editors, cache, writes, fails, clock,
                   view, version, fetching, jobs, asked>>

FetchMore ==
  /\ MayAsk
  /\ ~ fetching /\ ~ loading /\ Len(shown) < total
  /\ fetching' = TRUE
  /\ reads' = reads \cup {ListRequest("more", version, Me, view, offset)}
  /\ asked' = asked + 1
  /\ UNCHANGED <<drawing, collections, editors, cache, writes, fails, clock,
                 view, shown, total, offset, version, loading, jobs, trusted, shortened>>

Merged(cards) == shown \o SelectSeq(cards, LAMBDA c : c.id \notin Ids(shown))

\* Defect: the cards are added to whatever list is there by now.
MoreShownAnyway(r) ==
  /\ r.who = "more" /\ r.stage \in {"ok", "refused"}
  /\ reads' = reads \ {r}
  /\ fetching' = FALSE
  /\ shown' = Merged(r.body.cards) /\ total' = r.body.total
  /\ offset' = offset + Len(r.body.cards)
  /\ trusted' = (trusted /\ r.body.at = clock /\ writes = {})
  /\ UNCHANGED <<drawing, collections, editors, cache, writes, fails, clock,
                 view, version, loading, jobs, asked, shortened>>

MoreShown(r) ==
  LET used == r.version = version /\ r.stage = "ok" IN
    /\ r.who = "more" /\ r.stage \in {"ok", "refused"}
    /\ reads' = reads \ {r}
    /\ fetching' = FALSE
    /\ IF used
         THEN /\ shown' = Merged(r.body.cards) /\ total' = r.body.total
              /\ offset' = offset + Len(r.body.cards)
         ELSE UNCHANGED <<shown, total, offset>>
    /\ trusted' = (trusted /\ (used => r.body.at = clock /\ writes = {}))
    /\ UNCHANGED <<drawing, collections, editors, cache, writes, fails, clock,
                   view, version, loading, jobs, asked, shortened>>

-----------------------------------------------------------------------------
(***************************************************************************)
(* The handlers.  S is one card, or the selected ones.                     *)
(***************************************************************************)
Job(kind, S) == [job |-> asked, kind |-> kind, ids |-> S, view |-> view]

\* The requests of a handler, which waits for all of them.
Send(kind, S, to) ==
  /\ S # {} /\ asked + Cardinality(S) <= MaxRequest
  /\ asked' = asked + Cardinality(S)
  /\ writes' = writes \cup {WriteRequest(asked, Me, kind, d, to) : d \in S}
  /\ jobs' = jobs \cup {Job(kind, S)}
  /\ UNCHANGED <<drawing, collections, editors, cache, reads, fails, clock>>

\* The requests of two handlers may be served in either order.
Busy(S) == \E w \in writes : w.id \in S

Shows(cards) ==
  /\ shown' = cards
  /\ total' = total - (Len(shown) - Len(cards))
  /\ shortened' = (shortened \/ Len(cards) < Len(shown))

\* handleDeleteDrawing, executeBulkMoveToTrash
Trash(S) ==
  /\ view # "trash"
  /\ Send("move", S, "trash")
  /\ Shows(Without(S))
  /\ trusted' = (trusted /\ ~ Busy(S))
  /\ UNCHANGED <<view, offset, version, loading, fetching>>

\* handleMoveToCollection, handleBulkMove, handleDrop.  All that are not of the
\* view leave the page; that All leaves out the trash is not known to it.
MoveTo(S, f) ==
  LET moved == [k \in DOMAIN shown |->
                  IF shown[k].id \in S THEN [shown[k] EXCEPT !.folder = f] ELSE shown[k]] IN
    /\ f # view
    /\ Send("move", S, f)
    /\ Shows(SelectSeq(moved, LAMBDA c : view = "all" \/ c.folder = view))
    /\ trusted' = (trusted /\ ~ Busy(S) /\ ~ (view = "all" /\ f = "trash"))
    /\ UNCHANGED <<view, offset, version, loading, fetching>>

\* executePermanentDelete, executeBulkPermanentDelete
Destroy(S) ==
  /\ view = "trash"
  /\ Send("delete", S, "trash")
  /\ trusted' = (trusted /\ ~ Busy(S))
  /\ UNCHANGED <<view, shown, total, offset, version, loading, fetching, shortened>>

\* handleDuplicateDrawing, handleBulkDuplicate
Duplicate(S) ==
  /\ view # "trash"
  /\ Send("duplicate", S, "none")
  /\ UNCHANGED <<view, shown, total, offset, version, loading, fetching, trusted, shortened>>

\* handleDeleteCollection
Drop(c) ==
  /\ c \in collections /\ asked + 1 < MaxRequest
  /\ writes' = writes \cup {WriteRequest(asked, Me, "drop", 0, c)}
  /\ jobs' = jobs \cup {Job("drop", {})}
  /\ IF view = c
       THEN /\ view' = "all" /\ version' = version + 1 /\ loading' = TRUE
            /\ reads' = reads \cup {ListRequest("list", version + 1, Me, "all", 0)}
            /\ asked' = asked + 2
       ELSE /\ asked' = asked + 1
            /\ UNCHANGED <<view, version, loading, reads>>
  /\ UNCHANGED <<drawing, collections, editors, cache, fails, clock,
                 shown, total, offset, fetching, trusted, shortened>>

-----------------------------------------------------------------------------
(***************************************************************************)
(* Promise.all: the first failure, or the last answer, ends the handler.   *)
(***************************************************************************)
Rest(j, w) == {v \in writes \ {w} : v.job = j.job}

Settles(j, w) ==
  /\ j \in jobs /\ j.job = w.job
  /\ writes' = writes \ {w}
  /\ jobs' = jobs \ {j}

\* An answer that its handler does not wait for, or not only for.
Answered(w) ==
  /\ w.user = Me /\ w.stage \in {"ok", "refused"}
  /\ \A j \in jobs : j.job = w.job => w.stage = "ok" /\ Rest(j, w) # {}
  /\ writes' = writes \ {w}
  /\ UNCHANGED <<drawing, collections, editors, cache, reads, fails, clock, page, asked>>

\* Nothing is left to do.
Moved(j, w) ==
  /\ w.stage = "ok" /\ Rest(j, w) = {} /\ j.kind = "move"
  /\ Settles(j, w)
  /\ UNCHANGED <<drawing, collections, editors, cache, reads, fails, clock, asked,
                 view, shown, total, offset, version, loading, fetching, trusted, shortened>>

Destroyed(j, w) ==
  /\ w.stage = "ok" /\ Rest(j, w) = {} /\ j.kind = "delete"
  /\ Settles(j, w)
  /\ Shows(Without(j.ids))
  /\ UNCHANGED <<drawing, collections, editors, cache, reads, fails, clock, asked,
                 view, offset, version, loading, fetching, trusted>>

\* Copied, dropped, or failed: the list is asked for again.
Refreshes(j, w) ==
  /\ \/ w.stage = "ok" /\ Rest(j, w) = {} /\ j.kind = "duplicate"
     \/ w.stage \in {"ok", "refused"} /\ j.kind = "drop"
     \/ w.stage = "refused" /\ j.kind \in {"move", "delete"}
  /\ MayAsk
  /\ Settles(j, w)
  /\ Refresh(j.view)
  /\ UNCHANGED <<drawing, collections, editors, cache, fails, clock,
                 view, shown, total, offset, fetching, trusted, shortened>>

\* A failed copy is only logged; others of its handler may have been made.
CopyFails(j, w) ==
  /\ w.stage = "refused" /\ j.kind = "duplicate"
  /\ Settles(j, w)
  /\ trusted' = FALSE
  /\ UNCHANGED <<drawing, collections, editors, cache, reads, fails, clock, asked,
                 view, shown, total, offset, version, loading, fetching, shortened>>

-----------------------------------------------------------------------------
(***************************************************************************)
(* Another tab of Me, and another user.                                    *)
(***************************************************************************)
TabLists(f) ==
  /\ MayAsk /\ \A r \in reads : r.who # "tab"
  /\ reads' = reads \cup {ListRequest("tab", 0, Me, f, 0)}
  /\ asked' = asked + 1
  /\ UNCHANGED <<drawing, collections, editors, cache, writes, fails, clock, page>>

TabListed(r) ==
  /\ r.who = "tab" /\ r.stage \in {"ok", "refused"}
  /\ reads' = reads \ {r}
  /\ UNCHANGED <<drawing, collections, editors, cache, writes, fails, clock, page, asked>>

OtherCreates(c) ==
  /\ MayAsk
  /\ writes' = writes \cup {WriteRequest(asked, Other, "create", 0, c)}
  /\ asked' = asked + 1
  /\ trusted' = FALSE
  /\ UNCHANGED <<drawing, collections, editors, cache, reads, fails, clock, view, shown, total,
                 offset, version, loading, fetching, jobs, shortened>>

OtherCreated(w) ==
  /\ w.user = Other /\ w.stage \in {"ok", "refused"}
  /\ writes' = writes \ {w}
  /\ UNCHANGED <<drawing, collections, editors, cache, reads, fails, clock, page, asked>>

Handler ==
  \/ \E S \in SUBSET Ids(shown) :
       Trash(S) \/ Destroy(S) \/ Duplicate(S) \/ \E f \in Place : MoveTo(S, f)
  \/ \E c \in Collection : Drop(c)

PageStep ==
  \/ (\E f \in Filter : SwitchView(f)) \/ TabLists(view)
  \/ FetchMore \/ Handler
  \/ \E r \in reads : ListShown(r) \/ MoreShown(r) \/ TabListed(r)
  \/ \E w \in writes :
       Answered(w) \/ OtherCreated(w)
       \/ \E j \in jobs : Moved(j, w) \/ Destroyed(j, w) \/ Refreshes(j, w) \/ CopyFails(j, w)
  \/ \E c \in Collection : OtherCreates(c)

Next == PageStep \/ (ServerStep /\ UNCHANGED <<page, asked>>)
Spec == Init /\ [][Next]_vars

-----------------------------------------------------------------------------
(***************************************************************************)
(* A page with nothing under way shows the view: its cards are drawings of *)
(* the view, in the folders they lie in, and it knows how many there are;  *)
(* and as long as it has not taken cards away, they are the first ones.    *)
(* Optimistic changes that fail, late lists and lists from the cache do    *)
(* not spoil this, unless the last list was read while a change was under  *)
(* way or for another view, or the page was not told of a change.          *)
(***************************************************************************)
QuietPageShowsTheView ==
  trusted /\ reads = {} /\ writes = {} =>
    LET now == Listed(Me, view) IN
      /\ \A k \in DOMAIN shown : shown[k] \in {now[l] : l \in DOMAIN now}
      /\ total = Len(now)
      /\ ~ shortened => shown = SubSeq(now, 1, Len(shown))
=============================================================================
