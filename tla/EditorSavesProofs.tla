-------------------------- MODULE EditorSavesProofs --------------------------
(***************************************************************************)
(* Proofs about the saves of the editor pages, for any number of pages,    *)
(* elements, edits, saves, trims and late requests: saves apply in order,  *)
(* a quiet page is saved, and Back leaves only a saved drawing.            *)
(***************************************************************************)
EXTENDS EditorSaves, SequenceTheorems, TLAPS

Mode == {"closed", "loading", "open", "leaving", "left", "dead"}

Written == [by : Page \cup {Storage}, no : Nat, upto : Nat]

Types ==
  /\ version \in Nat
  /\ scene \in Scene
  /\ writes \in Seq(Written)
  /\ late \subseteq Request
  /\ mode \in [Page -> Mode]
  /\ canvas \in [Page -> Scene]
  /\ ver \in [Page -> Nat]
  /\ trailing \in [Page -> Capture \cup {Null}]
  /\ debounce \in [Page -> Capture \cup {Null}]
  /\ queue \in [Page -> Seq(Save)]
  /\ flight \in [Page -> Flight \cup {Null}]
  /\ edits \in [Page -> Nat]
  /\ saves \in [Page -> Nat]
  /\ failed \in [Page -> BOOLEAN]

\* How many saves of a page are over.
Settled(p) == saves[p] - Len(queue[p])

\* The saves that wait are numbered through, up to the last one that was asked for.
QueueInv ==
  \A p \in Page :
    /\ Settled(p) \in Nat
    /\ \A i \in 1 .. Len(queue[p]) : queue[p][i].no = Settled(p) + i

\* Nobody believes in a version that is still to come.
VersionInv ==
  /\ \A p \in Page : ver[p] <= version
  /\ \A p \in Page : flight[p] # Null => flight[p].base <= version /\ flight[p].version <= version
  /\ \A r \in late : r.base <= version

\* The request of the queue's head may have been applied.
Over(p) == InFlight(p, "saved") \/ InFlight(p, "failed")

(***************************************************************************)
(* Which saves of a page the server has: those that are over, and that of  *)
(* the queue's head only when its request is.  A request that was answered *)
(* with success was applied, and it was the page's last so far.            *)
(***************************************************************************)
AppliedInv ==
  \A p \in Page :
    /\ flight[p] # Null => queue[p] # <<>>
    /\ \A i \in WrittenBy(p) :
         writes[i].no <= Settled(p) \/ (Over(p) /\ writes[i].no = Settled(p) + 1)
    /\ InFlight(p, "saved") =>
         \E i \in WrittenBy(p) : /\ writes[i].no = queue[p][1].no
                                 /\ writes[i].upto = queue[p][1].capture.upto

(***************************************************************************)
(* A request that nobody waits for is of a save that the page has given up *)
(* on.  While the server would accept it, it has not accepted a later one  *)
(* of that page.                                                           *)
(***************************************************************************)
LateInv ==
  \A r \in late :
    /\ r.save.no <= Settled(r.by) \/ (InFlight(r.by, "failed") /\ r.save.no = Settled(r.by) + 1)
    /\ r.base = version => \A i \in WrittenBy(r.by) : writes[i].no < r.save.no

OrderInv == QueueInv /\ VersionInv /\ AppliedInv /\ LateInv /\ SavesApplyInOrder

(***************************************************************************)
(* Where the last local change of a page is: held back by the throttle, by *)
(* the debounce, in the last save that waits, or, when the last save has   *)
(* not failed, on the server, as the page's last save.                     *)
(***************************************************************************)
Pending(p) == trailing[p] # Null \/ debounce[p] # Null

ChangeOK(p) ==
  /\ mode[p] \in {"closed", "loading"} => edits[p] = 0 /\ ~ Pending(p) /\ queue[p] = <<>>
  /\ Mounted(p) =>
       /\ trailing[p] # Null => trailing[p].upto = edits[p]
       /\ trailing[p] = Null /\ debounce[p] # Null => debounce[p].upto = edits[p]
       /\ ~ Pending(p) /\ edits[p] > 0 =>
            /\ queue[p] # <<>> => queue[p][Len(queue[p])].capture.upto = edits[p]
            /\ queue[p] = <<>> /\ ~ failed[p] =>
                 \E i \in WrittenBy(p) : writes[i].no = saves[p] /\ writes[i].upto = edits[p]

ChangeInv == \A p \in Page : ChangeOK(p)

EditorInv == Types /\ OrderInv /\ ChangeInv

-----------------------------------------------------------------------------
\* What the history says after a write.
LEMMA AfterWrite ==
  ASSUME Types, NEW by \in Page \cup {Storage}, NEW no \in Nat, NEW upto \in Nat, NEW s \in Scene,
         Write(by, no, upto, s)
  PROVE  /\ version' = version + 1 /\ version' \in Nat /\ scene' \in Scene
         /\ writes' \in Seq(Written)
         /\ DOMAIN writes' = DOMAIN writes \cup {Len(writes) + 1}
         /\ \A i \in DOMAIN writes : i < Len(writes) + 1 /\ writes'[i] = writes[i]
         /\ writes'[Len(writes) + 1] = [by |-> by, no |-> no, upto |-> upto]
<1> DEFINE w == [by |-> by, no |-> no, upto |-> upto]
<1>1. writes' = Append(writes, w) /\ version' = version + 1 /\ scene' = s
  BY DEF Write
<1>2. w \in Written
  BY DEF Written
<1> HIDE DEF w
<1>3. /\ DOMAIN writes = 1 .. Len(writes) /\ Len(writes) \in Nat
      /\ Len(writes') = Len(writes) + 1 /\ DOMAIN writes' = 1 .. Len(writes')
      /\ \A i \in 1 .. Len(writes) : writes'[i] = writes[i]
      /\ writes'[Len(writes) + 1] = w
      /\ writes' \in Seq(Written)
  BY <1>1, <1>2, AppendProperties, LenProperties DEF Types
<1> QED
  BY <1>1, <1>3 DEF Types, w

LEMMA WritesTyped ==
  ASSUME Types
  PROVE  /\ DOMAIN writes \subseteq Nat
         /\ \A i \in DOMAIN writes : /\ writes[i].by \in Page \cup {Storage}
                                     /\ writes[i].no \in Nat /\ writes[i].upto \in Nat
<1>1. writes \in Seq(Written) /\ DOMAIN writes = 1 .. Len(writes)
  BY LenProperties DEF Types
<1>2. \A i \in DOMAIN writes : writes[i] \in Written
  BY <1>1, ElementOfSeq
<1> QED
  BY <1>1, <1>2 DEF Written

\* Who wrote what after that.
LEMMA WrittenAfter ==
  ASSUME Types, NEW by \in Page \cup {Storage}, NEW no \in Nat, NEW upto \in Nat, NEW s \in Scene,
         Write(by, no, upto, s), NEW p \in Page
  PROVE  /\ by # p => WrittenBy(p)' = WrittenBy(p)
         /\ by = p => WrittenBy(p)' = WrittenBy(p) \cup {Len(writes) + 1}
         /\ \A i \in WrittenBy(p) : i < Len(writes) + 1 /\ writes'[i] = writes[i]
<1> DEFINE w == [by |-> by, no |-> no, upto |-> upto]
<1>1. w.by = by
  OBVIOUS
<1> HIDE DEF w
<1>2. writes'[Len(writes) + 1] = w
  BY AfterWrite DEF w
<1> QED
  BY <1>1, <1>2, AfterWrite DEF WrittenBy

\* The fields of the queue, its head and its tail.
LEMMA QueueTyped ==
  ASSUME Types, NEW p \in Page
  PROVE  /\ queue[p] \in Seq(Save) /\ Len(queue[p]) \in Nat
         /\ queue[p] = <<>> <=> Len(queue[p]) = 0
         /\ \A i \in 1 .. Len(queue[p]) : queue[p][i] \in Save
         /\ \A i \in 1 .. Len(queue[p]) :
              queue[p][i].no \in Nat /\ queue[p][i].capture \in Capture /\ queue[p][i].capture.upto \in Nat
         /\ queue[p] # <<>> =>
              /\ Head(queue[p]) = queue[p][1] /\ Head(queue[p]) \in Save
              /\ Tail(queue[p]) \in Seq(Save) /\ Len(Tail(queue[p])) = Len(queue[p]) - 1
              /\ \A i \in 1 .. Len(queue[p]) - 1 : Tail(queue[p])[i] = queue[p][i + 1]
<1>1. queue[p] \in Seq(Save)
  BY DEF Types
<1>2. \A i \in 1 .. Len(queue[p]) : queue[p][i] \in Save
  BY <1>1, ElementOfSeq
<1>3. Len(queue[p]) \in Nat /\ (queue[p] = <<>> <=> Len(queue[p]) = 0)
  BY <1>1, LenProperties, EmptySeq
<1>4. \A i \in 1 .. Len(queue[p]) :
        queue[p][i].no \in Nat /\ queue[p][i].capture \in Capture /\ queue[p][i].capture.upto \in Nat
  BY <1>2 DEF Save, Capture
<1>5. queue[p] # <<>> =>
        /\ Head(queue[p]) = queue[p][1] /\ Head(queue[p]) \in Save
        /\ Tail(queue[p]) \in Seq(Save) /\ Len(Tail(queue[p])) = Len(queue[p]) - 1
        /\ \A i \in 1 .. Len(queue[p]) - 1 : Tail(queue[p])[i] = queue[p][i + 1]
  <2> SUFFICES ASSUME queue[p] # <<>> PROVE /\ Head(queue[p]) = queue[p][1] /\ Head(queue[p]) \in Save
        /\ Tail(queue[p]) \in Seq(Save) /\ Len(Tail(queue[p])) = Len(queue[p]) - 1
        /\ \A i \in 1 .. Len(queue[p]) - 1 : Tail(queue[p])[i] = queue[p][i + 1]
    OBVIOUS
  <2>1. Head(queue[p]) = queue[p][1]
    BY <1>1
  <2> QED
    BY <1>1, <2>1, HeadTailProperties
<1> QED
  BY <1>1, <1>2, <1>3, <1>4, <1>5

\* A request that goes on: its base stays, its phase is new.
LEMMA Reached ==
  ASSUME Types, NEW p \in Page, flight[p] # Null,
         NEW phase \in {"request", "saved", "conflict", "failed"}, NEW v \in Nat, Reach(p, phase, v)
  PROVE  /\ flight' \in [Page -> Flight \cup {Null}]
         /\ flight'[p] # Null /\ flight'[p].phase = phase /\ flight'[p].version = v
         /\ flight'[p].base = flight[p].base
         /\ \A q \in Page \ {p} : flight'[q] = flight[q]
<1>1. flight[p] \in Flight
  BY DEF Types
<1>2. flight' = [flight EXCEPT ![p] = [flight[p] EXCEPT !.phase = phase, !.version = v]]
  BY <1>1 DEF Reach, Types
<1>3. [flight[p] EXCEPT !.phase = phase, !.version = v] \in Flight
  BY <1>1 DEF Flight
<1> QED
  BY <1>1, <1>2, <1>3, NullAssumption DEF Types, Flight

LEMMA Transmitted ==
  ASSUME Types, NEW p \in Page, NEW attempt \in {0, 1}, NEW base \in Nat, Transmit(p, attempt, base)
  PROVE  /\ flight' \in [Page -> Flight \cup {Null}]
         /\ flight'[p] # Null /\ flight'[p].phase = "request" /\ flight'[p].version = 0
         /\ flight'[p].base = base
         /\ \A q \in Page \ {p} : flight'[q] = flight[q]
<1> DEFINE f == [phase |-> "request", attempt |-> attempt, base |-> base, version |-> 0]
<1>1. f \in Flight /\ f.phase = "request" /\ f.version = 0 /\ f.base = base
  BY DEF Flight
<1>2. flight' = [flight EXCEPT ![p] = f]
  BY DEF Transmit
<1> HIDE DEF f
<1> QED
  BY <1>1, <1>2, NullAssumption DEF Types

-----------------------------------------------------------------------------
\* The order of the saves does not depend on what the pages show.
LEMMA OrderFrame ==
  ASSUME Types, OrderInv, UNCHANGED <<version, writes, late, queue, flight, saves>>,
         \A p \in Page : ver'[p] <= version
  PROVE  OrderInv'
BY DEF OrderInv, QueueInv, VersionInv, AppliedInv, LateInv, SavesApplyInOrder,
       Settled, Over, InFlight, WrittenBy

\* A save is queued behind the others.
LEMMA Enqueued ==
  ASSUME Types, NEW p \in Page, NEW kind \in {"auto", "shortcut", "back"}, NEW capture \in Capture,
         Enqueue(p, kind, capture)
  PROVE  /\ queue' \in [Page -> Seq(Save)] /\ saves' \in [Page -> Nat] /\ UNCHANGED <<flight, failed>>
         /\ saves'[p] = saves[p] + 1 /\ Len(queue'[p]) = Len(queue[p]) + 1 /\ queue'[p] # <<>>
         /\ \A i \in 1 .. Len(queue[p]) : queue'[p][i] = queue[p][i]
         /\ queue'[p][Len(queue[p]) + 1].no = saves[p] + 1
         /\ queue'[p][Len(queue[p]) + 1].capture = capture
         /\ \A q \in Page \ {p} : queue'[q] = queue[q] /\ saves'[q] = saves[q]
<1> DEFINE save == [capture |-> capture, no |-> saves[p] + 1, kind |-> kind]
<1>1. save \in Save /\ save.no = saves[p] + 1 /\ save.capture = capture
  BY DEF Types, Save
<1>2. queue' = [queue EXCEPT ![p] = Append(queue[p], save)]
  BY DEF Enqueue, Types
<1> HIDE DEF save
<1>3. queue[p] \in Seq(Save) /\ Len(queue[p]) \in Nat
  BY QueueTyped
<1>4. queue'[p] = Append(queue[p], save) /\ \A q \in Page \ {p} : queue'[q] = queue[q]
  BY <1>2 DEF Types
<1>5. /\ queue'[p] \in Seq(Save) /\ queue'[p] # <<>>
      /\ Len(queue'[p]) = Len(queue[p]) + 1
      /\ \A i \in 1 .. Len(queue[p]) : queue'[p][i] = queue[p][i]
      /\ queue'[p][Len(queue[p]) + 1] = save
  BY <1>1, <1>3, <1>4, AppendProperties
<1>6. queue' \in [Page -> Seq(Save)]
  BY <1>2, <1>4, <1>5 DEF Types
<1>7. saves' = [saves EXCEPT ![p] = saves[p] + 1] /\ UNCHANGED <<flight, failed>>
  BY DEF Enqueue
<1> QED
  BY <1>1, <1>4, <1>5, <1>6, <1>7 DEF Types

LEMMA OrderQueues ==
  ASSUME Types, OrderInv, NEW p \in Page, NEW kind \in {"auto", "shortcut", "back"}, NEW capture \in Capture,
         Enqueue(p, kind, capture), UNCHANGED <<version, writes, late, ver>>
  PROVE  OrderInv'
<1>0. /\ UNCHANGED <<flight, failed>>
      /\ saves'[p] = saves[p] + 1 /\ Len(queue'[p]) = Len(queue[p]) + 1 /\ queue'[p] # <<>>
      /\ \A i \in 1 .. Len(queue[p]) : queue'[p][i] = queue[p][i]
      /\ queue'[p][Len(queue[p]) + 1].no = saves[p] + 1
      /\ \A q \in Page \ {p} : queue'[q] = queue[q] /\ saves'[q] = saves[q]
  BY Enqueued
<1>1. \A q \in Page : Len(queue[q]) \in Nat /\ saves[q] \in Nat
  BY QueueTyped DEF Types
<1>2. \A q \in Page : Settled(q)' = Settled(q)
  <2>1. Settled(p)' = Settled(p)
    BY <1>0, <1>1 DEF Settled
  <2> QED
    BY <1>0, <2>1 DEF Settled
<1>3. QueueInv'
  <2>1. ASSUME NEW q \in Page, q # p PROVE \A i \in 1 .. Len(queue'[q]) : queue'[q][i].no = Settled(q) + i
    BY <2>1, <1>0 DEF OrderInv, QueueInv
  <2>2. ASSUME NEW i \in 1 .. Len(queue'[p]) PROVE queue'[p][i].no = Settled(p) + i
    <3>1. CASE i \in 1 .. Len(queue[p])
      BY <3>1, <1>0 DEF OrderInv, QueueInv
    <3>2. CASE i = Len(queue[p]) + 1
      BY <1>1, <3>2, <1>0 DEF Settled
    <3> QED
      BY <1>1, <3>1, <3>2, <1>0
  <2> QED
    BY <1>2, <2>1, <2>2 DEF OrderInv, QueueInv
<1>4. VersionInv'
  BY <1>0 DEF OrderInv, VersionInv
<1>5. AppliedInv'
  <2>1. \A q \in Page : queue[q] # <<>> => queue'[q] # <<>> /\ queue'[q][1] = queue[q][1]
    <3>1. ASSUME queue[p] # <<>> PROVE queue'[p][1] = queue[p][1]
      BY <1>0, <1>1, <3>1, QueueTyped
    <3> QED
      BY <1>0, <3>1
  <2>2. \A q \in Page : WrittenBy(q)' = WrittenBy(q) /\ Over(q)' = Over(q)
                        /\ InFlight(q, "saved")' = InFlight(q, "saved")
    BY <1>0 DEF WrittenBy, Over, InFlight
  <2>3. \A q \in Page : InFlight(q, "saved") => queue[q] # <<>>
    BY DEF OrderInv, AppliedInv, InFlight
  <2> QED
    BY <1>0, <1>2, <2>1, <2>2, <2>3 DEF OrderInv, AppliedInv
<1>6. LateInv'
  <2>1. \A r \in late : r.by \in Page
    BY DEF Types, Request
  <2> QED
    BY <1>2, <2>1, <1>0 DEF OrderInv, LateInv, InFlight, WrittenBy
<1> QED
  BY <1>3, <1>4, <1>5, <1>6 DEF OrderInv, SavesApplyInOrder, WrittenBy

(***************************************************************************)
(* The request of p's head goes on and is not applied; one that has failed *)
(* may still be under way.                                                 *)
(***************************************************************************)
LEMMA OrderSends ==
  ASSUME Types, OrderInv, NEW p \in Page, queue[p] # <<>>,
         UNCHANGED <<version, writes, queue, saves>>,
         \A q \in Page : ver'[q] <= version,
         \A q \in Page \ {p} : flight'[q] = flight[q],
         flight'[p] # Null, flight'[p].base <= version, flight'[p].version <= version,
         flight'[p].phase # "saved", Over(p) => flight'[p].phase = "failed",
         \A r \in late' : \/ r \in late
                          \/ /\ r.by = p /\ r.save.no = Settled(p) + 1 /\ r.base <= version
                             /\ flight'[p].phase = "failed" /\ ~ Over(p)
  PROVE  OrderInv'
<1>1. \A q \in Page : Settled(q)' = Settled(q) /\ WrittenBy(q)' = WrittenBy(q)
  BY DEF Settled, WrittenBy
<1>2. QueueInv'
  BY <1>1 DEF OrderInv, QueueInv
<1>3. VersionInv'
  BY DEF OrderInv, VersionInv
<1>4. AppliedInv'
  BY <1>1 DEF OrderInv, AppliedInv, Over, InFlight
<1>5. \A r \in late : r.by \in Page
  BY DEF Types, Request
<1>6. Settled(p) \in Nat /\ \A i \in WrittenBy(p) : writes[i].no \in Nat
  BY WritesTyped DEF OrderInv, QueueInv, WrittenBy
<1>7. ASSUME ~ Over(p) PROVE \A i \in WrittenBy(p) : writes[i].no < Settled(p) + 1
  BY <1>6, <1>7 DEF OrderInv, AppliedInv
<1>8. LateInv'
  BY <1>1, <1>5, <1>7 DEF OrderInv, LateInv, InFlight, Over
<1> QED
  BY <1>2, <1>3, <1>4, <1>8 DEF OrderInv, SavesApplyInOrder, WrittenBy

(***************************************************************************)
(* The request of p is over, and saves leave p's queue: all of them when   *)
(* the tab goes, which may leave the request under way, else the first.    *)
(***************************************************************************)
LEMMA OrderEnds ==
  ASSUME Types, OrderInv, NEW p \in Page, UNCHANGED <<version, writes, saves>>,
         \A q \in Page : ver'[q] <= version,
         \A q \in Page \ {p} : flight'[q] = flight[q] /\ queue'[q] = queue[q],
         flight'[p] = Null,
         NEW n \in Nat, NEW m \in Nat, Len(queue[p]) = n, Len(queue'[p]) = m,
         m <= n, queue[p] # <<>> => m < n,
         \A i \in 1 .. m : queue'[p][i] = queue[p][i + (n - m)],
         \A r \in late' : \/ r \in late
                          \/ /\ r.by = p /\ r.save.no = Settled(p) + 1 /\ r.base <= version
                             /\ queue[p] # <<>> /\ ~ Over(p)
  PROVE  OrderInv'
<1>1. saves[p] \in Nat /\ Settled(p) = saves[p] - n /\ Settled(p)' = saves[p] - m
  BY DEF Types, Settled
<1>2. /\ \A q \in Page : WrittenBy(q)' = WrittenBy(q)
      /\ \A q \in Page \ {p} : Settled(q)' = Settled(q)
  BY DEF Settled, WrittenBy
<1>3. /\ Settled(p) \in Nat /\ Settled(p)' \in Nat
      /\ Settled(p)' = Settled(p) + (n - m)
      /\ Settled(p)' >= Settled(p) /\ (queue[p] # <<>> => Settled(p)' >= Settled(p) + 1)
  BY <1>1 DEF OrderInv, QueueInv
<1>4. QueueInv'
  <2>1. ASSUME NEW i \in 1 .. m PROVE queue'[p][i].no = Settled(p)' + i
    <3>1. i + (n - m) \in 1 .. n
      OBVIOUS
    <3>2. queue'[p][i].no = Settled(p) + (i + (n - m))
      BY <3>1 DEF OrderInv, QueueInv
    <3> QED
      BY <1>3, <3>2
  <2>2. ASSUME NEW q \in Page \ {p}
        PROVE Settled(q)' \in Nat /\ \A i \in 1 .. Len(queue'[q]) : queue'[q][i].no = Settled(q)' + i
    BY <1>2 DEF OrderInv, QueueInv
  <2> QED
    BY <1>2, <1>3, <2>1, <2>2 DEF QueueInv
<1>5. VersionInv'
  BY DEF OrderInv, VersionInv
<1>6. \A i \in WrittenBy(p) : writes[i].no \in Nat
  BY WritesTyped DEF WrittenBy
<1>7. Over(p) => queue[p] # <<>>
  BY DEF Over, InFlight, OrderInv, AppliedInv
<1>8. \A i \in WrittenBy(p) : writes[i].no <= Settled(p)'
  <2>1. \A i \in WrittenBy(p) :
          writes[i].no <= Settled(p) \/ (queue[p] # <<>> /\ writes[i].no = Settled(p) + 1)
    BY <1>7 DEF OrderInv, AppliedInv
  <2> HIDE DEF OrderInv
  <2> QED
    BY <1>3, <1>6, <2>1
<1>9. AppliedInv'
  <2>1. \A q \in Page \ {p} : /\ Over(q)' = Over(q)
                              /\ InFlight(q, "saved")' = InFlight(q, "saved")
    BY DEF Over, InFlight
  <2>2. ~ InFlight(p, "saved")'
    BY DEF InFlight
  <2> QED
    BY <1>2, <1>8, <2>1, <2>2 DEF OrderInv, AppliedInv
<1>10. LateInv'
  <2>1. \A r \in late : r.by \in Page /\ r.save.no \in Nat
    BY DEF Types, Request, Save
  <2>2. ASSUME NEW r \in late PROVE r.save.no <= Settled(r.by)' \/ (InFlight(r.by, "failed")' /\ r.save.no = Settled(r.by)' + 1)
    <3>1. CASE r.by = p
      BY <1>3, <1>7, <2>1, <3>1 DEF OrderInv, LateInv, Over
    <3>2. CASE r.by # p
      BY <1>2, <2>1, <3>2 DEF OrderInv, LateInv, InFlight
    <3> QED
      BY <3>1, <3>2
  <2>3. ASSUME ~ Over(p) PROVE \A i \in WrittenBy(p) : writes[i].no < Settled(p) + 1
    BY <1>3, <1>6, <2>3 DEF OrderInv, AppliedInv
  <2>4. ASSUME NEW r \in late', r.by = p, r.save.no = Settled(p) + 1, queue[p] # <<>>, ~ Over(p)
        PROVE r.save.no <= Settled(p)' /\ \A i \in WrittenBy(p) : writes[i].no < r.save.no
    BY <1>3, <2>3, <2>4
  <2>5. \A r \in late : r.base = version => \A i \in WrittenBy(r.by) : writes[i].no < r.save.no
    BY DEF OrderInv, LateInv
  <2> QED
    BY <1>2, <2>1, <2>2, <2>4, <2>5 DEF LateInv
<1> QED
  BY <1>2, <1>4, <1>5, <1>9, <1>10 DEF OrderInv, SavesApplyInOrder

(***************************************************************************)
(* The server writes, for a page or for the owner's trim.  What a page     *)
(* writes is later than all that it wrote before.                          *)
(***************************************************************************)
LEMMA OrderWrites ==
  ASSUME Types, OrderInv, NEW by \in Page \cup {Storage}, NEW no \in Nat, NEW upto \in Nat, NEW s \in Scene,
         Write(by, no, upto, s), UNCHANGED <<queue, saves, ver>>, late' \subseteq late,
         by \in Page => /\ no <= Settled(by) \/ (Over(by)' /\ no = Settled(by) + 1)
                        /\ \A i \in WrittenBy(by) : writes[i].no < no,
         \A q \in Page : InFlight(q, "failed") => InFlight(q, "failed")',
         \A q \in Page : Over(q) => Over(q)',
         \A q \in Page : InFlight(q, "saved")' =>
           InFlight(q, "saved") \/ (q = by /\ no = queue[q][1].no /\ upto = queue[q][1].capture.upto),
         \A q \in Page : flight'[q] # Null =>
           /\ flight[q] # Null
           /\ flight'[q].base = flight[q].base /\ flight'[q].version \in {flight[q].version, version + 1}
  PROVE  OrderInv'
<1> DEFINE n == Len(writes) + 1
<1>1. /\ version \in Nat /\ version' = version + 1
      /\ \A i \in DOMAIN writes : i < n /\ writes'[i] = writes[i]
      /\ writes'[n] = [by |-> by, no |-> no, upto |-> upto]
  BY AfterWrite DEF Types
<1>2. \A q \in Page : /\ by # q => WrittenBy(q)' = WrittenBy(q)
                      /\ by = q => WrittenBy(q)' = WrittenBy(q) \cup {n}
                      /\ WrittenBy(q) \subseteq WrittenBy(q)'
                      /\ \A i \in WrittenBy(q) : i < n /\ writes'[i] = writes[i]
  BY WrittenAfter
<1>3. n \in Nat /\ writes'[n].no = no /\ writes'[n].upto = upto
  BY <1>1, LenProperties DEF Types
<1> HIDE DEF n
<1>4. \A q \in Page : Settled(q)' = Settled(q)
  BY DEF Settled
<1>5. QueueInv'
  BY <1>4 DEF OrderInv, QueueInv
<1>6. VersionInv'
  <2>1. \A q \in Page : ver[q] \in Nat /\ ver[q] <= version
    BY DEF Types, OrderInv, VersionInv
  <2>2. \A q \in Page : flight[q] # Null =>
          flight[q].base \in Nat /\ flight[q].version \in Nat /\ flight[q].base <= version /\ flight[q].version <= version
    BY DEF Types, Flight, OrderInv, VersionInv
  <2>3. \A r \in late : r.base \in Nat /\ r.base <= version
    BY DEF Types, Request, OrderInv, VersionInv
  <2>4. \A q \in Page : ver'[q] <= version'
    BY <1>1, <2>1
  <2>5. \A q \in Page : flight'[q] # Null => flight'[q].base <= version' /\ flight'[q].version <= version'
    BY <1>1, <2>2
  <2> QED
    BY <1>1, <2>3, <2>4, <2>5 DEF VersionInv
<1>7. AppliedInv'
  <2>1. ASSUME NEW q \in Page, NEW i \in WrittenBy(q)'
        PROVE writes'[i].no <= Settled(q) \/ (Over(q)' /\ writes'[i].no = Settled(q) + 1)
    BY <1>2, <1>3 DEF OrderInv, AppliedInv
  <2>2. ASSUME NEW q \in Page, InFlight(q, "saved")'
        PROVE \E i \in WrittenBy(q)' : writes'[i].no = queue[q][1].no /\ writes'[i].upto = queue[q][1].capture.upto
    <3>1. CASE InFlight(q, "saved")
      BY <1>2, <3>1 DEF OrderInv, AppliedInv
    <3>2. CASE q = by /\ no = queue[q][1].no /\ upto = queue[q][1].capture.upto
      BY <1>2, <1>3, <3>2
    <3> QED
      BY <2>2, <3>1, <3>2
  <2>3. \A q \in Page : flight'[q] # Null => queue'[q] # <<>>
    BY DEF OrderInv, AppliedInv
  <2> QED
    BY <1>4, <2>1, <2>2, <2>3 DEF AppliedInv
<1>8. LateInv'
  <2>1. \A r \in late : r.by \in Page /\ r.base \in Nat /\ r.base <= version
    BY DEF Types, Request, OrderInv, VersionInv
  <2>2. \A r \in late : r.base # version'
    BY <1>1, <2>1
  <2> QED
    BY <1>4, <2>1, <2>2 DEF OrderInv, LateInv
<1>9. SavesApplyInOrder'
  <2> SUFFICES ASSUME NEW q \in Page, NEW i \in WrittenBy(q)', NEW j \in WrittenBy(q)', i < j
               PROVE writes'[i].no < writes'[j].no
    BY DEF SavesApplyInOrder
  <2>1. WrittenBy(q) \subseteq Nat
    BY WritesTyped DEF WrittenBy
  <2>2. CASE i \in WrittenBy(q) /\ j \in WrittenBy(q)
    BY <1>2, <2>2 DEF OrderInv, SavesApplyInOrder
  <2>3. CASE i \in WrittenBy(q) /\ j = n
    <3>1. by = q
      BY <1>2, <1>3, <2>1, <2>3
    <3>2. writes[i].no < no
      BY <2>3, <3>1
    <3> QED
      BY <1>2, <1>3, <2>3, <3>2
  <2>4. CASE i = n
    BY <1>2, <1>3, <2>1, <2>4
  <2> QED
    BY <1>2, <2>2, <2>3, <2>4
<1> QED
  BY <1>5, <1>6, <1>7, <1>8, <1>9 DEF OrderInv

-----------------------------------------------------------------------------
\* Nothing happens to the changes of page q, whatever is written.
LEMMA ChangeKept ==
  ASSUME NEW q \in Page, ChangeOK(q), mode'[q] = mode[q] \/ mode'[q] \notin {"open", "leaving", "closed"},
         mode'[q] = "loading" => mode[q] \in {"closed", "loading"},
         trailing'[q] = trailing[q], debounce'[q] = debounce[q], queue'[q] = queue[q],
         edits'[q] = edits[q], saves'[q] = saves[q], failed'[q] = failed[q],
         \A i \in WrittenBy(q) : i \in WrittenBy(q)' /\ writes'[i] = writes[i]
  PROVE  ChangeOK(q)'
BY DEF ChangeOK, Mounted, Pending

\* So it is with the other pages when page p does something.
LEMMA OthersKept ==
  ASSUME Types, ChangeInv, NEW p \in Page,
         \A q \in Page \ {p} : /\ mode'[q] = mode[q] /\ trailing'[q] = trailing[q] /\ debounce'[q] = debounce[q]
                               /\ queue'[q] = queue[q] /\ edits'[q] = edits[q] /\ saves'[q] = saves[q]
                               /\ failed'[q] = failed[q],
         \A q \in Page : \A i \in WrittenBy(q) : i \in WrittenBy(q)' /\ writes'[i] = writes[i],
         ChangeOK(p)'
  PROVE  ChangeInv'
<1>1. ASSUME NEW q \in Page \ {p} PROVE ChangeOK(q)'
  BY <1>1, ChangeKept DEF ChangeInv, Types, Mode
<1> QED
  BY <1>1 DEF ChangeInv

\* Unmounted pages have nothing to save.
LEMMA GoneOK == ASSUME NEW p \in Page, mode'[p] \in {"left", "dead"} PROVE ChangeOK(p)'
BY DEF ChangeOK, Mounted

LEMMA SameWrites ==
  UNCHANGED writes => \A q \in Page : \A i \in WrittenBy(q) : i \in WrittenBy(q)' /\ writes'[i] = writes[i]
BY DEF WrittenBy

-----------------------------------------------------------------------------
LEMMA FetchKeeps == ASSUME EditorInv, NEW p \in Page, Fetch(p) PROVE EditorInv'
<1>1. Types'
  BY DEF EditorInv, Types, Fetch, Mode, server, timers, line, counts
<1>2. OrderInv'
  BY OrderFrame DEF EditorInv, Types, Fetch, server, timers, line, counts, OrderInv, VersionInv
<1>3. ChangeOK(p)'
  BY SameWrites, ChangeKept DEF EditorInv, ChangeInv, Types, Fetch, server, timers, line, counts
<1> QED
  BY <1>1, <1>2, <1>3, OthersKept, SameWrites DEF EditorInv, Types, Fetch, server, timers, line, counts

LEMMA ShowKeeps == ASSUME EditorInv, NEW p \in Page, Show(p) PROVE EditorInv'
<1>1. Types'
  BY DEF EditorInv, Types, Show, Mode, server, timers, line, counts
<1>2. OrderInv'
  BY OrderFrame DEF EditorInv, Show, server, timers, line, counts, OrderInv, VersionInv
<1>3. ChangeOK(p)'
  BY DEF EditorInv, ChangeInv, ChangeOK, Mounted, Pending, Types, Show, server, timers, line, counts
<1> QED
  BY <1>1, <1>2, <1>3, OthersKept, SameWrites DEF EditorInv, Types, Show, server, timers, line, counts

LEMMA UnmountKeeps ==
  ASSUME EditorInv, NEW p \in Page, BackClean(p) \/ Navigate(p) PROVE EditorInv'
<1>0. Unmount(p) /\ UNCHANGED <<server, late, canvas, ver, line, counts>>
  BY DEF BackClean, Navigate
<1>1. Types'
  BY <1>0 DEF EditorInv, Types, Unmount, Mode, server, timers, line, counts
<1>2. OrderInv'
  BY <1>0, OrderFrame DEF EditorInv, Unmount, server, timers, line, counts, OrderInv, VersionInv
<1>3. ChangeOK(p)'
  BY <1>0, GoneOK DEF EditorInv, Types, Unmount
<1> QED
  BY <1>0, <1>1, <1>2, <1>3, OthersKept, SameWrites DEF EditorInv, Types, Unmount, server, timers, line, counts

LEMMA PeerKeeps ==
  ASSUME EditorInv, NEW p \in Page, NEW q \in Page, PeerChanges(p, q) PROVE EditorInv'
<1>0. UNCHANGED <<version, scene, writes, late, mode, ver, dirty, trailing, debounce, queue, flight, failed,
                  edits, saves>>
  BY DEF PeerChanges, server, timers, line, counts
<1>1. canvas' \in [Page -> Scene]
  <2>1. canvas[p] \in Scene /\ canvas[q] \in Scene
    BY DEF EditorInv, Types
  <2>2. [m \in Mark |-> IF canvas[p][m] = "absent" \/ canvas[q][m] = "deleted"
                          THEN canvas[q][m] ELSE canvas[p][m]] \in Scene
    BY <2>1 DEF Scene
  <2> QED
    BY <2>2 DEF EditorInv, Types, PeerChanges
<1>2. Types'
  BY <1>0, <1>1 DEF EditorInv, Types
<1>3. OrderInv'
  BY <1>0, OrderFrame DEF EditorInv, OrderInv, VersionInv
<1>4. ChangeInv'
  <2> SUFFICES ASSUME NEW o \in Page PROVE ChangeOK(o)'
    BY DEF ChangeInv
  <2> QED
    BY <1>0, SameWrites, ChangeKept DEF EditorInv, ChangeInv
<1> QED
  BY <1>2, <1>3, <1>4 DEF EditorInv

\* A local change is held back or emitted.
LEMMA EditKeeps == ASSUME EditorInv, NEW p \in Page, Edit(p) PROVE EditorInv'
<1>0. /\ Mounted(p) /\ edits' = [edits EXCEPT ![p] = edits[p] + 1]
      /\ UNCHANGED <<version, scene, writes, late, mode, ver, queue, flight, failed, saves>>
  BY DEF Edit, server, line, EditorInv, Types
<1>1. PICK m \in Mark, to \in {"live", "deleted"} :
        /\ canvas' = [canvas EXCEPT ![p][m] = to]
        /\ \/ Emit(p, [scene |-> canvas'[p], upto |-> edits'[p]])
           \/ HoldBack(p, [scene |-> canvas'[p], upto |-> edits'[p]])
  BY DEF Edit
<1>2. canvas' \in [Page -> Scene] /\ canvas'[p] \in Scene
  <2>1. canvas' = [canvas EXCEPT ![p] = [canvas[p] EXCEPT ![m] = to]]
    BY <1>1
  <2>2. [canvas[p] EXCEPT ![m] = to] \in Scene
    BY DEF EditorInv, Types, Scene
  <2> QED
    BY <2>1, <2>2 DEF EditorInv, Types
<1>3. edits' \in [Page -> Nat] /\ edits'[p] \in Nat /\ \A q \in Page \ {p} : edits'[q] = edits[q]
  BY <1>0 DEF EditorInv, Types
<1> DEFINE new == [scene |-> canvas'[p], upto |-> edits'[p]]
<1>4. new \in Capture /\ new # Null /\ new.upto = edits'[p]
  BY <1>2, <1>3, NullAssumption DEF Capture
<1>5. \/ trailing' = [trailing EXCEPT ![p] = Null] /\ debounce' = [debounce EXCEPT ![p] = new]
      \/ trailing' = [trailing EXCEPT ![p] = new] /\ debounce' = debounce
  BY <1>1 DEF Emit, HoldBack
<1> HIDE DEF new
<1>6. /\ trailing' \in [Page -> Capture \cup {Null}] /\ debounce' \in [Page -> Capture \cup {Null}]
      /\ \A q \in Page \ {p} : trailing'[q] = trailing[q] /\ debounce'[q] = debounce[q]
      /\ trailing'[p] = new \/ (trailing'[p] = Null /\ debounce'[p] = new)
  BY <1>4, <1>5 DEF EditorInv, Types
<1>7. Types'
  BY <1>0, <1>2, <1>3, <1>6 DEF EditorInv, Types
<1>8. OrderInv'
  BY <1>0, OrderFrame DEF EditorInv, OrderInv, VersionInv
<1>9. ChangeOK(p)'
  BY <1>0, <1>4, <1>6 DEF ChangeOK, Mounted, Pending
<1> QED
  BY <1>0, <1>3, <1>6, <1>7, <1>8, <1>9, OthersKept, SameWrites DEF EditorInv

LEMMA TrailingKeeps == ASSUME EditorInv, NEW p \in Page, TrailingFires(p) PROVE EditorInv'
<1>0. /\ trailing[p] # Null /\ trailing[p] \in Capture
      /\ trailing' = [trailing EXCEPT ![p] = Null] /\ debounce' = [debounce EXCEPT ![p] = trailing[p]]
      /\ UNCHANGED <<version, scene, writes, late, mode, canvas, ver, queue, flight, failed, edits, saves>>
  BY DEF TrailingFires, Emit, server, line, counts, EditorInv, Types
<1>1. Types'
  BY <1>0 DEF EditorInv, Types
<1>2. OrderInv'
  BY <1>0, OrderFrame DEF EditorInv, OrderInv, VersionInv
<1>3. /\ trailing'[p] = Null /\ debounce'[p] = trailing[p]
      /\ \A q \in Page \ {p} : trailing'[q] = trailing[q] /\ debounce'[q] = debounce[q]
  BY <1>0 DEF EditorInv, Types
<1>4. ChangeOK(p)'
  BY <1>0, <1>3 DEF EditorInv, ChangeInv, ChangeOK, Mounted, Pending
<1> QED
  BY <1>0, <1>1, <1>2, <1>3, <1>4, OthersKept, SameWrites DEF EditorInv

-----------------------------------------------------------------------------
\* What the last save in the queue carries.
LEMMA LastQueued ==
  ASSUME Types, NEW p \in Page, NEW kind \in {"auto", "shortcut", "back"}, NEW capture \in Capture,
         Enqueue(p, kind, capture)
  PROVE  queue'[p] # <<>> /\ queue'[p][Len(queue'[p])].capture = capture
BY Enqueued

LEMMA AutosaveKeeps == ASSUME EditorInv, NEW p \in Page, AutosaveFires(p) PROVE EditorInv'
<1>0. /\ debounce[p] # Null /\ debounce[p] \in Capture
      /\ Enqueue(p, "auto", debounce[p]) /\ debounce' = [debounce EXCEPT ![p] = Null]
      /\ UNCHANGED <<version, scene, writes, late, mode, canvas, ver, trailing, edits>>
  BY DEF AutosaveFires, server, EditorInv, Types
<1>1. /\ queue' \in [Page -> Seq(Save)] /\ saves' \in [Page -> Nat] /\ UNCHANGED <<flight, failed>>
      /\ \A q \in Page \ {p} : queue'[q] = queue[q] /\ saves'[q] = saves[q]
  BY <1>0, Enqueued DEF EditorInv
<1>2. queue'[p] # <<>> /\ queue'[p][Len(queue'[p])].capture = debounce[p]
  BY <1>0, LastQueued DEF EditorInv
<1>3. /\ debounce'[p] = Null /\ debounce' \in [Page -> Capture \cup {Null}]
      /\ \A q \in Page \ {p} : debounce'[q] = debounce[q]
  BY <1>0 DEF EditorInv, Types
<1>4. Types'
  BY <1>0, <1>1, <1>3 DEF EditorInv, Types
<1>5. OrderInv'
  BY <1>0, OrderQueues DEF EditorInv
<1>6. ChangeOK(p)'
  BY <1>0, <1>2, <1>3 DEF EditorInv, ChangeInv, ChangeOK, Mounted, Pending
<1> QED
  BY <1>0, <1>1, <1>3, <1>4, <1>5, <1>6, OthersKept, SameWrites DEF EditorInv

\* Ctrl+S and Back save the canvas.
LEMMA AskKeeps == ASSUME EditorInv, NEW p \in Page, SaveShortcut(p) \/ BackSaves(p) PROVE EditorInv'
<1>0. /\ Mounted(p) /\ Mounted(p)' /\ mode' \in [Page -> Mode]
      /\ \A q \in Page \ {p} : mode'[q] = mode[q]
      /\ UNCHANGED <<version, scene, writes, late, canvas, ver, trailing, debounce, edits>>
  BY DEF SaveShortcut, BackSaves, server, timers, Mounted, EditorInv, Types, Mode
<1>1. PICK kind \in {"shortcut", "back"} : Ask(p, kind)
  BY DEF SaveShortcut, BackSaves
<1> DEFINE new == [scene |-> canvas[p], upto |-> edits[p]]
<1>2. new \in Capture /\ new.upto = edits[p] /\ Enqueue(p, kind, new)
  BY <1>1 DEF Ask, OnCanvas, EditorInv, Types, Capture
<1> HIDE DEF new
<1>3. /\ queue' \in [Page -> Seq(Save)] /\ saves' \in [Page -> Nat] /\ UNCHANGED <<flight, failed>>
      /\ \A q \in Page \ {p} : queue'[q] = queue[q] /\ saves'[q] = saves[q]
  BY <1>2, Enqueued DEF EditorInv
<1>4. queue'[p] # <<>> /\ queue'[p][Len(queue'[p])].capture.upto = edits[p]
  BY <1>2, LastQueued DEF EditorInv
<1>5. Types'
  BY <1>0, <1>3 DEF EditorInv, Types
<1>6. OrderInv'
  BY <1>0, <1>2, OrderQueues DEF EditorInv
<1>7. ChangeOK(p)'
  BY <1>0, <1>4 DEF EditorInv, ChangeInv, ChangeOK, Mounted, Pending
<1> QED
  BY <1>0, <1>3, <1>5, <1>6, <1>7, OthersKept, SameWrites DEF EditorInv

-----------------------------------------------------------------------------
\* The request that a page leaves behind.
LEMMA AbandonedIs ==
  ASSUME EditorInv, NEW p \in Page, Abandon(p), NEW r \in late', r \notin late
  PROVE  /\ r \in Request /\ r.by = p /\ r.save.no = Settled(p) + 1 /\ r.base <= version
         /\ queue[p] # <<>> /\ ~ Over(p) /\ flight[p] # Null
<1>1. r \in Abandoned(p)
  BY DEF Abandon
<1>2. /\ flight[p] # Null /\ flight[p].phase = "request" /\ flight[p] \in Flight
      /\ r = [by |-> p, save |-> Head(queue[p]), base |-> flight[p].base]
  BY <1>1 DEF Abandoned, EditorInv, Types
<1>3. queue[p] # <<>>
  BY <1>2 DEF EditorInv, OrderInv, AppliedInv
<1>4. Head(queue[p]) = queue[p][1] /\ Head(queue[p]) \in Save /\ 1 \in 1 .. Len(queue[p])
  BY <1>3, QueueTyped DEF EditorInv
<1>5. queue[p][1].no = Settled(p) + 1
  BY <1>4 DEF EditorInv, OrderInv, QueueInv
<1>6. flight[p].base \in Nat /\ flight[p].base <= version
  BY <1>2 DEF Flight, EditorInv, OrderInv, VersionInv
<1> QED
  BY <1>2, <1>3, <1>4, <1>5, <1>6 DEF Request, Over, InFlight

LEMMA DieKeeps == ASSUME EditorInv, NEW p \in Page, CloseTab(p) \/ ReloadOnUpdate(p) PROVE EditorInv'
<1>0. /\ Die(p) /\ Abandon(p) /\ UNCHANGED <<version, scene, writes, edits, saves>>
      /\ mode' = [mode EXCEPT ![p] = "dead"] /\ canvas' = [canvas EXCEPT ![p] = [m \in Mark |-> "absent"]]
      /\ ver' = [ver EXCEPT ![p] = 0] /\ trailing' = [trailing EXCEPT ![p] = Null]
      /\ debounce' = [debounce EXCEPT ![p] = Null] /\ queue' = [queue EXCEPT ![p] = <<>>]
      /\ flight' = [flight EXCEPT ![p] = Null] /\ failed' = [failed EXCEPT ![p] = FALSE]
  BY DEF CloseTab, ReloadOnUpdate, Die, server, counts
<1>1. late' \subseteq Request
  BY <1>0, AbandonedIs DEF EditorInv, Types
<1>2. queue' \in [Page -> Seq(Save)] /\ queue'[p] = <<>> /\ \A q \in Page \ {p} : queue'[q] = queue[q]
  BY <1>0, EmptySeq DEF EditorInv, Types
<1>3. failed' \in [Page -> BOOLEAN] /\ \A q \in Page \ {p} : failed'[q] = failed[q]
  BY <1>0 DEF EditorInv, Types
<1>4. [m \in Mark |-> "absent"] \in Scene
  BY DEF Scene
<1>5. Types'
  <2>1. /\ mode' \in [Page -> Mode] /\ ver' \in [Page -> Nat] /\ flight' \in [Page -> Flight \cup {Null}]
        /\ trailing' \in [Page -> Capture \cup {Null}] /\ debounce' \in [Page -> Capture \cup {Null}]
    BY <1>0 DEF EditorInv, Types, Mode
  <2>2. canvas' \in [Page -> Scene]
    BY <1>0, <1>4 DEF EditorInv, Types
  <2> QED
    BY <1>0, <1>1, <1>2, <1>3, <2>1, <2>2 DEF EditorInv, Types
<1>6. /\ flight'[p] = Null /\ mode'[p] = "dead"
      /\ \A q \in Page \ {p} : /\ mode'[q] = mode[q] /\ trailing'[q] = trailing[q]
                               /\ debounce'[q] = debounce[q] /\ flight'[q] = flight[q]
  BY <1>0 DEF EditorInv, Types
<1>7. OrderInv'
  <2>1. \A q \in Page : ver'[q] <= version
    BY <1>0 DEF EditorInv, Types, OrderInv, VersionInv
  <2>2. PICK n \in Nat : n = Len(queue[p])
    BY QueueTyped DEF EditorInv
  <2>3. Len(queue'[p]) = 0
    BY <1>2, EmptySeq
  <2>4. queue[p] # <<>> => 0 < n
    BY <2>2, QueueTyped DEF EditorInv
  <2>5. \A r \in late' : \/ r \in late
                         \/ /\ r.by = p /\ r.save.no = Settled(p) + 1 /\ r.base <= version
                            /\ queue[p] # <<>> /\ ~ Over(p)
    BY <1>0, AbandonedIs
  <2>6. Types /\ OrderInv
    BY DEF EditorInv
  <2> QED
    BY <1>0, <1>2, <1>6, <2>1, <2>2, <2>3, <2>4, <2>5, <2>6, OrderEnds
<1>8. ChangeInv'
  BY <1>0, <1>2, <1>3, <1>6, GoneOK, OthersKept, SameWrites DEF EditorInv
<1> QED
  BY <1>5, <1>7, <1>8 DEF EditorInv

-----------------------------------------------------------------------------
\* Only the request of p's head changes, and requests that nobody waits for.
LEMMA FlightOnly ==
  ASSUME EditorInv, NEW p \in Page, UNCHANGED <<version, scene, writes, mode, canvas, trailing, debounce,
                                                 queue, failed, edits, saves>>,
         ver' \in [Page -> Nat], \A q \in Page : ver'[q] <= version,
         flight' \in [Page -> Flight \cup {Null}], late' \subseteq Request,
         queue[p] # <<>>,
         \A q \in Page \ {p} : flight'[q] = flight[q],
         flight'[p] # Null, flight'[p].base <= version, flight'[p].version <= version,
         flight'[p].phase # "saved", Over(p) => flight'[p].phase = "failed",
         \A r \in late' : \/ r \in late
                          \/ /\ r.by = p /\ r.save.no = Settled(p) + 1 /\ r.base <= version
                             /\ flight'[p].phase = "failed" /\ ~ Over(p)
  PROVE  EditorInv'
<1>1. Types'
  BY DEF EditorInv, Types
<1>2. OrderInv'
  BY OrderSends DEF EditorInv
<1>3. ChangeInv'
  BY SameWrites, ChangeKept DEF EditorInv, ChangeInv
<1> QED
  BY <1>1, <1>2, <1>3 DEF EditorInv

\* What is known of a request that is under way.
LEMMA Flying ==
  ASSUME EditorInv, NEW p \in Page, flight[p] # Null
  PROVE  /\ queue[p] # <<>> /\ flight[p] \in Flight
         /\ flight[p].base \in Nat /\ flight[p].base <= version
         /\ flight[p].version \in Nat /\ flight[p].version <= version /\ version \in Nat
BY DEF EditorInv, Types, OrderInv, AppliedInv, VersionInv, Flight

LEMMA VersionsKept ==
  ASSUME EditorInv
  PROVE  version \in Nat /\ ver \in [Page -> Nat] /\ \A q \in Page : ver[q] <= version
BY DEF EditorInv, Types, OrderInv, VersionInv

LEMMA SendKeeps == ASSUME EditorInv, NEW p \in Page, Send(p) PROVE EditorInv'
<1>1. /\ queue[p] # <<>> /\ flight[p] = Null /\ Transmit(p, 0, ver[p]) /\ UNCHANGED <<late, ver>>
      /\ UNCHANGED <<version, scene, writes, mode, canvas, trailing, debounce, queue, failed, edits, saves>>
  BY DEF Send, server, timers, counts
<1>2. /\ flight' \in [Page -> Flight \cup {Null}] /\ flight'[p] # Null /\ flight'[p].phase = "request"
      /\ flight'[p].base = ver[p] /\ flight'[p].version = 0 /\ \A q \in Page \ {p} : flight'[q] = flight[q]
  BY <1>1, VersionsKept, Transmitted DEF EditorInv
<1>3. late' \subseteq Request /\ ~ Over(p) /\ 0 <= version
  BY <1>1, VersionsKept DEF EditorInv, Types, Over, InFlight
<1> QED
  BY <1>1, <1>2, <1>3, VersionsKept, FlightOnly

LEMMA ConflictKeeps == ASSUME EditorInv, NEW p \in Page, ServerConflicts(p) PROVE EditorInv'
<1>1. /\ flight[p] # Null /\ flight[p].phase = "request" /\ Reach(p, "conflict", version) /\ UNCHANGED <<late, ver>>
      /\ UNCHANGED <<version, scene, writes, mode, canvas, trailing, debounce, queue, failed, edits, saves>>
  BY DEF ServerConflicts, InFlight, server, timers, counts
<1>2. /\ flight' \in [Page -> Flight \cup {Null}] /\ flight'[p] # Null /\ flight'[p].phase = "conflict"
      /\ flight'[p].base = flight[p].base /\ flight'[p].version = version
      /\ \A q \in Page \ {p} : flight'[q] = flight[q]
  BY <1>1, VersionsKept, Reached DEF EditorInv
<1>3. late' \subseteq Request /\ ~ Over(p)
  BY <1>1 DEF EditorInv, Types, Over, InFlight
<1> QED
  BY <1>1, <1>2, <1>3, VersionsKept, Flying, FlightOnly

LEMMA LossKeeps == ASSUME EditorInv, NEW p \in Page, LoseRequest(p) \/ LoseReply(p) PROVE EditorInv'
<1>1. /\ flight[p] # Null /\ Reach(p, "failed", 0) /\ UNCHANGED ver
      /\ UNCHANGED <<version, scene, writes, mode, canvas, trailing, debounce, queue, failed, edits, saves>>
      /\ Abandon(p)
  BY DEF LoseRequest, LoseReply, Abandon, InFlight, server, timers, counts
<1>2. /\ flight' \in [Page -> Flight \cup {Null}] /\ flight'[p] # Null /\ flight'[p].phase = "failed"
      /\ flight'[p].base = flight[p].base /\ flight'[p].version = 0
      /\ \A q \in Page \ {p} : flight'[q] = flight[q]
  BY <1>1, Reached DEF EditorInv
<1>3. late' \subseteq Request
  BY <1>1, AbandonedIs DEF EditorInv, Types
<1>4. \A r \in late' : \/ r \in late
                       \/ /\ r.by = p /\ r.save.no = Settled(p) + 1 /\ r.base <= version
                          /\ flight'[p].phase = "failed" /\ ~ Over(p)
  BY <1>1, <1>2, AbandonedIs
<1> QED
  BY <1>1, <1>2, <1>3, <1>4, VersionsKept, Flying, FlightOnly

LEMMA RetryKeeps == ASSUME EditorInv, NEW p \in Page, Retry(p) PROVE EditorInv'
<1>1. /\ flight[p] # Null /\ flight[p].phase = "conflict" /\ Transmit(p, 1, flight[p].version)
      /\ ver' = [ver EXCEPT ![p] = flight[p].version] /\ UNCHANGED late
      /\ UNCHANGED <<version, scene, writes, mode, canvas, trailing, debounce, queue, failed, edits, saves>>
  BY DEF Retry, InFlight, server, timers, counts
<1>2. /\ flight' \in [Page -> Flight \cup {Null}] /\ flight'[p] # Null /\ flight'[p].phase = "request"
      /\ flight'[p].base = flight[p].version /\ flight'[p].version = 0
      /\ \A q \in Page \ {p} : flight'[q] = flight[q]
  BY <1>1, Flying, Transmitted DEF EditorInv
<1>3. late' \subseteq Request /\ ~ Over(p)
  BY <1>1 DEF EditorInv, Types, Over, InFlight
<1>4. ver' \in [Page -> Nat] /\ \A q \in Page : ver'[q] <= version
  BY <1>1, Flying, VersionsKept
<1> QED
  BY <1>1, <1>2, <1>3, <1>4, Flying, VersionsKept, FlightOnly

-----------------------------------------------------------------------------
\* The server writes while the pages only wait.
LEMMA WriteKeeps ==
  ASSUME EditorInv, NEW by \in Page \cup {Storage}, NEW no \in Nat, NEW upto \in Nat, NEW s \in Scene,
         Write(by, no, upto, s), late' \subseteq late, flight' \in [Page -> Flight \cup {Null}],
         UNCHANGED <<mode, canvas, ver, trailing, debounce, queue, failed, edits, saves>>,
         OrderInv'
  PROVE  EditorInv'
<1>1. /\ version' \in Nat /\ scene' \in Scene /\ writes' \in Seq(Written)
  BY AfterWrite DEF EditorInv
<1>2. Types'
  BY <1>1 DEF EditorInv, Types
<1>3. \A q \in Page : \A i \in WrittenBy(q) : i \in WrittenBy(q)' /\ writes'[i] = writes[i]
  BY WrittenAfter DEF EditorInv
<1>4. ChangeInv'
  <2> SUFFICES ASSUME NEW q \in Page PROVE ChangeOK(q)'
    BY DEF ChangeInv
  <2> QED
    BY <1>3, ChangeKept DEF EditorInv, ChangeInv
<1> QED
  BY <1>2, <1>4 DEF EditorInv

LEMMA ServerSavesKeeps == ASSUME EditorInv, NEW p \in Page, ServerSaves(p) PROVE EditorInv'
<1> DEFINE save == queue[p][1]
<1>1. /\ flight[p] # Null /\ flight[p].phase = "request" /\ Reach(p, "saved", version + 1)
      /\ WriteSave(p, Head(queue[p]))
      /\ UNCHANGED <<late, mode, canvas, ver, trailing, debounce, queue, failed, edits, saves>>
  BY DEF ServerSaves, InFlight, timers, counts
<1>2. /\ queue[p] # <<>> /\ Head(queue[p]) = save /\ save.no \in Nat /\ save.capture \in Capture
      /\ save.capture.upto \in Nat /\ save.capture.scene \in Scene /\ 1 \in 1 .. Len(queue[p])
  BY <1>1, Flying, QueueTyped DEF EditorInv, Capture
<1>3. save.no = Settled(p) + 1 /\ Settled(p) \in Nat
  BY <1>2 DEF EditorInv, OrderInv, QueueInv
<1>4. Write(p, save.no, save.capture.upto, save.capture.scene)
  BY <1>1, <1>2 DEF WriteSave
<1>5. version \in Nat /\ version + 1 \in Nat
  BY VersionsKept
<1>6. /\ flight' \in [Page -> Flight \cup {Null}] /\ flight'[p] # Null /\ flight'[p].phase = "saved"
      /\ flight'[p].base = flight[p].base /\ flight'[p].version = version + 1
      /\ \A q \in Page \ {p} : flight'[q] = flight[q]
  BY <1>1, <1>5, Reached DEF EditorInv
<1> HIDE DEF save
<1>7. \A i \in WrittenBy(p) : writes[i].no \in Nat
  BY WritesTyped DEF WrittenBy, EditorInv
<1>8. \A i \in WrittenBy(p) : writes[i].no < save.no
  BY <1>1, <1>3, <1>7 DEF EditorInv, OrderInv, AppliedInv, Over, InFlight
<1>9. /\ Over(p)' /\ ~ InFlight(p, "failed")
      /\ \A q \in Page : InFlight(q, "failed") => InFlight(q, "failed")'
      /\ \A q \in Page : Over(q) => Over(q)'
      /\ \A q \in Page : InFlight(q, "saved")' => InFlight(q, "saved") \/ q = p
  BY <1>1, <1>6 DEF Over, InFlight
<1>10. \A q \in Page : flight'[q] # Null =>
         flight[q] # Null /\ flight'[q].base = flight[q].base /\ flight'[q].version \in {flight[q].version, version + 1}
  BY <1>1, <1>6
<1>11. OrderInv'
  <2>1. Types /\ OrderInv
    BY DEF EditorInv
  <2>2. \A q \in Page : InFlight(q, "saved")' =>
          InFlight(q, "saved") \/ (q = p /\ save.no = queue[q][1].no /\ save.capture.upto = queue[q][1].capture.upto)
    BY <1>9 DEF save
  <2> QED
    BY <1>1, <1>2, <1>3, <1>4, <1>8, <1>9, <1>10, <2>1, <2>2, OrderWrites
<1> QED
  BY <1>1, <1>2, <1>4, <1>6, <1>11, WriteKeeps

LEMMA LateKeeps == ASSUME EditorInv, LateArrives PROVE EditorInv'
<1>1. PICK r \in late :
        /\ late' = late \ {r}
        /\ \/ Accepts(r.base) /\ WriteSave(r.by, r.save)
           \/ ~ Accepts(r.base) /\ UNCHANGED server
        /\ UNCHANGED <<mode, canvas, ver, trailing, debounce, queue, flight, failed, edits, saves>>
  BY DEF LateArrives, timers, line, counts
<1>2. /\ r.by \in Page /\ r.save.no \in Nat /\ r.save.capture.upto \in Nat /\ r.save.capture.scene \in Scene
      /\ late' \subseteq late
  BY <1>1 DEF EditorInv, Types, Request, Save, Capture
<1>3. CASE Accepts(r.base) /\ WriteSave(r.by, r.save)
  <2>1. Write(r.by, r.save.no, r.save.capture.upto, r.save.capture.scene)
    BY <1>3 DEF WriteSave
  <2>2. \A i \in WrittenBy(r.by) : writes[i].no < r.save.no
    BY <1>3 DEF Accepts, EditorInv, OrderInv, LateInv
  <2>3. r.save.no <= Settled(r.by) \/ (Over(r.by)' /\ r.save.no = Settled(r.by) + 1)
    BY <1>1 DEF EditorInv, OrderInv, LateInv, Over, InFlight
  <2>4. /\ \A q \in Page : InFlight(q, "failed") => InFlight(q, "failed")'
        /\ \A q \in Page : Over(q) => Over(q)'
        /\ \A q \in Page : InFlight(q, "saved")' => InFlight(q, "saved")
    BY <1>1 DEF Over, InFlight
  <2>5. OrderInv'
    BY <1>1, <1>2, <2>1, <2>2, <2>3, <2>4, OrderWrites DEF EditorInv
  <2>6. flight' \in [Page -> Flight \cup {Null}]
    BY <1>1 DEF EditorInv, Types
  <2> QED
    BY <1>1, <1>2, <2>1, <2>5, <2>6, WriteKeeps
<1>4. CASE UNCHANGED server
  <2>1. Types'
    BY <1>1, <1>2, <1>4 DEF EditorInv, Types, server
  <2>2. OrderInv'
    BY <1>1, <1>2, <1>4 DEF server, EditorInv, OrderInv, QueueInv, VersionInv, AppliedInv, LateInv,
       SavesApplyInOrder, Settled, Over, InFlight, WrittenBy
  <2>3. ChangeInv'
    BY <1>1, <1>4, SameWrites, ChangeKept DEF server, EditorInv, ChangeInv
  <2> QED
    BY <2>1, <2>2, <2>3 DEF EditorInv
<1> QED
  BY <1>1, <1>3, <1>4

LEMMA TrimKeeps == ASSUME EditorInv, Trim PROVE EditorInv'
<1> DEFINE s == [m \in Mark |-> IF scene[m] = "live" THEN "live" ELSE "absent"]
<1>1. /\ Write(Storage, 0, 0, s)
      /\ UNCHANGED <<late, mode, canvas, ver, trailing, debounce, queue, flight, failed, edits, saves>>
  BY DEF Trim, timers, line, counts
<1>2. s \in Scene
  BY DEF Scene
<1> HIDE DEF s
<1>3. /\ \A q \in Page : InFlight(q, "failed") => InFlight(q, "failed")'
      /\ \A q \in Page : Over(q) => Over(q)'
      /\ \A q \in Page : InFlight(q, "saved")' => InFlight(q, "saved")
  BY <1>1 DEF Over, InFlight
<1>4. OrderInv'
  BY <1>1, <1>2, <1>3, OrderWrites, EditorAssumption DEF EditorInv
<1>5. flight' \in [Page -> Flight \cup {Null}]
  BY <1>1 DEF EditorInv, Types
<1> QED
  BY <1>1, <1>2, <1>4, <1>5, WriteKeeps

-----------------------------------------------------------------------------
(***************************************************************************)
(* The head of p's queue is over.  If it was the last one, it carried the  *)
(* page's last change, and it was saved or the page knows that it failed.  *)
(***************************************************************************)
LEMMA SettleKeeps ==
  ASSUME EditorInv, NEW p \in Page, NEW ok \in BOOLEAN, flight[p] # Null, Settle(p, ok),
         ver' \in [Page -> Nat], \A q \in Page : ver'[q] <= version,
         ok => InFlight(p, "saved")
  PROVE  EditorInv'
<1>1. /\ queue' = [queue EXCEPT ![p] = Tail(queue[p])] /\ flight' = [flight EXCEPT ![p] = Null]
      /\ failed' = [failed EXCEPT ![p] = ~ ok]
      /\ UNCHANGED <<version, scene, writes, late, canvas, edits, saves>>
  BY DEF Settle, server, counts, EditorInv, Types
<1>2. PICK n \in Nat : n = Len(queue[p])
  BY QueueTyped DEF EditorInv
<1>3. /\ n > 0 /\ queue[p] # <<>> /\ Tail(queue[p]) \in Seq(Save) /\ Len(Tail(queue[p])) = n - 1
      /\ \A i \in 1 .. n - 1 : Tail(queue[p])[i] = queue[p][i + 1]
  BY <1>2, Flying, QueueTyped DEF EditorInv
<1>4. /\ queue' \in [Page -> Seq(Save)] /\ queue'[p] = Tail(queue[p])
      /\ \A q \in Page \ {p} : queue'[q] = queue[q]
  BY <1>1, <1>3 DEF EditorInv, Types
<1>5. /\ flight' \in [Page -> Flight \cup {Null}] /\ flight'[p] = Null
      /\ failed' \in [Page -> BOOLEAN] /\ failed'[p] = ~ ok
      /\ \A q \in Page \ {p} : flight'[q] = flight[q] /\ failed'[q] = failed[q]
  BY <1>1 DEF EditorInv, Types
<1>6. /\ mode' \in [Page -> Mode]
      /\ trailing' \in [Page -> Capture \cup {Null}] /\ debounce' \in [Page -> Capture \cup {Null}]
      /\ \A q \in Page \ {p} : mode'[q] = mode[q] /\ trailing'[q] = trailing[q] /\ debounce'[q] = debounce[q]
      /\ \/ mode'[p] = "left"
         \/ /\ mode'[p] = mode[p] \/ (mode[p] = "leaving" /\ mode'[p] = "open")
            /\ trailing'[p] = trailing[p] /\ debounce'[p] = debounce[p]
  BY DEF Settle, Leaves, Stays, Unmount, timers, EditorInv, Types, Mode
<1>7. Types'
  BY <1>1, <1>4, <1>5, <1>6 DEF EditorInv, Types
<1>8. OrderInv'
  <2>1. n - 1 \in Nat /\ n - 1 <= n /\ n - 1 < n
    BY <1>3
  <2>2. \A i \in 1 .. n - 1 : queue'[p][i] = queue[p][i + (n - (n - 1))]
    BY <1>3, <1>4
  <2>3. Types /\ OrderInv
    BY DEF EditorInv
  <2> QED
    BY <1>1, <1>2, <1>3, <1>4, <1>5, <2>1, <2>2, <2>3, OrderEnds
<1>9. ChangeOK(p)'
  <2>1. ChangeOK(p)
    BY DEF EditorInv, ChangeInv
  <2>2. CASE mode'[p] = "left"
    BY <2>2, GoneOK
  <2>3. CASE mode'[p] # "left"
    <3>1. (Mounted(p)' => Mounted(p)) /\ mode[p] \notin {"closed", "loading"} /\ mode'[p] \notin {"closed", "loading"}
      BY <1>3, <1>6, <2>1, <2>3 DEF ChangeOK, Mounted
    <3>2. trailing'[p] = trailing[p] /\ debounce'[p] = debounce[p] /\ edits'[p] = edits[p] /\ saves'[p] = saves[p]
      BY <1>1, <1>6, <2>3
    <3>3. ASSUME Mounted(p)', ~ Pending(p)', edits[p] > 0
          PROVE  queue[p][n].capture.upto = edits[p]
      BY <1>2, <1>3, <2>1, <3>1, <3>2, <3>3 DEF ChangeOK, Pending
    <3>4. queue'[p] # <<>> => queue'[p][Len(queue'[p])] = queue[p][n]
      <4>1. queue'[p] # <<>> => Len(queue'[p]) \in 1 .. n - 1
        BY <1>2, <1>3, <1>4, EmptySeq
      <4> QED
        BY <1>2, <1>3, <1>4, <4>1
    <3>5. ASSUME queue'[p] = <<>>, ok
          PROVE  \E i \in WrittenBy(p)' : writes'[i].no = saves[p] /\ writes'[i].upto = queue[p][n].capture.upto
      <4>1. n = 1
        BY <1>3, <1>4, <3>5, EmptySeq
      <4>2. queue[p][1].no = saves[p]
        <5>1. saves[p] \in Nat /\ Len(queue[p]) = 1 /\ Settled(p) = saves[p] - 1
          BY <1>2, <4>1 DEF EditorInv, Types, Settled
        <5>2. queue[p][1].no = Settled(p) + 1
          BY <5>1 DEF EditorInv, OrderInv, QueueInv
        <5> QED
          BY <5>1, <5>2
      <4>3. PICK i \in WrittenBy(p) : writes[i].no = queue[p][1].no /\ writes[i].upto = queue[p][1].capture.upto
        BY <3>5 DEF EditorInv, OrderInv, AppliedInv
      <4> QED
        BY <1>1, <4>1, <4>2, <4>3, SameWrites
    <3> QED
      BY <1>5, <2>1, <3>1, <3>2, <3>3, <3>4, <3>5 DEF ChangeOK, Pending
  <2> QED
    BY <2>2, <2>3
<1>10. ChangeInv'
  BY <1>1, <1>4, <1>5, <1>6, <1>9, OthersKept, SameWrites DEF EditorInv
<1> QED
  BY <1>7, <1>8, <1>10 DEF EditorInv

LEMMA TakeKeeps ==
  ASSUME EditorInv, NEW p \in Page, TakeSaved(p) \/ TakeConflict(p) \/ TakeFailure(p) PROVE EditorInv'
<1>1. flight[p] # Null
  BY DEF TakeSaved, TakeConflict, TakeFailure, InFlight
<1>2. ver' = [ver EXCEPT ![p] = flight[p].version] \/ ver' = ver
  BY DEF TakeSaved, TakeConflict, TakeFailure
<1>3. ver' \in [Page -> Nat] /\ \A q \in Page : ver'[q] <= version
  BY <1>1, <1>2, Flying, VersionsKept
<1>4. PICK ok \in BOOLEAN : Settle(p, ok) /\ (ok => InFlight(p, "saved"))
  BY DEF TakeSaved, TakeConflict, TakeFailure
<1> QED
  BY <1>1, <1>3, <1>4, SettleKeeps

-----------------------------------------------------------------------------
LEMMA EditorInit == Init => EditorInv
<1> SUFFICES ASSUME Init PROVE EditorInv
  OBVIOUS
<1>1. Types
  <2>1. [m \in Mark |-> "absent"] \in Scene /\ writes \in Seq(Written) /\ <<>> \in Seq(Save)
    BY EmptySeq DEF Init, Scene
  <2> QED
    BY <2>1 DEF Init, Types, Mode
<1>2. \A p \in Page : queue[p] = <<>> /\ Len(queue[p]) = 0 /\ flight[p] = Null /\ Settled(p) = 0
  BY EmptySeq DEF Init, Settled
<1>3. \A p \in Page : WrittenBy(p) = {}
  BY EmptySeq DEF Init, WrittenBy
<1>4. OrderInv
  BY <1>2, <1>3 DEF Init, OrderInv, QueueInv, VersionInv, AppliedInv, LateInv, SavesApplyInOrder, InFlight
<1>5. ChangeInv
  BY <1>2 DEF Init, ChangeInv, ChangeOK, Pending, Mounted
<1> QED
  BY <1>1, <1>4, <1>5 DEF EditorInv

LEMMA EditorStep == EditorInv /\ [Next]_vars => EditorInv'
<1> SUFFICES ASSUME EditorInv, [Next]_vars PROVE EditorInv'
  OBVIOUS
<1>1. CASE UNCHANGED vars
  <2>1. Types'
    BY <1>1 DEF vars, EditorInv, Types
  <2>2. OrderInv'
    BY <1>1, OrderFrame DEF vars, EditorInv, OrderInv, VersionInv
  <2>3. ChangeInv'
    BY <1>1, SameWrites, ChangeKept DEF vars, EditorInv, ChangeInv
  <2> QED
    BY <2>1, <2>2, <2>3 DEF EditorInv
<1>2. CASE LateArrives \/ Trim
  BY <1>2, LateKeeps, TrimKeeps
<1>3. ASSUME NEW p \in Page, Fetch(p) \/ Show(p) \/ Edit(p) \/ Timer(p) PROVE EditorInv'
  BY <1>3, FetchKeeps, ShowKeeps, EditKeeps, TrailingKeeps, AutosaveKeeps DEF Timer
<1>4. ASSUME NEW p \in Page, \E q \in Page \ {p} : PeerChanges(p, q) PROVE EditorInv'
  BY <1>4, PeerKeeps
<1>5. ASSUME NEW p \in Page, SaveShortcut(p) \/ BackClean(p) \/ BackSaves(p) \/ Navigate(p) PROVE EditorInv'
  BY <1>5, AskKeeps, UnmountKeeps
<1>6. ASSUME NEW p \in Page, CloseTab(p) \/ ReloadOnUpdate(p) \/ LoseRequest(p) \/ LoseReply(p) PROVE EditorInv'
  BY <1>6, DieKeeps, LossKeeps
<1>7. ASSUME NEW p \in Page, Progress(p) PROVE EditorInv'
  BY <1>7, SendKeeps, ServerSavesKeeps, ConflictKeeps, TakeKeeps, RetryKeeps DEF Progress
<1> QED
  BY <1>1, <1>2, <1>3, <1>4, <1>5, <1>6, <1>7 DEF Next

\* All that follows rests on this invariant.
THEOREM EditorInvariance == Spec => []EditorInv
BY EditorInit, EditorStep, PTL DEF Spec

(***************************************************************************)
(* The saves of a page reach the drawing in the order in which it made     *)
(* them, each at most once, for any number of pages, requests under way,   *)
(* lost replies and retries (useEditorPersistence.ts, the queue).          *)
(***************************************************************************)
THEOREM SavesInOrder == Spec => []SavesApplyInOrder
<1>1. EditorInv => SavesApplyInOrder
  BY DEF EditorInv, OrderInv
<1> QED
  BY <1>1, EditorInvariance, PTL

(***************************************************************************)
(* A page on which nothing waits and whose last save did not fail has      *)
(* saved its last local change, and nothing older after it: neither the    *)
(* throttle nor the debounce nor the queue has swallowed it.               *)
(***************************************************************************)
THEOREM QuietPagesAreSaved == Spec => []QuietMeansSaved
<1>1. EditorInv => QuietMeansSaved
  <2> SUFFICES ASSUME EditorInv, NEW p \in Page, Quiet(p), ~ failed[p], edits[p] > 0
               PROVE  \E i \in WrittenBy(p) : writes[i].upto = edits[p] /\ \A j \in WrittenBy(p) : j <= i
    BY DEF QuietMeansSaved
  <2>1. ChangeOK(p) /\ Mounted(p) /\ ~ Pending(p) /\ queue[p] = <<>>
    BY DEF EditorInv, ChangeInv, Quiet, Mounted, Pending
  <2>2. PICK i \in WrittenBy(p) : writes[i].no = saves[p] /\ writes[i].upto = edits[p]
    BY <2>1 DEF ChangeOK
  <2>3. flight[p] = Null /\ Settled(p) = saves[p] /\ saves[p] \in Nat
    BY <2>1, EmptySeq DEF EditorInv, Types, OrderInv, AppliedInv, Settled
  <2>4. \A j \in WrittenBy(p) : j \in Nat /\ writes[j].no \in Nat /\ writes[j].no <= saves[p]
    BY <2>3, WritesTyped DEF EditorInv, OrderInv, AppliedInv, Over, InFlight, WrittenBy
  <2>5. \A j \in WrittenBy(p) : ~ (i < j)
    BY <2>2, <2>3, <2>4 DEF EditorInv, OrderInv, SavesApplyInOrder
  <2> QED
    BY <2>2, <2>4, <2>5
<1> QED
  BY <1>1, EditorInvariance, PTL

(***************************************************************************)
(* The Back button takes the user away only after the server has stored    *)
(* the save that the button asked for (Editor.tsx, handleBack).            *)
(***************************************************************************)
THEOREM BackWaitsForItsSave == Spec => BackLeavesOnlySaved
<1> DEFINE Waited == \A p \in Page :
      mode[p] = "leaving" /\ mode'[p] = "left" /\ queue'[p] # queue[p] =>
        \E i \in WrittenBy(p) : writes[i].no = Head(queue[p]).no
<1>1. EditorInv /\ Next => Waited
  <2> SUFFICES ASSUME EditorInv, Next, NEW p \in Page, mode[p] = "leaving", mode'[p] = "left", queue'[p] # queue[p]
               PROVE  \E i \in WrittenBy(p) : writes[i].no = Head(queue[p]).no
    BY DEF Waited
  <2>1. TakeSaved(p)
    <3>1. ASSUME NEW q \in Page, q # p, TakeSaved(q) \/ TakeConflict(q) \/ TakeFailure(q) PROVE FALSE
      BY <3>1 DEF TakeSaved, TakeConflict, TakeFailure, Settle, EditorInv, Types
    <3>2. ASSUME TakeConflict(p) \/ TakeFailure(p) PROVE FALSE
      BY <3>2 DEF TakeConflict, TakeFailure, Settle, Leaves, Stays, Unmount, EditorInv, Types
    <3>3. ASSUME NEW q \in Page, CloseTab(q) \/ ReloadOnUpdate(q) PROVE FALSE
      BY <3>3 DEF CloseTab, ReloadOnUpdate, Die, EditorInv, Types
    <3>4. ASSUME NEW q \in Page, AutosaveFires(q) \/ SaveShortcut(q) \/ BackSaves(q) PROVE FALSE
      BY <3>4 DEF AutosaveFires, SaveShortcut, BackSaves, EditorInv, Types
    <3>5. ASSUME UNCHANGED queue PROVE FALSE
      BY <3>5
    <3>6. LateArrives \/ Trim => UNCHANGED queue
      BY DEF LateArrives, Trim, line
    <3>7. ASSUME NEW q \in Page
          PROVE  Fetch(q) \/ Show(q) \/ Edit(q) \/ TrailingFires(q) \/ (\E o \in Page \ {q} : PeerChanges(q, o))
                   \/ BackClean(q) \/ Navigate(q) \/ LoseRequest(q) \/ LoseReply(q) \/ Send(q)
                   \/ ServerSaves(q) \/ ServerConflicts(q) \/ Retry(q) => UNCHANGED queue
      BY DEF Fetch, Show, Edit, TrailingFires, PeerChanges, BackClean, Navigate, LoseRequest, LoseReply, Send,
             ServerSaves, ServerConflicts, Retry, line
    <3> QED
      BY <3>1, <3>2, <3>3, <3>4, <3>5, <3>6, <3>7 DEF Next, Timer, Progress
  <2>2. InFlight(p, "saved") /\ queue[p] # <<>>
    BY <2>1, Flying DEF TakeSaved, InFlight
  <2>3. Head(queue[p]) = queue[p][1]
    BY <2>2, QueueTyped DEF EditorInv
  <2> QED
    BY <2>2, <2>3 DEF EditorInv, OrderInv, AppliedInv
<1>2. EditorInv /\ [Next]_vars => [Waited]_vars
  BY <1>1
<1> QED
  BY <1>2, EditorInvariance, PTL DEF Spec, BackLeavesOnlySaved
=============================================================================
