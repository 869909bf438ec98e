---------------------------- MODULE SceneProofs ----------------------------
(***************************************************************************)
(* Proofs about the scenes of the editor.  About SceneSync, for any number *)
(* of pages, elements and changes: what an element on a page may become,   *)
(* and that quiet pages on which nothing went wrong show the same.  About  *)
(* OpenEditor, for any number of drawings, elements, openings and saves    *)
(* that wait: the mounted editor empties no drawing by accident, and at    *)
(* rest the user's own scene is before him and in the database.            *)
(***************************************************************************)
EXTENDS SceneSync, OpenEditor, SequenceTheorems, TLAPS

-----------------------------------------------------------------------------
(***************************************************************************)
(* Stamps are ordered by version and time.                                 *)
(***************************************************************************)
Older(a, b)   == a.version < b.version \/ (a.version = b.version /\ a.updated < b.updated)
AtLeast(a, b) == ~ Older(a, b)

LEMMA Order ==
  ASSUME NEW a \in Stamp, NEW b \in Stamp, NEW c \in Stamp
  PROVE  /\ AtLeast(a, a) /\ AtLeast(a, Absent)
         /\ AtLeast(a, b) \/ AtLeast(b, a)
         /\ AtLeast(a, b) /\ AtLeast(b, c) => AtLeast(a, c)
         /\ AtLeast(a, b) /\ Older(c, b) => Older(c, a)
         /\ AtLeast(a, b) /\ Older(a, c) => Older(b, c)
         /\ Older(a, b) => ~ AtLeast(a, b)
         /\ Older(a, b) => AtLeast(b, a) /\ b # Absent
BY DEF Older, AtLeast, Stamp, Absent

\* Stamps whose nonce follows from the time.
LEMMA Equal ==
  ASSUME NEW a \in Stamp, NEW b \in Stamp, a.nonce = a.updated, b.nonce = b.updated,
         AtLeast(a, b), AtLeast(b, a)
  PROVE  a = b
<1>1. a.version = b.version /\ a.updated = b.updated /\ a.nonce = b.nonce
  BY DEF Older, AtLeast, Stamp
<1>2. /\ a = [version |-> a.version, updated |-> a.updated, nonce |-> a.nonce]
      /\ b = [version |-> b.version, updated |-> b.updated, nonce |-> b.nonce]
  BY DEF Stamp
<1> QED
  BY <1>1, <1>2

LEMMA AbsentStamp == Absent \in Stamp /\ Nothing \in Scene /\ \A e \in Element : Nothing[e] = Absent
BY DEF Absent, Nothing, Scene, Stamp

-----------------------------------------------------------------------------
(***************************************************************************)
(* What a sequence of updates tells of an element.                         *)
(***************************************************************************)
Told(m, e)        == m[e] # Absent
Silent(s, e)      == \A i \in DOMAIN s : ~ Told(s[i], e)
LastOf(s, e, x)   == \E i \in DOMAIN s :
                       /\ s[i][e] = x
                       /\ \A j \in DOMAIN s : i < j => ~ Told(s[j], e)
SomeAbove(s, e, x) == \E i \in DOMAIN s : Told(s[i], e) /\ AtLeast(s[i][e], x)
AllAbove(s, e, x)  == \A i \in DOMAIN s : Told(s[i], e) => AtLeast(s[i][e], x)
AllBelow(s, e, x)  == \A i \in DOMAIN s : Told(s[i], e) => AtLeast(x, s[i][e])
Rising(s, e)       == \A i, j \in DOMAIN s :
                        i < j /\ Told(s[i], e) /\ Told(s[j], e) => AtLeast(s[j][e], s[i][e])

\* One more update.
LEMMA OneMore ==
  ASSUME NEW S, NEW s \in Seq(S), NEW m \in S
  PROVE  /\ Append(s, m) \in Seq(S) /\ Append(s, m) # <<>>
         /\ Len(s) \in Nat /\ DOMAIN s = 1 .. Len(s) /\ DOMAIN Append(s, m) = 1 .. Len(s) + 1
         /\ \A i \in 1 .. Len(s) : Append(s, m)[i] = s[i]
         /\ Append(s, m)[Len(s) + 1] = m
OBVIOUS

LEMMA AppendTells ==
  ASSUME NEW s \in Seq(Scene), NEW m \in Scene, NEW e \in Element
  PROVE  /\ Silent(Append(s, m), e) <=> Silent(s, e) /\ ~ Told(m, e)
         /\ \A x : x # Absent =>
              (LastOf(Append(s, m), e, x) <=> IF Told(m, e) THEN x = m[e] ELSE LastOf(s, e, x))
         /\ \A x : SomeAbove(Append(s, m), e, x) <=>
              SomeAbove(s, e, x) \/ (Told(m, e) /\ AtLeast(m[e], x))
         /\ \A x : AllAbove(Append(s, m), e, x) <=>
              AllAbove(s, e, x) /\ (Told(m, e) => AtLeast(m[e], x))
         /\ \A x : AllBelow(Append(s, m), e, x) <=>
              AllBelow(s, e, x) /\ (Told(m, e) => AtLeast(x, m[e]))
         /\ Rising(s, e) /\ (Told(m, e) => AllBelow(s, e, m[e])) => Rising(Append(s, m), e)
<1> DEFINE n == Len(s)
           t == Append(s, m)
<1>1. /\ n \in Nat /\ DOMAIN s = 1 .. n /\ DOMAIN t = 1 .. n + 1
      /\ \A i \in 1 .. n : t[i] = s[i]
      /\ t[n + 1] = m
  BY OneMore
<1>2. \A i \in DOMAIN t : i \in DOMAIN s \/ i = n + 1
  BY <1>1
<1>3. DOMAIN s \subseteq DOMAIN t /\ n + 1 \in DOMAIN t /\ \A i \in DOMAIN s : i < n + 1
  BY <1>1
<1> HIDE DEF n, t
<1>4. Silent(t, e) <=> Silent(s, e) /\ ~ Told(m, e)
  BY <1>1, <1>2, <1>3 DEF Silent
<1>5. ASSUME NEW x, x # Absent
      PROVE  LastOf(t, e, x) <=> IF Told(m, e) THEN x = m[e] ELSE LastOf(s, e, x)
  <2>1. CASE Told(m, e)
    <3>1. ASSUME LastOf(t, e, x)
          PROVE  x = m[e]
      BY <1>1, <1>2, <1>3, <2>1, <3>1 DEF LastOf
    <3>2. ASSUME x = m[e]
          PROVE  LastOf(t, e, x)
      BY <1>1, <1>2, <1>3, <3>2 DEF LastOf
    <3> QED
      BY <2>1, <3>1, <3>2
  <2>2. CASE ~ Told(m, e)
    <3>1. ASSUME LastOf(t, e, x)
          PROVE  LastOf(s, e, x)
      BY <1>1, <1>2, <1>3, <1>5, <2>2, <3>1 DEF LastOf, Told
    <3>2. ASSUME LastOf(s, e, x)
          PROVE  LastOf(t, e, x)
      BY <1>1, <1>2, <1>3, <2>2, <3>2 DEF LastOf
    <3> QED
      BY <2>2, <3>1, <3>2
  <2> QED
    BY <2>1, <2>2
<1>6. \A x : SomeAbove(t, e, x) <=> SomeAbove(s, e, x) \/ (Told(m, e) /\ AtLeast(m[e], x))
  BY <1>1, <1>2, <1>3 DEF SomeAbove
<1>7. \A x : AllAbove(t, e, x) <=> AllAbove(s, e, x) /\ (Told(m, e) => AtLeast(m[e], x))
  BY <1>1, <1>2, <1>3 DEF AllAbove
<1>8. \A x : AllBelow(t, e, x) <=> AllBelow(s, e, x) /\ (Told(m, e) => AtLeast(x, m[e]))
  BY <1>1, <1>2, <1>3 DEF AllBelow
<1>9. Rising(s, e) /\ (Told(m, e) => AllBelow(s, e, m[e])) => Rising(t, e)
  BY <1>1, <1>2, <1>3 DEF Rising, AllBelow
<1> QED
  BY <1>4, <1>5, <1>6, <1>7, <1>8, <1>9 DEF t

\* The first update is taken off.
LEMMA OneLess ==
  ASSUME NEW S, NEW s \in Seq(S), s # <<>>
  PROVE  /\ Tail(s) \in Seq(S) /\ Head(s) = s[1] /\ Head(s) \in S
         /\ Len(s) \in Nat \ {0} /\ DOMAIN s = 1 .. Len(s) /\ DOMAIN Tail(s) = 1 .. Len(s) - 1
         /\ \A i \in 1 .. Len(s) - 1 : Tail(s)[i] = s[i + 1]
OBVIOUS

LEMMA TailTells ==
  ASSUME NEW s \in Seq(Scene), s # <<>>, NEW e \in Element
  PROVE  /\ Silent(s, e) <=> Silent(Tail(s), e) /\ ~ Told(Head(s), e)
         /\ \A x : x # Absent =>
              (LastOf(s, e, x) <=> \/ LastOf(Tail(s), e, x)
                                   \/ Silent(Tail(s), e) /\ Head(s)[e] = x)
         /\ \A x : SomeAbove(s, e, x) <=>
              SomeAbove(Tail(s), e, x) \/ (Told(Head(s), e) /\ AtLeast(Head(s)[e], x))
         /\ \A x : AllAbove(s, e, x) => AllAbove(Tail(s), e, x)
         /\ \A x : AllBelow(s, e, x) =>
              AllBelow(Tail(s), e, x) /\ (Told(Head(s), e) => AtLeast(x, Head(s)[e]))
         /\ Rising(s, e) => Rising(Tail(s), e) /\
              (Told(Head(s), e) => AllAbove(Tail(s), e, Head(s)[e]))
<1> DEFINE n == Len(s)
           t == Tail(s)
           h == Head(s)
<1>1. /\ n \in Nat \ {0} /\ DOMAIN s = 1 .. n /\ DOMAIN t = 1 .. n - 1
      /\ \A i \in 1 .. n - 1 : t[i] = s[i + 1]
      /\ h = s[1]
  BY OneLess
<1>2. \A i \in DOMAIN s : i = 1 \/ (i - 1 \in DOMAIN t /\ t[i - 1] = s[i])
  <2> SUFFICES ASSUME NEW i \in DOMAIN s, i # 1
               PROVE  i - 1 \in DOMAIN t /\ t[i - 1] = s[i]
    OBVIOUS
  <2>1. i - 1 \in 1 .. n - 1 /\ (i - 1) + 1 = i
    BY <1>1
  <2> QED
    BY <1>1, <2>1
<1>3. \A i \in DOMAIN t : i + 1 \in DOMAIN s /\ t[i] = s[i + 1] /\ 1 < i + 1 /\ i \in Nat
  BY <1>1
<1>4. 1 \in DOMAIN s /\ s[1] = h /\ DOMAIN s \subseteq Nat /\ \A i \in DOMAIN s : 1 <= i
  BY <1>1
<1> HIDE DEF n, t, h
<1>5. Silent(s, e) <=> Silent(t, e) /\ ~ Told(h, e)
  BY <1>2, <1>3, <1>4 DEF Silent
<1>6. ASSUME NEW x, x # Absent
      PROVE  LastOf(s, e, x) <=> LastOf(t, e, x) \/ (Silent(t, e) /\ h[e] = x)
  <2>1. ASSUME LastOf(s, e, x)
        PROVE  LastOf(t, e, x) \/ (Silent(t, e) /\ h[e] = x)
    <3>1. PICK i \in DOMAIN s : s[i][e] = x /\ \A j \in DOMAIN s : i < j => ~ Told(s[j], e)
      BY <2>1 DEF LastOf
    <3>2. CASE i = 1
      BY <1>3, <1>4, <3>1, <3>2 DEF Silent
    <3>3. CASE i # 1
      <4>1. i - 1 \in DOMAIN t /\ t[i - 1][e] = x
        BY <1>2, <3>1, <3>3
      <4>2. \A j \in DOMAIN t : i - 1 < j => ~ Told(t[j], e)
        BY <1>3, <1>4, <3>1
      <4> QED
        BY <4>1, <4>2 DEF LastOf
    <3> QED
      BY <3>2, <3>3
  <2>2. ASSUME LastOf(t, e, x)
        PROVE  LastOf(s, e, x)
    <3>1. PICK i \in DOMAIN t : t[i][e] = x /\ \A j \in DOMAIN t : i < j => ~ Told(t[j], e)
      BY <2>2 DEF LastOf
    <3>2. i + 1 \in DOMAIN s /\ s[i + 1][e] = x
      BY <1>3, <3>1
    <3>3. \A j \in DOMAIN s : i + 1 < j => ~ Told(s[j], e)
      <4> SUFFICES ASSUME NEW j \in DOMAIN s, i + 1 < j
                   PROVE  ~ Told(s[j], e)
        OBVIOUS
      <4>1. j - 1 \in DOMAIN t /\ t[j - 1] = s[j] /\ i < j - 1
        BY <1>2, <1>3, <1>4
      <4> QED
        BY <3>1, <4>1
    <3> QED
      BY <3>2, <3>3 DEF LastOf
  <2>3. ASSUME Silent(t, e), h[e] = x
        PROVE  LastOf(s, e, x)
    <3>1. \A j \in DOMAIN s : 1 < j => ~ Told(s[j], e)
      BY <1>2, <1>4, <2>3 DEF Silent
    <3> QED
      BY <1>4, <2>3, <3>1 DEF LastOf
  <2> QED
    BY <2>1, <2>2, <2>3
<1>7. \A x : SomeAbove(s, e, x) <=> SomeAbove(t, e, x) \/ (Told(h, e) /\ AtLeast(h[e], x))
  BY <1>2, <1>3, <1>4 DEF SomeAbove
<1>8. \A x : AllAbove(s, e, x) => AllAbove(t, e, x)
  BY <1>3 DEF AllAbove
<1>9. \A x : AllBelow(s, e, x) => AllBelow(t, e, x) /\ (Told(h, e) => AtLeast(x, h[e]))
  BY <1>3, <1>4 DEF AllBelow
<1>10. ASSUME Rising(s, e)
       PROVE  Rising(t, e) /\ (Told(h, e) => AllAbove(t, e, h[e]))
  <2>1. Rising(t, e)
    <3> SUFFICES ASSUME NEW i \in DOMAIN t, NEW j \in DOMAIN t,
                        i < j, Told(t[i], e), Told(t[j], e)
                 PROVE  AtLeast(t[j][e], t[i][e])
      BY DEF Rising
    <3>1. /\ i + 1 \in DOMAIN s /\ j + 1 \in DOMAIN s /\ i + 1 < j + 1
          /\ t[i] = s[i + 1] /\ t[j] = s[j + 1]
      BY <1>3
    <3> QED
      BY <1>10, <3>1 DEF Rising
  <2>2. Told(h, e) => AllAbove(t, e, h[e])
    BY <1>3, <1>4, <1>10 DEF Rising, AllAbove
  <2> QED
    BY <2>1, <2>2
<1> QED
  BY <1>5, <1>6, <1>7, <1>8, <1>9, <1>10 DEF t, h

\* An update that leaves the sequence, and the first one of all.
LEMMA RemoveType ==
  ASSUME NEW S, NEW s \in Seq(S), NEW i \in DOMAIN s
  PROVE  RemoveAt(s, i) \in Seq(S)
<1>1. i \in 1 .. Len(s) /\ Len(s) \in Nat /\ \A j \in 1 .. Len(s) : s[j] \in S
  OBVIOUS
<1>2. SubSeq(s, 1, i - 1) \in Seq(S)
  <2>1. i - 1 \in Int /\ \A j \in 1 .. i - 1 : s[j] \in S
    BY <1>1
  <2> QED
    BY <2>1, SubSeqProperties
<1>3. SubSeq(s, i + 1, Len(s)) \in Seq(S)
  <2>1. i + 1 \in Int /\ Len(s) \in Int /\ \A j \in i + 1 .. Len(s) : s[j] \in S
    BY <1>1
  <2> QED
    BY <2>1, SubSeqProperties
<1> QED
  BY <1>2, <1>3, ConcatProperties DEF RemoveAt

LEMMA RemoveFirstOne ==
  ASSUME NEW S, NEW s \in Seq(S), s # <<>>
  PROVE  RemoveAt(s, 1) = Tail(s)
<1>1. SubSeq(s, 1, 0) = <<>>
  BY SubSeqEmpty
<1>2. SubSeq(s, 2, Len(s)) = Tail(s)
  BY TailIsSubSeq
<1>3. Tail(s) \in Seq(S)
  BY HeadTailProperties
<1>4. <<>> \o Tail(s) = Tail(s)
  BY <1>3, ConcatEmptySeq
<1> QED
  BY <1>1, <1>2, <1>4 DEF RemoveAt

-----------------------------------------------------------------------------
(***************************************************************************)
(* Scenes, element by element.                                             *)
(***************************************************************************)
LEMMA Merged ==
  ASSUME NEW a \in Scene, NEW b \in Scene
  PROVE  /\ Reconcile(a, b) \in Scene
         /\ \A e \in Element :
              /\ Reconcile(a, b)[e] \in {a[e], b[e]}
              /\ AtLeast(Reconcile(a, b)[e], a[e])
              /\ Told(b, e) => AtLeast(Reconcile(a, b)[e], b[e])
<1>1. \A e \in Element : a[e] \in Stamp /\ b[e] \in Stamp
  BY DEF Scene
<1>2. Reconcile(a, b) \in Scene
  BY <1>1 DEF Reconcile, Scene
<1>3. ASSUME NEW e \in Element
      PROVE  /\ Reconcile(a, b)[e] \in {a[e], b[e]}
             /\ AtLeast(Reconcile(a, b)[e], a[e])
             /\ Told(b, e) => AtLeast(Reconcile(a, b)[e], b[e])
  <2>1. Reconcile(a, b)[e] = IF b[e] # Absent /\ Beats(b[e], a[e]) THEN b[e] ELSE a[e]
    BY DEF Reconcile
  <2>2. Beats(b[e], a[e]) => AtLeast(b[e], a[e])
    BY <1>1 DEF Beats, AtLeast, Older, Stamp
  <2>3. ~ Beats(b[e], a[e]) => AtLeast(a[e], b[e])
    BY <1>1 DEF Beats, AtLeast, Older, Stamp
  <2>4. AtLeast(a[e], a[e]) /\ AtLeast(b[e], b[e])
    BY <1>1, Order
  <2> QED
    BY <2>1, <2>2, <2>3, <2>4 DEF Told
<1> QED
  BY <1>2, <1>3

LEMMA Overlaid ==
  ASSUME NEW a \in Scene, NEW b \in Scene
  PROVE  /\ Overlay(a, b) \in Scene
         /\ \A e \in Element : Overlay(a, b)[e] = IF Told(b, e) THEN b[e] ELSE a[e]
BY DEF Overlay, Scene, Told

LEMMA Changed ==
  ASSUME NEW p \in Page, NEW h \in Scene, known \in [Page -> Scene]
  PROVE  /\ Changes(p, h) \in Scene
         /\ \A e \in Element :
              /\ Told(Changes(p, h), e) <=> h[e] # known[p][e] /\ h[e] # Absent
              /\ Told(Changes(p, h), e) => Changes(p, h)[e] = h[e]
<1>1. known[p] \in Scene /\ Absent \in Stamp
  BY AbsentStamp
<1> QED
  BY <1>1 DEF Changes, Scene, Told

\* What an edit does.
LEMMA Edited ==
  ASSUME TypeOK, NEW p \in Page, NEW f \in Element, Edit(p, f)
  PROVE  /\ canvas' \in [Page -> Scene] /\ clock' \in Nat /\ edits' \in Nat
         /\ edits' = edits + 1 /\ clock' \in {clock, clock + 1}
         /\ \A q \in Page : q # p => canvas'[q] = canvas[q]
         /\ \A e \in Element : e # f => canvas'[p][e] = canvas[p][e]
         /\ canvas'[p][f] = [version |-> canvas[p][f].version + 1, updated |-> clock', nonce |-> edits']
         /\ Older(canvas[p][f], canvas'[p][f])
<1> DEFINE new == [version |-> canvas[p][f].version + 1, updated |-> clock', nonce |-> edits']
<1>1. clock' \in Nat /\ edits' \in Nat /\ edits' = edits + 1 /\ clock' \in {clock, clock + 1}
  BY DEF Edit, TypeOK
<1>2. canvas \in [Page -> Scene] /\ canvas[p] \in Scene /\ canvas[p][f] \in Stamp
  BY DEF TypeOK, Scene
<1>3. new \in Stamp
  BY <1>1, <1>2 DEF Stamp
<1>4. canvas' = [canvas EXCEPT ![p][f] = new]
  BY DEF Edit
<1>5. Older(canvas[p][f], new)
  BY <1>2 DEF Older, Stamp
<1>6. new = [version |-> canvas[p][f].version + 1, updated |-> clock', nonce |-> edits']
  OBVIOUS
<1> HIDE DEF new
<1>7. canvas' = [canvas EXCEPT ![p] = [canvas[p] EXCEPT ![f] = new]]
  BY <1>4
<1>8. [canvas[p] EXCEPT ![f] = new] \in Scene
  BY <1>2, <1>3 DEF Scene
<1>9. canvas' \in [Page -> Scene] /\ canvas'[p] = [canvas[p] EXCEPT ![f] = new]
      /\ \A q \in Page : q # p => canvas'[q] = canvas[q]
  BY <1>2, <1>7, <1>8
<1>10. canvas'[p][f] = new /\ \A e \in Element : e # f => canvas'[p][e] = canvas[p][e]
  BY <1>2, <1>9 DEF Scene
<1> QED
  BY <1>1, <1>5, <1>6, <1>9, <1>10

\* What relaying the i-th update does.
Passes(p, i) ==
  /\ i \in DOMAIN relaying[p]
  /\ Happens("reorder", i # 1)
  /\ relaying' = [relaying EXCEPT ![p] = RemoveAt(relaying[p], i)]
  /\ arriving' = [q \in Page |->
       IF q # p /\ mode[q] = "joined"
         THEN Append(arriving[q], relaying[p][i]) ELSE arriving[q]]
  /\ UNCHANGED <<mode, canvas, known, held, pending, db, user>>

LEMMA Relayed ==
  ASSUME NEW p \in Page, Relay(p)
  PROVE  relaying[p] # <<>> /\ \E i : Passes(p, i)
BY DEF Relay, Passes

LEMMA PassesTypes ==
  ASSUME TypeOK, NEW p \in Page, NEW i, Passes(p, i)
  PROVE  /\ relaying' \in [Page -> Seq(Scene)] /\ arriving' \in [Page -> Seq(Scene)]
         /\ relaying[p][i] \in Scene
<1>1. relaying[p] \in Seq(Scene) /\ i \in DOMAIN relaying[p]
  BY DEF TypeOK, Passes
<1>2. RemoveAt(relaying[p], i) \in Seq(Scene) /\ relaying[p][i] \in Scene
  <2>1. RemoveAt(relaying[p], i) \in Seq(Scene)
    BY <1>1, RemoveType
  <2>2. relaying[p][i] \in Scene
    BY <1>1
  <2> QED
    BY <2>1, <2>2
<1>3. relaying' \in [Page -> Seq(Scene)]
  BY <1>2 DEF TypeOK, Passes
<1>4. \A q \in Page : Append(arriving[q], relaying[p][i]) \in Seq(Scene) /\ arriving[q] \in Seq(Scene)
  BY <1>2 DEF TypeOK
<1>5. arriving' \in [Page -> Seq(Scene)]
  BY <1>4 DEF Passes
<1> QED
  BY <1>2, <1>3, <1>5

-----------------------------------------------------------------------------
(***************************************************************************)
(* Types; a page that is closed shows nothing.                             *)
(***************************************************************************)
Closed == \A p \in Page : mode[p] = "closed" =>
  canvas[p] = Nothing /\ held[p] = Null /\ arriving[p] = <<>> /\ pending[p] = Nothing

TypeInv == TypeOK /\ Closed

LEMMA TypeInit == Init => TypeInv
<1> SUFFICES ASSUME Init PROVE TypeInv
  OBVIOUS
<1> DEFINE first == [e \in Element |-> [version |-> 1, updated |-> 0, nonce |-> 0]]
<1>1. first \in Scene /\ Nothing \in Scene
  BY AbsentStamp DEF Scene, Stamp
<1> HIDE DEF first
<1>2. saved \in Scene /\ canvas \in [Page -> Scene]
  <2>1. saved \in {Nothing, first}
    BY DEF Init, first
  <2>2. canvas = [p \in Page |-> saved] \/ canvas = [p \in Page |-> Nothing]
    BY DEF Init
  <2> QED
    BY <1>1, <2>1, <2>2
<1>3. TypeOK
  BY <1>1, <1>2 DEF Init, TypeOK
<1>4. Closed
  BY DEF Init, Closed
<1> QED
  BY <1>3, <1>4 DEF TypeInv

LEMMA TypeNext ==
  ASSUME TypeInv, [Next]_vars
  PROVE  TypeInv'
<1> USE DEF TypeInv
<1> USE AbsentStamp
<1>1. ASSUME NEW p \in Page, Fetch(p) PROVE TypeInv'
  BY <1>1 DEF Fetch, TypeOK, Closed, wire, db, user
<1>2. ASSUME NEW p \in Page, Join(p) PROVE TypeInv'
  BY <1>2 DEF Join, Happens, TypeOK, Closed, wire, db, user
<1>3. ASSUME NEW p \in Page, Reconnect(p) PROVE TypeInv'
  BY <1>3 DEF Reconnect, Happens, TypeOK, Closed, wire, db, user
<1>4. ASSUME NEW p \in Page, NEW f \in Element, Edit(p, f) PROVE TypeInv'
  <2>1. TypeOK'
    BY <1>4, Edited DEF Edit, Happens, TypeOK, wire, db, user
  <2>2. /\ mode[p] # "closed" /\ mode' = mode /\ held' = held
        /\ arriving' = arriving /\ pending' = pending
    BY <1>4 DEF Edit, Shown, wire
  <2>3. Closed'
    BY <1>4, <2>2, Edited DEF Closed
  <2> QED
    BY <2>1, <2>3
<1>5. ASSUME NEW p \in Page, Report(p) PROVE TypeInv'
  BY <1>5 DEF Report, Shown, TypeOK, Closed, wire, db, user
<1>6. ASSUME NEW p \in Page, EmitNothing(p) PROVE TypeInv'
  BY <1>6 DEF EmitNothing, TypeOK, Closed, wire, db, user
<1>7. ASSUME NEW p \in Page, EmitChanges(p) PROVE TypeInv'
  <2> DEFINE c == Changes(p, held[p])
  <2>1. held[p] \in Scene /\ known[p] \in Scene /\ relaying[p] \in Seq(Scene)
    BY <1>7 DEF EmitChanges, TypeOK
  <2>2. c \in Scene
    BY <2>1, Changed DEF TypeOK
  <2>3. Overlay(known[p], c) \in Scene
    BY <2>1, <2>2, Overlaid
  <2>4. Append(relaying[p], c) \in Seq(Scene)
    BY <2>1, <2>2
  <2>5. /\ known' = [known EXCEPT ![p] = Overlay(known[p], c)]
        /\ relaying' = [relaying EXCEPT ![p] = Append(relaying[p], c)] \/ relaying' = relaying
        /\ unsaved' = [unsaved EXCEPT ![p] = held[p]] \/ unsaved' = unsaved
        /\ held' = [held EXCEPT ![p] = Null]
        /\ UNCHANGED <<mode, canvas, arriving, pending, saved, clock, edits, mishaps>>
    BY <1>7 DEF EmitChanges, user
  <2> HIDE DEF c
  <2>6. known' \in [Page -> Scene] /\ held' \in [Page -> Scene \cup {Null}]
    BY <2>3, <2>5 DEF TypeOK
  <2>7. relaying' \in [Page -> Seq(Scene)]
    BY <2>4, <2>5 DEF TypeOK
  <2>8. unsaved' \in [Page -> Scene \cup {Null}]
    BY <2>1, <2>5 DEF TypeOK
  <2>9. TypeOK'
    BY <2>5, <2>6, <2>7, <2>8 DEF TypeOK
  <2>10. Closed'
    BY <2>5 DEF Closed, TypeOK
  <2> QED
    BY <2>9, <2>10
<1>8. ASSUME NEW p \in Page, Relay(p) PROVE TypeInv'
  <2>1. PICK i : Passes(p, i)
    BY <1>8, Relayed
  <2>2. UNCHANGED <<mode, canvas, known, held, pending, unsaved, saved, clock, edits>>
    BY <2>1 DEF Passes, db, user
  <2>3. mishaps' \subseteq Mishap
    BY <2>1 DEF Passes, Happens, TypeOK
  <2>4. TypeOK'
    BY <2>1, <2>2, <2>3, PassesTypes DEF TypeOK
  <2> QED
    <3>1. \A q \in Page : mode[q] = "closed" => arriving'[q] = arriving[q]
      BY <2>1 DEF Passes
    <3> QED
      BY <2>2, <2>4, <3>1 DEF Closed
<1>9. ASSUME NEW p \in Page, Arrive(p) PROVE TypeInv'
  <2>1. arriving[p] \in Seq(Scene) /\ arriving[p] # <<>> /\ pending[p] \in Scene
    BY <1>9 DEF Arrive, TypeOK
  <2>2. Head(arriving[p]) \in Scene /\ Tail(arriving[p]) \in Seq(Scene)
    BY <2>1
  <2>3. Overlay(pending[p], Head(arriving[p])) \in Scene
    BY <2>1, <2>2, Overlaid
  <2>4. TypeOK'
    BY <1>9, <2>2, <2>3 DEF Arrive, TypeOK, db, user
  <2> QED
    BY <1>9, <2>4 DEF Arrive, Closed
<1>10. ASSUME NEW p \in Page, Flush(p) PROVE TypeInv'
  <2>1. canvas[p] \in Scene /\ known[p] \in Scene /\ pending[p] \in Scene
    BY DEF TypeOK
  <2>2. Reconcile(canvas[p], pending[p]) \in Scene /\ Overlay(known[p], pending[p]) \in Scene
    BY <2>1, Merged, Overlaid
  <2>3. TypeOK'
    BY <1>10, <2>2 DEF Flush, TypeOK, wire, db, user
  <2>4. pending[p] # Nothing /\ mode' = mode /\ held' = held /\ arriving' = arriving
    BY <1>10 DEF Flush, wire
  <2>5. \A q \in Page : q # p => canvas'[q] = canvas[q] /\ pending'[q] = pending[q]
    BY <1>10 DEF Flush, TypeOK
  <2>6. Closed'
    BY <2>4, <2>5 DEF Closed
  <2> QED
    BY <2>3, <2>6
<1>11. ASSUME NEW p \in Page, Autosave(p) PROVE TypeInv'
  BY <1>11 DEF Autosave, TypeOK, Closed, wire, db, user
<1>12. ASSUME UNCHANGED vars PROVE TypeInv'
  BY <1>12 DEF vars, TypeOK, Closed
<1> QED
  BY <1>1, <1>2, <1>3, <1>4, <1>5, <1>6, <1>7, <1>8, <1>9, <1>10, <1>11, <1>12 DEF Next

LEMMA StepGrows ==
  ASSUME TypeInv, [Next]_vars, NEW q \in Page, NEW e \in Element
  PROVE  AtLeast(canvas'[q][e], canvas[q][e])
<1>1. /\ canvas \in [Page -> Scene] /\ pending \in [Page -> Scene] /\ saved \in Scene
      /\ canvas[q] \in Scene /\ canvas[q][e] \in Stamp
  BY DEF TypeInv, TypeOK, Scene
<1>2. AtLeast(canvas[q][e], canvas[q][e])
  BY <1>1, Order
<1>3. ASSUME NEW p \in Page, Fetch(p) PROVE AtLeast(canvas'[q][e], canvas[q][e])
  <2>1. CASE q = p
    <3>1. canvas[q][e] = Absent
      BY <1>3, <2>1, AbsentStamp DEF Fetch, TypeInv, Closed
    <3>2. canvas'[q] = saved /\ saved[e] \in Stamp
      BY <1>1, <1>3, <2>1 DEF Fetch, Scene
    <3> QED
      BY <3>1, <3>2, Order
  <2>2. CASE q # p
    BY <1>1, <1>2, <1>3, <2>2 DEF Fetch
  <2> QED
    BY <2>1, <2>2
<1>4. ASSUME NEW p \in Page, NEW f \in Element, Edit(p, f)
      PROVE  AtLeast(canvas'[q][e], canvas[q][e])
  <2>1. CASE q = p /\ e = f
    <3>1. canvas'[q][e] \in Stamp /\ Older(canvas[q][e], canvas'[q][e])
      BY <1>4, <2>1, Edited DEF TypeInv, Scene
    <3> QED
      BY <1>1, <3>1, Order
  <2>2. CASE ~ (q = p /\ e = f)
    BY <1>2, <1>4, <2>2, Edited DEF TypeInv
  <2> QED
    BY <2>1, <2>2
<1>5. ASSUME NEW p \in Page, Flush(p) PROVE AtLeast(canvas'[q][e], canvas[q][e])
  <2>1. CASE q = p
    <3>1. canvas'[q] = Reconcile(canvas[q], pending[q]) /\ pending[q] \in Scene
      BY <1>1, <1>5, <2>1 DEF Flush
    <3> QED
      BY <1>1, <3>1, Merged
  <2>2. CASE q # p
    BY <1>1, <1>2, <1>5, <2>2 DEF Flush
  <2> QED
    BY <2>1, <2>2
<1>6. ASSUME UNCHANGED canvas PROVE AtLeast(canvas'[q][e], canvas[q][e])
  BY <1>2, <1>6
<1>7. [Next]_vars => \/ UNCHANGED canvas
                     \/ \E p \in Page : Fetch(p) \/ Flush(p) \/ \E f \in Element : Edit(p, f)
  BY DEF Next, vars, Join, Reconnect, Report, EmitNothing, EmitChanges, Relay, Arrive, Autosave
<1> QED
  BY <1>3, <1>4, <1>5, <1>6, <1>7

\* Every variable keeps its type, and a closed page shows nothing.
THEOREM TypeInvariance == Spec => []TypeInv
<1>1. TypeInv /\ [Next]_vars => TypeInv'
  BY TypeNext
<1> QED
  BY <1>1, TypeInit, PTL DEF Spec

(***************************************************************************)
(* Whatever goes wrong, no page shows an older state of an element than    *)
(* before: what arrives late or twice loses the merge (reconcileElements), *)
(* and a page that loads the saved scene has shown nothing yet.            *)
(***************************************************************************)
THEOREM NobodyGoesBack == Spec => NothingGoesBack
<1>1. TypeInv /\ [Next]_vars =>
        [\A p \in Page : \A e \in Element : NotOlder(canvas'[p][e], canvas[p][e])]_vars
  <2> SUFFICES ASSUME TypeInv, [Next]_vars, NEW p \in Page, NEW e \in Element
               PROVE  NotOlder(canvas'[p][e], canvas[p][e])
    OBVIOUS
  <2>1. AtLeast(canvas'[p][e], canvas[p][e])
    BY StepGrows
  <2>2. TypeInv'
    BY TypeNext
  <2>3. canvas[p][e] \in Stamp /\ canvas'[p][e] \in Stamp
    BY <2>2 DEF TypeInv, TypeOK, Scene
  <2> QED
    BY <2>1, <2>3 DEF AtLeast, Older, NotOlder, Stamp
<1> QED
  BY <1>1, TypeInvariance, PTL DEF Spec, NothingGoesBack

-----------------------------------------------------------------------------
(***************************************************************************)
(* The steps with which nothing goes wrong.                                *)
(***************************************************************************)
Calm(p) ==
  \/ Fetch(p)
  \/ Join(p) /\ edits = 0
  \/ \E f \in Element : Edit(p, f) /\ clock' = clock + 1
  \/ Report(p) \/ EmitNothing(p) \/ EmitChanges(p)
  \/ relaying[p] # <<>> /\ Passes(p, 1)
  \/ Arrive(p) \/ Flush(p) \/ Autosave(p)

LEMMA CalmSteps ==
  ASSUME TypeInv, [Next]_vars, mishaps' = {}
  PROVE  mishaps = {} /\ (UNCHANGED vars \/ \E p \in Page : Calm(p))
<1>1. ASSUME NEW name, NEW occurs \in BOOLEAN, Happens(name, occurs)
      PROVE  mishaps = {} /\ ~ occurs
  BY <1>1 DEF Happens
<1>2. ASSUME NEW p \in Page, Join(p)
      PROVE  mishaps = {} /\ Calm(p)
  <2>1. Happens("late", edits > 0) /\ edits \in Nat
    BY <1>2 DEF Join, TypeInv, TypeOK
  <2>2. mishaps = {} /\ ~ (edits > 0)
    BY <2>1 DEF Happens
  <2> QED
    BY <1>2, <2>1, <2>2 DEF Calm
<1>3. ASSUME NEW p \in Page, Reconnect(p)
      PROVE  FALSE
  BY <1>1, <1>3 DEF Reconnect
<1>4. ASSUME NEW p \in Page, NEW f \in Element, Edit(p, f)
      PROVE  mishaps = {} /\ Calm(p)
  <2>1. Happens("instant", clock' = clock) /\ clock' \in {clock, clock + 1}
    BY <1>4 DEF Edit
  <2>2. mishaps = {} /\ clock' # clock
    BY <1>1, <2>1
  <2> QED
    BY <1>4, <2>1, <2>2 DEF Calm
<1>5. ASSUME NEW p \in Page, Relay(p)
      PROVE  mishaps = {} /\ Calm(p)
  <2>1. relaying[p] # <<>> /\ \E i : Passes(p, i)
    BY <1>5, Relayed
  <2>2. PICK i : Passes(p, i)
    BY <2>1
  <2>3. mishaps = {} /\ i = 1
    BY <1>1, <2>2 DEF Passes
  <2> QED
    BY <2>1, <2>2, <2>3 DEF Calm
<1>6. ASSUME NEW p \in Page,
             Fetch(p) \/ Report(p) \/ EmitNothing(p) \/ EmitChanges(p) \/ Arrive(p) \/ Flush(p) \/ Autosave(p)
      PROVE  mishaps = {} /\ Calm(p)
  BY <1>6 DEF Fetch, Report, EmitNothing, EmitChanges, Arrive, Flush, Autosave, Calm
<1>7. UNCHANGED vars => mishaps = {}
  BY DEF vars
<1> QED
  BY <1>2, <1>3, <1>4, <1>5, <1>6, <1>7 DEF Next

\* Relaying the oldest update of a page.
LEMMA PassesFirst ==
  ASSUME TypeInv, NEW p \in Page, relaying[p] # <<>>, Passes(p, 1)
  PROVE  /\ relaying' = [relaying EXCEPT ![p] = Tail(relaying[p])]
         /\ arriving' = [q \in Page |->
              IF q # p /\ mode[q] = "joined"
                THEN Append(arriving[q], Head(relaying[p])) ELSE arriving[q]]
         /\ relaying[p] \in Seq(Scene) /\ Head(relaying[p]) \in Scene /\ Tail(relaying[p]) \in Seq(Scene)
         /\ UNCHANGED <<mode, canvas, known, held, pending, unsaved, saved, clock, edits>>
<1>1. relaying[p] \in Seq(Scene)
  BY DEF TypeInv, TypeOK
<1>2. RemoveAt(relaying[p], 1) = Tail(relaying[p])
  BY <1>1, RemoveFirstOne
<1>3. Head(relaying[p]) = relaying[p][1] /\ Head(relaying[p]) \in Scene /\ Tail(relaying[p]) \in Seq(Scene)
  BY <1>1, OneLess
<1> QED
  BY <1>1, <1>2, <1>3 DEF Passes, db, user

-----------------------------------------------------------------------------
(***************************************************************************)
(* As long as nothing goes wrong, every change has its own instant: the    *)
(* nonce of every stamp anywhere is its time.                              *)
(***************************************************************************)
Plain(c, t)    == \A e \in Element : c[e].nonce = c[e].updated /\ c[e].updated <= t
PlainSeq(s, t) == \A i \in DOMAIN s : Plain(s[i], t)

PlainPage(p, t) ==
  /\ Plain(canvas[p], t) /\ Plain(known[p], t) /\ Plain(pending[p], t)
  /\ held[p] # Null => Plain(held[p], t)
  /\ unsaved[p] # Null => Plain(unsaved[p], t)
  /\ PlainSeq(relaying[p], t) /\ PlainSeq(arriving[p], t)

StampsInv ==
  /\ clock = edits
  /\ Plain(saved, clock)
  /\ \A p \in Page : PlainPage(p, clock)

LEMMA PlainLater ==
  ASSUME NEW t \in Nat, NEW c \in Scene, Plain(c, t)
  PROVE  Plain(c, t + 1)
BY DEF Plain, Scene, Stamp

LEMMA PlainSeqs ==
  ASSUME NEW t \in Nat, NEW s \in Seq(Scene), PlainSeq(s, t)
  PROVE  /\ PlainSeq(s, t + 1)
         /\ \A m \in Scene : Plain(m, t) => PlainSeq(Append(s, m), t)
         /\ s # <<>> => PlainSeq(Tail(s), t) /\ Plain(Head(s), t)
<1>1. PlainSeq(s, t + 1)
  BY PlainLater DEF PlainSeq
<1>2. ASSUME NEW m \in Scene, Plain(m, t) PROVE PlainSeq(Append(s, m), t)
  BY <1>2, OneMore DEF PlainSeq
<1>3. ASSUME s # <<>> PROVE PlainSeq(Tail(s), t) /\ Plain(Head(s), t)
  BY <1>3, OneLess DEF PlainSeq
<1> QED
  BY <1>1, <1>2, <1>3

LEMMA PlainScenes ==
  ASSUME TypeInv, NEW t \in Nat, NEW a \in Scene, NEW b \in Scene, Plain(a, t), Plain(b, t), NEW p \in Page
  PROVE  Plain(Reconcile(a, b), t) /\ Plain(Overlay(a, b), t) /\ Plain(Changes(p, a), t) /\ Plain(Nothing, t)
<1>1. Plain(Reconcile(a, b), t)
  BY Merged DEF Plain
<1>2. Plain(Overlay(a, b), t)
  BY Overlaid DEF Plain
<1>3. Plain(Nothing, t)
  BY AbsentStamp DEF Plain, Absent
<1>4. Plain(Changes(p, a), t)
  <2>1. \A e \in Element : Changes(p, a)[e] \in {a[e], Absent}
    BY DEF Changes
  <2> QED
    BY <2>1 DEF Plain, Absent
<1> QED
  BY <1>1, <1>2, <1>3, <1>4

LEMMA StampsInit == Init => StampsInv
<1> SUFFICES ASSUME Init PROVE StampsInv
  OBVIOUS
<1> DEFINE first == [e \in Element |-> [version |-> 1, updated |-> 0, nonce |-> 0]]
<1>1. Plain(first, 0) /\ Plain(Nothing, 0)
  BY AbsentStamp DEF Plain, Absent
<1>2. saved \in {Nothing, first}
  BY DEF Init, first
<1> HIDE DEF first
<1>3. /\ canvas = [p \in Page |-> saved] \/ canvas = [p \in Page |-> Nothing]
      /\ known = canvas /\ held = [p \in Page |-> Null] /\ unsaved = [p \in Page |-> Null]
      /\ relaying = [p \in Page |-> <<>>] /\ arriving = [p \in Page |-> <<>>]
      /\ pending = [p \in Page |-> Nothing] /\ clock = 0 /\ edits = 0
  BY DEF Init
<1>4. \A p \in Page : PlainPage(p, clock)
  BY <1>1, <1>2, <1>3 DEF PlainPage, PlainSeq
<1> QED
  BY <1>1, <1>2, <1>3, <1>4 DEF StampsInv

LEMMA StampsStep ==
  ASSUME TypeInv, StampsInv, NEW p \in Page, Calm(p)
  PROVE  StampsInv'
<1> USE DEF StampsInv
<1>0. TypeOK /\ clock \in Nat /\ PlainPage(p, clock)
  BY DEF TypeInv, TypeOK
<1>a. SUFFICES /\ clock' = edits'
               /\ Plain(saved', clock')
               /\ \A q \in Page : PlainPage(q, clock)'
  BY DEF PlainPage
<1>1. CASE Fetch(p)
  BY <1>0, <1>1 DEF Fetch, wire, db, user, PlainPage, TypeOK
<1>2. CASE Join(p)
  BY <1>2 DEF Join, wire, db, user, PlainPage
<1>3. ASSUME NEW f \in Element, Edit(p, f), clock' = clock + 1
      PROVE  StampsInv'
  <2>1. UNCHANGED <<known, held, relaying, arriving, pending, unsaved, saved>> /\ edits' = edits + 1
    BY <1>3 DEF Edit, wire, db
  <2>2. ASSUME NEW q \in Page PROVE Plain(canvas'[q], clock + 1)
    <3>1. canvas[q] \in Scene
      BY <1>0 DEF TypeOK
    <3>2. Plain(canvas[q], clock + 1)
      BY <1>0, <3>1, PlainLater DEF PlainPage
    <3>3. CASE q = p
      <4>0. canvas'[p][f] = [version |-> canvas[p][f].version + 1, updated |-> clock', nonce |-> edits']
        BY <1>0, <1>3, Edited
      <4>1. canvas'[p][f].nonce = edits' /\ canvas'[p][f].updated = clock'
        BY <4>0
      <4>2. \A e \in Element : e # f => canvas'[p][e] = canvas[p][e]
        BY <1>0, <1>3, Edited
      <4> QED
        BY <1>0, <1>3, <2>1, <3>2, <3>3, <4>1, <4>2 DEF Plain
    <3>4. CASE q # p
      BY <1>0, <1>3, <3>2, <3>4, Edited
    <3> QED
      BY <3>3, <3>4
  <2>3. ASSUME NEW q \in Page PROVE PlainPage(q, clock)'
    <3>1. PlainPage(q, clock)
      OBVIOUS
    <3>2. /\ known[q] \in Scene /\ pending[q] \in Scene /\ relaying[q] \in Seq(Scene) /\ arriving[q] \in Seq(Scene)
          /\ held[q] # Null => held[q] \in Scene
          /\ unsaved[q] # Null => unsaved[q] \in Scene
      BY <1>0 DEF TypeOK
    <3>3. Plain(known[q], clock + 1) /\ Plain(pending[q], clock + 1)
      BY <1>0, <3>1, <3>2, PlainLater DEF PlainPage
    <3>4. /\ held[q] # Null => Plain(held[q], clock + 1)
          /\ unsaved[q] # Null => Plain(unsaved[q], clock + 1)
      BY <1>0, <3>1, <3>2, PlainLater DEF PlainPage
    <3>5. PlainSeq(relaying[q], clock + 1) /\ PlainSeq(arriving[q], clock + 1)
      BY <1>0, <3>1, <3>2, PlainSeqs DEF PlainPage
    <3> QED
      BY <1>3, <2>1, <2>2, <3>3, <3>4, <3>5 DEF PlainPage
  <2>4. Plain(saved, clock + 1)
    BY <1>0, PlainLater DEF TypeOK
  <2> QED
    BY <1>3, <2>1, <2>3, <2>4
<1>4. CASE Report(p)
  BY <1>0, <1>4 DEF Report, wire, db, user, PlainPage, TypeOK
<1>5. CASE EmitNothing(p)
  BY <1>0, <1>5 DEF EmitNothing, wire, db, user, PlainPage, TypeOK
<1>6. CASE EmitChanges(p)
  <2> DEFINE c == Changes(p, held[p])
  <2>1. held[p] \in Scene /\ known[p] \in Scene /\ relaying[p] \in Seq(Scene) /\ held[p] # Null
    BY <1>0, <1>6 DEF EmitChanges, TypeOK
  <2>2. c \in Scene
    BY <1>0, <2>1, Changed DEF TypeOK
  <2>3. Plain(c, clock) /\ Plain(held[p], clock)
    BY <1>0, <2>1, PlainScenes DEF PlainPage
  <2>4. Plain(Overlay(known[p], c), clock)
    BY <1>0, <2>1, <2>2, <2>3, PlainScenes DEF PlainPage
  <2>5. PlainSeq(Append(relaying[p], c), clock)
    BY <1>0, <2>1, <2>2, <2>3, PlainSeqs DEF PlainPage
  <2>6. /\ known' = [known EXCEPT ![p] = Overlay(known[p], c)]
        /\ relaying' = [relaying EXCEPT ![p] = Append(relaying[p], c)] \/ relaying' = relaying
        /\ unsaved' = [unsaved EXCEPT ![p] = held[p]] \/ unsaved' = unsaved
        /\ held' = [held EXCEPT ![p] = Null]
        /\ UNCHANGED <<canvas, arriving, pending, saved, clock, edits>>
    BY <1>6 DEF EmitChanges, user
  <2> HIDE DEF c
  <2>7. ASSUME NEW q \in Page PROVE PlainPage(q, clock)'
    <3>1. PlainPage(q, clock)
      OBVIOUS
    <3>2. Plain(known'[q], clock)
      BY <1>0, <2>4, <2>6, <3>1 DEF PlainPage, TypeOK
    <3>3. PlainSeq(relaying'[q], clock)
      BY <1>0, <2>5, <2>6, <3>1 DEF PlainPage, TypeOK
    <3>4. unsaved'[q] # Null => Plain(unsaved'[q], clock)
      BY <1>0, <2>3, <2>6, <3>1 DEF PlainPage, TypeOK
    <3>5. held'[q] # Null => Plain(held'[q], clock)
      BY <1>0, <2>6, <3>1 DEF PlainPage, TypeOK
    <3> QED
      BY <2>6, <3>1, <3>2, <3>3, <3>4, <3>5 DEF PlainPage
  <2> QED
    BY <2>6, <2>7
<1>7. CASE relaying[p] # <<>> /\ Passes(p, 1)
  <2> DEFINE h == Head(relaying[p])
  <2>1. relaying[p] \in Seq(Scene) /\ h \in Scene
    BY <1>7, PassesFirst
  <2>2. PlainSeq(Tail(relaying[p]), clock) /\ Plain(h, clock)
    BY <1>0, <1>7, <2>1, PlainSeqs DEF PlainPage
  <2>3. /\ relaying' = [relaying EXCEPT ![p] = Tail(relaying[p])]
        /\ arriving' = [q \in Page |->
             IF q # p /\ mode[q] = "joined" THEN Append(arriving[q], h) ELSE arriving[q]]
        /\ UNCHANGED <<canvas, known, held, pending, unsaved, saved, clock, edits>>
    BY <1>7, PassesFirst
  <2> HIDE DEF h
  <2>4. ASSUME NEW q \in Page PROVE PlainPage(q, clock)'
    <3>1. PlainPage(q, clock) /\ arriving[q] \in Seq(Scene)
      BY <1>0 DEF TypeOK
    <3>2. PlainSeq(relaying'[q], clock)
      BY <1>0, <2>2, <2>3, <3>1 DEF PlainPage, TypeOK
    <3>3. PlainSeq(Append(arriving[q], h), clock)
      BY <1>0, <2>1, <2>2, <3>1, PlainSeqs DEF PlainPage
    <3>4. PlainSeq(arriving'[q], clock)
      BY <2>3, <3>1, <3>3 DEF PlainPage
    <3> QED
      BY <2>3, <3>1, <3>2, <3>4 DEF PlainPage
  <2> QED
    BY <2>3, <2>4
<1>8. CASE Arrive(p)
  <2>1. arriving[p] \in Seq(Scene) /\ arriving[p] # <<>> /\ pending[p] \in Scene
    BY <1>0, <1>8 DEF Arrive, TypeOK
  <2>2. Head(arriving[p]) \in Scene /\ Plain(Head(arriving[p]), clock) /\ PlainSeq(Tail(arriving[p]), clock)
    BY <1>0, <2>1, PlainSeqs, OneLess DEF PlainPage
  <2>3. Plain(Overlay(pending[p], Head(arriving[p])), clock)
    BY <1>0, <2>1, <2>2, PlainScenes DEF PlainPage
  <2>4. /\ pending' = [pending EXCEPT ![p] = Overlay(pending[p], Head(arriving[p]))]
        /\ arriving' = [arriving EXCEPT ![p] = Tail(arriving[p])]
        /\ UNCHANGED <<canvas, known, held, relaying, unsaved, saved, clock, edits>>
    BY <1>8 DEF Arrive, db, user
  <2>5. ASSUME NEW q \in Page PROVE PlainPage(q, clock)'
    <3>1. PlainPage(q, clock)
      OBVIOUS
    <3>2. Plain(pending'[q], clock)
      BY <1>0, <2>3, <2>4, <3>1 DEF PlainPage, TypeOK
    <3>3. PlainSeq(arriving'[q], clock)
      BY <1>0, <2>2, <2>4, <3>1 DEF PlainPage, TypeOK
    <3> QED
      BY <2>4, <3>1, <3>2, <3>3 DEF PlainPage
  <2> QED
    BY <2>4, <2>5
<1>9. CASE Flush(p)
  <2>1. canvas[p] \in Scene /\ known[p] \in Scene /\ pending[p] \in Scene
    BY <1>0 DEF TypeOK
  <2>2. /\ Plain(Reconcile(canvas[p], pending[p]), clock)
        /\ Plain(Overlay(known[p], pending[p]), clock)
        /\ Plain(Nothing, clock)
    BY <1>0, <2>1, PlainScenes DEF PlainPage
  <2>3. /\ canvas' = [canvas EXCEPT ![p] = Reconcile(canvas[p], pending[p])]
        /\ known' = [known EXCEPT ![p] = Overlay(known[p], pending[p])]
        /\ pending' = [pending EXCEPT ![p] = Nothing]
        /\ UNCHANGED <<held, relaying, arriving, unsaved, saved, clock, edits>>
    BY <1>9 DEF Flush, wire, db, user
  <2>4. ASSUME NEW q \in Page PROVE PlainPage(q, clock)'
    <3>1. PlainPage(q, clock)
      OBVIOUS
    <3>2. Plain(canvas'[q], clock)
      BY <1>0, <2>2, <2>3, <3>1 DEF PlainPage, TypeOK
    <3>3. Plain(known'[q], clock)
      BY <1>0, <2>2, <2>3, <3>1 DEF PlainPage, TypeOK
    <3>4. Plain(pending'[q], clock)
      BY <1>0, <2>2, <2>3, <3>1 DEF PlainPage, TypeOK
    <3> QED
      BY <2>3, <3>1, <3>2, <3>3, <3>4 DEF PlainPage
  <2> QED
    BY <2>3, <2>4
<1>10. CASE Autosave(p)
  BY <1>0, <1>10 DEF Autosave, wire, db, user, PlainPage, TypeOK
<1> QED
  BY <1>1, <1>2, <1>3, <1>4, <1>5, <1>6, <1>7, <1>8, <1>9, <1>10 DEF Calm

-----------------------------------------------------------------------------
(***************************************************************************)
(* Who may have something on the wire.                                     *)
(***************************************************************************)
WireInv == \A p \in Page :
  /\ relaying[p] # <<>> => mode[p] = "joined" /\ p \in Editor
  /\ arriving[p] # <<>> \/ pending[p] # Nothing => mode[p] = "joined"
  /\ held[p] # Null => p \in Editor

LEMMA WireStep ==
  ASSUME TypeInv, WireInv, NEW p \in Page, Calm(p)
  PROVE  WireInv'
<1> USE DEF WireInv
<1>0. TypeOK
  BY DEF TypeInv
<1>1. CASE Fetch(p)
  BY <1>0, <1>1 DEF Fetch, wire, TypeOK
<1>2. CASE Join(p)
  BY <1>0, <1>2 DEF Join, wire, TypeOK
<1>3. ASSUME NEW f \in Element, Edit(p, f) PROVE WireInv'
  BY <1>3 DEF Edit, wire
<1>4. CASE Report(p)
  BY <1>0, <1>4 DEF Report, wire, TypeOK
<1>5. CASE EmitNothing(p)
  BY <1>0, <1>5 DEF EmitNothing, wire, TypeOK
<1>6. CASE EmitChanges(p)
  BY <1>0, <1>6 DEF EmitChanges, TypeOK
<1>7. CASE relaying[p] # <<>> /\ Passes(p, 1)
  <2>1. relaying' = [relaying EXCEPT ![p] = Tail(relaying[p])]
    BY <1>7, PassesFirst
  <2>2. \A q \in Page : arriving'[q] # <<>> => arriving[q] # <<>> \/ mode[q] = "joined"
    BY <1>7 DEF Passes
  <2>3. UNCHANGED <<mode, held, pending>>
    BY <1>7 DEF Passes
  <2>4. \A q \in Page : relaying'[q] # <<>> => relaying[q] # <<>>
    BY <1>0, <1>7, <2>1 DEF TypeOK
  <2> QED
    BY <2>2, <2>3, <2>4
<1>8. CASE Arrive(p)
  <2>1. arriving[p] # <<>> /\ UNCHANGED <<mode, held, relaying>>
    BY <1>8 DEF Arrive
  <2>2. \A q \in Page : q # p => arriving'[q] = arriving[q] /\ pending'[q] = pending[q]
    BY <1>0, <1>8 DEF Arrive, TypeOK
  <2> QED
    BY <2>1, <2>2
<1>9. CASE Flush(p)
  BY <1>0, <1>9 DEF Flush, wire, TypeOK
<1>10. CASE Autosave(p)
  BY <1>10 DEF Autosave, wire
<1> QED
  BY <1>1, <1>2, <1>3, <1>4, <1>5, <1>6, <1>7, <1>8, <1>9, <1>10 DEF Calm

(***************************************************************************)
(* What a page holds, has sent and has heard is never ahead of its canvas, *)
(* and its updates are relayed from older to newer.                        *)
(***************************************************************************)
Behind(p, e) ==
  /\ AtLeast(canvas[p][e], known[p][e])
  /\ held[p] # Null => AtLeast(canvas[p][e], held[p][e])
  /\ AllBelow(relaying[p], e, canvas[p][e])
  /\ held[p] # Null => AllBelow(relaying[p], e, held[p][e])
  /\ Rising(relaying[p], e)

PageInv == \A p \in Page : \A e \in Element : Behind(p, e)

LEMMA Raise ==
  ASSUME NEW s \in Seq(Scene), NEW e \in Element, NEW a \in Stamp, NEW b \in Stamp,
         AtLeast(b, a), AllBelow(s, e, a)
  PROVE  AllBelow(s, e, b)
<1>1. \A i \in DOMAIN s : s[i] \in Scene /\ s[i][e] \in Stamp
  BY DEF Scene
<1> QED
  BY <1>1, Order DEF AllBelow

LEMMA PageStep ==
  ASSUME TypeInv, TypeInv', WireInv, PageInv, NEW p \in Page, Calm(p)
  PROVE  PageInv'
<1> SUFFICES ASSUME NEW q \in Page, NEW e \in Element
             PROVE  Behind(q, e)'
  BY DEF PageInv
<1>0. /\ TypeOK /\ Behind(q, e)
      /\ canvas[q][e] \in Stamp /\ canvas'[q][e] \in Stamp /\ known[q][e] \in Stamp /\ pending[q][e] \in Stamp
      /\ held[q] # Null => held[q] \in Scene /\ held[q][e] \in Stamp
      /\ relaying[q] \in Seq(Scene)
  BY DEF PageInv, TypeInv, TypeOK, Scene
<1>1. CASE Fetch(p)
  <2>1. CASE q = p
    <3>1. held[p] = Null /\ relaying[p] = <<>>
      BY <1>1 DEF Fetch, TypeInv, Closed, WireInv
    <3>2. canvas'[p] = saved /\ known'[p] = saved /\ saved[e] \in Stamp /\ held'[p] = Null /\ relaying'[p] = <<>>
      BY <1>0, <1>1, <3>1 DEF Fetch, wire, TypeOK, Scene
    <3>3. AtLeast(saved[e], saved[e])
      BY <3>2, Order
    <3> QED
      BY <2>1, <3>2, <3>3 DEF Behind, AllBelow, Rising
  <2>2. CASE q # p
    BY <1>0, <1>1, <2>2 DEF Fetch, wire, TypeOK, Behind
  <2> QED
    BY <2>1, <2>2
<1>2. CASE Join(p)
  BY <1>0, <1>2 DEF Join, wire, Behind
<1>3. ASSUME NEW f \in Element, Edit(p, f) PROVE Behind(q, e)'
  <2>1. AtLeast(canvas'[q][e], canvas[q][e])
    <3>1. [Next]_vars
      BY <1>3 DEF Next
    <3> QED
      BY <3>1, StepGrows
  <2>2. UNCHANGED <<known, held, relaying>>
    BY <1>3 DEF Edit, wire
  <2>3. AllBelow(relaying[q], e, canvas'[q][e])
    BY <1>0, <2>1, Raise DEF Behind
  <2>4. AtLeast(canvas'[q][e], known[q][e])
    BY <1>0, <2>1, Order DEF Behind
  <2>5. held[q] # Null => AtLeast(canvas'[q][e], held[q][e])
    BY <1>0, <2>1, Order DEF Behind
  <2> QED
    BY <1>0, <2>2, <2>3, <2>4, <2>5 DEF Behind
<1>4. CASE Report(p)
  <2>1. held' = [held EXCEPT ![p] = canvas[p]] /\ UNCHANGED <<canvas, known, relaying>>
    BY <1>4 DEF Report, wire
  <2>2. AtLeast(canvas[q][e], canvas[q][e])
    BY <1>0, Order
  <2>3. held'[q] = canvas[q] \/ held'[q] = held[q]
    BY <1>0, <2>1 DEF TypeOK
  <2> QED
    BY <1>0, <2>1, <2>2, <2>3 DEF Behind
<1>5. CASE EmitNothing(p)
  <2>1. held' = [held EXCEPT ![p] = Null] /\ UNCHANGED <<canvas, known, relaying>>
    BY <1>5 DEF EmitNothing, wire
  <2>2. held'[q] = Null \/ held'[q] = held[q]
    BY <1>0, <2>1 DEF TypeOK
  <2> QED
    BY <1>0, <2>1, <2>2 DEF Behind
<1>6. CASE EmitChanges(p)
  <2>1. CASE q = p
    <3> DEFINE c == Changes(p, held[p])
    <3>1. held[p] \in Scene /\ known[p] \in Scene /\ held[p] # Null /\ held[p][e] \in Stamp
      BY <1>0, <1>6, <2>1 DEF EmitChanges, TypeOK
    <3>2. c \in Scene /\ (Told(c, e) => c[e] = held[p][e])
      BY <1>0, <3>1, Changed DEF TypeOK
    <3>3. /\ known' = [known EXCEPT ![p] = Overlay(known[p], c)]
          /\ relaying' = [relaying EXCEPT ![p] = Append(relaying[p], c)] \/ relaying' = relaying
          /\ held' = [held EXCEPT ![p] = Null]
          /\ UNCHANGED canvas
      BY <1>6 DEF EmitChanges
    <3> HIDE DEF c
    <3>4. known'[p] = Overlay(known[p], c) /\ held'[p] = Null
      BY <1>0, <3>3 DEF TypeOK
    <3>5. known'[p][e] = IF Told(c, e) THEN c[e] ELSE known[p][e]
      BY <3>1, <3>2, <3>4, Overlaid
    <3>6. AtLeast(canvas[p][e], held[p][e]) /\ AllBelow(relaying[p], e, held[p][e])
      BY <1>0, <2>1, <3>1 DEF Behind
    <3>7. relaying'[p] = Append(relaying[p], c) \/ relaying'[p] = relaying[p]
      BY <1>0, <3>3 DEF TypeOK
    <3>8. relaying[p] \in Seq(Scene)
      BY <1>0, <2>1
    <3>9. Rising(relaying[p], e) => Rising(Append(relaying[p], c), e)
      BY <3>2, <3>6, <3>8, AppendTells
    <3>10. AllBelow(relaying[p], e, canvas[p][e]) => AllBelow(Append(relaying[p], c), e, canvas[p][e])
      BY <3>2, <3>6, <3>8, AppendTells
    <3> QED
      BY <1>0, <2>1, <3>2, <3>3, <3>4, <3>5, <3>6, <3>7, <3>9, <3>10 DEF Behind
  <2>2. CASE q # p
    BY <1>0, <1>6, <2>2 DEF EmitChanges, TypeOK, Behind
  <2> QED
    BY <2>1, <2>2
<1>7. CASE relaying[p] # <<>> /\ Passes(p, 1)
  <2>1. relaying' = [relaying EXCEPT ![p] = Tail(relaying[p])] /\ UNCHANGED <<canvas, known, held>>
    BY <1>7, PassesFirst
  <2>2. CASE q = p
    <3>1. relaying'[p] = Tail(relaying[p]) /\ relaying[p] \in Seq(Scene) /\ relaying[p] # <<>>
      BY <1>0, <1>7, <2>1, <2>2 DEF TypeOK
    <3>2. /\ \A x : AllBelow(relaying[p], e, x) => AllBelow(Tail(relaying[p]), e, x)
          /\ Rising(relaying[p], e) => Rising(Tail(relaying[p]), e)
      BY <3>1, TailTells
    <3> QED
      BY <1>0, <2>1, <2>2, <3>1, <3>2 DEF Behind
  <2>3. CASE q # p
    BY <1>0, <2>1, <2>3 DEF Behind, TypeOK
  <2> QED
    BY <2>2, <2>3
<1>8. CASE Arrive(p)
  BY <1>0, <1>8 DEF Arrive, Behind
<1>9. CASE Flush(p)
  <2>1. CASE q = p
    <3>1. /\ canvas[p] \in Scene /\ known[p] \in Scene /\ pending[p] \in Scene
          /\ canvas'[p] = Reconcile(canvas[p], pending[p])
          /\ known'[p] = Overlay(known[p], pending[p])
          /\ UNCHANGED <<held, relaying>>
      BY <1>0, <1>9 DEF Flush, wire, TypeOK
    <3>2. /\ AtLeast(canvas'[p][e], canvas[p][e])
          /\ Told(pending[p], e) => AtLeast(canvas'[p][e], pending[p][e])
      BY <3>1, Merged
    <3>3. known'[p][e] = IF Told(pending[p], e) THEN pending[p][e] ELSE known[p][e]
      BY <3>1, Overlaid
    <3>4. AtLeast(canvas'[p][e], known'[p][e])
      <4>1. AtLeast(canvas'[p][e], known[p][e])
        BY <1>0, <2>1, <3>2, Order DEF Behind
      <4> QED
        BY <3>2, <3>3, <4>1
    <3>5. held[p] # Null => AtLeast(canvas'[p][e], held[p][e])
      BY <1>0, <2>1, <3>2, Order DEF Behind
    <3>6. AllBelow(relaying[p], e, canvas'[p][e])
      BY <1>0, <2>1, <3>2, Raise DEF Behind
    <3> QED
      BY <1>0, <2>1, <3>1, <3>4, <3>5, <3>6 DEF Behind
  <2>2. CASE q # p
    BY <1>0, <1>9, <2>2 DEF Flush, wire, TypeOK, Behind
  <2> QED
    BY <2>1, <2>2
<1>10. CASE Autosave(p)
  BY <1>0, <1>10 DEF Autosave, wire, Behind
<1> QED
  BY <1>1, <1>2, <1>3, <1>4, <1>5, <1>6, <1>7, <1>8, <1>9, <1>10 DEF Calm

(***************************************************************************)
(* Until the first edit all pages show what was loaded.                    *)
(***************************************************************************)
FreshPage(p) ==
  /\ Shown(p) => canvas[p] = saved /\ known[p] = saved /\ held[p] \in {Null, saved}
  /\ relaying[p] = <<>> /\ arriving[p] = <<>> /\ pending[p] = Nothing /\ unsaved[p] = Null

FreshInv == edits = 0 => \A p \in Page : FreshPage(p)

LEMMA FreshStep ==
  ASSUME TypeInv, FreshInv, NEW p \in Page, Calm(p)
  PROVE  FreshInv'
<1> SUFFICES ASSUME edits' = 0, NEW q \in Page
             PROVE  FreshPage(q)'
  BY DEF FreshInv
<1>1. TypeOK
  BY DEF TypeInv
<1>2. ASSUME NEW f \in Element, Edit(p, f) PROVE FALSE
  BY <1>1, <1>2 DEF Edit, TypeOK
<1>3. edits = 0
  BY <1>2 DEF Calm, Fetch, Join, Report, EmitNothing, EmitChanges, Passes, Arrive, Flush, Autosave,
       user
<1>4. FreshPage(p) /\ FreshPage(q)
  BY <1>3 DEF FreshInv
<1>5. CASE Fetch(p)
  <2>1. /\ canvas' = [canvas EXCEPT ![p] = saved] /\ known' = [known EXCEPT ![p] = saved]
        /\ mode' = [mode EXCEPT ![p] = "fetched"] /\ mode[p] = "closed"
        /\ UNCHANGED <<held, relaying, arriving, pending, unsaved, saved>>
    BY <1>5 DEF Fetch, wire, db
  <2>2. CASE q = p
    <3>1. held[p] = Null
      BY <2>1 DEF TypeInv, Closed
    <3>2. canvas'[p] = saved /\ known'[p] = saved
      BY <1>1, <2>1 DEF TypeOK
    <3> QED
      BY <1>4, <2>1, <2>2, <3>1, <3>2 DEF FreshPage
  <2>3. CASE q # p
    BY <1>1, <1>4, <2>1, <2>3 DEF FreshPage, Shown, TypeOK
  <2> QED
    BY <2>2, <2>3
<1>6. CASE Join(p)
  BY <1>1, <1>4, <1>6 DEF Join, wire, db, FreshPage, Shown, TypeOK
<1>7. CASE Report(p)
  BY <1>1, <1>4, <1>7 DEF Report, wire, db, FreshPage, Shown, TypeOK
<1>8. CASE EmitNothing(p)
  BY <1>1, <1>4, <1>8 DEF EmitNothing, wire, db, FreshPage, Shown, TypeOK
<1>9. CASE EmitChanges(p)
  <2>1. held[p] # Null /\ Changes(p, held[p]) # Nothing
    BY <1>9 DEF EmitChanges
  <2>2. Shown(p)
    BY <1>1, <2>1 DEF Shown, TypeInv, Closed, TypeOK
  <2>3. held[p] = known[p]
    BY <1>4, <2>1, <2>2 DEF FreshPage
  <2> QED
    BY <2>1, <2>3 DEF Changes, Nothing
<1>10. CASE relaying[p] # <<>> /\ Passes(p, 1)
  BY <1>4, <1>10 DEF FreshPage
<1>11. CASE Arrive(p)
  BY <1>4, <1>11 DEF FreshPage, Arrive
<1>12. CASE Flush(p)
  BY <1>4, <1>12 DEF FreshPage, Flush
<1>13. CASE Autosave(p)
  BY <1>4, <1>13 DEF FreshPage, Autosave
<1> QED
  BY <1>2, <1>5, <1>6, <1>7, <1>8, <1>9, <1>10, <1>11, <1>12, <1>13 DEF Calm

-----------------------------------------------------------------------------
(***************************************************************************)
(* The last word on an element: a stamp that every page in the room shows, *)
(* or has beaten, or is going to hear last; and any newer state somewhere  *)
(* in the room is owed to the others by an editor's page that shows it.    *)
(***************************************************************************)
Room == {p \in Page : mode[p] = "joined"}

\* What the page has been sent last, and not merged.
LastIn(q, e, x) ==
  x # Absent /\ (LastOf(arriving[q], e, x) \/ (Silent(arriving[q], e) /\ pending[q][e] = x))

\* What the page is going to take for known to the others.
WillKnow(q, e, x) ==
  \/ LastIn(q, e, x)
  \/ Silent(arriving[q], e) /\ ~ Told(pending[q], e) /\ known[q][e] = x

Seen(q, e, s) ==
  \/ AtLeast(canvas[q][e], s) \/ AtLeast(pending[q][e], s)
  \/ SomeAbove(arriving[q], e, s)

\* The page has sent, or is going to send, a state as new as s.
Owes(r, e, s) ==
  /\ AtLeast(canvas[r][e], s)
  /\ SomeAbove(relaying[r], e, s) \/ \A x : WillKnow(r, e, x) => Older(x, s)

\* All that the page says about the element is as new as w.
Says(p, e, w) ==
  /\ AtLeast(canvas[p][e], w)
  /\ held[p] # Null => AtLeast(held[p][e], w)
  /\ AllAbove(relaying[p], e, w)

Reaches(e, w) == \A q \in Room : AtLeast(canvas[q][e], w) \/ LastIn(q, e, w)

Owed(e, w) == \A s \in Stamp :
  Older(w, s) /\ (\E q \in Room : Seen(q, e, s)) => \E r \in Room \cap Editor : Owes(r, e, s)

Said(e, w) == (\E p \in Room \cap Editor : Says(p, e, w)) \/ (\A p \in Room : Says(p, e, w))

LastWord(e, w) == Reaches(e, w) /\ Owed(e, w) /\ Said(e, w)

WordInv == \A e \in Element : \E w \in Stamp : LastWord(e, w)

\* Nothing that concerns the room has changed.
LEMMA WordSame ==
  ASSUME NEW e \in Element, NEW w \in Stamp, LastWord(e, w), Room' = Room,
         \A q \in Room : /\ canvas'[q] = canvas[q] /\ known'[q] = known[q] /\ held'[q] = held[q]
                         /\ relaying'[q] = relaying[q] /\ arriving'[q] = arriving[q]
                         /\ pending'[q] = pending[q]
  PROVE  LastWord(e, w)'
<1>1. ASSUME NEW q \in Room, NEW x
      PROVE  /\ LastIn(q, e, x)' <=> LastIn(q, e, x)
             /\ WillKnow(q, e, x)' <=> WillKnow(q, e, x)
             /\ Seen(q, e, x)' <=> Seen(q, e, x)
             /\ Says(q, e, x)' <=> Says(q, e, x)
  BY DEF LastIn, WillKnow, Seen, Says
<1>2. Reaches(e, w)'
  BY <1>1 DEF Reaches, LastWord
<1>3. ASSUME NEW s \in Stamp, NEW r \in Room, Owes(r, e, s)
      PROVE  Owes(r, e, s)'
  BY <1>1, <1>3 DEF Owes
<1>4. Owed(e, w)'
  <2> SUFFICES ASSUME NEW s \in Stamp, Older(w, s), NEW q \in Room, Seen(q, e, s)'
               PROVE  \E r \in Room \cap Editor : Owes(r, e, s)'
    BY DEF Owed
  <2>1. PICK r \in Room \cap Editor : Owes(r, e, s)
    BY <1>1 DEF LastWord, Owed
  <2> QED
    BY <1>3, <2>1
<1>5. Said(e, w)'
  BY <1>1 DEF Said, LastWord
<1> QED
  BY <1>2, <1>4, <1>5 DEF LastWord

\* Pages that all show what was loaded agree on it.
LEMMA WordFresh == TypeInv /\ FreshInv /\ edits = 0 => WordInv
<1> SUFFICES ASSUME TypeInv, FreshInv, edits = 0, NEW e \in Element
             PROVE  LastWord(e, saved[e])
  BY DEF WordInv, TypeInv, TypeOK, Scene
<1> DEFINE w == saved[e]
<1>1. w \in Stamp /\ AtLeast(w, w)
  BY Order DEF TypeInv, TypeOK, Scene
<1>2. \A q \in Room : /\ canvas[q] = saved /\ held[q] \in {Null, saved}
                      /\ relaying[q] = <<>> /\ arriving[q] = <<>> /\ pending[q] = Nothing
  BY DEF Room, FreshInv, FreshPage, Shown
<1>3. Reaches(e, w)
  BY <1>1, <1>2 DEF Reaches
<1>4. \A q \in Room : Says(q, e, w)
  BY <1>1, <1>2 DEF Says, AllAbove
<1>5. ASSUME NEW s \in Stamp, Older(w, s), NEW q \in Room
      PROVE  ~ Seen(q, e, s)
  <2>1. ~ AtLeast(w, s) /\ ~ AtLeast(Absent, s)
    <3>1. AtLeast(w, Absent) /\ Absent \in Stamp
      BY <1>1, Order, AbsentStamp
    <3> QED
      BY <1>1, <1>5, <3>1, Order
  <2> QED
    BY <1>2, <2>1, AbsentStamp DEF Seen, SomeAbove
<1> QED
  BY <1>3, <1>4, <1>5 DEF LastWord, Owed, Said

LEMMA WordEdit ==
  ASSUME TypeInv, TypeInv', PageInv, NEW p \in Page, NEW f \in Element, Edit(p, f),
         NEW e \in Element, NEW w \in Stamp, LastWord(e, w)
  PROVE  LastWord(e, w)'
<1>1. UNCHANGED <<known, held, relaying, arriving, pending>> /\ Room' = Room /\ p \in Editor
  BY DEF Edit, wire, Room
<1>2. \A q \in Room : /\ canvas[q][e] \in Stamp /\ canvas'[q][e] \in Stamp
                      /\ known[q][e] \in Stamp /\ AtLeast(canvas'[q][e], canvas[q][e])
                      /\ AtLeast(canvas[q][e], known[q][e])
  <2> SUFFICES ASSUME NEW q \in Room
               PROVE  /\ canvas[q][e] \in Stamp /\ canvas'[q][e] \in Stamp
                      /\ known[q][e] \in Stamp /\ AtLeast(canvas'[q][e], canvas[q][e])
                      /\ AtLeast(canvas[q][e], known[q][e])
    OBVIOUS
  <2>1. q \in Page /\ [Next]_vars
    BY DEF Room, Next
  <2>2. AtLeast(canvas'[q][e], canvas[q][e])
    BY <2>1, StepGrows
  <2> QED
    BY <2>1, <2>2 DEF TypeInv, TypeOK, Scene, PageInv, Behind
<1>3. \A q \in Page : q # p => canvas'[q] = canvas[q]
  BY Edited DEF TypeInv
<1>4. ASSUME NEW q \in Room, NEW s \in Stamp, AtLeast(canvas[q][e], s)
      PROVE  AtLeast(canvas'[q][e], s)
  BY <1>2, <1>4, Order
<1>5. Reaches(e, w)'
  BY <1>1, <1>4 DEF Reaches, LastIn, LastWord
<1>6. Said(e, w)'
  BY <1>1, <1>4 DEF Said, Says, LastWord
<1>7. Owed(e, w)'
  <2> SUFFICES ASSUME NEW s \in Stamp, Older(w, s), NEW q \in Room, Seen(q, e, s)'
               PROVE  \E r \in Room \cap Editor : Owes(r, e, s)'
    BY <1>1 DEF Owed
  <2>1. CASE \E o \in Room : Seen(o, e, s)
    <3>1. PICK r \in Room \cap Editor : Owes(r, e, s)
      BY <2>1 DEF LastWord, Owed
    <3>2. Owes(r, e, s)'
      BY <1>1, <1>4, <3>1 DEF Owes, WillKnow, LastIn
    <3> QED
      BY <3>1, <3>2
  <2>2. CASE ~ \E o \in Room : Seen(o, e, s)
    <3>1. q = p /\ AtLeast(canvas'[p][e], s)
      BY <1>1, <1>3, <2>2 DEF Seen, Room
    <3>2. p \in Room /\ ~ Seen(p, e, s)
      BY <2>2, <3>1
    <3>3. /\ pending[p][e] \in Stamp /\ known[p][e] \in Stamp /\ canvas[p][e] \in Stamp
          /\ \A i \in DOMAIN arriving[p] : arriving[p][i][e] \in Stamp
      BY DEF TypeInv, TypeOK, Scene
    <3>4. ASSUME NEW x, WillKnow(p, e, x)
          PROVE  Older(x, s)
      <4>1. CASE LastIn(p, e, x)
        <5>1. CASE LastOf(arriving[p], e, x)
          BY <3>2, <4>1, <5>1 DEF LastIn, LastOf, Seen, SomeAbove, Told, AtLeast
        <5>2. CASE pending[p][e] = x
          BY <3>2, <5>2 DEF Seen, AtLeast
        <5> QED
          BY <4>1, <5>1, <5>2 DEF LastIn
      <4>2. CASE known[p][e] = x
        <5>1. Older(canvas[p][e], s) /\ AtLeast(canvas[p][e], known[p][e])
          BY <1>2, <3>2 DEF Seen, AtLeast
        <5> QED
          BY <3>3, <4>2, <5>1, Order
      <4> QED
        BY <3>4, <4>1, <4>2 DEF WillKnow
    <3>5. Owes(p, e, s)'
      BY <1>1, <3>1, <3>4 DEF Owes, WillKnow, LastIn
    <3> QED
      BY <1>1, <3>2, <3>5
  <2> QED
    BY <2>1, <2>2
<1> QED
  BY <1>5, <1>6, <1>7 DEF LastWord

LEMMA WordHold ==
  ASSUME TypeInv, NEW p \in Page, Report(p) \/ EmitNothing(p),
         NEW e \in Element, NEW w \in Stamp, LastWord(e, w)
  PROVE  LastWord(e, w)'
<1>1. UNCHANGED <<canvas, known, relaying, arriving, pending>> /\ Room' = Room
  BY DEF Report, EmitNothing, wire, Room
<1>2. \A q \in Room : held'[q] \in {held[q], canvas[q], Null}
  BY DEF Report, EmitNothing, Room, TypeInv, TypeOK
<1>3. Reaches(e, w)' /\ Owed(e, w)'
  BY <1>1 DEF Reaches, Owed, Owes, WillKnow, LastIn, Seen, LastWord
<1>4. \A q \in Room : Says(q, e, w) => Says(q, e, w)'
  BY <1>1, <1>2 DEF Says
<1> QED
  BY <1>1, <1>3, <1>4 DEF LastWord, Said

LEMMA WordEmit ==
  ASSUME TypeInv, NEW p \in Page, EmitChanges(p),
         NEW e \in Element, NEW w \in Stamp, LastWord(e, w)
  PROVE  LastWord(e, w)'
<1> DEFINE c == Changes(p, held[p])
<1>0. TypeOK
  BY DEF TypeInv
<1>1. held[p] \in Scene /\ known[p] \in Scene /\ held[p] # Null /\ relaying[p] \in Seq(Scene)
      /\ held[p][e] \in Stamp
  BY <1>0 DEF EmitChanges, TypeOK, Scene
<1>2. c \in Scene /\ (Told(c, e) => c[e] = held[p][e])
  BY <1>0, <1>1, Changed DEF TypeOK
<1>3. /\ known' = [known EXCEPT ![p] = Overlay(known[p], c)]
      /\ relaying' = [relaying EXCEPT ![p] = Append(relaying[p], c)] \/ (p \notin Room /\ relaying' = relaying)
      /\ held' = [held EXCEPT ![p] = Null]
      /\ UNCHANGED <<canvas, arriving, pending>> /\ Room' = Room
  BY DEF EmitChanges, Room
<1> HIDE DEF c
<1>4. /\ held'[p] = Null
      /\ known'[p][e] = IF Told(c, e) THEN held[p][e] ELSE known[p][e]
      /\ p \in Room => relaying'[p] = Append(relaying[p], c)
  BY <1>0, <1>1, <1>2, <1>3, Overlaid DEF TypeOK
<1>5. \A q \in Page : q # p => held'[q] = held[q] /\ known'[q] = known[q] /\ relaying'[q] = relaying[q]
  BY <1>0, <1>3 DEF TypeOK
<1>6. ASSUME NEW q \in Room, NEW x
      PROVE  (LastIn(q, e, x)' <=> LastIn(q, e, x)) /\ (Seen(q, e, x)' <=> Seen(q, e, x))
  BY <1>3 DEF LastIn, Seen
<1>7. Reaches(e, w)'
  BY <1>3, <1>6 DEF Reaches, LastWord
<1>8. ASSUME NEW q \in Room, Says(q, e, w)
      PROVE  Says(q, e, w)'
  <2>1. CASE q = p
    <3>1. AllAbove(relaying[p], e, w) /\ AtLeast(held[p][e], w) /\ AtLeast(canvas[p][e], w)
      BY <1>1, <1>8, <2>1 DEF Says
    <3>2. AllAbove(Append(relaying[p], c), e, w)
      BY <1>1, <1>2, <3>1, AppendTells
    <3> QED
      BY <1>3, <1>4, <2>1, <3>1, <3>2 DEF Says
  <2>2. CASE q # p
    BY <1>3, <1>5, <1>8, <2>2 DEF Says, Room
  <2> QED
    BY <2>1, <2>2
<1>9. Said(e, w)'
  BY <1>3, <1>8 DEF Said, LastWord
<1>10. ASSUME NEW s \in Stamp, NEW r \in Room, Owes(r, e, s)
       PROVE  Owes(r, e, s)'
  <2>1. AtLeast(canvas'[r][e], s)
    BY <1>3, <1>10 DEF Owes
  <2>2. CASE r # p
    BY <1>3, <1>5, <1>6, <1>10, <2>2 DEF Owes, WillKnow, Room
  <2>3. CASE r = p /\ (SomeAbove(relaying[p], e, s) \/ (Told(c, e) /\ AtLeast(c[e], s)))
    <3>1. SomeAbove(Append(relaying[p], c), e, s)
      BY <1>1, <1>2, <2>3, AppendTells
    <3> QED
      BY <1>4, <2>1, <2>3, <3>1 DEF Owes
  <2>4. CASE r = p /\ ~ SomeAbove(relaying[p], e, s) /\ ~ (Told(c, e) /\ AtLeast(c[e], s))
    <3>1. \A x : WillKnow(p, e, x) => Older(x, s)
      BY <1>10, <2>4 DEF Owes
    <3>2. Told(c, e) => Older(held[p][e], s)
      BY <1>2, <2>4 DEF AtLeast
    <3>3. ASSUME NEW x, WillKnow(p, e, x)'
          PROVE  Older(x, s)
      <4>1. CASE LastIn(p, e, x)
        BY <3>1, <4>1 DEF WillKnow
      <4>2. CASE ~ LastIn(p, e, x)
        <5>1. Silent(arriving[p], e) /\ ~ Told(pending[p], e) /\ known'[p][e] = x
          BY <1>3, <1>6, <2>4, <3>3, <4>2 DEF WillKnow
        <5> QED
          BY <1>4, <3>1, <3>2, <5>1 DEF WillKnow
      <4> QED
        BY <4>1, <4>2
    <3> QED
      BY <2>1, <2>4, <3>3 DEF Owes
  <2> QED
    BY <2>2, <2>3, <2>4
<1>11. Owed(e, w)'
  <2> SUFFICES ASSUME NEW s \in Stamp, Older(w, s), NEW q \in Room, Seen(q, e, s)'
               PROVE  \E r \in Room \cap Editor : Owes(r, e, s)'
    BY <1>3 DEF Owed
  <2>1. PICK r \in Room \cap Editor : Owes(r, e, s)
    BY <1>6 DEF LastWord, Owed
  <2> QED
    BY <1>10, <2>1
<1> QED
  BY <1>7, <1>9, <1>11 DEF LastWord

LEMMA WordArrive ==
  ASSUME TypeInv, WireInv, NEW p \in Page, Arrive(p),
         NEW e \in Element, NEW w \in Stamp, LastWord(e, w)
  PROVE  LastWord(e, w)'
<1> DEFINE h == Head(arriving[p])
<1>0. TypeOK
  BY DEF TypeInv
<1>1. arriving[p] \in Seq(Scene) /\ arriving[p] # <<>> /\ pending[p] \in Scene /\ h \in Scene
  <2>1. arriving[p] \in Seq(Scene) /\ arriving[p] # <<>> /\ pending[p] \in Scene
    BY <1>0 DEF Arrive, TypeOK
  <2> QED
    BY <2>1, OneLess
<1>2. /\ pending' = [pending EXCEPT ![p] = Overlay(pending[p], h)]
      /\ arriving' = [arriving EXCEPT ![p] = Tail(arriving[p])]
      /\ UNCHANGED <<canvas, known, held, relaying>> /\ Room' = Room
  BY DEF Arrive, Room
<1>3. /\ Silent(arriving[p], e) <=> Silent(Tail(arriving[p]), e) /\ ~ Told(h, e)
      /\ \A x : x # Absent =>
           (LastOf(arriving[p], e, x) <=> \/ LastOf(Tail(arriving[p]), e, x)
                                          \/ Silent(Tail(arriving[p]), e) /\ h[e] = x)
      /\ \A x : SomeAbove(arriving[p], e, x) <=>
           SomeAbove(Tail(arriving[p]), e, x) \/ (Told(h, e) /\ AtLeast(h[e], x))
  BY <1>1, TailTells
<1> HIDE DEF h
<1>4. /\ pending'[p][e] = IF Told(h, e) THEN h[e] ELSE pending[p][e]
      /\ arriving'[p] = Tail(arriving[p])
      /\ \A q \in Page : q # p => pending'[q] = pending[q] /\ arriving'[q] = arriving[q]
  BY <1>0, <1>1, <1>2, Overlaid DEF TypeOK
<1>5. /\ (Silent(arriving'[p], e) /\ ~ Told(pending'[p], e)) <=> (Silent(arriving[p], e) /\ ~ Told(pending[p], e))
      /\ \A x : LastIn(p, e, x)' <=> LastIn(p, e, x)
      /\ \A x : Seen(p, e, x)' => Seen(p, e, x)
  <2>1. (Silent(arriving'[p], e) /\ ~ Told(pending'[p], e)) <=> (Silent(arriving[p], e) /\ ~ Told(pending[p], e))
    BY <1>3, <1>4 DEF Told
  <2>2. ASSUME NEW x PROVE LastIn(p, e, x)' <=> LastIn(p, e, x)
    BY <1>3, <1>4 DEF LastIn, Told
  <2>3. ASSUME NEW x PROVE Seen(p, e, x)' => Seen(p, e, x)
    BY <1>2, <1>3, <1>4 DEF Seen
  <2> QED
    BY <2>1, <2>2, <2>3
<1>6. ASSUME NEW q \in Room, NEW x
      PROVE  /\ LastIn(q, e, x)' <=> LastIn(q, e, x)
             /\ WillKnow(q, e, x)' <=> WillKnow(q, e, x)
             /\ Seen(q, e, x)' => Seen(q, e, x)
             /\ Says(q, e, x)' <=> Says(q, e, x)
  <2>1. CASE q = p
    BY <1>2, <1>5, <2>1 DEF WillKnow, Says
  <2>2. CASE q # p
    BY <1>2, <1>4, <2>2 DEF LastIn, WillKnow, Seen, Says, Room
  <2> QED
    BY <2>1, <2>2
<1>7. Reaches(e, w)' /\ Said(e, w)'
  BY <1>2, <1>6 DEF Reaches, Said, LastWord
<1>8. ASSUME NEW s \in Stamp, NEW r \in Room, Owes(r, e, s)
      PROVE  Owes(r, e, s)'
  BY <1>2, <1>6, <1>8 DEF Owes
<1>9. Owed(e, w)'
  <2> SUFFICES ASSUME NEW s \in Stamp, Older(w, s), NEW q \in Room, Seen(q, e, s)'
               PROVE  \E r \in Room \cap Editor : Owes(r, e, s)'
    BY <1>2 DEF Owed
  <2>1. PICK r \in Room \cap Editor : Owes(r, e, s)
    BY <1>6 DEF LastWord, Owed
  <2> QED
    BY <1>8, <2>1
<1> QED
  BY <1>7, <1>9 DEF LastWord

LEMMA WordFlush ==
  ASSUME TypeInv, WireInv, NEW p \in Page, Flush(p),
         NEW e \in Element, NEW w \in Stamp, LastWord(e, w)
  PROVE  LastWord(e, w)'
<1>0. TypeOK
  BY DEF TypeInv
<1>1. canvas[p] \in Scene /\ known[p] \in Scene /\ pending[p] \in Scene /\ p \in Room
  BY <1>0 DEF TypeOK, Flush, WireInv, Room
<1>2. /\ canvas' = [canvas EXCEPT ![p] = Reconcile(canvas[p], pending[p])]
      /\ known' = [known EXCEPT ![p] = Overlay(known[p], pending[p])]
      /\ pending' = [pending EXCEPT ![p] = Nothing]
      /\ UNCHANGED <<held, relaying, arriving>> /\ Room' = Room
  BY DEF Flush, wire, Room
<1>3. /\ canvas'[p] = Reconcile(canvas[p], pending[p])
      /\ known'[p][e] = IF Told(pending[p], e) THEN pending[p][e] ELSE known[p][e]
      /\ pending'[p][e] = Absent
      /\ \A q \in Page : q # p =>
           canvas'[q] = canvas[q] /\ known'[q] = known[q] /\ pending'[q] = pending[q]
  BY <1>0, <1>1, <1>2, Overlaid, AbsentStamp DEF TypeOK
<1>4. /\ canvas'[p][e] \in {canvas[p][e], pending[p][e]}
      /\ AtLeast(canvas'[p][e], canvas[p][e])
      /\ Told(pending[p], e) => AtLeast(canvas'[p][e], pending[p][e])
  BY <1>1, <1>3, Merged
<1>5. canvas[p][e] \in Stamp /\ canvas'[p][e] \in Stamp
  BY <1>1, <1>4 DEF Scene
<1>6. ASSUME NEW q \in Room, NEW s \in Stamp, AtLeast(canvas[q][e], s)
      PROVE  AtLeast(canvas'[q][e], s)
  BY <1>3, <1>4, <1>5, <1>6, Order DEF Room
<1>7. ASSUME NEW q \in Room, AtLeast(canvas[q][e], w) \/ LastIn(q, e, w)
      PROVE  AtLeast(canvas'[q][e], w) \/ LastIn(q, e, w)'
  <2>1. CASE q = p
    BY <1>2, <1>4, <1>6, <1>7, <2>1 DEF LastIn, Told
  <2>2. CASE q # p
    BY <1>2, <1>3, <1>7, <2>2 DEF LastIn, Room
  <2> QED
    BY <2>1, <2>2
<1>8. Reaches(e, w)'
  BY <1>2, <1>7 DEF Reaches, LastWord
<1>9. Said(e, w)'
  <2>1. \A q \in Room : Says(q, e, w) => Says(q, e, w)'
    BY <1>2, <1>6 DEF Says
  <2> QED
    BY <1>2, <2>1 DEF Said, LastWord
<1>10. ASSUME NEW q \in Room, NEW x, WillKnow(q, e, x)'
       PROVE  WillKnow(q, e, x)
  <2>1. CASE q = p
    BY <1>2, <1>3, <1>10, <2>1 DEF WillKnow, LastIn, Told
  <2>2. CASE q # p
    BY <1>2, <1>3, <1>10, <2>2 DEF WillKnow, LastIn, Room
  <2> QED
    BY <2>1, <2>2
<1>11. Owed(e, w)'
  <2> SUFFICES ASSUME NEW s \in Stamp, Older(w, s), NEW q \in Room, Seen(q, e, s)'
               PROVE  \E r \in Room \cap Editor : Owes(r, e, s)'
    BY <1>2 DEF Owed
  <2>1. ~ AtLeast(Absent, s)
    <3>1. AtLeast(w, Absent) /\ Absent \in Stamp
      BY Order, AbsentStamp
    <3> QED
      BY <3>1, Order
  <2>2. Seen(q, e, s)
    <3>1. CASE q = p
      BY <1>2, <1>3, <1>4, <2>1, <3>1 DEF Seen
    <3>2. CASE q # p
      BY <1>2, <1>3, <3>2 DEF Seen, Room
    <3> QED
      BY <3>1, <3>2
  <2>3. PICK r \in Room \cap Editor : Owes(r, e, s)
    BY <2>2 DEF LastWord, Owed
  <2>4. Owes(r, e, s)'
    BY <1>2, <1>6, <1>10, <2>3 DEF Owes
  <2> QED
    BY <2>3, <2>4
<1> QED
  BY <1>8, <1>9, <1>11 DEF LastWord

\* The oldest update of a page that tells of the element is the last word
\* once the server has relayed it.
LEMMA WordRelay ==
  ASSUME TypeInv, WireInv, PageInv, NEW p \in Page, relaying[p] # <<>>, Passes(p, 1),
         NEW e \in Element, NEW w \in Stamp, LastWord(e, w)
  PROVE  \E v \in Stamp : LastWord(e, v)'
<1> DEFINE h == Head(relaying[p])
<1>0. TypeOK /\ p \in Room /\ p \in Editor /\ Room' = Room
  BY PassesFirst DEF TypeInv, WireInv, Room
<1>1. /\ relaying[p] \in Seq(Scene) /\ h \in Scene
      /\ relaying'[p] = Tail(relaying[p])
      /\ \A q \in Page : q # p => relaying'[q] = relaying[q]
      /\ arriving'[p] = arriving[p]
      /\ \A q \in Room : q # p => arriving'[q] = Append(arriving[q], h)
      /\ UNCHANGED <<canvas, known, held, pending>>
  BY <1>0, PassesFirst DEF TypeOK, Room
<1>2. /\ \A x : SomeAbove(relaying[p], e, x) <=>
           SomeAbove(Tail(relaying[p]), e, x) \/ (Told(h, e) /\ AtLeast(h[e], x))
      /\ \A x : AllAbove(relaying[p], e, x) => AllAbove(Tail(relaying[p]), e, x)
      /\ \A x : AllBelow(relaying[p], e, x) => (Told(h, e) => AtLeast(x, h[e]))
      /\ Rising(relaying[p], e) => (Told(h, e) => AllAbove(Tail(relaying[p]), e, h[e]))
  BY <1>1, TailTells
<1> HIDE DEF h
<1>3. PICK v \in Stamp : (Told(h, e) => v = h[e]) /\ (~ Told(h, e) => v = w)
  BY <1>1 DEF Scene
<1>4. ASSUME NEW q \in Room, q # p
      PROVE  /\ Silent(arriving'[q], e) <=> Silent(arriving[q], e) /\ ~ Told(h, e)
             /\ \A x : x # Absent =>
                  (LastOf(arriving'[q], e, x) <=> IF Told(h, e) THEN x = h[e] ELSE LastOf(arriving[q], e, x))
             /\ \A x : SomeAbove(arriving'[q], e, x) <=>
                  SomeAbove(arriving[q], e, x) \/ (Told(h, e) /\ AtLeast(h[e], x))
  <2>1. arriving[q] \in Seq(Scene) /\ arriving'[q] = Append(arriving[q], h)
    BY <1>0, <1>1, <1>4 DEF TypeOK, Room
  <2> QED
    BY <1>1, <2>1, AppendTells
<1>5. \A x : (LastIn(p, e, x)' <=> LastIn(p, e, x)) /\ (WillKnow(p, e, x)' <=> WillKnow(p, e, x))
  BY <1>1 DEF LastIn, WillKnow
<1>6. ASSUME NEW q \in Room, q # p
      PROVE  /\ Told(h, e) => LastIn(q, e, v)' /\ \A x : WillKnow(q, e, x)' => x = v
             /\ ~ Told(h, e) => \A x : /\ LastIn(q, e, x)' <=> LastIn(q, e, x)
                                       /\ WillKnow(q, e, x)' <=> WillKnow(q, e, x)
  <2>1. ASSUME Told(h, e)
        PROVE  LastIn(q, e, v)' /\ \A x : WillKnow(q, e, x)' => x = v
    <3>1. h[e] = v /\ v # Absent /\ ~ Silent(arriving'[q], e)
      BY <1>3, <1>4, <1>6, <2>1 DEF Told
    <3>2. LastOf(arriving'[q], e, v)
      BY <1>4, <1>6, <2>1, <3>1
    <3>3. ASSUME NEW x, WillKnow(q, e, x)'
          PROVE  x = v
      <4>1. x # Absent /\ LastOf(arriving'[q], e, x)
        BY <3>1, <3>3 DEF WillKnow, LastIn
      <4>2. LastOf(arriving'[q], e, x) <=> IF Told(h, e) THEN x = h[e] ELSE LastOf(arriving[q], e, x)
        BY <1>4, <1>6, <4>1
      <4> QED
        BY <2>1, <3>1, <4>1, <4>2
    <3> QED
      BY <3>1, <3>2, <3>3 DEF LastIn
  <2>2. ASSUME ~ Told(h, e), NEW x
        PROVE  /\ LastIn(q, e, x)' <=> LastIn(q, e, x)
               /\ WillKnow(q, e, x)' <=> WillKnow(q, e, x)
    BY <1>1, <1>4, <1>6, <2>2 DEF LastIn, WillKnow
  <2> QED
    BY <2>1, <2>2
\* The relaying page says nothing older than what it relayed.
<1>7. Told(h, e) =>
        /\ AtLeast(canvas[p][e], v)
        /\ held[p] # Null => AtLeast(held[p][e], v)
        /\ AllAbove(Tail(relaying[p]), e, v)
  BY <1>0, <1>2, <1>3 DEF PageInv, Behind
<1>8. Reaches(e, v)'
  <2>1. CASE Told(h, e)
    BY <1>0, <1>1, <1>6, <1>7, <2>1 DEF Reaches
  <2>2. CASE ~ Told(h, e)
    BY <1>0, <1>1, <1>3, <1>5, <1>6, <2>2 DEF Reaches, LastWord
  <2> QED
    BY <2>1, <2>2
<1>9. Said(e, v)'
  <2>1. CASE Told(h, e)
    <3>1. Says(p, e, v)'
      BY <1>1, <1>7, <2>1 DEF Says
    <3> QED
      BY <1>0, <3>1 DEF Said
  <2>2. CASE ~ Told(h, e)
    <3>1. ASSUME NEW q \in Room, Says(q, e, w)
          PROVE  Says(q, e, v)'
      <4>1. CASE q = p
        BY <1>1, <1>2, <1>3, <2>2, <3>1, <4>1 DEF Says
      <4>2. CASE q # p
        BY <1>1, <1>3, <2>2, <3>1, <4>2 DEF Says, Room
      <4> QED
        BY <4>1, <4>2
    <3> QED
      BY <1>0, <3>1 DEF Said, LastWord
  <2> QED
    BY <2>1, <2>2
<1>10. ASSUME NEW s \in Stamp, Older(v, s), NEW r \in Room, Owes(r, e, s)
       PROVE  Owes(r, e, s)'
  <2>1. AtLeast(canvas'[r][e], s)
    BY <1>1, <1>10 DEF Owes
  <2>2. CASE SomeAbove(relaying[r], e, s)
    <3>1. SomeAbove(relaying'[r], e, s)
      <4>1. CASE r = p
        <5>1. ~ (Told(h, e) /\ AtLeast(h[e], s))
          BY <1>3, <1>10 DEF AtLeast
        <5> QED
          BY <1>1, <1>2, <2>2, <4>1, <5>1
      <4>2. CASE r # p
        BY <1>1, <2>2, <4>2 DEF Room
      <4> QED
        BY <4>1, <4>2
    <3> QED
      BY <2>1, <3>1 DEF Owes
  <2>3. CASE \A x : WillKnow(r, e, x) => Older(x, s)
    <3>1. \A x : WillKnow(r, e, x)' => Older(x, s)
      <4>1. CASE r = p
        BY <1>5, <2>3, <4>1
      <4>2. CASE r # p
        BY <1>6, <1>10, <2>3, <4>2
      <4> QED
        BY <4>1, <4>2
    <3> QED
      BY <2>1, <3>1 DEF Owes
  <2> QED
    BY <1>10, <2>2, <2>3 DEF Owes
<1>11. Owed(e, v)'
  <2> SUFFICES ASSUME NEW s \in Stamp, Older(v, s), NEW q \in Room, Seen(q, e, s)'
               PROVE  \E r \in Room \cap Editor : Owes(r, e, s)'
    BY <1>0 DEF Owed
  <2>1. CASE Older(w, s)
    <3>1. ~ (Told(h, e) /\ AtLeast(h[e], s))
      BY <1>3 DEF AtLeast
    <3>2. Seen(q, e, s)
      BY <1>1, <1>4, <3>1 DEF Seen
    <3>3. PICK r \in Room \cap Editor : Owes(r, e, s)
      BY <2>1, <3>2 DEF LastWord, Owed
    <3> QED
      BY <1>10, <3>3
  <2>2. CASE AtLeast(w, s)
    <3>1. Told(h, e) /\ Older(v, w)
      <4>1. Older(v, w)
        BY <1>3, <2>2, Order
      <4>2. ~ Older(w, w)
        BY Order DEF AtLeast
      <4> QED
        BY <1>3, <4>1, <4>2
    <3>2. ~ Says(p, e, w)
      <4>1. ~ AllAbove(relaying[p], e, w)
        <5>1. 1 \in DOMAIN relaying[p] /\ relaying[p][1] = h
          BY <1>1, OneLess DEF h
        <5> QED
          BY <1>3, <3>1, <5>1 DEF AllAbove, AtLeast
      <4> QED
        BY <4>1 DEF Says
    <3>3. PICK r \in Room \cap Editor : Says(r, e, w)
      BY <1>0, <3>2 DEF LastWord, Said
    <3>4. r # p /\ canvas[r][e] \in Stamp /\ AtLeast(canvas[r][e], w)
      BY <1>0, <3>2, <3>3 DEF Says, TypeOK, Scene, Room
    <3>5. AtLeast(canvas'[r][e], s)
      BY <1>1, <2>2, <3>4, Order
    <3>6. \A x : WillKnow(r, e, x)' => Older(x, s)
      BY <1>6, <3>1, <3>3, <3>4
    <3>7. Owes(r, e, s)'
      BY <3>5, <3>6 DEF Owes
    <3> QED
      BY <3>3, <3>7
  <2> QED
    BY <2>1, <2>2 DEF AtLeast
<1> QED
  BY <1>3, <1>8, <1>9, <1>11 DEF LastWord

LEMMA WordStep ==
  ASSUME TypeInv, TypeInv', WireInv, PageInv, FreshInv', WordInv, NEW p \in Page, Calm(p)
  PROVE  WordInv'
<1> SUFFICES ASSUME NEW e \in Element
             PROVE  (\E v \in Stamp : LastWord(e, v))'
  BY DEF WordInv
<1>0. PICK w \in Stamp : LastWord(e, w)
  BY DEF WordInv
<1>1. CASE Fetch(p)
  <2>1. mode' = [mode EXCEPT ![p] = "fetched"] /\ mode[p] = "closed" /\ mode \in [Page -> {"closed", "fetched", "joined", "mute"}]
    BY <1>1 DEF Fetch, TypeInv, TypeOK
  <2>2. Room' = Room /\ p \notin Room
    BY <2>1 DEF Room
  <2>3. \A q \in Room : canvas'[q] = canvas[q] /\ known'[q] = known[q]
    BY <1>1, <2>2 DEF Fetch, TypeInv, TypeOK, Room
  <2>4. UNCHANGED <<held, relaying, arriving, pending>>
    BY <1>1 DEF Fetch, wire
  <2> QED
    BY <1>0, <2>2, <2>3, <2>4, WordSame
<1>2. CASE Join(p) /\ edits = 0
  <2>1. edits' = 0
    BY <1>2 DEF Join, user
  <2>2. TypeInv' /\ FreshInv' /\ (edits = 0)' => WordInv'
    BY WordFresh, PTL
  <2> QED
    BY <2>1, <2>2 DEF WordInv
<1>3. ASSUME NEW f \in Element, Edit(p, f) PROVE (\E v \in Stamp : LastWord(e, v))'
  BY <1>0, <1>3, WordEdit
<1>4. CASE Report(p) \/ EmitNothing(p)
  BY <1>0, <1>4, WordHold
<1>5. CASE EmitChanges(p)
  BY <1>0, <1>5, WordEmit
<1>6. CASE relaying[p] # <<>> /\ Passes(p, 1)
  BY <1>0, <1>6, WordRelay
<1>7. CASE Arrive(p)
  BY <1>0, <1>7, WordArrive
<1>8. CASE Flush(p)
  BY <1>0, <1>8, WordFlush
<1>9. CASE Autosave(p)
  <2>1. UNCHANGED <<mode, canvas, known, held, relaying, arriving, pending>>
    BY <1>9 DEF Autosave, wire
  <2>2. Room' = Room
    BY <2>1 DEF Room
  <2> QED
    BY <1>0, <2>1, <2>2, WordSame
<1> QED
  BY <1>1, <1>2, <1>3, <1>4, <1>5, <1>6, <1>7, <1>8, <1>9 DEF Calm

-----------------------------------------------------------------------------
(***************************************************************************)
(* All of it holds as long as nothing has gone wrong.                      *)
(***************************************************************************)
CalmInv == StampsInv /\ WireInv /\ PageInv /\ FreshInv /\ WordInv

SyncInv == TypeInv /\ (mishaps = {} => CalmInv)

LEMMA SyncInit == Init => SyncInv
<1> SUFFICES ASSUME Init PROVE SyncInv
  OBVIOUS
<1>1. TypeInv /\ StampsInv
  BY TypeInit, StampsInit
<1>2. WireInv
  BY DEF Init, WireInv
<1>3. PageInv
  <2> SUFFICES ASSUME NEW p \in Page, NEW e \in Element
               PROVE  Behind(p, e)
    BY DEF PageInv
  <2>1. canvas[p][e] \in Stamp /\ known = canvas /\ held[p] = Null /\ relaying[p] = <<>>
    BY <1>1 DEF Init, TypeInv, TypeOK, Scene
  <2>2. AtLeast(canvas[p][e], canvas[p][e])
    BY <2>1, Order
  <2> QED
    BY <2>1, <2>2 DEF Behind, AllBelow, Rising
<1>4. FreshInv
  BY DEF Init, FreshInv, FreshPage, Shown
<1>5. WordInv
  BY <1>1, <1>4, WordFresh DEF Init
<1> QED
  BY <1>1, <1>2, <1>3, <1>4, <1>5 DEF SyncInv, CalmInv

LEMMA SyncNext ==
  ASSUME SyncInv, [Next]_vars
  PROVE  SyncInv'
<1>1. TypeInv /\ TypeInv'
  BY TypeNext DEF SyncInv
<1> SUFFICES ASSUME mishaps' = {}
             PROVE  CalmInv'
  BY <1>1 DEF SyncInv
<1>2. CalmInv /\ (UNCHANGED vars \/ \E p \in Page : Calm(p))
  BY <1>1, CalmSteps DEF SyncInv
<1>3. CASE UNCHANGED vars
  <2>1. /\ UNCHANGED <<mode, canvas, known, held, relaying, arriving, pending>>
        /\ UNCHANGED <<unsaved, saved, clock, edits>>
    BY <1>3 DEF vars
  <2>2. StampsInv'
    BY <1>2, <2>1 DEF CalmInv, StampsInv, PlainPage
  <2>3. WireInv' /\ PageInv'
    BY <1>2, <2>1 DEF CalmInv, WireInv, PageInv, Behind
  <2>4. FreshInv'
    BY <1>2, <2>1 DEF CalmInv, FreshInv, FreshPage, Shown
  <2>5. Room' = Room
    BY <2>1 DEF Room
  <2>6. WordInv'
    BY <1>2, <2>1, <2>5, WordSame DEF CalmInv, WordInv
  <2> QED
    BY <2>2, <2>3, <2>4, <2>6 DEF CalmInv
<1>4. ASSUME NEW p \in Page, Calm(p)
      PROVE  CalmInv'
  <2>1. StampsInv' /\ WireInv' /\ FreshInv'
    BY <1>1, <1>2, <1>4, StampsStep, WireStep, FreshStep DEF CalmInv
  <2>2. PageInv'
    BY <1>1, <1>2, <1>4, PageStep DEF CalmInv
  <2>3. WordInv'
    BY <1>1, <1>2, <1>4, <2>1, WordStep DEF CalmInv
  <2> QED
    BY <2>1, <2>2, <2>3 DEF CalmInv
<1> QED
  BY <1>2, <1>3, <1>4

\* While nothing has gone wrong, every element has a last word.
THEOREM SyncInvariance == Spec => []SyncInv
<1>1. SyncInv /\ [Next]_vars => SyncInv'
  BY SyncNext
<1> QED
  BY <1>1, SyncInit, PTL DEF Spec

(***************************************************************************)
(* Once nothing is under way, and if nothing went wrong, the pages in the  *)
(* room show the same: each shows the last word on every element, for it   *)
(* has heard it, and nothing newer, which its page would still owe.        *)
(***************************************************************************)
THEOREM RoomsConverge == Spec => []QuietMeansConverged
<1>1. SyncInv => QuietMeansConverged
  <2> SUFFICES ASSUME SyncInv, Quiet, mishaps = {}
               PROVE  Agree(Room)
    BY DEF QuietMeansConverged, Room
  <2>1. TypeOK /\ StampsInv /\ WordInv
    BY DEF SyncInv, CalmInv, TypeInv
  <2>2. ASSUME NEW e \in Element, NEW w \in Stamp, LastWord(e, w), NEW q \in Room
        PROVE  AtLeast(canvas[q][e], w) /\ AtLeast(w, canvas[q][e])
    <3>1. \A r \in Page : /\ canvas[r] \in Scene /\ canvas[r][e] \in Stamp
                          /\ relaying[r] = <<>> /\ arriving[r] = <<>> /\ pending[r][e] = Absent
                          /\ r \in Editor => known[r] = canvas[r]
      BY <2>1, AbsentStamp DEF TypeOK, Scene, Quiet, Stale
    <3>2. AtLeast(canvas[q][e], w)
      BY <2>2, <3>1 DEF LastWord, Reaches, LastIn, LastOf, Room
    <3>3. ASSUME Older(w, canvas[q][e])
          PROVE  FALSE
      <4> DEFINE s == canvas[q][e]
      <4>1. s \in Stamp /\ AtLeast(s, s)
        BY <3>1, Order DEF Room
      <4>2. PICK r \in Room \cap Editor : Owes(r, e, s)
        BY <2>2, <3>3, <4>1 DEF LastWord, Owed, Seen
      <4>3. WillKnow(r, e, canvas[r][e])
        BY <3>1, <4>2 DEF WillKnow, Silent, Told, Room
      <4>4. ~ SomeAbove(relaying[r], e, s)
        BY <3>1, <4>2 DEF SomeAbove, Room
      <4> QED
        BY <4>2, <4>3, <4>4 DEF Owes, AtLeast
    <3> QED
      BY <3>2, <3>3 DEF AtLeast
  <2>3. ASSUME NEW p \in Room, NEW q \in Room
        PROVE  canvas[p] = canvas[q]
    <3>1. ASSUME NEW e \in Element
          PROVE  canvas[p][e] = canvas[q][e]
      <4>1. PICK w \in Stamp : LastWord(e, w)
        BY <2>1 DEF WordInv
      <4>2. canvas[p][e] \in Stamp /\ canvas[q][e] \in Stamp
        BY <2>1 DEF TypeOK, Scene, Room
      <4>3. /\ AtLeast(canvas[p][e], w) /\ AtLeast(w, canvas[p][e])
            /\ AtLeast(canvas[q][e], w) /\ AtLeast(w, canvas[q][e])
        BY <2>2, <4>1
      <4>4. AtLeast(canvas[p][e], canvas[q][e]) /\ AtLeast(canvas[q][e], canvas[p][e])
        BY <4>2, <4>3, Order
      <4>5. /\ canvas[p][e].nonce = canvas[p][e].updated
            /\ canvas[q][e].nonce = canvas[q][e].updated
        BY <2>1 DEF StampsInv, PlainPage, Plain, Room
      <4> QED
        BY <4>2, <4>4, <4>5, Equal
    <3>2. canvas[p] \in Scene /\ canvas[q] \in Scene
      BY <2>1 DEF TypeOK, Room
    <3> QED
      BY <3>1, <3>2 DEF Scene
  <2> QED
    BY <2>3 DEF Agree
<1> QED
  BY <1>1, SyncInvariance, PTL

-----------------------------------------------------------------------------
(***************************************************************************)
(* The mounted editor.  Whether a save empties a drawing by accident is    *)
(* decided when it starts, by guards that look at the refs; so the         *)
(* invariant says what the refs have to do with the row: a version that    *)
(* was read names the scene that is taken for persisted, as long as the    *)
(* server still has it.  And what is captured without being meant deletes  *)
(* nothing but what was deleted when the drawing was opened.               *)
(***************************************************************************)
\* Captures, as they wait; values or nothing; the records of the page.
Captures == [of : Drawings, scene : EditorScene, meant : BOOLEAN]
NoneOr(S) == {None} \cup S
Refs ==
  [version : NoneOr(Nat), told : BOOLEAN, initial : EditorScene, latest : EditorScene,
   persisted : EditorScene, suspicious : BOOLEAN, hydrated : BOOLEAN,
   order : NoneOr(SUBSET Mark), known : EditorScene]
Flights ==
  [phase : {"sent", "saved", "conflict", "failed"}, attempt : {0, 1}, base : NoneOr(Nat),
   told : BOOLEAN, version : Nat]

\* What every variable of the page, of its requests and of the rows is.
EditorTypes ==
  /\ rowOf \in [Drawings -> DrawingRow] /\ past \in [Drawings -> SUBSET EditorScene]
  /\ id \in Drawings /\ opening \in Nat
  /\ loads \in [Openings -> NoneOr([of : Drawings, body : NoneOr(DrawingRow)])]
  /\ initial \in NoneOr(EditorScene) /\ onCanvas \in NoneOr(EditorScene)
  /\ taken \in BOOLEAN /\ (taken => onCanvas # None)
  /\ ref \in Refs
  /\ debounce \in NoneOr(Captures) /\ chain \in Seq(Captures) /\ flight \in NoneOr(Flights)
  /\ panel \in [open : BOOLEAN, selected : NoneOr(EditorScene), asked : SUBSET EditorScene,
                backup : NoneOr(EditorScene)]

\* What waits to be saved was captured on the drawing of the route.
QueueFits ==
  /\ flight # None => chain # <<>>
  /\ \A i \in 1 .. Len(chain) : chain[i].of = id
  /\ debounce # None => debounce.of = id

\* No two openings overlapped.
Apart == "reopened" \notin traces

\* A version that was read with a scene, or given to a save, names that scene.
NamesScene(v, s, d) ==
  /\ v <= rowOf[d].version
  /\ v = rowOf[d].version => rowOf[d].scene = s

\* While a drawing is being opened there is nothing of it yet, and what was
\* read was current.
LoadsFit ==
  Apart =>
    \A o \in Openings : loads[o] # None =>
      /\ o = opening /\ loads[o].of = id
      /\ initial = None /\ onCanvas = None /\ ~ taken /\ debounce = None /\ chain = <<>>
      /\ ~ ref.hydrated
      /\ loads[o].body # None => NamesScene(loads[o].body.version, loads[o].body.scene, id)

\* The version that the page believes in, unless a conflict named it, is that
\* of the scene it takes for persisted.
VersionFits ==
  Apart /\ ref.version # None /\ ~ ref.told => NamesScene(ref.version, ref.persisted, id)

\* A scene that may empty the drawing of the route.
Justified(capture) ==
  \/ capture.meant
  \/ "previewed" \in traces /\ IntendedDeletion(rowOf[id].scene, capture.scene)

\* What a save that is answered has written, and that one which the server
\* would accept on a version that was read empties nothing by accident.
FlightFits ==
  flight # None =>
    /\ flight.phase = "saved" => NamesScene(flight.version, Head(chain).scene, id)
    /\ Apart /\ flight.phase = "sent" /\ flight.base # None /\ ~ flight.told =>
         /\ flight.base <= rowOf[id].version
         /\ flight.base = rowOf[id].version /\ Renderable(rowOf[id].scene)
            /\ ~ Renderable(Head(chain).scene) => Justified(Head(chain))

\* Without previews, what was deleted when the drawing was opened stays
\* deleted, and nothing else becomes deleted but by the user.
Stays(s) == initial # None => \A m \in Mark : initial[m] = "deleted" => s[m] # "live"

Unmeant(s) == \A m \in Mark : s[m] = "deleted" => initial # None /\ initial[m] = "deleted"

\* A capture that shows nothing is meant, or deletes only what was deleted.
CaptureFits(c) == Stays(c.scene) /\ (c.meant \/ Renderable(c.scene) \/ Unmeant(c.scene))

\* As long as no earlier version was looked at: what the canvas, the refs and
\* the queue have to do with the scene that was opened.
ScenesFit ==
  Apart /\ "previewed" \notin traces =>
    /\ panel.backup = None
    /\ onCanvas # None => initial # None
    /\ onCanvas # None /\ ~ taken => onCanvas = Empty
    /\ taken => /\ onCanvas # None /\ onCanvas = work
                /\ \A m \in Mark : initial[m] = "deleted" => onCanvas[m] = "deleted"
    /\ initial # None => Stays(ref.initial) /\ Stays(ref.latest) /\ Stays(ref.persisted)
    /\ initial # None /\ ~ ref.hydrated => ref.initial = initial /\ ~ taken
    /\ initial # None /\ Renderable(initial) /\ ~ taken => ~ ref.hydrated
    /\ \A i \in 1 .. Len(chain) : CaptureFits(chain[i])
    /\ debounce # None => CaptureFits(debounce)

OpenInv == EditorTypes /\ QueueFits /\ LoadsFit /\ VersionFits /\ FlightFits /\ ScenesFit

-----------------------------------------------------------------------------
LEMMA SceneIs == Empty \in EditorScene /\ None \notin EditorScene /\ None \notin SUBSET Mark
  BY OpenEditorAssumption DEF Empty, EditorScene

LEMMA OverIs ==
  ASSUME NEW s \in EditorScene, NEW old \in EditorScene
  PROVE  Over(s, old) \in EditorScene
  BY DEF Over, EditorScene

\* What handleCanvasChange does to the refs and to the debounce.
LEMMA HandleIs ==
  ASSUME EditorTypes, NEW s \in EditorScene, NEW meant \in BOOLEAN, HandleChange(s, meant)
  PROVE  /\ ref' \in Refs /\ debounce' \in NoneOr(Captures)
         /\ ref'.version = ref.version /\ ref'.told = ref.told
         /\ ref'.initial = ref.initial /\ ref'.persisted = ref.persisted
         /\ ref'.latest \in {ref.latest, s}
         /\ ref.hydrated => ref'.hydrated
         /\ Transient(s) => ref' = ref
         /\ ~ Transient(s) => ref'.hydrated
         /\ debounce' # debounce => /\ ~ Transient(s) /\ ~ AsOpened(s)
                                    /\ debounce' = Capture(id, s, meant)
<1>1. ref \in Refs /\ debounce \in NoneOr(Captures) /\ id \in Drawings
  BY DEF EditorTypes
<1>2. CASE Transient(s)
  BY <1>1, <1>2 DEF HandleChange
<1>3. CASE ~ Transient(s) /\ (AsOpened(s) \/ Prevented(PageBaseline, s))
  BY <1>1, <1>3 DEF HandleChange, Hydrated, Refs
<1>4. CASE ~ Transient(s) /\ ~ (AsOpened(s) \/ Prevented(PageBaseline, s))
  <2>1. PICK over \in EditorScene : over = Over(s, ref.known)
    BY <1>1, OverIs DEF Refs
  <2>2. PICK ids \in SUBSET Mark : ids = IdsIn(s)
    BY DEF IdsIn
  <2>3. PICK b \in BOOLEAN : b = (ref.suspicious /\ ~ Renderable(s))
    BY DEF Renderable
  <2>4. ref' = [Hydrated EXCEPT !.latest = s, !.suspicious = b, !.order = ids, !.known = over]
    BY <1>1, <1>4, <2>1, <2>2, <2>3 DEF HandleChange, Hydrated, Refs
  <2>5. /\ Hydrated \in Refs /\ Hydrated.version = ref.version /\ Hydrated.told = ref.told
        /\ Hydrated.initial = ref.initial /\ Hydrated.persisted = ref.persisted /\ Hydrated.hydrated
    BY <1>1 DEF Hydrated, Refs
  <2>6. ids \in NoneOr(SUBSET Mark)
    BY <2>2 DEF NoneOr
  <2>7. debounce' = debounce \/ debounce' = Capture(id, s, meant)
    BY <1>4 DEF HandleChange
  <2>8. Capture(id, s, meant) \in Captures
    BY <1>1 DEF Capture, Captures
  <2> QED
    BY <1>1, <1>4, <2>1, <2>3, <2>4, <2>5, <2>6, <2>7, <2>8 DEF Refs, NoneOr
<1> QED
  BY <1>2, <1>3, <1>4

\* A step that shows the canvas s: the server, the route and the queue stay as they are.
ShowsOn(s, meant) ==
  /\ s \in EditorScene /\ meant \in BOOLEAN
  /\ HandleChange(s, meant)
  /\ onCanvas # None /\ onCanvas' \in EditorScene /\ taken' \in BOOLEAN
  /\ panel' \in [open : BOOLEAN, selected : NoneOr(EditorScene), asked : SUBSET EditorScene,
                 backup : NoneOr(EditorScene)]
  /\ traces \subseteq traces' /\ ("reopened" \in traces' => "reopened" \in traces)
  /\ UNCHANGED <<rowOf, past, id, opening, loads, initial, chain, flight>>

LEMMA ShowsKeeps ==
  ASSUME OpenInv, NEW s, NEW meant, ShowsOn(s, meant),
         Apart /\ "previewed" \notin traces' =>
           /\ panel'.backup = None
           /\ initial # None
           /\ ~ taken' => onCanvas' = Empty
           /\ taken' => /\ onCanvas' = work' /\ ref'.hydrated
                        /\ \A m \in Mark : initial[m] = "deleted" => onCanvas'[m] = "deleted"
           /\ Stays(s)
           /\ Renderable(initial) /\ ~ taken' => ~ ref'.hydrated
           /\ ~ ref'.hydrated => ~ ref.hydrated
           /\ debounce' # debounce => meant \/ Renderable(s) \/ Unmeant(s)
  PROVE  OpenInv'
<1>1. EditorTypes /\ EditorTypes'
  <2>1. EditorTypes
    BY DEF OpenInv
  <2>2. ref' \in Refs /\ debounce' \in NoneOr(Captures)
    BY <2>1, HandleIs DEF ShowsOn
  <2> QED
    BY <2>1, <2>2, SceneIs DEF EditorTypes, ShowsOn, NoneOr
<1>2. /\ ref'.version = ref.version /\ ref'.told = ref.told
      /\ ref'.initial = ref.initial /\ ref'.persisted = ref.persisted
      /\ ref'.latest \in {ref.latest, s} /\ (ref.hydrated => ref'.hydrated)
      /\ debounce' # debounce => debounce' = Capture(id, s, meant)
  BY <1>1, HandleIs DEF ShowsOn
<1>3. QueueFits'
  BY <1>2 DEF OpenInv, QueueFits, ShowsOn, Capture
<1>4. LoadsFit'
  BY DEF OpenInv, LoadsFit, ShowsOn, Apart
<1>5. VersionFits'
  BY <1>2 DEF OpenInv, VersionFits, NamesScene, ShowsOn, Apart
<1>6. FlightFits'
  BY DEF OpenInv, FlightFits, NamesScene, Justified, ShowsOn, Apart
<1>7. ScenesFit'
  <2> SUFFICES ASSUME Apart, "previewed" \notin traces'
               PROVE  ScenesFit'
    BY DEF ScenesFit, Apart, ShowsOn
  <2>1. "previewed" \notin traces
    BY DEF ShowsOn
  <2>2. ScenesFit
    BY DEF OpenInv
  <2>3. initial' = initial /\ chain' = chain /\ onCanvas' # None
    BY SceneIs DEF ShowsOn
  <2>4. Stays(ref'.initial) /\ Stays(ref'.latest) /\ Stays(ref'.persisted)
    BY <1>2, <2>1, <2>2 DEF ScenesFit
  <2>5. \A i \in 1 .. Len(chain) : CaptureFits(chain[i])
    BY <2>1, <2>2 DEF ScenesFit
  <2>6. debounce' # None => CaptureFits(debounce')
    <3>1. CASE debounce' = debounce
      BY <2>1, <2>2, <3>1 DEF ScenesFit
    <3>2. CASE debounce' # debounce
      BY <1>2, <2>1, <3>2 DEF Capture, CaptureFits
    <3> QED
      BY <3>1, <3>2
  <2>7. ~ ref'.hydrated => ref'.initial = initial /\ ~ taken'
    BY <1>2, <2>1, <2>2 DEF ScenesFit
  <2> QED
    BY <2>1, <2>3, <2>4, <2>5, <2>6, <2>7 DEF ScenesFit, Stays, CaptureFits, Unmeant
<1> QED
  BY <1>1, <1>3, <1>4, <1>5, <1>6, <1>7 DEF OpenInv

\* What the canvas, taken up or not, has to do with what was opened.
LEMMA CanvasIs ==
  ASSUME OpenInv, Apart, "previewed" \notin traces, onCanvas # None
  PROVE  /\ initial # None /\ onCanvas \in EditorScene /\ initial \in EditorScene
         /\ panel.backup = None
         /\ ~ taken => onCanvas = Empty
         /\ taken => onCanvas = work /\ ref.hydrated
         /\ Stays(onCanvas) /\ Stays(Empty) /\ Stays(initial)
  BY SceneIs DEF OpenInv, EditorTypes, ScenesFit, NoneOr, Stays, Empty

LEMMA TakeUpKeeps ==
  ASSUME OpenInv, TakeUp
  PROVE  OpenInv'
<1>1. initial \in EditorScene
  BY DEF OpenInv, EditorTypes, TakeUp, NoneOr
<1>2. ShowsOn(initial, FALSE)
  BY <1>1 DEF OpenInv, EditorTypes, ShowsOn, TakeUp, server, route
<1>3. ASSUME Apart, "previewed" \notin traces
      PROVE  /\ ref'.hydrated
             /\ debounce' # debounce => Renderable(initial) \/ Unmeant(initial)
  <2>1. ~ Transient(initial)
    BY <1>3 DEF OpenInv, ScenesFit, TakeUp, Transient, StaleEmpty, StaleNonRenderable, Renderable,
         Empty
  <2> QED
    BY <1>1, <1>2, <2>1, HandleIs DEF OpenInv, ShowsOn, Unmeant, TakeUp
<1>4. Apart /\ "previewed" \notin traces => panel.backup = None /\ Stays(initial)
  BY CanvasIs DEF TakeUp
<1> QED
  BY <1>2, <1>3, <1>4, ShowsKeeps DEF TakeUp

LEMMA EarlyReportKeeps ==
  ASSUME OpenInv, NEW s \in EditorScene, EarlyReport(s)
  PROVE  OpenInv'
<1>1. ShowsOn(s, FALSE)
  BY DEF OpenInv, EditorTypes, ShowsOn, EarlyReport, server, route, screen, NoneOr
<1>2. ASSUME Apart, "previewed" \notin traces
      PROVE  /\ Stays(s) /\ Unmeant(s) /\ (Renderable(initial) => ~ ref'.hydrated)
             /\ panel.backup = None /\ onCanvas = Empty
  <2>1. initial \in EditorScene /\ panel.backup = None /\ onCanvas = Empty
    BY <1>2, CanvasIs DEF EarlyReport
  <2>2. Stays(s) /\ Unmeant(s) /\ ~ Renderable(s)
    BY <2>1 DEF EarlyReport, Stays, Unmeant, Renderable, Empty
  <2>3. Renderable(initial) => Transient(s)
    BY <1>2, <2>2 DEF EarlyReport, OpenInv, ScenesFit, Transient, StaleNonRenderable
  <2>4. Transient(s) => ref' = ref
    BY <1>1, HandleIs DEF OpenInv, ShowsOn
  <2> QED
    BY <2>1, <2>2, <2>3, <2>4 DEF EarlyReport
<1> QED
  BY <1>1, <1>2, ShowsKeeps DEF EarlyReport, screen

LEMMA FlickerKeeps ==
  ASSUME OpenInv, Flicker
  PROVE  OpenInv'
<1>1. ShowsOn(Empty, FALSE)
  BY SceneIs DEF OpenInv, EditorTypes, ShowsOn, Flicker, server, route, screen, NoneOr
<1>2. Unmeant(Empty)
  BY DEF Unmeant, Empty
<1>3. ref.hydrated => ref'.hydrated
  BY <1>1, HandleIs DEF OpenInv, ShowsOn
<1>4. ASSUME Apart, "previewed" \notin traces
      PROVE  /\ panel.backup = None /\ initial # None /\ onCanvas = work /\ ref.hydrated
             /\ Stays(Empty)
             /\ \A m \in Mark : initial[m] = "deleted" => onCanvas[m] = "deleted"
  BY <1>4, CanvasIs DEF Flicker, OpenInv, ScenesFit, EditorTypes
<1> QED
  BY <1>1, <1>2, <1>3, <1>4, ShowsKeeps DEF Flicker, screen, mine

LEMMA TouchKeeps ==
  ASSUME OpenInv, Touch
  PROVE  OpenInv'
<1>m. PICK meant \in BOOLEAN : meant = (onCanvas = work)
  OBVIOUS
<1>1. ShowsOn(onCanvas, meant)
  BY <1>m DEF OpenInv, EditorTypes, ShowsOn, Touch, server, route, screen, NoneOr
<1>3. ref.hydrated => ref'.hydrated
  BY <1>1, HandleIs DEF OpenInv, ShowsOn
<1>4. ASSUME Apart, "previewed" \notin traces
      PROVE  /\ panel.backup = None /\ initial # None /\ onCanvas = work /\ ref.hydrated
             /\ Stays(onCanvas)
             /\ \A m \in Mark : initial[m] = "deleted" => onCanvas[m] = "deleted"
  BY <1>4, CanvasIs DEF Touch, OpenInv, ScenesFit, EditorTypes
<1> QED
  BY <1>m, <1>1, <1>3, <1>4, ShowsKeeps DEF Touch, screen, mine

LEMMA ChangeKeeps ==
  ASSUME OpenInv, NEW s \in EditorScene, ChangeCanvas(s),
         \A m \in Mark : onCanvas[m] = "deleted" => s[m] = "deleted"
  PROVE  OpenInv'
<1>1. ShowsOn(s, TRUE)
  BY DEF OpenInv, EditorTypes, ShowsOn, ChangeCanvas, server, route, NoneOr
<1>3. ref.hydrated => ref'.hydrated
  BY <1>1, HandleIs DEF OpenInv, ShowsOn
<1>4. ASSUME Apart, "previewed" \notin traces
      PROVE  /\ panel.backup = None /\ initial # None /\ ref.hydrated /\ Stays(s)
             /\ \A m \in Mark : initial[m] = "deleted" => s[m] = "deleted"
  <2>1. \A m \in Mark : initial[m] = "deleted" => s[m] = "deleted"
    BY <1>4 DEF ChangeCanvas, OpenInv, ScenesFit
  <2> QED
    BY <1>4, <2>1, CanvasIs DEF ChangeCanvas, OpenInv, EditorTypes, Stays
<1> QED
  BY <1>1, <1>3, <1>4, ShowsKeeps DEF ChangeCanvas

LEMMA DrawKeeps ==
  ASSUME OpenInv, NEW m \in Mark, Draw(m)
  PROVE  OpenInv'
<1>1. onCanvas \in EditorScene
  BY DEF OpenInv, EditorTypes, Draw, NoneOr
<1>2. /\ [onCanvas EXCEPT ![m] = "live"] \in EditorScene
      /\ \A n \in Mark : onCanvas[n] = "deleted" => [onCanvas EXCEPT ![m] = "live"][n] = "deleted"
  BY <1>1 DEF EditorScene, Draw
<1> QED
  BY <1>2, ChangeKeeps DEF Draw

LEMMA EraseKeeps ==
  ASSUME OpenInv, NEW marks \in SUBSET Mark, Erase(marks)
  PROVE  OpenInv'
<1>1. onCanvas \in EditorScene
  BY DEF OpenInv, EditorTypes, Erase, NoneOr
<1> DEFINE s == [m \in Mark |-> IF m \in marks THEN "deleted" ELSE onCanvas[m]]
<1>2. s \in EditorScene /\ \A n \in Mark : onCanvas[n] = "deleted" => s[n] = "deleted"
  BY <1>1 DEF EditorScene
<1> QED
  BY <1>2, ChangeKeeps DEF Erase

\* The records of the history panel.
Panels ==
  [open : BOOLEAN, selected : NoneOr(EditorScene), asked : SUBSET EditorScene,
   backup : NoneOr(EditorScene)]

\* The panel changes, and not what is on the canvas.
LEMMA PanelKeeps ==
  ASSUME OpenInv, panel' \in Panels, panel'.backup = panel.backup,
         UNCHANGED <<server, route, screen, ref, queue, mine, failed>>,
         traces \subseteq traces', "reopened" \in traces' => "reopened" \in traces
  PROVE  OpenInv'
<1>1. UNCHANGED <<rowOf, past, id, opening, loads, initial, onCanvas, taken, ref, debounce, chain,
                  flight, work>>
  BY DEF server, route, screen, queue, mine
<1>2. EditorTypes'
  BY <1>1 DEF OpenInv, EditorTypes, Panels
<1>3. QueueFits' /\ LoadsFit' /\ VersionFits' /\ FlightFits'
  BY <1>1 DEF OpenInv, QueueFits, LoadsFit, VersionFits, FlightFits, NamesScene, Justified, Apart
<1>4. ScenesFit'
  BY <1>1 DEF OpenInv, ScenesFit, Stays, CaptureFits, Unmeant, Apart
<1> QED
  BY <1>2, <1>3, <1>4 DEF OpenInv

LEMMA OpenPanelKeeps ==
  ASSUME OpenInv, OpenPanel
  PROVE  OpenInv'
<1>1. panel' \in Panels /\ panel'.backup = panel.backup
  BY DEF OpenInv, EditorTypes, OpenPanel, Panels, NoneOr
<1> QED
  BY <1>1, PanelKeeps DEF OpenPanel

LEMMA SelectKeeps ==
  ASSUME OpenInv, NEW s \in past[id], Select(s)
  PROVE  OpenInv'
<1>1. s \in EditorScene
  BY DEF OpenInv, EditorTypes
<1>2. panel' \in Panels /\ panel'.backup = panel.backup
  BY <1>1 DEF OpenInv, EditorTypes, Select, Panels, NoneOr
<1> QED
  BY <1>2, PanelKeeps DEF Select

LEMMA PreviewFailsKeeps ==
  ASSUME OpenInv, NEW s, PreviewFails(s)
  PROVE  OpenInv'
<1>2. panel' \in Panels /\ panel'.backup = panel.backup
  BY DEF OpenInv, EditorTypes, PreviewFails, Panels, NoneOr
<1> QED
  BY <1>2, PanelKeeps DEF PreviewFails

LEMMA PreviewArrivesKeeps ==
  ASSUME OpenInv, NEW s \in panel.asked, PreviewArrives(s)
  PROVE  OpenInv'
<1>1. s \in EditorScene /\ panel \in Panels /\ onCanvas \in NoneOr(EditorScene)
  BY DEF OpenInv, EditorTypes, Panels
<1>2. /\ traces \subseteq traces' /\ ("reopened" \in traces' => "reopened" \in traces)
      /\ "previewed" \in traces'
  BY DEF PreviewArrives, Trace
<1>3. CASE onCanvas = None
  <2>1. panel' \in Panels /\ panel'.backup = panel.backup
    BY <1>1, <1>3 DEF PreviewArrives, Panels
  <2> QED
    BY <1>2, <1>3, <2>1, PanelKeeps DEF PreviewArrives, screen, queue
<1>4. CASE onCanvas # None
  <2>1. Underneath \in NoneOr(EditorScene)
    BY <1>1 DEF Underneath, Panels, NoneOr
  <2>2. panel' \in Panels
    BY <1>1, <1>4, <2>1 DEF PreviewArrives, Panels
  <2>m. PICK meant \in BOOLEAN : meant = (s = work)
    OBVIOUS
  <2>3. ShowsOn(s, meant)
    BY <1>1, <1>2, <1>4, <2>2, <2>m DEF ShowsOn, PreviewArrives, server, route, Panels, OpenInv,
         EditorTypes
  <2> QED
    BY <1>2, <2>3, ShowsKeeps
<1> QED
  BY <1>3, <1>4

\* What the canvas shows again when a preview is taken off.
LEMMA ShowBackupKeeps ==
  ASSUME OpenInv, NEW next \in Panels, next.backup = panel.backup, ShowBackup(next),
         UNCHANGED <<server, route, initial, error, taken, chain, flight, mine, failed, traces,
                     acts>>
  PROVE  OpenInv'
<1>1. CASE onCanvas = None \/ panel.backup = None
  BY <1>1, PanelKeeps DEF ShowBackup, screen, queue
<1>2. CASE onCanvas # None /\ panel.backup # None
  <2>1. panel.backup \in EditorScene
    BY <1>2 DEF OpenInv, EditorTypes, NoneOr
  <2>2. panel' \in Panels
    BY <1>2, <2>1 DEF ShowBackup, Panels, NoneOr
  <2>m. PICK meant \in BOOLEAN : meant = (panel.backup = work)
    OBVIOUS
  <2>3. ShowsOn(panel.backup, meant)
    BY <1>2, <2>1, <2>2, <2>m DEF ShowsOn, ShowBackup, server, route, Panels, OpenInv, EditorTypes
  <2>4. ~ (Apart /\ "previewed" \notin traces)
    BY <1>2 DEF OpenInv, ScenesFit
  <2> QED
    BY <2>3, <2>4, ShowsKeeps
<1> QED
  BY <1>1, <1>2

LEMMA DeselectKeeps ==
  ASSUME OpenInv, Deselect
  PROVE  OpenInv'
<1> DEFINE next == [panel EXCEPT !.selected = None]
<1>1. next \in Panels /\ next.backup = panel.backup
  BY DEF OpenInv, EditorTypes, Panels, NoneOr
<1> HIDE DEF next
<1> QED
  BY <1>1, ShowBackupKeeps DEF Deselect, next

LEMMA ClosePanelKeeps ==
  ASSUME OpenInv, ClosePanel
  PROVE  OpenInv'
<1> DEFINE next == [panel EXCEPT !.open = FALSE]
<1>1. next \in Panels /\ next.backup = panel.backup
  BY DEF OpenInv, EditorTypes, Panels, NoneOr
<1>2. CASE panel.selected = None
  BY <1>1, <1>2, PanelKeeps DEF ClosePanel, screen, queue
<1>3. CASE panel.selected # None
  <2>1. ShowBackup(next)
    BY <1>3 DEF ClosePanel
  <2> HIDE DEF next
  <2> QED
    BY <1>1, <2>1, ShowBackupKeeps DEF ClosePanel
<1> QED
  BY <1>2, <1>3

LEMMA ReopenKeeps ==
  ASSUME OpenInv, NEW d \in Drawings, Reopen(d)
  PROVE  OpenInv'
<1>1. EditorTypes
  BY DEF OpenInv
<1>2. ResetRefs \in Refs /\ ResetRefs.version = None
  BY SceneIs DEF ResetRefs, Refs, NoneOr
<1>3. opening + 1 \in Openings /\ opening + 1 \in Nat
  BY <1>1, OpenEditorAssumption DEF EditorTypes, Reopen, Openings
<1>4. [of |-> d, body |-> None] \in [of : Drawings, body : NoneOr(DrawingRow)]
  BY DEF NoneOr
<1>5. /\ loads' \in [Openings -> NoneOr([of : Drawings, body : NoneOr(DrawingRow)])]
      /\ loads'[opening + 1] = [of |-> d, body |-> None]
      /\ \A o \in Openings \ {opening + 1} : loads'[o] = loads[o]
  BY <1>1, <1>3, <1>4 DEF EditorTypes, Reopen, NoneOr
<1>6. debounce = None /\ chain = <<>> /\ flight = None /\ UNCHANGED <<debounce, chain, flight>>
  BY DEF Reopen, SavesWait, queue, OpenInv, QueueFits
<1>7. EditorTypes'
  BY <1>1, <1>2, <1>3, <1>5, <1>6 DEF EditorTypes, Reopen, NoneOr
<1>8. QueueFits' /\ FlightFits' /\ VersionFits'
  BY <1>2, <1>6 DEF QueueFits, FlightFits, VersionFits, Reopen
<1>9. LoadsFit'
  <2> SUFFICES ASSUME Apart'
               PROVE  LoadsFit'
    BY DEF LoadsFit
  <2>1. ~ Loading
    BY DEF Apart, Reopen, Trace
  <2>2. \A o \in Openings : loads[o] = None
    BY <2>1 DEF Loading
  <2> QED
    BY <1>5, <1>6, <2>2 DEF LoadsFit, Reopen, ResetRefs
<1>10. ScenesFit'
  BY <1>1, <1>6 DEF ScenesFit, Reopen, Looking, EditorTypes
<1> QED
  BY <1>7, <1>8, <1>9, <1>10 DEF OpenInv

LEMMA ReadDrawingKeeps ==
  ASSUME OpenInv, NEW o \in Openings, ReadDrawing(o)
  PROVE  OpenInv'
<1>1. EditorTypes
  BY DEF OpenInv
<1>2. UNCHANGED <<rowOf, past, id, opening, initial, onCanvas, taken, ref, debounce, chain, flight,
                  panel, work, traces>>
  BY DEF ReadDrawing, screen, queue, mine
<1>3. PICK load \in [of : Drawings, body : NoneOr(DrawingRow)] : load = loads[o]
  BY <1>1 DEF EditorTypes, ReadDrawing, NoneOr
<1>4. PICK row \in DrawingRow : row = rowOf[load.of]
  BY <1>1 DEF EditorTypes
<1>5. [load EXCEPT !.body = row] \in [of : Drawings, body : NoneOr(DrawingRow)]
  BY DEF NoneOr
<1>6. /\ loads' \in [Openings -> NoneOr([of : Drawings, body : NoneOr(DrawingRow)])]
      /\ loads'[o].of = load.of /\ loads'[o].body = row
      /\ \A q \in Openings \ {o} : loads'[q] = loads[q]
  BY <1>1, <1>3, <1>4, <1>5 DEF EditorTypes, ReadDrawing, NoneOr
<1>7. EditorTypes'
  BY <1>1, <1>2, <1>6 DEF EditorTypes
<1>9. QueueFits' /\ VersionFits' /\ FlightFits'
  BY <1>2 DEF OpenInv, QueueFits, VersionFits, FlightFits, NamesScene, Justified, Apart
<1>10. ScenesFit'
  BY <1>2 DEF OpenInv, ScenesFit, Apart, Stays, CaptureFits, Unmeant
<1>8. LoadsFit'
  <2> SUFFICES ASSUME Apart, NEW q \in Openings, loads'[q] # None
               PROVE  /\ q = opening /\ loads'[q].of = id
                      /\ initial = None /\ onCanvas = None /\ ~ taken /\ debounce = None
                      /\ chain = <<>>
                      /\ ~ ref.hydrated
                      /\ loads'[q].body # None =>
                              NamesScene(loads'[q].body.version, loads'[q].body.scene, id)
    BY <1>2 DEF LoadsFit, NamesScene, Apart
  <2>1. CASE q = o
    <3>1. loads[o] # None
      BY DEF ReadDrawing
    <3>2. row.version \in Nat
      BY DEF DrawingRow
    <3> QED
      BY <1>3, <1>4, <1>6, <2>1, <3>1, <3>2 DEF OpenInv, LoadsFit, NamesScene
  <2>2. CASE q # o
    BY <1>6, <2>2 DEF OpenInv, LoadsFit
  <2> QED
    BY <2>1, <2>2
<1> QED
  BY <1>7, <1>8, <1>9, <1>10 DEF OpenInv

\* A load is over, and what it brought is in the refs.
LEMMA LoadEnds ==
  ASSUME OpenInv, NEW o \in Openings, loads[o] # None, loads' = [loads EXCEPT ![o] = None],
         ref' \in Refs, ref.hydrated = ref'.hydrated, initial' \in NoneOr(EditorScene),
         UNCHANGED <<rowOf, past, id, opening, onCanvas, taken, debounce, chain, flight, panel,
                     work, traces>>,
         Apart => /\ ref'.version # None /\ ~ ref'.told =>
                       NamesScene(ref'.version, ref'.persisted, id)
                  /\ initial' # None => /\ ref'.initial = initial' /\ ref'.latest = initial'
                                        /\ ref'.persisted = initial'
  PROVE  OpenInv'
<1>1. EditorTypes /\ EditorTypes'
  BY DEF OpenInv, EditorTypes, NoneOr
<1>2. QueueFits' /\ FlightFits'
  BY DEF OpenInv, QueueFits, FlightFits, NamesScene, Justified, Apart
<1>3. VersionFits'
  BY DEF VersionFits, NamesScene, Apart
<1>4. Apart => \A q \in Openings : loads'[q] = None
  BY <1>1 DEF OpenInv, LoadsFit, EditorTypes
<1>5. LoadsFit'
  BY <1>4 DEF LoadsFit, Apart
<1>6. ScenesFit'
  <2> SUFFICES ASSUME Apart, "previewed" \notin traces
               PROVE  ScenesFit'
    BY DEF ScenesFit, Apart
  <2>1. /\ onCanvas = None /\ ~ taken /\ debounce = None /\ chain = <<>> /\ initial = None
        /\ ~ ref.hydrated
    BY DEF OpenInv, LoadsFit
  <2>2. panel.backup = None
    BY DEF OpenInv, ScenesFit
  <2>3. initial' # None =>
          \A m \in Mark : initial'[m] = "deleted" =>
             ref'.initial[m] # "live" /\ ref'.latest[m] # "live" /\ ref'.persisted[m] # "live"
    OBVIOUS
  <2>4. (initial # None => Stays(ref.initial) /\ Stays(ref.latest) /\ Stays(ref.persisted))'
    BY <2>3 DEF Stays
  <2>5. (\A i \in 1 .. Len(chain) : CaptureFits(chain[i]))'
    BY <2>1
  <2> QED
    BY <2>1, <2>2, <2>4, <2>5 DEF ScenesFit
<1> QED
  BY <1>1, <1>2, <1>3, <1>5, <1>6 DEF OpenInv

LEMMA LoadArrivesKeeps ==
  ASSUME OpenInv, NEW o \in Openings, LoadArrives(o)
  PROVE  OpenInv'
<1>1. EditorTypes
  BY DEF OpenInv
<1>2. PICK load \in [of : Drawings, body : NoneOr(DrawingRow)] : load = loads[o]
  BY <1>1 DEF EditorTypes, LoadArrives, NoneOr
<1>3. PICK body \in DrawingRow : body = load.body
  BY <1>2 DEF LoadArrives, NoneOr
<1>4. body.scene \in EditorScene /\ body.version \in Nat /\ body.preview \in BOOLEAN
  BY DEF DrawingRow
<1>5. PICK over \in EditorScene : over = Over(body.scene, ref.known)
  BY <1>1, <1>4, OverIs DEF EditorTypes, Refs
<1>6. PICK b \in BOOLEAN : b = (~ Renderable(body.scene) /\ body.preview)
  BY DEF Renderable
<1>7. ref' = [ref EXCEPT !.version = body.version, !.told = FALSE, !.initial = body.scene,
                         !.latest = body.scene, !.persisted = body.scene, !.suspicious = b,
                         !.known = over]
  BY <1>1, <1>2, <1>3, <1>5, <1>6 DEF LoadArrives, EditorTypes, Refs
<1>8. ref' \in Refs /\ ref'.hydrated = ref.hydrated /\ ref'.version = body.version
      /\ ref'.initial = body.scene /\ ref'.latest = body.scene /\ ref'.persisted = body.scene
  BY <1>1, <1>4, <1>5, <1>7 DEF EditorTypes, Refs, NoneOr
<1>9. initial' = body.scene /\ loads[o] # None /\ loads' = [loads EXCEPT ![o] = None]
  BY <1>2, <1>3 DEF LoadArrives
<1>10. Apart => NamesScene(body.version, body.scene, id)
  BY <1>2, <1>3 DEF OpenInv, LoadsFit, LoadArrives
<1> QED
  BY <1>4, <1>8, <1>9, <1>10, LoadEnds DEF LoadArrives, queue, mine, NoneOr

LEMMA LoadFailsKeeps ==
  ASSUME OpenInv, NEW o \in Openings, LoadFails(o)
  PROVE  OpenInv'
<1>1. ref' \in Refs /\ ref'.hydrated = ref.hydrated /\ ref'.version = None
  BY SceneIs DEF OpenInv, EditorTypes, LoadFails, Refs, NoneOr
<1> QED
  BY <1>1, LoadEnds DEF LoadFails, queue, mine, NoneOr

LEMMA MountCanvasKeeps ==
  ASSUME OpenInv, MountCanvas
  PROVE  OpenInv'
<1>1. /\ UNCHANGED <<rowOf, past, id, opening, loads, initial, taken, ref, debounce, chain, flight,
                     panel, work, traces>>
      /\ onCanvas' = Empty /\ onCanvas' # None /\ ~ taken /\ initial # None
  BY SceneIs DEF MountCanvas, server, route, queue, mine, OpenInv, EditorTypes
<1>2. EditorTypes'
  BY <1>1, SceneIs DEF OpenInv, EditorTypes, NoneOr
<1>3. QueueFits' /\ VersionFits' /\ FlightFits' /\ LoadsFit'
  BY <1>1 DEF OpenInv, QueueFits, VersionFits, FlightFits, LoadsFit, NamesScene, Justified, Apart
<1>4. ScenesFit'
  BY <1>1 DEF OpenInv, ScenesFit, Apart, Stays, CaptureFits, Unmeant
<1> QED
  BY <1>2, <1>3, <1>4 DEF OpenInv

LEMMA HeadIs ==
  ASSUME NEW s \in Seq(Captures), s # <<>>
  PROVE  /\ Head(s) \in Captures /\ Head(s) = s[1] /\ Tail(s) \in Seq(Captures) /\ 1 \in 1 .. Len(s)
         /\ \A i \in 1 .. Len(Tail(s)) : i + 1 \in 1 .. Len(s) /\ Tail(s)[i] = s[i + 1]
  OBVIOUS

LEMMA AppendIs ==
  ASSUME NEW s \in Seq(Captures), NEW c \in Captures
  PROVE  /\ Append(s, c) \in Seq(Captures) /\ Append(s, c) # <<>>
         /\ s # <<>> => Head(Append(s, c)) = Head(s)
         /\ \A i \in 1 .. Len(Append(s, c)) :
              \/ i \in 1 .. Len(s) /\ Append(s, c)[i] = s[i]
              \/ Append(s, c)[i] = c
  OBVIOUS

\* The page does something with its queue; the rows and the canvas stay as they are.
LEMMA QueueKeeps ==
  ASSUME OpenInv,
         UNCHANGED <<rowOf, past, id, opening, loads, initial, onCanvas, taken, panel, work>>,
         traces \subseteq traces',
         "reopened" \in traces' => "reopened" \in traces,
         "previewed" \in traces' => "previewed" \in traces,
         ref' \in Refs, ref'.hydrated = ref.hydrated, ref'.initial = ref.initial,
         ref'.latest = ref.latest,
         debounce' \in {None, debounce}, chain' \in Seq(Captures), flight' \in NoneOr(Flights),
         QueueFits', VersionFits', FlightFits',
         chain # <<>> \/ debounce # None \/ onCanvas # None,
         ScenesFit /\ Apart /\ "previewed" \notin traces =>
           /\ initial # None => Stays(ref'.persisted)
           /\ \A i \in 1 .. Len(chain') : CaptureFits(chain'[i])
  PROVE  OpenInv'
<1>1. EditorTypes'
  BY DEF OpenInv, EditorTypes, NoneOr
<1>2. LoadsFit'
  BY DEF OpenInv, LoadsFit, Apart
<1>3. ScenesFit'
  <2> SUFFICES ASSUME Apart, "previewed" \notin traces
               PROVE  ScenesFit'
    BY DEF ScenesFit, Apart
  <2>1. ScenesFit
    BY DEF OpenInv
  <2>2. (\A i \in 1 .. Len(chain) : CaptureFits(chain[i]))'
    BY <2>1 DEF CaptureFits, Stays, Unmeant
  <2>3. (debounce # None => CaptureFits(debounce))'
    BY <2>1 DEF ScenesFit, CaptureFits, Stays, Unmeant
  <2>4. (initial # None => Stays(ref.initial) /\ Stays(ref.latest) /\ Stays(ref.persisted))'
    BY <2>1 DEF ScenesFit, Stays
  <2> QED
    BY <2>1, <2>2, <2>3, <2>4 DEF ScenesFit
<1> QED
  BY <1>1, <1>2, <1>3 DEF OpenInv

LEMMA AutosaveKeeps ==
  ASSUME OpenInv, AutosaveFires
  PROVE  OpenInv'
<1>1. debounce \in Captures /\ chain \in Seq(Captures)
  BY DEF OpenInv, EditorTypes, AutosaveFires, NoneOr
<1>2. UNCHANGED <<rowOf, past, id, opening, loads, initial, onCanvas, taken, panel, work, ref,
                  flight, traces>>
  BY DEF AutosaveFires, server, route, screen, mine
<1>3. debounce' = None /\ debounce # None /\ chain' = Append(chain, debounce)
  BY DEF AutosaveFires, Enqueue
<1>4. QueueFits'
  BY <1>1, <1>2, <1>3, AppendIs DEF OpenInv, QueueFits
<1>5. VersionFits' /\ FlightFits'
  BY <1>1, <1>2, <1>3, AppendIs DEF OpenInv, QueueFits, VersionFits, FlightFits, NamesScene,
       Justified, Apart
<1>6. ScenesFit /\ Apart /\ "previewed" \notin traces =>
        /\ initial # None => Stays(ref'.persisted)
        /\ \A i \in 1 .. Len(chain') : CaptureFits(chain'[i])
  BY <1>1, <1>2, <1>3, AppendIs DEF ScenesFit
<1>7. ref \in Refs /\ flight \in NoneOr(Flights)
  BY DEF OpenInv, EditorTypes
<1>8. chain' \in Seq(Captures)
  BY <1>1, <1>3, AppendIs
<1> QED
  BY <1>2, <1>3, <1>4, <1>5, <1>6, <1>7, <1>8, QueueKeeps

\* What is saved instead of what the guards refuse shows something.
LEMMA SafeIs ==
  ASSUME NEW b \in EditorScene, NEW s \in EditorScene
  PROVE  \/ SafeSnapshot(b, s) = s
         \/ SafeSnapshot(b, s) = b /\ Renderable(b)
  BY DEF SafeSnapshot, Prevented, StaleEmpty, StaleNonRenderable

LEMMA BaselineIs ==
  ASSUME ref \in Refs
  PROVE  /\ PageBaseline \in EditorScene
         /\ PageBaseline \in {ref.persisted, ref.initial, ref.latest}
  BY DEF PageBaseline, Baseline, Refs

LEMMA SaveShortcutKeeps ==
  ASSUME OpenInv, SaveShortcut
  PROVE  OpenInv'
<1>1. /\ onCanvas \in EditorScene /\ chain \in Seq(Captures) /\ id \in Drawings /\ ref \in Refs
      /\ flight \in NoneOr(Flights)
  BY DEF OpenInv, EditorTypes, SaveShortcut, NoneOr
<1>2. UNCHANGED <<rowOf, past, id, opening, loads, initial, onCanvas, taken, panel, work, ref,
                  flight, debounce>>
  BY DEF SaveShortcut, server, route, screen, mine
<1>3. PICK safe \in EditorScene : safe = SafeSnapshot(PageBaseline, onCanvas)
  BY <1>1, BaselineIs, SafeIs
<1>4. PICK meant \in BOOLEAN : meant = (safe = work)
  OBVIOUS
<1>5. PICK c \in Captures : c = [of |-> id, scene |-> safe, meant |-> meant]
  BY <1>1 DEF Captures
<1>6. chain' = Append(chain, c)
  BY <1>3, <1>4, <1>5 DEF SaveShortcut, Enqueue, Capture
<1>7. /\ traces \subseteq traces' /\ ("reopened" \in traces' => "reopened" \in traces)
      /\ ("previewed" \in traces' => "previewed" \in traces)
  BY DEF SaveShortcut, Trace
<1>8. QueueFits'
  BY <1>1, <1>2, <1>5, <1>6, AppendIs DEF OpenInv, QueueFits
<1>9. VersionFits'
  BY <1>2, <1>7 DEF OpenInv, VersionFits, NamesScene, Apart
<1>10. FlightFits'
  BY <1>1, <1>2, <1>6, <1>7, AppendIs DEF OpenInv, QueueFits, FlightFits, NamesScene, Justified,
       Apart
<1>11. ASSUME ScenesFit, Apart, "previewed" \notin traces
       PROVE  /\ initial # None => Stays(ref'.persisted)
              /\ \A i \in 1 .. Len(chain') : CaptureFits(chain'[i])
  <2>1. /\ initial # None /\ Stays(onCanvas) /\ (~ taken => onCanvas = Empty)
        /\ (taken => onCanvas = work)
        /\ Stays(ref.persisted) /\ Stays(ref.initial) /\ Stays(ref.latest)
    BY <1>11, CanvasIs DEF SaveShortcut, ScenesFit
  <2>2. Stays(PageBaseline)
    BY <1>1, <2>1, BaselineIs
  <2>3. Unmeant(Empty)
    BY DEF Unmeant, Empty
  <2>4. Stays(safe) /\ (meant \/ Renderable(safe) \/ Unmeant(safe))
    BY <1>1, <1>3, <1>4, <2>1, <2>2, <2>3, BaselineIs, SafeIs
  <2>5. CaptureFits(c)
    BY <1>5, <2>4 DEF CaptureFits
  <2>6. \A i \in 1 .. Len(chain) : CaptureFits(chain[i])
    BY <1>11 DEF ScenesFit
  <2> QED
    BY <1>1, <1>2, <1>6, <2>1, <2>5, <2>6, AppendIs
<1>12. chain' \in Seq(Captures)
  BY <1>1, <1>6, AppendIs
<1> QED
  BY <1>1, <1>2, <1>7, <1>8, <1>9, <1>10, <1>11, <1>12, QueueKeeps DEF SaveShortcut

\* A scene that the guards let through and that empties what the page saved
\* last is meant, or deletes some of it by an earlier version looked at.
LEMMA LetThrough ==
  ASSUME OpenInv, chain # <<>>, ~ HeldBack(Head(chain).scene), Apart,
         ref.version # None, ~ ref.told, ref.version = rowOf[id].version,
         Renderable(rowOf[id].scene), ~ Renderable(Head(chain).scene)
  PROVE  Justified(Head(chain))
<1>1. rowOf[id].scene = ref.persisted
  BY DEF OpenInv, VersionFits, NamesScene
<1>2. IntendedDeletion(ref.persisted, Head(chain).scene)
  BY <1>1 DEF HeldBack, Prevented, PageBaseline, Baseline, StaleNonRenderable
<1>3. CASE "previewed" \in traces
  BY <1>1, <1>2, <1>3 DEF Justified
<1>4. CASE "previewed" \notin traces
  <2>1. PICK m \in Mark : ref.persisted[m] = "live" /\ Head(chain).scene[m] = "deleted"
    BY <1>2 DEF IntendedDeletion
  <2>2. CaptureFits(Head(chain))
    BY <1>4, HeadIs DEF OpenInv, EditorTypes, ScenesFit
  <2>3. CASE Unmeant(Head(chain).scene)
    <3>1. initial # None /\ initial[m] = "deleted"
      BY <2>1, <2>3 DEF Unmeant
    <3>2. Stays(ref.persisted)
      BY <1>4, <3>1 DEF OpenInv, ScenesFit
    <3> QED
      BY <2>1, <3>1, <3>2 DEF Stays
  <2> QED
    BY <2>2, <2>3 DEF CaptureFits, Justified
<1> QED
  BY <1>3, <1>4

\* The queue without its head.
LEMMA DropIs ==
  ASSUME OpenInv, chain # <<>>, DropHead, UNCHANGED <<id, debounce>>
  PROVE  /\ chain' \in Seq(Captures) /\ flight' = None /\ QueueFits'
         /\ ScenesFit /\ Apart /\ "previewed" \notin traces =>
              \A i \in 1 .. Len(chain') : CaptureFits(chain'[i])
<1>1. chain \in Seq(Captures)
  BY DEF OpenInv, EditorTypes
<1>2. chain' = Tail(chain) /\ flight' = None
  BY DEF DropHead
<1>3. QueueFits'
  BY <1>1, <1>2, HeadIs DEF OpenInv, QueueFits
<1> QED
  BY <1>1, <1>2, <1>3, HeadIs DEF ScenesFit

LEMMA StartKeeps ==
  ASSUME OpenInv, Start
  PROVE  OpenInv'
<1>1. UNCHANGED <<rowOf, past, id, opening, loads, initial, onCanvas, taken, panel, work, ref,
                  debounce, traces>>
  BY DEF Start, server, route, screen, mine
<1>2. /\ ref \in Refs /\ chain \in Seq(Captures) /\ chain # <<>> /\ flight = None /\ id \in Drawings
      /\ rowOf[id] \in DrawingRow
  BY DEF OpenInv, EditorTypes, Start
<1>3. VersionFits'
  BY <1>1 DEF OpenInv, VersionFits, NamesScene, Apart
<1>4. ScenesFit /\ Apart /\ "previewed" \notin traces => (initial # None => Stays(ref'.persisted))
  BY <1>1 DEF ScenesFit
<1>5. CASE HeldBack(Head(chain).scene)
  <2>1. DropHead
    BY <1>5 DEF Start
  <2>2. FlightFits'
    BY <2>1 DEF DropHead, FlightFits
  <2> QED
    BY <1>1, <1>2, <1>3, <1>4, <2>1, <2>2, DropIs, QueueKeeps DEF NoneOr
<1>6. CASE ~ HeldBack(Head(chain).scene)
  <2>1. flight' = Attempt(0) /\ chain' = chain
    BY <1>6 DEF Start
  <2>2. /\ flight' \in Flights /\ flight'.phase = "sent" /\ flight'.base = ref.version
        /\ flight'.told = ref.told
    BY <1>2, <2>1 DEF Attempt, Flights, Refs
  <2>3. FlightFits'
    <3> SUFFICES ASSUME Apart, ref.version # None, ~ ref.told
                 PROVE  /\ ref.version <= rowOf[id].version
                        /\ ref.version = rowOf[id].version /\ Renderable(rowOf[id].scene)
                           /\ ~ Renderable(Head(chain).scene) => Justified(Head(chain))
      BY <1>1, <2>1, <2>2 DEF FlightFits, Apart, Justified
    <3>1. ref.version <= rowOf[id].version
      BY DEF OpenInv, VersionFits, NamesScene
    <3> QED
      BY <1>2, <1>6, <3>1, LetThrough
  <2>4. QueueFits'
    BY <1>1, <1>2, <2>1 DEF OpenInv, QueueFits
  <2>5. ScenesFit /\ Apart /\ "previewed" \notin traces =>
          \A i \in 1 .. Len(chain') : CaptureFits(chain'[i])
    BY <2>1 DEF ScenesFit
  <2> QED
    BY <1>1, <1>2, <1>3, <1>4, <2>1, <2>2, <2>3, <2>4, <2>5, QueueKeeps DEF NoneOr
<1> QED
  BY <1>5, <1>6

LEMMA TakeSavedKeeps ==
  ASSUME OpenInv, TakeSaved
  PROVE  OpenInv'
<1>1. UNCHANGED <<rowOf, past, id, opening, loads, initial, onCanvas, taken, panel, work, debounce,
                  traces>>
  BY DEF TakeSaved, server, route, screen, mine
<1>2. ref \in Refs /\ chain \in Seq(Captures) /\ chain # <<>> /\ flight \in Flights
  BY DEF OpenInv, EditorTypes, QueueFits, TakeSaved, InPhase, NoneOr
<1>3. Head(chain) \in Captures /\ Head(chain).scene \in EditorScene
  BY <1>2, HeadIs DEF Captures
<1>4. /\ ref' \in Refs /\ ref'.hydrated = ref.hydrated /\ ref'.initial = ref.initial
      /\ ref'.latest = ref.latest
      /\ ref'.version = flight.version /\ ref'.persisted = Head(chain).scene
  BY <1>2, <1>3 DEF TakeSaved, Refs, Flights, NoneOr
<1>5. chain' \in Seq(Captures) /\ flight' = None /\ QueueFits'
  BY <1>1, <1>2, DropIs DEF TakeSaved
<1>6. VersionFits'
  BY <1>1, <1>4 DEF OpenInv, FlightFits, VersionFits, NamesScene, TakeSaved, InPhase
<1>7. FlightFits'
  BY <1>5 DEF FlightFits
<1>8. ASSUME ScenesFit, Apart, "previewed" \notin traces
      PROVE  /\ initial # None => Stays(ref'.persisted)
             /\ \A i \in 1 .. Len(chain') : CaptureFits(chain'[i])
  <2>1. CaptureFits(Head(chain))
    BY <1>2, <1>8, HeadIs DEF ScenesFit
  <2> QED
    BY <1>1, <1>2, <1>4, <1>8, <2>1, DropIs DEF TakeSaved, CaptureFits
<1> QED
  BY <1>1, <1>2, <1>4, <1>5, <1>6, <1>7, <1>8, QueueKeeps DEF NoneOr

LEMMA TakeConflictKeeps ==
  ASSUME OpenInv, TakeConflict
  PROVE  OpenInv'
<1>1. UNCHANGED <<rowOf, past, id, opening, loads, initial, onCanvas, taken, panel, work, debounce,
                  traces>>
  BY DEF TakeConflict, server, route, screen, mine
<1>2. ref \in Refs /\ chain \in Seq(Captures) /\ chain # <<>> /\ flight \in Flights
  BY DEF OpenInv, EditorTypes, QueueFits, TakeConflict, InPhase, NoneOr
<1>3. /\ ref' \in Refs /\ ref'.hydrated = ref.hydrated /\ ref'.initial = ref.initial
      /\ ref'.latest = ref.latest
      /\ ref'.told /\ ref'.persisted = ref.persisted
  BY <1>2 DEF TakeConflict, Refs, Flights, NoneOr
<1>4. VersionFits'
  BY <1>3 DEF VersionFits
<1>5. ScenesFit => (initial # None /\ Apart /\ "previewed" \notin traces => Stays(ref'.persisted))
  BY <1>3 DEF ScenesFit
<1>6. CASE flight.attempt = 0
  <2>1. chain' = chain /\ flight' = [Attempt(1) EXCEPT !.base = flight.version, !.told = TRUE]
    BY <1>6 DEF TakeConflict
  <2>2. flight' \in Flights /\ flight'.phase = "sent" /\ flight'.told
    BY <1>2, <2>1 DEF Attempt, Flights, NoneOr
  <2>3. FlightFits' /\ QueueFits'
    BY <1>1, <1>2, <2>1, <2>2 DEF OpenInv, FlightFits, QueueFits
  <2>4. ScenesFit /\ Apart /\ "previewed" \notin traces =>
          \A i \in 1 .. Len(chain') : CaptureFits(chain'[i])
    BY <2>1 DEF ScenesFit
  <2> QED
    BY <1>1, <1>2, <1>3, <1>4, <1>5, <2>1, <2>2, <2>3, <2>4, QueueKeeps DEF NoneOr
<1>7. CASE flight.attempt # 0
  <2>1. DropHead
    BY <1>7 DEF TakeConflict
  <2>2. FlightFits'
    BY <2>1 DEF DropHead, FlightFits
  <2> QED
    BY <1>1, <1>2, <1>3, <1>4, <1>5, <2>1, <2>2, DropIs, QueueKeeps DEF NoneOr
<1> QED
  BY <1>6, <1>7

LEMMA TakeFailureKeeps ==
  ASSUME OpenInv, TakeFailure
  PROVE  OpenInv'
<1>1. UNCHANGED <<rowOf, past, id, opening, loads, initial, onCanvas, taken, panel, work, ref,
                  debounce, traces>>
  BY DEF TakeFailure, server, route, screen, mine
<1>2. ref \in Refs /\ chain \in Seq(Captures) /\ chain # <<>> /\ DropHead
  BY DEF OpenInv, EditorTypes, QueueFits, TakeFailure, InPhase, NoneOr
<1>3. VersionFits' /\ FlightFits'
  BY <1>1, <1>2 DEF OpenInv, VersionFits, FlightFits, DropHead, NamesScene, Apart
<1>4. ScenesFit /\ Apart /\ "previewed" \notin traces => (initial # None => Stays(ref'.persisted))
  BY <1>1 DEF ScenesFit
<1> QED
  BY <1>1, <1>2, <1>3, <1>4, DropIs, QueueKeeps DEF NoneOr

-----------------------------------------------------------------------------
\* Rows are written, or a request goes on; the page stays as it is.
LEMMA RowsKeep ==
  ASSUME OpenInv,
         UNCHANGED <<id, opening, loads, initial, onCanvas, taken, ref, debounce, chain, panel,
                     work, traces>>,
         rowOf' \in [Drawings -> DrawingRow], past' \in [Drawings -> SUBSET EditorScene],
         \A d \in Drawings : rowOf'[d] = rowOf[d] \/ rowOf'[d].version > rowOf[d].version,
         flight' \in NoneOr(Flights), flight' # None => flight # None, FlightFits'
  PROVE  OpenInv'
<1>1. EditorTypes /\ EditorTypes'
  BY DEF OpenInv, EditorTypes
<1>2. QueueFits'
  BY DEF OpenInv, QueueFits
<1>3. rowOf[id].version \in Nat /\ rowOf'[id].version \in Nat
  BY <1>1 DEF EditorTypes, DrawingRow
<1>4. ASSUME NEW v \in Nat, NEW s, NamesScene(v, s, id)
      PROVE  v <= rowOf'[id].version /\ (v = rowOf'[id].version => rowOf'[id].scene = s)
  BY <1>1, <1>3, <1>4 DEF NamesScene, EditorTypes
<1>5. VersionFits'
  BY <1>1, <1>4 DEF OpenInv, VersionFits, NamesScene, Apart, EditorTypes, Refs, NoneOr
<1>6. LoadsFit'
  <2> SUFFICES ASSUME Apart, NEW o \in Openings, loads[o] # None
               PROVE  /\ o = opening /\ loads[o].of = id
                      /\ initial = None /\ onCanvas = None /\ ~ taken /\ debounce = None
                      /\ chain = <<>>
                      /\ ~ ref.hydrated
                      /\ loads[o].body # None =>
                           /\ loads[o].body.version <= rowOf'[id].version
                           /\ loads[o].body.version = rowOf'[id].version =>
                                rowOf'[id].scene = loads[o].body.scene
    BY DEF LoadsFit, Apart, NamesScene
  <2>1. loads[o].body # None => loads[o].body.version \in Nat
    BY <1>1 DEF EditorTypes, NoneOr, DrawingRow
  <2> QED
    BY <1>4, <2>1 DEF OpenInv, LoadsFit
<1>7. ScenesFit'
  BY DEF OpenInv, ScenesFit, Apart, Stays, CaptureFits, Unmeant
<1> QED
  BY <1>1, <1>2, <1>5, <1>6, <1>7 DEF OpenInv

LEMMA OverwriteIs ==
  ASSUME EditorTypes, NEW d \in Drawings, NEW s \in EditorScene, NEW by \in {"page", "other"},
         Overwrite(d, s, by)
  PROVE  /\ rowOf' \in [Drawings -> DrawingRow] /\ past' \in [Drawings -> SUBSET EditorScene]
         /\ rowOf'[d].scene = s /\ rowOf'[d].version = rowOf[d].version + 1
         /\ rowOf[d].version \in Nat
         /\ \A e \in Drawings : e # d => rowOf'[e] = rowOf[e]
         /\ \A e \in Drawings : rowOf'[e] = rowOf[e] \/ rowOf'[e].version > rowOf[e].version
<1>1. PICK row \in DrawingRow : row = rowOf[d]
  BY DEF EditorTypes
<1>2. row.version \in Nat /\ row.scene \in EditorScene
  BY DEF DrawingRow
<1> DEFINE next == [row EXCEPT !.scene = s, !.version = @ + 1, !.by = by]
<1>3. row.preview \in BOOLEAN /\ row.version + 1 \in Nat
  BY <1>2 DEF DrawingRow
<1>7. PICK v \in Nat : v = row.version + 1
  BY <1>3
<1>11. next = [row EXCEPT !.scene = s, !.version = v, !.by = by]
  BY <1>7
<1> HIDE DEF next
<1>8. next \in DrawingRow
  BY <1>11 DEF DrawingRow
<1>4. next.scene = s /\ next.version = row.version + 1
  BY <1>7, <1>11 DEF DrawingRow
<1>5. rowOf' = [rowOf EXCEPT ![d] = next]
  BY <1>1 DEF Overwrite, EditorTypes, next
<1>6. past' \in [Drawings -> SUBSET EditorScene]
  BY <1>1, <1>2 DEF Overwrite, EditorTypes
<1>9. rowOf' \in [Drawings -> DrawingRow] /\ rowOf'[d] = next /\ \A e \in Drawings : e # d =>
        rowOf'[e] = rowOf[e]
  BY <1>5, <1>8 DEF EditorTypes
<1>10. \A e \in Drawings : rowOf'[e] = rowOf[e] \/ rowOf'[e].version > rowOf[e].version
  BY <1>1, <1>2, <1>4, <1>9
<1> QED
  BY <1>1, <1>2, <1>4, <1>6, <1>9, <1>10

LEMMA ServerSavesKeeps ==
  ASSUME OpenInv, ServerSaves
  PROVE  OpenInv'
<1>1. UNCHANGED <<id, opening, loads, initial, onCanvas, taken, ref, debounce, chain, panel, work,
                  traces>>
  BY DEF ServerSaves, route, screen, mine
<1>2. /\ flight \in Flights /\ flight # None /\ Head(chain) \in Captures /\ Head(chain).of = id
      /\ id \in Drawings
  BY HeadIs DEF OpenInv, EditorTypes, QueueFits, ServerSaves, InPhase, NoneOr
<1>3. Head(chain).scene \in EditorScene
  BY <1>2 DEF Captures
<1>4. Overwrite(id, Head(chain).scene, "page")
  BY <1>2 DEF ServerSaves
<1>5. /\ rowOf[id].version \in Nat /\ rowOf'[id].version = rowOf[id].version + 1
      /\ rowOf'[id].scene = Head(chain).scene
  BY <1>2, <1>3, <1>4, OverwriteIs DEF OpenInv
<1>8. PICK v \in Nat : v = rowOf[id].version + 1
  BY <1>5
<1>9. flight' = [flight EXCEPT !.phase = "saved", !.version = v]
  BY <1>2, <1>8 DEF ServerSaves, FlightBecomes
<1>6. flight' \in Flights /\ flight'.phase = "saved" /\ flight'.version = rowOf[id].version + 1
  BY <1>2, <1>8, <1>9 DEF Flights
<1>7. FlightFits'
  BY <1>1, <1>5, <1>6 DEF FlightFits, NamesScene
<1> QED
  BY <1>1, <1>2, <1>3, <1>4, <1>6, <1>7, OverwriteIs, RowsKeep DEF OpenInv, NoneOr

LEMMA ServerConflictsKeeps ==
  ASSUME OpenInv, ServerConflicts
  PROVE  OpenInv'
<1>1. UNCHANGED <<rowOf, past, id, opening, loads, initial, onCanvas, taken, ref, debounce, chain,
                  panel, work, traces>>
  BY DEF ServerConflicts, server, route, screen, mine
<1>2. flight \in Flights /\ flight # None /\ Head(chain).of \in Drawings
  BY HeadIs DEF OpenInv, EditorTypes, QueueFits, ServerConflicts, InPhase, NoneOr, Captures
<1>3. rowOf[Head(chain).of].version \in Nat
  BY <1>2 DEF OpenInv, EditorTypes, DrawingRow
<1>4. flight' \in Flights /\ flight'.phase = "conflict"
  BY <1>2, <1>3 DEF ServerConflicts, FlightBecomes, Flights
<1>5. FlightFits'
  BY <1>4 DEF FlightFits
<1> QED
  BY <1>1, <1>2, <1>4, <1>5, RowsKeep DEF OpenInv, EditorTypes, NoneOr

LEMMA LoseSaveKeeps ==
  ASSUME OpenInv, LoseSave
  PROVE  OpenInv'
<1>1. UNCHANGED <<rowOf, past, id, opening, loads, initial, onCanvas, taken, ref, debounce, chain,
                  panel, work, traces>>
  BY DEF LoseSave, server, route, screen, mine
<1>2. flight \in Flights /\ flight # None
  BY DEF OpenInv, EditorTypes, LoseSave, InPhase, NoneOr
<1>4. flight' \in Flights /\ flight'.phase = "failed"
  BY <1>2 DEF LoseSave, FlightBecomes, Flights
<1>5. FlightFits'
  BY <1>4 DEF FlightFits
<1> QED
  BY <1>1, <1>2, <1>4, <1>5, RowsKeep DEF OpenInv, EditorTypes, NoneOr

LEMMA OtherSavesKeeps ==
  ASSUME OpenInv, NEW d \in Drawings, NEW m \in Mark, OtherSaves(d, m)
  PROVE  OpenInv'
<1>1. UNCHANGED <<id, opening, loads, initial, onCanvas, taken, ref, debounce, chain, flight,
                  panel, work, traces>>
  BY DEF OtherSaves, route, screen, queue, mine
<1>2. PICK s \in EditorScene : s = [rowOf[d].scene EXCEPT ![m] = "live"]
  BY DEF OpenInv, EditorTypes, DrawingRow, EditorScene
<1>3. Overwrite(d, s, "other")
  BY <1>2 DEF OtherSaves
<1>4. /\ rowOf' \in [Drawings -> DrawingRow] /\ past' \in [Drawings -> SUBSET EditorScene]
      /\ \A e \in Drawings : rowOf'[e] = rowOf[e] \/ rowOf'[e].version > rowOf[e].version
  BY <1>3, OverwriteIs DEF OpenInv
<1>5. /\ id \in Drawings /\ rowOf[id].version \in Nat /\ rowOf'[id].version \in Nat
      /\ flight \in NoneOr(Flights)
  BY <1>4 DEF OpenInv, EditorTypes, DrawingRow
<1>6. FlightFits'
  <2> SUFFICES ASSUME flight # None
               PROVE  FlightFits'
    BY <1>1 DEF FlightFits
  <2>1. flight.version \in Nat /\ flight.base \in NoneOr(Nat)
    BY <1>5 DEF NoneOr, Flights
  <2>2. CASE rowOf'[id] = rowOf[id]
    BY <1>1, <2>2 DEF OpenInv, FlightFits, NamesScene, Justified, Apart
  <2>3. CASE rowOf'[id].version > rowOf[id].version
    BY <1>1, <1>5, <2>1, <2>3 DEF OpenInv, FlightFits, NamesScene, Apart, NoneOr
  <2> QED
    BY <1>4, <1>5, <2>2, <2>3
<1> QED
  BY <1>1, <1>4, <1>5, <1>6, RowsKeep

-----------------------------------------------------------------------------
LEMMA OpenStart == ASSUME EditorInit PROVE OpenInv
<1>1. PICK rows \in [Drawings -> DrawingRow] : InitWith(rows)
  BY DEF EditorInit
<1>2. id \in Drawings /\ [of |-> id, body |-> None] \in [of : Drawings, body : NoneOr(DrawingRow)]
  BY <1>1 DEF InitWith, NoneOr
<1>3. /\ loads \in [Openings -> NoneOr([of : Drawings, body : NoneOr(DrawingRow)])]
      /\ \A o \in Openings : loads[o] # None => o = 1 /\ loads[o] = [of |-> id, body |-> None]
  BY <1>1, <1>2 DEF InitWith, NoneOr
<1>4. ResetRefs \in Refs /\ ref = ResetRefs /\ ref.version = None /\ ~ ref.hydrated
  BY <1>1, SceneIs DEF InitWith, ResetRefs, Refs, NoneOr
<1>5. panel \in [open : BOOLEAN, selected : NoneOr(EditorScene), asked : SUBSET EditorScene,
                 backup : NoneOr(EditorScene)]
      /\ panel.backup = None
  BY <1>1 DEF InitWith, NoPanel, NoneOr
<1>6. EditorTypes
  <2>1. rowOf \in [Drawings -> DrawingRow] /\ past \in [Drawings -> SUBSET EditorScene]
    BY <1>1 DEF InitWith
  <2>2. /\ opening \in Nat /\ taken = FALSE /\ initial = None /\ onCanvas = None /\ debounce = None
        /\ flight = None
    BY <1>1 DEF InitWith
  <2>3. chain \in Seq(Captures)
    BY <1>1 DEF InitWith
  <2> QED
    BY <1>2, <1>3, <1>4, <1>5, <2>1, <2>2, <2>3 DEF EditorTypes, NoneOr
<1>7. QueueFits /\ VersionFits /\ FlightFits
  BY <1>1, <1>4 DEF InitWith, QueueFits, VersionFits, FlightFits
<1>8. LoadsFit
  BY <1>1, <1>3, <1>4 DEF InitWith, LoadsFit
<1>9. ScenesFit
  BY <1>1, <1>5 DEF InitWith, ScenesFit
<1> QED
  BY <1>6, <1>7, <1>8, <1>9 DEF OpenInv

LEMMA OpenStep == ASSUME OpenInv, [EditorNext]_editorVars PROVE OpenInv'
<1>1. CASE Opens
  BY <1>1, ReopenKeeps, ReadDrawingKeeps, LoadArrivesKeeps, LoadFailsKeeps, MountCanvasKeeps,
       TakeUpKeeps DEF Opens
<1>2. CASE Draws
  BY <1>2, EarlyReportKeeps, FlickerKeeps, TouchKeeps, DrawKeeps, EraseKeeps DEF Draws
<1>3. CASE LooksBack
  BY <1>3, OpenPanelKeeps, DeselectKeeps, ClosePanelKeeps, SelectKeeps, PreviewArrivesKeeps,
       PreviewFailsKeeps
  DEF LooksBack
<1>4. CASE Saves
  BY <1>4, AutosaveKeeps, SaveShortcutKeeps, StartKeeps, ServerSavesKeeps, ServerConflictsKeeps,
       LoseSaveKeeps,
     TakeSavedKeeps, TakeConflictKeeps, TakeFailureKeeps, OtherSavesKeeps
  DEF Saves
<1>5. CASE UNCHANGED editorVars
  <2>1. UNCHANGED <<rowOf, past, id, opening, loads, initial, onCanvas, taken, ref, debounce,
                    chain, flight, panel, work, traces>>
    BY <1>5 DEF editorVars
  <2>2. EditorTypes' /\ QueueFits' /\ VersionFits' /\ FlightFits' /\ LoadsFit'
    BY <2>1 DEF OpenInv, EditorTypes, QueueFits, VersionFits, FlightFits, LoadsFit, NamesScene,
         Justified, Apart
  <2>3. ScenesFit'
    BY <2>1 DEF OpenInv, ScenesFit, Apart, Stays, CaptureFits, Unmeant
  <2> QED
    BY <2>2, <2>3 DEF OpenInv
<1> QED
  BY <1>1, <1>2, <1>3, <1>4, <1>5 DEF EditorNext

LEMMA OpenInvHolds == EditorSpec => []OpenInv
<1>1. EditorInit => OpenInv
  BY OpenStart
<1>2. OpenInv /\ [EditorNext]_editorVars => OpenInv'
  BY OpenStep
<1> QED
  BY <1>1, <1>2, PTL DEF EditorSpec

\* Only a save of the page can empty a drawing, and that one is accounted for.
LEMMA EmptiedStep ==
  ASSUME OpenInv, [EditorNext]_editorVars, NEW d \in Drawings,
         Renderable(rowOf[d].scene), ~ Renderable(rowOf'[d].scene)
  PROVE  /\ Head(chain).of = d
         /\ Head(chain).meant \/ Blind \/ "reopened" \in traces \/ DeletedWhenPreviewed(d)
<1>1. rowOf' # rowOf
  OBVIOUS
<1>2. ServerSaves \/ \E e \in Drawings, m \in Mark : OtherSaves(e, m)
  BY <1>1 DEF EditorNext, editorVars, Opens, Draws, LooksBack, Saves, server, Reopen, ReadDrawing,
       LoadArrives,
     LoadFails, MountCanvas, TakeUp, EarlyReport, Flicker, Touch, Draw, Erase, ChangeCanvas,
     OpenPanel, Deselect,
     ClosePanel, Select, PreviewArrives, PreviewFails, AutosaveFires, SaveShortcut, Start,
     ServerConflicts,
     LoseSave, TakeSaved, TakeConflict, TakeFailure
<1>3. CASE ServerSaves
  <2>1. /\ flight \in Flights /\ flight # None /\ flight.phase = "sent" /\ Head(chain) \in Captures
        /\ Head(chain).of = id
    BY <1>3, HeadIs DEF OpenInv, EditorTypes, QueueFits, ServerSaves, InPhase, NoneOr
  <2>2. /\ Head(chain).scene \in EditorScene /\ id \in Drawings
        /\ Overwrite(id, Head(chain).scene, "page")
    BY <1>3, <2>1 DEF OpenInv, EditorTypes, Captures, ServerSaves
  <2>3. d = id /\ rowOf'[d].scene = Head(chain).scene
    BY <2>2, OverwriteIs DEF OpenInv
  <2>4. flight.base \in {None, rowOf[id].version}
    BY <1>3, <2>1 DEF ServerSaves
  <2>5. Apart /\ ~ Blind => Justified(Head(chain))
    BY <2>1, <2>3, <2>4 DEF OpenInv, FlightFits, Blind
  <2> QED
    BY <2>1, <2>3, <2>5 DEF Apart, Justified, DeletedWhenPreviewed
<1>4. ASSUME NEW e \in Drawings, NEW m \in Mark, OtherSaves(e, m)
      PROVE  FALSE
  <2>4. PICK before \in EditorScene : before = rowOf[e].scene
    BY DEF OpenInv, EditorTypes, DrawingRow
  <2>1. PICK s \in EditorScene : s = [rowOf[e].scene EXCEPT ![m] = "live"] /\ s[m] = "live"
    <3>1. [before EXCEPT ![m] = "live"] \in EditorScene /\ [before EXCEPT ![m] = "live"][m] = "live"
      BY DEF EditorScene
    <3> QED
      BY <2>4, <3>1
  <2>2. Overwrite(e, s, "other")
    BY <1>4, <2>1 DEF OtherSaves
  <2>3. rowOf'[e].scene = s /\ (d # e => rowOf'[d] = rowOf[d])
    BY <2>2, OverwriteIs DEF OpenInv
  <2> QED
    BY <2>1, <2>3 DEF Renderable
<1> QED
  BY <1>2, <1>3, <1>4

(***************************************************************************)
(* A drawing that shows something is emptied only by a save of this page   *)
(* that its user meant, for every number of drawings, elements, openings,  *)
(* acts and waiting saves; the exceptions are those that EmptiedOnPurpose  *)
(* names.                                                                  *)
(***************************************************************************)
THEOREM NoDrawingIsEmptied == EditorSpec => EmptiedOnPurpose
<1>1. OpenInv /\ [EditorNext]_editorVars =>
        [\A d \in Drawings :
           Renderable(rowOf[d].scene) /\ ~ Renderable(rowOf'[d].scene) =>
             /\ Head(chain).of = d
             /\ \/ Head(chain).meant \/ Blind
                \/ "reopened" \in traces \/ DeletedWhenPreviewed(d)]_editorVars
  BY EmptiedStep
<1> QED
  BY <1>1, OpenInvHolds, PTL DEF EditorSpec, EmptiedOnPurpose

-----------------------------------------------------------------------------
(***************************************************************************)
(* The user's own scene.  What reaches the database is what was captured   *)
(* last, unless a guard holds it back or something else is captured after  *)
(* it; and a capture is skipped when the list looks as it did.  So the     *)
(* invariant names the scene that was captured last, which the page keeps  *)
(* only as the two refs that tell whether the list changed, and follows it *)
(* through the debounce and the queue to the row; and it says why a guard  *)
(* lets it through: what the baseline shows is on the canvas, if only as   *)
(* deleted, or the drawing was opened blank and nothing was drawn since.   *)
(***************************************************************************)
\* Nothing happened but that earlier versions were looked at.
Undisturbed == traces \subseteq {"previewed"}

\* The scene that was captured last; there is one if order is set.
LastSeen == [m \in Mark |-> IF m \in ref.order THEN ref.known[m] ELSE "absent"]

\* The panel: something is looked at only on a canvas that was taken up, and
\* under a preview there is the user's own scene.
LooksFit ==
  Undisturbed =>
    /\ Looking => taken
    /\ panel.asked \subseteq past[id]
    /\ panel.backup # None => panel.open /\ panel.selected # None
    /\ taken => work \in EditorScene /\ Underneath = work
    /\ ~ taken => ~ edited

\* The refs, and how far the canvas has come with what was opened.
RefsFit ==
  Undisturbed =>
    /\ initial = None => ~ taken /\ onCanvas = None /\ ref.order = None /\ ~ ref.hydrated
    /\ initial # None =>
       /\ ~ ref.hydrated => ref.initial = initial /\ ~ taken /\ ref.order = None
       /\ Renderable(initial) /\ ~ taken => ~ ref.hydrated
       /\ ref.order # None => ref.latest = LastSeen
       /\ ~ taken => onCanvas \in {None, Empty}
       /\ ~ taken /\ ref.order # None => LastSeen = Empty
       /\ taken /\ Renderable(onCanvas) => Renderable(ref.latest) \/ Renderable(ref.initial)

\* An element that the user has, or had.
Known(m) == work[m] # "absent" \/ \E s \in past[id] : s[m] # "absent"

\* While the user's scene is on the canvas it is what was captured last, if anything was.
SeenFits ==
  Undisturbed /\ taken =>
    /\ Renderable(work) \/ traces = {} =>
         /\ ref.order # None /\ panel.backup = None => LastSeen = work
         /\ edited => ref.order # None
    /\ \A m \in Mark : onCanvas[m] # "absent" => Known(m)
    /\ ref.order # None => \A m \in Mark : LastSeen[m] # "absent" => Known(m)

\* The user's scene, or the one that he is about to get; and a scene that shows
\* nothing which is not there, at least as deleted.
Present == IF taken THEN work ELSE initial

Within(b) == \A m \in Mark : b[m] = "live" => Present[m] # "absent"

\* As long as nothing was looked at, every scene the page holds is within it.
LiveFits ==
  traces = {} /\ initial # None =>
    /\ Within(ref.persisted) /\ Within(ref.initial) /\ Within(ref.latest)
    /\ \A i \in 1 .. Len(chain) : Within(chain[i].scene)
    /\ debounce # None => Within(debounce.scene)

\* What was read to open the drawing is still in its row.
ReadsFit ==
  Undisturbed => \A o \in Openings : loads[o] # None /\ loads[o].body # None =>
    rowOf[id].by = "other" \/ rowOf[id].scene = loads[o].body.scene

\* A drawing that was opened blank although it has a preview: nothing was drawn since.
BlankFits ==
  Undisturbed /\ ref.suspicious =>
    /\ ~ Renderable(ref.persisted) /\ ~ Renderable(ref.initial) /\ ~ Renderable(ref.latest)
    /\ \A i \in 1 .. Len(chain) : ~ Renderable(chain[i].scene)
    /\ debounce # None => ~ Renderable(debounce.scene)
    /\ taken => ~ Renderable(work)
    /\ (rowOf[id].by = "other" \/ ~ Renderable(rowOf[id].scene))

\* What the server has written and not yet answered.
SavedFits ==
  InPhase("saved") => rowOf[id].by = "other" \/ rowOf[id].scene = Head(chain).scene

\* What was captured last is the user's own scene, or else a version that shows.
Counts == traces = {} \/ (taken /\ Renderable(work) /\ Renderable(LastSeen))

\* It is the last thing that waits, or nothing waits and the row shows it.
WaitFits ==
  Undisturbed /\ ref.order # None /\ Counts =>
    /\ debounce # None => debounce.scene = LastSeen
    /\ debounce = None /\ chain # <<>> => chain[Len(chain)].scene = LastSeen
    /\ ~ SavesWait => \/ failed \/ rowOf[id].by = "other"
                      \/ Visible(rowOf[id].scene) = Visible(LastSeen)

OwnFits ==
  LooksFit /\ RefsFit /\ SeenFits /\ LiveFits /\ ReadsFit /\ BlankFits /\ SavedFits /\ WaitFits

MineInv == OpenInv /\ OwnFits

-----------------------------------------------------------------------------
\* What is on the list and what is known of it.
LEMMA SeenIs ==
  ASSUME EditorTypes
  PROVE  /\ LastSeen \in EditorScene
         /\ \A s \in EditorScene : ~ SceneChanged(s) => ref.order # None /\ LastSeen = s
<1>1. ref.known \in EditorScene /\ ref.order \in NoneOr(SUBSET Mark)
  BY DEF EditorTypes, Refs
<1>2. LastSeen \in EditorScene
  BY <1>1 DEF LastSeen, EditorScene
<1>3. ASSUME NEW s \in EditorScene, ~ SceneChanged(s)
      PROVE  ref.order # None /\ LastSeen = s
  <2>1. ref.order = IdsIn(s) /\ \A m \in IdsIn(s) : s[m] = ref.known[m]
    BY <1>3 DEF SceneChanged
  <2>2. IdsIn(s) # None
    BY SceneIs DEF IdsIn
  <2>3. \A m \in Mark : LastSeen[m] = s[m]
    BY <2>1 DEF LastSeen, IdsIn
  <2> QED
    BY <1>2, <1>3, <2>1, <2>2, <2>3 DEF EditorScene
<1> QED
  BY <1>2, <1>3

\* A report is captured, or nothing but that there was one is kept of it.
Captured(s, meant) ==
  /\ ref'.latest = s /\ ref'.order # None /\ LastSeen' = s /\ ref'.hydrated
  /\ ref'.suspicious => ref.suspicious /\ ~ Renderable(s)
  /\ \/ debounce' = Capture(id, s, meant)
     \/ debounce' = debounce /\ ref.order # None /\ LastSeen = s

Ignored(s) ==
  /\ Transient(s) \/ AsOpened(s) \/ Prevented(PageBaseline, s)
  /\ ref'.latest = ref.latest /\ ref'.order = ref.order /\ LastSeen' = LastSeen
  /\ ref'.suspicious = ref.suspicious /\ debounce' = debounce
  /\ ~ Transient(s) => ref'.hydrated

LEMMA ReportIs ==
  ASSUME EditorTypes, NEW s \in EditorScene, NEW meant \in BOOLEAN, HandleChange(s, meant)
  PROVE  \/ Captured(s, meant) /\ ~ Transient(s) /\ ~ AsOpened(s) /\ ~ Prevented(PageBaseline, s)
         \/ Ignored(s)
<1>1. ref \in Refs /\ debounce \in NoneOr(Captures) /\ id \in Drawings
  BY DEF EditorTypes
<1>2. CASE Transient(s)
  BY <1>1, <1>2 DEF HandleChange, Ignored, LastSeen
<1>3. CASE ~ Transient(s) /\ (AsOpened(s) \/ Prevented(PageBaseline, s))
  <2>1. ref' = [ref EXCEPT !.hydrated = TRUE] /\ debounce' = debounce
    BY <1>3 DEF HandleChange, Hydrated
  <2>2. /\ ref'.latest = ref.latest /\ ref'.order = ref.order /\ ref'.known = ref.known
        /\ ref'.suspicious = ref.suspicious /\ ref'.hydrated
    BY <1>1, <2>1 DEF Refs
  <2> QED
    BY <1>3, <2>1, <2>2 DEF Ignored, LastSeen
<1>4. CASE ~ Transient(s) /\ ~ (AsOpened(s) \/ Prevented(PageBaseline, s))
  <2>1. PICK over \in EditorScene : over = Over(s, ref.known)
    BY <1>1, OverIs DEF Refs
  <2>2. PICK ids \in SUBSET Mark : ids = IdsIn(s)
    BY DEF IdsIn
  <2>3. PICK b \in BOOLEAN : b = (ref.suspicious /\ ~ Renderable(s))
    BY DEF Renderable
  <2>4. ref' = [Hydrated EXCEPT !.latest = s, !.suspicious = b, !.order = ids, !.known = over]
    BY <1>1, <1>4, <2>1, <2>2, <2>3 DEF HandleChange, Hydrated, Refs
  <2>5. Hydrated \in Refs /\ Hydrated.hydrated
    BY <1>1 DEF Hydrated, Refs
  <2>6. /\ ref'.latest = s /\ ref'.suspicious = b /\ ref'.order = ids /\ ref'.known = over
        /\ ref'.hydrated
    BY <2>4, <2>5 DEF Refs
  <2>7. ids # None
    BY <2>2, SceneIs
  <2>8. \A m \in Mark : (IF m \in ids THEN over[m] ELSE "absent") = s[m]
    BY <2>1, <2>2 DEF Over, IdsIn
  <2>9. LastSeen' = [m \in Mark |-> s[m]]
    BY <2>6, <2>8 DEF LastSeen
  <2>10. LastSeen' = s
    BY <2>9 DEF EditorScene
  <2>11. debounce' = Capture(id, s, meant) \/ (debounce' = debounce /\ ref.order # None /\ LastSeen = s)
    BY <1>4, SeenIs DEF HandleChange
  <2> QED
    BY <1>4, <2>3, <2>6, <2>7, <2>10, <2>11 DEF Captured
<1> QED
  BY <1>2, <1>3, <1>4

\* What the guards let through.
LEMMA RenderablePasses ==
  ASSUME NEW b, NEW s, Renderable(s)
  PROVE  ~ Prevented(b, s)
  BY DEF Prevented, StaleEmpty, StaleNonRenderable, Renderable, Empty

LEMMA DeletedPasses ==
  ASSUME NEW b \in EditorScene, NEW s \in EditorScene, \A m \in Mark : b[m] = "live" =>
    s[m] # "absent"
  PROVE  ~ Prevented(b, s)
<1>1. CASE ~ Renderable(b)
  BY <1>1 DEF Prevented, StaleEmpty, StaleNonRenderable
<1>2. CASE Renderable(s)
  BY <1>2, RenderablePasses
<1>3. CASE Renderable(b) /\ ~ Renderable(s)
  <2>1. PICK m \in Mark : b[m] = "live"
    BY <1>3 DEF Renderable
  <2>2. s[m] = "deleted"
    BY <1>3, <2>1 DEF Renderable, EditorScene
  <2>3. s # Empty /\ IntendedDeletion(b, s)
    BY <1>3, <2>1, <2>2 DEF Empty, IntendedDeletion
  <2> QED
    BY <2>3 DEF Prevented, StaleEmpty
<1> QED
  BY <1>1, <1>2, <1>3

LEMMA TakenIs ==
  ASSUME MineInv, Undisturbed, taken
  PROVE  /\ initial # None /\ ref.hydrated /\ onCanvas \in EditorScene /\ work \in EditorScene
         /\ \A s : ~ Transient(s) /\ ~ AsOpened(s)
         /\ panel.backup = None => onCanvas = work
         /\ traces = {} => panel.backup = None /\ onCanvas = work
<1>1. Apart
  BY DEF Undisturbed, Apart
<1>2. EditorTypes /\ onCanvas # None
  BY DEF MineInv, OwnFits, OpenInv, EditorTypes
<1>3. initial # None /\ ref.hydrated
  BY DEF MineInv, OwnFits, RefsFit
<1>4. onCanvas \in EditorScene /\ work \in EditorScene
  BY <1>2 DEF MineInv, OwnFits, LooksFit, EditorTypes, NoneOr
<1>5. panel.backup = None => onCanvas = work
  BY DEF MineInv, OwnFits, LooksFit, Underneath
<1>6. traces = {} => panel.backup = None
  BY <1>1 DEF MineInv, OwnFits, OpenInv, ScenesFit
<1> QED
  BY <1>3, <1>4, <1>5, <1>6 DEF Transient, AsOpened

LEMMA FreshPasses ==
  ASSUME MineInv, traces = {}, initial # None, NEW s \in EditorScene,
         \A m \in Mark : Present[m] # "absent" => s[m] # "absent"
  PROVE  ~ Prevented(PageBaseline, s)
<1>1. ref \in Refs
  BY DEF MineInv, OwnFits, OpenInv, EditorTypes
<1>2. Within(ref.persisted) /\ Within(ref.initial) /\ Within(ref.latest)
  BY DEF MineInv, OwnFits, LiveFits
<1>3. Within(PageBaseline) /\ PageBaseline \in EditorScene
  BY <1>1, <1>2, BaselineIs
<1> QED
  BY <1>3, DeletedPasses DEF Within

\* A step in which the canvas reports s.
Reports(s, meant) ==
  /\ s \in EditorScene /\ meant \in BOOLEAN
  /\ HandleChange(s, meant)
  /\ traces \subseteq traces'
  /\ UNCHANGED <<rowOf, past, id, opening, loads, initial, chain, flight, failed>>

LEMMA ReportIsOne ==
  ASSUME MineInv, NEW s, NEW meant, Reports(s, meant)
  PROVE  /\ \/ Captured(s, meant) /\ ~ Transient(s) /\ ~ AsOpened(s) /\ ~ Prevented(PageBaseline, s)
            \/ Ignored(s)
         /\ ref'.persisted = ref.persisted /\ ref'.initial = ref.initial
         /\ ref.hydrated => ref'.hydrated
         /\ Undisturbed' => Undisturbed
  BY ReportIs, HandleIs DEF MineInv, OpenInv, Reports, Undisturbed

LEMMA ReportKeeps ==
  ASSUME MineInv, NEW s, NEW meant, Reports(s, meant), LooksFit', RefsFit', SeenFits',
         traces' = {} /\ initial # None =>
           /\ \A m \in Mark : s[m] = "live" => Present'[m] # "absent"
           /\ \A m \in Mark : Present[m] # "absent" => Present'[m] # "absent",
         Undisturbed' /\ taken' /\ ref'.suspicious => ~ Renderable(work'),
         Undisturbed' /\ ref'.order # None /\ Counts' =>
           \/ debounce' # None /\ debounce'.scene = LastSeen'
           \/ debounce' = debounce /\ ref.order # None /\ LastSeen' = LastSeen /\ Counts
  PROVE  OwnFits'
<1>1. /\ \/ Captured(s, meant)
         \/ Ignored(s)
      /\ ref'.persisted = ref.persisted /\ ref'.initial = ref.initial
      /\ Undisturbed' => Undisturbed
  BY ReportIsOne
<1>2. /\ UNCHANGED <<rowOf, past, id, opening, loads, initial, chain, flight, failed>>
      /\ traces \subseteq traces'
  BY DEF Reports
<1>3. /\ ref'.latest \in {ref.latest, s}
      /\ debounce' = debounce \/ debounce' = Capture(id, s, meant)
      /\ ref'.suspicious => ref.suspicious
      /\ ref'.suspicious => (ref'.latest = ref.latest /\ debounce' = debounce) \/ ~ Renderable(s)
  BY <1>1 DEF Captured, Ignored
<1>4. ReadsFit' /\ SavedFits'
  BY <1>1, <1>2 DEF MineInv, OwnFits, ReadsFit, SavedFits, InPhase
<1>5. LiveFits'
  <2> SUFFICES ASSUME traces' = {}, initial # None
               PROVE  LiveFits'
    BY <1>2 DEF LiveFits
  <2>1. traces = {}
    BY <1>2
  <2>2. ASSUME NEW b, Within(b)
        PROVE  \A m \in Mark : b[m] = "live" => Present'[m] # "absent"
    BY <2>2 DEF Within
  <2>3. /\ Within(ref.persisted) /\ Within(ref.initial) /\ Within(ref.latest)
        /\ \A i \in 1 .. Len(chain) : Within(chain[i].scene)
        /\ debounce # None => Within(debounce.scene)
    BY <2>1 DEF MineInv, OwnFits, LiveFits
  <2>4. (Within(ref.persisted) /\ Within(ref.initial) /\ Within(ref.latest))'
    BY <1>1, <1>3, <2>2, <2>3 DEF Within
  <2>5. (\A i \in 1 .. Len(chain) : Within(chain[i].scene))'
    BY <1>2, <2>2, <2>3 DEF Within
  <2>6. (debounce # None => Within(debounce.scene))'
    BY <1>3, <2>2, <2>3 DEF Within, Capture
  <2> QED
    BY <2>4, <2>5, <2>6 DEF LiveFits
<1>6. BlankFits'
  BY <1>1, <1>2, <1>3 DEF MineInv, OwnFits, BlankFits, Capture
<1>7. WaitFits'
  BY <1>1, <1>2 DEF MineInv, OwnFits, WaitFits, SavesWait
<1> QED
  BY <1>4, <1>5, <1>6, <1>7 DEF OwnFits

\* What the canvas shows is reported, while the user's scene stays what it is.
LEMMA ShownKeeps ==
  ASSUME MineInv, NEW s, NEW meant, Reports(s, meant), UNCHANGED <<taken, work, edited>>, LooksFit',
         Undisturbed' => taken /\ onCanvas' = s /\ \A m \in Mark : s[m] # "absent" => Known(m),
         Undisturbed' /\ (panel'.backup = None \/ traces' = {}) => s = work
  PROVE  OwnFits'
<1>1. /\ \/ Captured(s, meant) /\ ~ Prevented(PageBaseline, s)
         \/ Ignored(s)
      /\ ref'.persisted = ref.persisted /\ ref'.initial = ref.initial
      /\ ref.hydrated => ref'.hydrated
      /\ Undisturbed' => Undisturbed
  BY ReportIsOne
<1>2. /\ UNCHANGED <<rowOf, past, id, opening, loads, initial, chain, flight, failed>>
      /\ traces \subseteq traces'
  BY DEF Reports
<1>3. ASSUME Undisturbed'
      PROVE  /\ taken /\ initial # None /\ ref'.hydrated
             /\ Ignored(s) => Prevented(PageBaseline, s) /\ ~ Renderable(s)
             /\ traces' = {} => Captured(s, meant)
             /\ Present' = Present
  <2>1. Undisturbed /\ taken
    BY <1>1, <1>3
  <2>2. initial # None /\ ref'.hydrated /\ ~ Transient(s) /\ ~ AsOpened(s)
    BY <1>1, <2>1, TakenIs
  <2>3. Ignored(s) => Prevented(PageBaseline, s) /\ ~ Renderable(s)
    BY <2>2, RenderablePasses DEF Ignored
  <2>4. ASSUME traces' = {}
        PROVE  Captured(s, meant)
    <3>1. traces = {} /\ s = work /\ s \in EditorScene
      BY <1>2, <1>3, <2>4 DEF Reports
    <3>2. \A m \in Mark : Present[m] # "absent" => s[m] # "absent"
      BY <2>1, <3>1 DEF Present
    <3> QED
      BY <1>1, <2>2, <2>3, <3>1, <3>2, FreshPasses
  <2> QED
    BY <2>1, <2>2, <2>3, <2>4 DEF Present
<1>4. RefsFit'
  BY <1>1, <1>2, <1>3 DEF MineInv, OwnFits, RefsFit, Captured, Ignored
<1>5. SeenFits'
  <2> SUFFICES ASSUME Undisturbed', taken'
               PROVE  SeenFits'
    BY DEF SeenFits
  <2>1. \A m \in Mark : Known(m)' <=> Known(m)
    BY <1>2 DEF Known
  <2>2. /\ LastSeen' \in {s, LastSeen}
        /\ (LastSeen' = LastSeen => ref.order # None \/ ref'.order = None \/ LastSeen' = s)
    BY <1>1 DEF Captured, Ignored
  <2>3. Renderable(work) \/ traces' = {} => (ref'.order # None /\ panel'.backup = None =>
          LastSeen' = work)
    BY <1>1, <1>3 DEF Captured
  <2>4. Renderable(work) \/ traces' = {} => (edited => ref'.order # None)
    BY <1>1, <1>2, <1>3 DEF MineInv, OwnFits, SeenFits, Captured, Ignored
  <2>5. \A m \in Mark : onCanvas'[m] # "absent" => Known(m)
    OBVIOUS
  <2>6. ref'.order # None => \A m \in Mark : LastSeen'[m] # "absent" => Known(m)
    BY <1>1, <1>3 DEF MineInv, OwnFits, SeenFits, Captured, Ignored
  <2> QED
    BY <2>1, <2>3, <2>4, <2>5, <2>6 DEF SeenFits
<1>6. Undisturbed' /\ taken' /\ ref'.suspicious => ~ Renderable(work')
  BY <1>1 DEF MineInv, OwnFits, BlankFits, Captured, Ignored
<1>7. ASSUME Undisturbed', ref'.order # None, Counts'
      PROVE  \/ debounce' # None /\ debounce'.scene = LastSeen'
             \/ debounce' = debounce /\ ref.order # None /\ LastSeen' = LastSeen /\ Counts
  <2>1. Capture(id, s, meant) # None
    BY OpenEditorAssumption DEF Reports, MineInv, OpenInv, EditorTypes, Capture
  <2> QED
    BY <1>1, <1>2, <1>3, <1>7, <2>1 DEF Captured, Ignored, Counts, Capture
<1>8. traces' = {} /\ initial # None => \A m \in Mark : s[m] = "live" => Present'[m] # "absent"
  BY <1>2, <1>3 DEF Undisturbed, Present
<1>9. traces' = {} /\ initial # None => \A m \in Mark : Present[m] # "absent" =>
        Present'[m] # "absent"
  BY <1>3 DEF Undisturbed
<1> QED
  BY <1>4, <1>5, <1>6, <1>7, <1>8, <1>9, ReportKeeps

LEMMA MineTouch ==
  ASSUME MineInv, Touch
  PROVE  OwnFits'
<1>m. PICK meant \in BOOLEAN : meant = (onCanvas = work)
  OBVIOUS
<1>1. UNCHANGED <<rowOf, past, id, opening, loads, initial, onCanvas, taken, chain, flight, panel,
                  work, edited, failed, traces>>
  BY DEF Touch, server, route, screen, mine
<1>2. onCanvas \in EditorScene /\ taken
  BY DEF MineInv, OpenInv, EditorTypes, Touch, NoneOr
<1>3. Reports(onCanvas, meant)
  BY <1>m, <1>1, <1>2 DEF Touch, Reports
<1>4. LooksFit'
  BY <1>1 DEF MineInv, OwnFits, LooksFit, Looking, Undisturbed, Underneath
<1>5. Undisturbed' => taken /\ onCanvas' = onCanvas /\ \A m \in Mark : onCanvas[m] # "absent" =>
        Known(m)
  BY <1>1, <1>2 DEF MineInv, OwnFits, SeenFits, Undisturbed
<1>6. Undisturbed' /\ (panel'.backup = None \/ traces' = {}) => onCanvas = work
  BY <1>1, <1>2, TakenIs DEF Undisturbed
<1> QED
  BY <1>1, <1>3, <1>4, <1>5, <1>6, ShownKeeps

\* The panel changes, and what is under a preview stays.
LEMMA MinePanel ==
  ASSUME MineInv, LooksFit', Undisturbed' => Undisturbed, traces \subseteq traces',
         UNCHANGED <<rowOf, past, id, opening, loads, initial, onCanvas, taken, ref, debounce,
                     chain,
                     flight, work, edited, failed>>,
         Undisturbed' => panel'.backup = panel.backup
  PROVE  OwnFits'
<1>1. RefsFit' /\ SeenFits'
  BY DEF MineInv, OwnFits, RefsFit, SeenFits, LastSeen, Known
<1>2. LiveFits' /\ ReadsFit' /\ BlankFits' /\ SavedFits'
  BY DEF MineInv, OwnFits, LiveFits, ReadsFit, BlankFits, SavedFits, InPhase, Within, Present
<1>3. WaitFits'
  BY DEF MineInv, OwnFits, WaitFits, LastSeen, Counts, SavesWait
<1> QED
  BY <1>1, <1>2, <1>3 DEF OwnFits

LEMMA MineOpenPanel ==
  ASSUME MineInv, OpenPanel
  PROVE  OwnFits'
<1>1. UNCHANGED <<rowOf, past, id, opening, loads, initial, onCanvas, taken, ref, debounce, chain,
                  flight, work, edited, failed, traces>>
  BY DEF OpenPanel, server, route, screen, queue, mine
<1>2. panel'.backup = panel.backup /\ panel'.asked = panel.asked /\ panel'.open /\ ~ panel.open
  BY DEF OpenPanel, MineInv, OpenInv, EditorTypes
<1>3. LooksFit'
  BY <1>1, <1>2 DEF MineInv, OwnFits, LooksFit, Looking, Undisturbed, Underneath, OpenPanel
<1> QED
  BY <1>1, <1>2, <1>3, MinePanel DEF Undisturbed

LEMMA MineSelect ==
  ASSUME MineInv, NEW s \in past[id], Select(s)
  PROVE  OwnFits'
<1>1. UNCHANGED <<rowOf, past, id, opening, loads, initial, onCanvas, taken, ref, debounce, chain,
                  flight, work, edited, failed, traces>>
  BY DEF Select, server, route, screen, queue, mine
<1>2. /\ panel'.backup = panel.backup /\ panel'.asked = panel.asked \cup {s}
      /\ panel'.open = panel.open
      /\ panel.open /\ panel'.selected = s
  BY DEF Select, MineInv, OpenInv, EditorTypes
<1>3. s # None
  BY SceneIs DEF MineInv, OpenInv, EditorTypes
<1>4. LooksFit'
  BY <1>1, <1>2, <1>3 DEF MineInv, OwnFits, LooksFit, Looking, Undisturbed, Underneath
<1> QED
  BY <1>1, <1>2, <1>4, MinePanel DEF Undisturbed

LEMMA MinePreviewFails ==
  ASSUME MineInv, NEW s, PreviewFails(s)
  PROVE  OwnFits'
<1>1. UNCHANGED <<rowOf, past, id, opening, loads, initial, onCanvas, taken, ref, debounce, chain,
                  flight, work, edited, failed, traces>>
  BY DEF PreviewFails, server, route, screen, queue, mine
<1>2. /\ panel'.backup = panel.backup /\ panel'.asked = panel.asked \ {s}
      /\ panel'.open = panel.open
      /\ panel'.selected = panel.selected /\ s \in panel.asked
  BY DEF PreviewFails, MineInv, OpenInv, EditorTypes
<1>4. LooksFit'
  BY <1>1, <1>2 DEF MineInv, OwnFits, LooksFit, Looking, Undisturbed, Underneath
<1> QED
  BY <1>1, <1>2, <1>4, MinePanel DEF Undisturbed

LEMMA MinePreview ==
  ASSUME MineInv, NEW s \in panel.asked, PreviewArrives(s)
  PROVE  OwnFits'
<1>1. s \in EditorScene /\ panel \in Panels /\ onCanvas \in NoneOr(EditorScene)
  BY DEF MineInv, OpenInv, EditorTypes, Panels
<1>2. /\ UNCHANGED <<rowOf, past, id, opening, loads, initial, taken, chain, flight, work, edited,
                     failed>>
      /\ traces \subseteq traces' /\ "previewed" \in traces'
      /\ Undisturbed' => panel.open /\ panel.selected = s
  BY DEF PreviewArrives, Trace, server, route, mine, Undisturbed
<1>3. Undisturbed' => Undisturbed /\ taken /\ onCanvas # None
  <2>1. Undisturbed' => Undisturbed
    BY <1>2 DEF Undisturbed
  <2>2. Undisturbed => taken
    BY DEF MineInv, OwnFits, LooksFit, Looking
  <2>3. taken => onCanvas # None
    BY DEF MineInv, OpenInv, EditorTypes
  <2> QED
    BY <2>1, <2>2, <2>3
<1>4. CASE onCanvas = None
  <2>1. ~ Undisturbed'
    BY <1>3, <1>4
  <2>2. LooksFit'
    BY <2>1 DEF LooksFit
  <2>3. UNCHANGED <<onCanvas, ref, debounce>>
    BY <1>4 DEF PreviewArrives
  <2> QED
    BY <1>2, <2>1, <2>2, <2>3, MinePanel
<1>5. CASE onCanvas # None
  <2>m. PICK meant \in BOOLEAN : meant = (s = work)
    OBVIOUS
  <2>1. Reports(s, meant)
    BY <1>1, <1>2, <1>5, <2>m DEF PreviewArrives, Reports
  <2>2. /\ panel'.asked = panel.asked \ {s} /\ panel'.backup = Underneath
        /\ panel'.open = panel.open
        /\ panel'.selected = panel.selected /\ onCanvas' = s
    BY <1>1, <1>5 DEF PreviewArrives, Panels
  <2>3. s # None
    BY <1>1, SceneIs
  <2>4. Undisturbed => Underneath = work /\ work # None /\ s \in past[id]
    BY <1>3, SceneIs DEF MineInv, OwnFits, LooksFit, Looking
  <2>5. LooksFit'
    BY <1>2, <1>3, <2>2, <2>3, <2>4 DEF MineInv, OwnFits, LooksFit, Looking, Underneath
  <2>6. Undisturbed' => taken /\ onCanvas' = s /\ \A m \in Mark : s[m] # "absent" => Known(m)
    BY <1>3, <2>2, <2>4 DEF Known
  <2>7. ~ (Undisturbed' /\ (panel'.backup = None \/ traces' = {}))
    BY <1>2, <1>3, <2>2, <2>4
  <2> QED
    BY <1>2, <2>1, <2>5, <2>6, <2>7, ShownKeeps
<1> QED
  BY <1>4, <1>5

\* A preview is taken off, or there was none.
LEMMA MineBackup ==
  ASSUME MineInv, NEW next \in Panels, next.backup = panel.backup, next.asked = panel.asked,
         panel.open, ShowBackup(next),
         UNCHANGED <<server, route, initial, error, taken, chain, flight, mine, failed, traces,
                     acts>>
  PROVE  OwnFits'
<1>1. UNCHANGED <<rowOf, past, id, opening, loads, initial, taken, chain, flight, work, edited,
                  failed, traces>>
  BY DEF server, route, mine
<1>2. Undisturbed => taken /\ onCanvas # None
  BY DEF MineInv, OpenInv, EditorTypes, OwnFits, LooksFit, Looking
<1>3. CASE onCanvas = None \/ panel.backup = None
  <2>1. panel' = next /\ UNCHANGED <<onCanvas, ref, debounce>>
    BY <1>3 DEF ShowBackup
  <2>2. LooksFit'
    BY <1>1, <1>2, <1>3, <2>1 DEF MineInv, OwnFits, LooksFit, Looking, Undisturbed, Underneath
  <2> QED
    BY <1>1, <2>1, <2>2, MinePanel DEF Undisturbed
<1>4. CASE onCanvas # None /\ panel.backup # None
  <2>1. panel.backup \in EditorScene
    BY <1>4 DEF MineInv, OpenInv, EditorTypes, NoneOr
  <2>m. PICK meant \in BOOLEAN : meant = (panel.backup = work)
    OBVIOUS
  <2>2. Reports(panel.backup, meant)
    BY <1>1, <1>4, <2>1, <2>m DEF Reports, ShowBackup
  <2>3. panel'.backup = None /\ panel'.asked = panel.asked /\ onCanvas' = panel.backup
    BY <1>4 DEF ShowBackup, Panels
  <2>4. Undisturbed => panel.backup = work
    BY <1>2, <1>4 DEF MineInv, OwnFits, LooksFit, Underneath
  <2>5. LooksFit'
    BY <1>1, <1>2, <2>3, <2>4 DEF MineInv, OwnFits, LooksFit, Looking, Undisturbed, Underneath
  <2>6. Undisturbed' =>
          taken /\ onCanvas' = panel.backup /\ \A m \in Mark : panel.backup[m] # "absent" =>
            Known(m)
    BY <1>1, <1>2, <2>3, <2>4 DEF Known, Undisturbed
  <2>7. Undisturbed' => panel.backup = work
    BY <1>1, <2>4 DEF Undisturbed
  <2> QED
    BY <1>1, <2>2, <2>5, <2>6, <2>7, ShownKeeps
<1> QED
  BY <1>3, <1>4

LEMMA MineDeselect ==
  ASSUME MineInv, Deselect
  PROVE  OwnFits'
<1> DEFINE next == [panel EXCEPT !.selected = None]
<1>1. next \in Panels /\ next.backup = panel.backup /\ next.asked = panel.asked
  BY DEF MineInv, OpenInv, EditorTypes, Panels, NoneOr
<1> HIDE DEF next
<1> QED
  BY <1>1, MineBackup DEF Deselect, next

LEMMA MineClosePanel ==
  ASSUME MineInv, ClosePanel
  PROVE  OwnFits'
<1> DEFINE next == [panel EXCEPT !.open = FALSE]
<1>1. next \in Panels /\ next.backup = panel.backup /\ next.asked = panel.asked
  BY DEF MineInv, OpenInv, EditorTypes, Panels, NoneOr
<1>2. CASE panel.selected = None
  <2>1. panel' = next /\ UNCHANGED <<onCanvas, ref, debounce>>
    BY <1>2 DEF ClosePanel
  <2>2. UNCHANGED <<rowOf, past, id, opening, loads, initial, taken, chain, flight, work, edited,
                    failed, traces>>
    BY DEF ClosePanel, server, route, mine
  <2>3. Undisturbed => taken
    BY DEF MineInv, OwnFits, LooksFit, Looking, ClosePanel
  <2>4. LooksFit'
    BY <1>1, <1>2, <2>1, <2>2, <2>3 DEF MineInv, OwnFits, LooksFit, Looking, Undisturbed, Underneath
  <2> HIDE DEF next
  <2> QED
    BY <1>1, <2>1, <2>2, <2>4, MinePanel DEF Undisturbed
<1>3. CASE panel.selected # None
  <2>1. ShowBackup(next)
    BY <1>3 DEF ClosePanel
  <2> HIDE DEF next
  <2> QED
    BY <1>1, <2>1, MineBackup DEF ClosePanel
<1> QED
  BY <1>2, <1>3

LEMMA CaptureIs ==
  ASSUME NEW d \in Drawings, NEW s \in EditorScene, NEW meant \in BOOLEAN
  PROVE  Capture(d, s, meant) # None /\ Capture(d, s, meant).scene = s
<1>1. Capture(d, s, meant) \in [of : Drawings, scene : EditorScene, meant : BOOLEAN]
  BY DEF Capture
<1>2. Capture(d, s, meant).scene = s
  BY DEF Capture
<1> QED
  BY <1>1, <1>2, OpenEditorAssumption

LEMMA MineTakeUp ==
  ASSUME MineInv, TakeUp
  PROVE  OwnFits'
<1>1. /\ UNCHANGED <<rowOf, past, id, opening, loads, initial, chain, flight, panel, edited,
                     failed, traces>>
      /\ onCanvas' = initial /\ taken' /\ work' = initial
      /\ ~ taken /\ initial # None /\ onCanvas # None
  BY DEF TakeUp, server, route
<1>2. initial \in EditorScene /\ EditorTypes
  BY <1>1 DEF MineInv, OpenInv, EditorTypes, NoneOr
<1>3. Reports(initial, FALSE)
  BY <1>1, <1>2 DEF TakeUp, Reports
<1>4. /\ \/ Captured(initial, FALSE) /\ ~ Transient(initial) /\ ~ AsOpened(initial)
            /\ ~ Prevented(PageBaseline, initial)
         \/ Ignored(initial)
      /\ ref'.persisted = ref.persisted /\ ref'.initial = ref.initial
  BY <1>3, ReportIsOne
<1>5. ASSUME Undisturbed
      PROVE  /\ ~ Looking /\ ~ edited
             /\ ~ Transient(initial) /\ ref'.hydrated
             /\ ~ ref.hydrated => ref.initial = initial /\ ref.order = None
             /\ Renderable(initial) => ~ ref.hydrated
             /\ ref.order # None => LastSeen = Empty
             /\ ref.order # None => ref.latest = LastSeen
  <2>1. /\ ~ Looking /\ ~ edited
        /\ ~ ref.hydrated => ref.initial = initial /\ ref.order = None
        /\ Renderable(initial) => ~ ref.hydrated
        /\ ref.order # None => LastSeen = Empty
        /\ ref.order # None => ref.latest = LastSeen
    BY <1>1, <1>5 DEF MineInv, OwnFits, LooksFit, RefsFit
  <2>2. ~ Transient(initial)
    BY <2>1 DEF Transient, StaleEmpty, StaleNonRenderable, Renderable, Empty
  <2> QED
    BY <1>4, <2>1, <2>2 DEF Captured, Ignored
<1>6. ASSUME Undisturbed, Ignored(initial), ref.order # None
      PROVE  traces # {} /\ ~ Renderable(initial)
  <2>1. ~ AsOpened(initial) /\ ~ Renderable(initial) /\ Prevented(PageBaseline, initial)
    BY <1>5, <1>6 DEF AsOpened, Ignored
  <2>2. traces = {} => ~ Prevented(PageBaseline, initial)
    BY <1>1, <1>2, FreshPasses DEF Present
  <2> QED
    BY <2>1, <2>2
<1>7. LooksFit'
  BY <1>1, <1>2, <1>5 DEF MineInv, OwnFits, LooksFit, Looking, Undisturbed, Underneath
<1>8. RefsFit'
  BY <1>1, <1>4, <1>5 DEF RefsFit, Undisturbed, Captured, Ignored
<1>9. ASSUME Undisturbed
      PROVE  /\ Renderable(initial) \/ traces = {} => (ref'.order # None => LastSeen' = initial)
             /\ ref'.order # None => LastSeen' \in {initial, Empty}
  BY <1>4, <1>5, <1>6, <1>9 DEF Captured, Ignored
<1>10. SeenFits'
  <2> SUFFICES ASSUME Undisturbed
               PROVE  SeenFits'
    BY <1>1 DEF SeenFits, Undisturbed
  <2>1. \A m \in Mark : initial[m] # "absent" => Known(m)'
    BY <1>1 DEF Known
  <2>2. ref'.order # None => \A m \in Mark : LastSeen'[m] # "absent" => Known(m)'
    BY <1>9, <2>1 DEF Empty
  <2> QED
    BY <1>1, <1>5, <1>9, <2>1, <2>2 DEF SeenFits
<1>11. Undisturbed' /\ taken' /\ ref'.suspicious => ~ Renderable(work')
  BY <1>1, <1>4, <1>5 DEF MineInv, OwnFits, BlankFits, Undisturbed, Captured, Ignored
<1>12. ASSUME Undisturbed', ref'.order # None, Counts'
       PROVE  \/ debounce' # None /\ debounce'.scene = LastSeen'
              \/ debounce' = debounce /\ ref.order # None /\ LastSeen' = LastSeen /\ Counts
  <2>1. Undisturbed
    BY <1>1, <1>12 DEF Undisturbed
  <2>2. traces = {} => Counts
    BY DEF Counts
  <2>3. traces = {} \/ Renderable(initial)
    BY <1>1, <1>12 DEF Counts
  <2>4. Capture(id, initial, FALSE) # None /\ Capture(id, initial, FALSE).scene = initial
    BY <1>2, CaptureIs DEF EditorTypes
  <2>5. CASE Captured(initial, FALSE)
    BY <1>5, <2>1, <2>2, <2>3, <2>4, <2>5 DEF Captured
  <2>6. CASE Ignored(initial)
    BY <1>5, <1>6, <1>12, <2>1, <2>2, <2>3, <2>6 DEF Ignored
  <2> QED
    BY <1>4, <2>5, <2>6
<1>13. /\ \A m \in Mark : initial[m] = "live" => Present'[m] # "absent"
       /\ \A m \in Mark : Present[m] # "absent" => Present'[m] # "absent"
  BY <1>1 DEF Present
<1> QED
  BY <1>3, <1>7, <1>8, <1>10, <1>11, <1>12, <1>13, ReportKeeps

LEMMA MineEarlyReport ==
  ASSUME MineInv, NEW s \in EditorScene, EarlyReport(s)
  PROVE  OwnFits'
<1>1. /\ UNCHANGED <<rowOf, past, id, opening, loads, initial, onCanvas, taken, chain, flight,
                     panel,
                     work, edited, failed, traces>>
      /\ ~ taken /\ ~ ref.hydrated /\ initial # None
  BY DEF EarlyReport, server, route, screen, mine
<1>2. initial \in EditorScene /\ EditorTypes
  BY <1>1 DEF MineInv, OpenInv, EditorTypes, NoneOr
<1>3. Reports(s, FALSE)
  BY <1>1 DEF EarlyReport, Reports
<1>4. /\ \/ Captured(s, FALSE) /\ ~ Transient(s) /\ ~ AsOpened(s) /\ ~ Prevented(PageBaseline, s)
         \/ Ignored(s)
      /\ ref'.persisted = ref.persisted /\ ref'.initial = ref.initial
  BY <1>3, ReportIsOne
<1>5. ~ Renderable(s)
  BY DEF EarlyReport, Renderable, Empty
<1>6. Transient(s) => ref' = ref
  BY <1>2, <1>3, HandleIs DEF Reports
<1>7. ASSUME Undisturbed
      PROVE  /\ ref.initial = initial /\ ref.order = None
             /\ Renderable(initial) => Transient(s)
             /\ onCanvas \in {None, Empty}
             /\ ~ Transient(s) /\ ~ AsOpened(s) => s = Empty
  <2>1. ref.initial = initial /\ ref.order = None /\ onCanvas \in {None, Empty}
    BY <1>1, <1>7 DEF MineInv, OwnFits, RefsFit
  <2>2. Renderable(initial) => Transient(s)
    BY <1>1, <1>5, <2>1 DEF Transient, StaleNonRenderable
  <2>3. ASSUME ~ Renderable(initial), s # Empty
        PROVE  s = initial
    <3>1. s = [m \in Mark |-> IF initial[m] = "deleted" THEN "deleted" ELSE "absent"]
      BY <2>3 DEF EarlyReport
    <3>2. \A m \in Mark : initial[m] \in {"absent", "deleted"}
      BY <1>2, <2>3 DEF Renderable, EditorScene
    <3>3. \A m \in Mark : s[m] = initial[m]
      BY <3>1, <3>2
    <3> QED
      BY <1>2, <3>3 DEF EditorScene
  <2> QED
    BY <1>1, <2>1, <2>2, <2>3 DEF AsOpened
<1>8. LooksFit'
  BY <1>1 DEF MineInv, OwnFits, LooksFit, Looking, Undisturbed, Underneath
<1>9. RefsFit'
  <2> SUFFICES ASSUME Undisturbed
               PROVE  RefsFit'
    BY <1>1 DEF RefsFit, Undisturbed
  <2>1. CASE Transient(s)
    BY <1>1, <1>6, <2>1 DEF MineInv, OwnFits, RefsFit, LastSeen, Undisturbed
  <2>2. CASE ~ Transient(s)
    BY <1>1, <1>4, <1>7, <2>2 DEF RefsFit, Captured, Ignored
  <2> QED
    BY <2>1, <2>2
<1>10. SeenFits'
  BY <1>1 DEF SeenFits
<1>11. Undisturbed' /\ ref'.order # None => debounce' # None /\ debounce'.scene = LastSeen'
  <2>1. Undisturbed' => Undisturbed
    BY <1>1 DEF Undisturbed
  <2>2. Capture(id, s, FALSE) # None /\ Capture(id, s, FALSE).scene = s
    BY <1>2, CaptureIs DEF EditorTypes
  <2> QED
    BY <1>4, <1>7, <2>1, <2>2 DEF Captured, Ignored
<1>12. /\ \A m \in Mark : s[m] = "live" => Present'[m] # "absent"
       /\ \A m \in Mark : Present[m] # "absent" => Present'[m] # "absent"
  BY <1>1, <1>5 DEF Present, Renderable
<1> QED
  BY <1>1, <1>3, <1>8, <1>9, <1>10, <1>11, <1>12, ReportKeeps

LEMMA MineFlicker ==
  ASSUME MineInv, Flicker
  PROVE  OwnFits'
<1>1. UNCHANGED <<rowOf, past, id, opening, loads, initial, onCanvas, taken, chain, flight, panel,
                  work, edited, failed, traces>>
  BY DEF Flicker, server, route, screen, mine
<1>2. taken /\ Renderable(onCanvas) /\ EditorTypes
  BY DEF Flicker, MineInv, OpenInv
<1>3. Reports(Empty, FALSE)
  BY <1>1, SceneIs DEF Flicker, Reports
<1>4. /\ (Captured(Empty, FALSE) /\ ~ Prevented(PageBaseline, Empty)) \/ Ignored(Empty)
      /\ ref'.persisted = ref.persisted /\ ref'.initial = ref.initial
      /\ ref.hydrated => ref'.hydrated
  BY <1>3, ReportIsOne
<1>5. ASSUME Undisturbed
      PROVE  Ignored(Empty) /\ initial # None /\ ref.hydrated
  <2>1. initial # None /\ ref.hydrated
    BY <1>2, <1>5, TakenIs
  <2>2. Renderable(ref.latest) \/ Renderable(ref.initial)
    BY <1>2, <1>5, <2>1 DEF MineInv, OwnFits, RefsFit
  <2>3. Renderable(PageBaseline)
    BY <2>2 DEF PageBaseline, Baseline
  <2> QED
    BY <1>4, <2>1, <2>3 DEF Prevented, StaleEmpty
<1>6. LooksFit'
  BY <1>1 DEF MineInv, OwnFits, LooksFit, Looking, Undisturbed, Underneath
<1>7. RefsFit'
  BY <1>1, <1>2, <1>4, <1>5 DEF MineInv, OwnFits, RefsFit, Undisturbed, Ignored
<1>8. SeenFits'
  BY <1>1, <1>5 DEF MineInv, OwnFits, SeenFits, Known, Undisturbed, Ignored
<1>9. Undisturbed' /\ taken' /\ ref'.suspicious => ~ Renderable(work')
  BY <1>1, <1>5 DEF MineInv, OwnFits, BlankFits, Undisturbed, Ignored
<1>10. ASSUME Undisturbed', ref'.order # None, Counts'
       PROVE  debounce' = debounce /\ ref.order # None /\ LastSeen' = LastSeen /\ Counts
  BY <1>1, <1>5, <1>10 DEF Counts, Undisturbed, Ignored
<1>11. /\ \A m \in Mark : Empty[m] = "live" => Present'[m] # "absent"
       /\ \A m \in Mark : Present[m] # "absent" => Present'[m] # "absent"
  BY <1>1 DEF Present, Empty
<1> QED
  BY <1>3, <1>6, <1>7, <1>8, <1>9, <1>10, <1>11, ReportKeeps

\* The user changes the canvas into something that he has not seen last.
LEMMA MineChange ==
  ASSUME MineInv, NEW s \in EditorScene, ChangeCanvas(s),
         \A m \in Mark : onCanvas[m] # "absent" => s[m] # "absent",
         Undisturbed /\ ref.order # None /\ onCanvas = work /\ panel.backup = None => LastSeen # s
  PROVE  OwnFits'
<1>1. /\ UNCHANGED <<rowOf, past, id, opening, loads, initial, taken, chain, flight, panel, failed,
                     traces>>
      /\ taken /\ ~ panel.open /\ onCanvas' = s /\ work' = s /\ edited'
  BY DEF ChangeCanvas, server, route
<1>2. EditorTypes
  BY DEF MineInv, OpenInv
<1>3. Reports(s, TRUE)
  BY <1>1 DEF ChangeCanvas, Reports
<1>4. /\ \/ Captured(s, TRUE) /\ ~ Transient(s) /\ ~ AsOpened(s) /\ ~ Prevented(PageBaseline, s)
         \/ Ignored(s)
      /\ ref'.persisted = ref.persisted /\ ref'.initial = ref.initial
      /\ ref.hydrated => ref'.hydrated
  BY <1>3, ReportIsOne
<1>5. ASSUME Undisturbed
      PROVE  /\ panel.backup = None /\ onCanvas = work /\ initial # None /\ ref.hydrated
             /\ ref.order # None => LastSeen # s
             /\ Ignored(s) => ~ Renderable(s) /\ traces # {}
  <2>1. panel.backup = None
    BY <1>1, <1>5 DEF MineInv, OwnFits, LooksFit
  <2>2. onCanvas = work /\ initial # None /\ ref.hydrated /\ ~ Transient(s) /\ ~ AsOpened(s)
    BY <1>1, <1>5, <2>1, TakenIs
  <2>3. Ignored(s) => Prevented(PageBaseline, s)
    BY <2>2 DEF Ignored
  <2>4. traces = {} => ~ Prevented(PageBaseline, s)
    BY <1>1, <2>2, FreshPasses DEF Present
  <2> QED
    BY <1>5, <2>1, <2>2, <2>3, <2>4, RenderablePasses
<1>6. LooksFit'
  BY <1>1, <1>5 DEF MineInv, OwnFits, LooksFit, Looking, Undisturbed, Underneath
<1>7. RefsFit'
  BY <1>1, <1>4, <1>5 DEF MineInv, OwnFits, RefsFit, Undisturbed, Captured, Ignored
<1>8. SeenFits'
  <2> SUFFICES ASSUME Undisturbed
               PROVE  SeenFits'
    BY <1>1 DEF SeenFits, Undisturbed
  <2>1. Renderable(s) \/ traces = {} => ref'.order # None /\ LastSeen' = s
    BY <1>4, <1>5 DEF Captured
  <2>2. /\ \A m \in Mark : s[m] # "absent" => Known(m)'
        /\ \A m \in Mark : Known(m) => Known(m)'
    BY <1>1, <1>5 DEF Known
  <2>3. ref'.order # None => \A m \in Mark : LastSeen'[m] # "absent" => Known(m)'
    BY <1>1, <1>4, <2>2 DEF MineInv, OwnFits, SeenFits, Captured, Ignored
  <2> QED
    BY <1>1, <2>1, <2>2, <2>3 DEF SeenFits
<1>9. Undisturbed' /\ taken' /\ ref'.suspicious => ~ Renderable(work')
  BY <1>1, <1>4, <1>5 DEF Undisturbed, Captured
<1>10. ASSUME Undisturbed', ref'.order # None, Counts'
       PROVE  debounce' # None /\ debounce'.scene = LastSeen'
  <2>1. Undisturbed /\ (traces = {} \/ Renderable(s))
    BY <1>1, <1>10 DEF Undisturbed, Counts
  <2>2. Capture(id, s, TRUE) # None /\ Capture(id, s, TRUE).scene = s
    BY <1>2, CaptureIs DEF EditorTypes
  <2> QED
    BY <1>4, <1>5, <2>1, <2>2 DEF Captured
<1>11. traces' = {} => /\ \A m \in Mark : s[m] = "live" => Present'[m] # "absent"
                       /\ \A m \in Mark : Present[m] # "absent" => Present'[m] # "absent"
  BY <1>1, <1>5 DEF Present, Undisturbed
<1> QED
  BY <1>3, <1>6, <1>7, <1>8, <1>9, <1>10, <1>11, ReportKeeps

LEMMA MineDraw ==
  ASSUME MineInv, NEW m \in Mark, Draw(m)
  PROVE  OwnFits'
<1> DEFINE s == [onCanvas EXCEPT ![m] = "live"]
<1>1. onCanvas \in EditorScene /\ taken /\ EditorTypes
  BY DEF Draw, MineInv, OpenInv, EditorTypes, NoneOr
<1>2. s \in EditorScene /\ s[m] = "live" /\ \A n \in Mark : onCanvas[n] # "absent" =>
        s[n] # "absent"
  BY <1>1 DEF EditorScene
<1>3. ASSUME Undisturbed, ref.order # None, onCanvas = work
      PROVE  LastSeen[m] = "absent"
  <2>1. ~ Known(m)
    BY <1>1, <1>3 DEF Draw, NewId, Known, EditorTypes
  <2> QED
    BY <1>1, <1>3, <2>1 DEF MineInv, OwnFits, SeenFits
<1> QED
  BY <1>2, <1>3, MineChange DEF Draw

LEMMA MineErase ==
  ASSUME MineInv, NEW marks \in (SUBSET Mark) \ {{}}, Erase(marks)
  PROVE  OwnFits'
<1> DEFINE s == [m \in Mark |-> IF m \in marks THEN "deleted" ELSE onCanvas[m]]
<1>1. onCanvas \in EditorScene /\ taken
  BY DEF Erase, MineInv, OpenInv, EditorTypes, NoneOr
<1>2. s \in EditorScene /\ \A m \in Mark : onCanvas[m] # "absent" => s[m] # "absent"
  BY <1>1 DEF EditorScene
<1>3. PICK m \in Mark : m \in marks
  OBVIOUS
<1>4. onCanvas[m] = "live" /\ s[m] = "deleted"
  BY <1>3 DEF Erase
<1>5. ASSUME Undisturbed, ref.order # None, onCanvas = work, panel.backup = None
      PROVE  LastSeen = onCanvas
  BY <1>1, <1>4, <1>5 DEF MineInv, OwnFits, SeenFits, Renderable
<1> QED
  BY <1>2, <1>4, <1>5, MineChange DEF Erase

LEMMA MineReopen ==
  ASSUME MineInv, NEW d \in Drawings, Reopen(d)
  PROVE  OwnFits'
<1>1. /\ debounce = None /\ chain = <<>> /\ flight = None
      /\ UNCHANGED <<debounce, chain, flight, panel>>
      /\ ~ Looking /\ initial' = None /\ onCanvas' = None /\ ~ taken' /\ ~ edited'
      /\ ref'.order = None /\ ~ ref'.hydrated /\ ~ ref'.suspicious
  BY DEF Reopen, SavesWait, queue, MineInv, OpenInv, QueueFits, ResetRefs
<1>2. LooksFit' /\ RefsFit' /\ SeenFits' /\ LiveFits' /\ BlankFits' /\ WaitFits'
  BY <1>1 DEF LooksFit, RefsFit, SeenFits, LiveFits, BlankFits, WaitFits, Looking
<1>3. SavedFits'
  BY <1>1 DEF SavedFits, InPhase
<1>4. ReadsFit'
  <2> SUFFICES ASSUME Undisturbed', NEW o \in Openings, loads'[o] # None
               PROVE  loads'[o].body = None
    BY DEF ReadsFit
  <2>1. \A q \in Openings : loads[q] = None
    BY DEF Reopen, Trace, Undisturbed, Loading
  <2>2. loads' = [loads EXCEPT ![opening + 1] = [of |-> d, body |-> None]]
        /\ loads \in [Openings -> NoneOr([of : Drawings, body : NoneOr(DrawingRow)])]
    BY DEF Reopen, MineInv, OpenInv, EditorTypes
  <2>3. CASE o = opening + 1
    BY <2>2, <2>3
  <2>4. CASE o # opening + 1
    BY <2>1, <2>2, <2>4
  <2> QED
    BY <2>3, <2>4
<1> QED
  BY <1>2, <1>3, <1>4 DEF OwnFits

LEMMA MineReadDrawing ==
  ASSUME MineInv, NEW o \in Openings, ReadDrawing(o)
  PROVE  OwnFits'
<1>1. UNCHANGED <<rowOf, past, id, initial, onCanvas, taken, ref, debounce, chain, flight,
                  panel, work, edited, failed, traces>>
  BY DEF ReadDrawing, screen, queue, mine
<1>2. LooksFit' /\ RefsFit'
  BY <1>1 DEF MineInv, OwnFits, LooksFit, RefsFit, Looking, Undisturbed, Underneath, LastSeen
<1>3. SeenFits' /\ LiveFits'
  BY <1>1 DEF MineInv, OwnFits, SeenFits, LiveFits, Undisturbed, LastSeen, Known, Within, Present
<1>4. BlankFits' /\ SavedFits' /\ WaitFits'
  BY <1>1 DEF MineInv, OwnFits, BlankFits, SavedFits, WaitFits, Undisturbed, LastSeen, InPhase,
       Counts, SavesWait
<1>5. ReadsFit'
  <2> SUFFICES ASSUME Undisturbed, NEW q \in Openings, loads'[q] # None, loads'[q].body # None
               PROVE  rowOf[id].by = "other" \/ rowOf[id].scene = loads'[q].body.scene
    BY <1>1 DEF ReadsFit, Undisturbed
  <2>1. PICK load \in [of : Drawings, body : NoneOr(DrawingRow)] : load = loads[o]
    BY DEF ReadDrawing, MineInv, OpenInv, EditorTypes, NoneOr
  <2>2. load.of = id
    BY <2>1 DEF ReadDrawing, MineInv, OpenInv, LoadsFit, Apart, Undisturbed
  <2>3. loads \in [Openings -> NoneOr([of : Drawings, body : NoneOr(DrawingRow)])]
    BY DEF MineInv, OpenInv, EditorTypes
  <2>4. loads' = [loads EXCEPT ![o] = [load EXCEPT !.body = rowOf[id]]]
    BY <2>1, <2>2 DEF ReadDrawing
  <2>5. CASE q = o
    BY <2>3, <2>4, <2>5
  <2>6. CASE q # o
    BY <2>3, <2>4, <2>6 DEF MineInv, OwnFits, ReadsFit
  <2> QED
    BY <2>5, <2>6
<1> QED
  BY <1>2, <1>3, <1>4, <1>5 DEF OwnFits

\* A load is over; the canvas and the queue are as empty as they were.
LEMMA MineLoadEnds ==
  ASSUME MineInv, NEW o \in Openings, loads[o] # None, loads' = [loads EXCEPT ![o] = None],
         UNCHANGED <<rowOf, past, id, onCanvas, taken, debounce, chain, flight, panel, work, edited,
                     failed, traces>>,
         Undisturbed => ref'.order = None /\ ~ ref'.hydrated,
         Undisturbed /\ initial' # None =>
           /\ ref'.initial = initial' /\ ref'.latest = initial' /\ ref'.persisted = initial',
         Undisturbed /\ ref'.suspicious =>
           /\ ~ Renderable(ref'.persisted) /\ ~ Renderable(ref'.initial)
           /\ ~ Renderable(ref'.latest)
           /\ rowOf[id].by = "other" \/ ~ Renderable(rowOf[id].scene)
  PROVE  OwnFits'
<1>1. Undisturbed => onCanvas = None /\ ~ taken /\ debounce = None /\ chain = <<>>
  BY DEF MineInv, OpenInv, LoadsFit, Apart, Undisturbed
<1>2. LooksFit'
  BY DEF MineInv, OwnFits, LooksFit, Looking, Undisturbed, Underneath
<1>3. RefsFit'
  BY <1>1 DEF RefsFit, Undisturbed
<1>4. SeenFits'
  BY <1>1 DEF SeenFits, Undisturbed
<1>5. LiveFits'
  <2> SUFFICES ASSUME traces = {}, initial' # None
               PROVE  LiveFits'
    BY DEF LiveFits
  <2>1. Undisturbed /\ chain' = <<>> /\ debounce' = None
    BY <1>1 DEF Undisturbed
  <2>2. Present' = initial'
    BY <1>1, <2>1 DEF Present
  <2>3. \A m \in Mark : initial'[m] = "live" => initial'[m] # "absent"
    OBVIOUS
  <2>4. (Within(ref.persisted) /\ Within(ref.initial) /\ Within(ref.latest))'
    BY <2>1, <2>2, <2>3 DEF Within
  <2>5. Len(chain') = 0
    BY <2>1
  <2> QED
    BY <2>1, <2>4, <2>5 DEF LiveFits
<1>6. ReadsFit'
  <2>1. loads \in [Openings -> NoneOr([of : Drawings, body : NoneOr(DrawingRow)])]
    BY DEF MineInv, OpenInv, EditorTypes
  <2> QED
    BY <2>1 DEF MineInv, OwnFits, ReadsFit, Undisturbed
<1>7. BlankFits'
  <2> SUFFICES ASSUME Undisturbed, ref'.suspicious
               PROVE  BlankFits'
    BY DEF BlankFits, Undisturbed
  <2>1. Len(chain') = 0 /\ debounce' = None /\ ~ taken'
    BY <1>1
  <2> QED
    BY <2>1 DEF BlankFits
<1>8. SavedFits' /\ WaitFits'
  BY DEF MineInv, OwnFits, SavedFits, WaitFits, InPhase, Undisturbed
<1> QED
  BY <1>2, <1>3, <1>4, <1>5, <1>6, <1>7, <1>8 DEF OwnFits

LEMMA MineLoadArrives ==
  ASSUME MineInv, NEW o \in Openings, LoadArrives(o)
  PROVE  OwnFits'
<1>1. EditorTypes
  BY DEF MineInv, OpenInv
<1>2. PICK load \in [of : Drawings, body : NoneOr(DrawingRow)] : load = loads[o]
  BY <1>1 DEF EditorTypes, LoadArrives, NoneOr
<1>3. PICK body \in DrawingRow : body = load.body
  BY <1>2 DEF LoadArrives, NoneOr
<1>4. PICK b \in BOOLEAN : b = (~ Renderable(body.scene) /\ body.preview)
  BY DEF Renderable
<1>5. PICK over : over = Over(body.scene, ref.known)
  OBVIOUS
<1>6. ref' = [ref EXCEPT !.version = body.version, !.told = FALSE, !.initial = body.scene,
                         !.latest = body.scene, !.persisted = body.scene, !.suspicious = b,
                         !.known = over]
  BY <1>1, <1>2, <1>3, <1>4, <1>5 DEF LoadArrives, EditorTypes, Refs
<1>7. /\ ref'.order = ref.order /\ ref'.hydrated = ref.hydrated /\ ref'.suspicious = b
      /\ ref'.initial = body.scene /\ ref'.latest = body.scene /\ ref'.persisted = body.scene
  BY <1>1, <1>6 DEF EditorTypes, Refs
<1>8. /\ initial' = body.scene /\ loads[o] # None /\ loads' = [loads EXCEPT ![o] = None]
      /\ UNCHANGED <<rowOf, past, id, onCanvas, taken, debounce, chain, flight, panel, work, edited,
                     failed, traces>>
  BY <1>2, <1>3 DEF LoadArrives, queue, mine
<1>9. Undisturbed => ref.order = None /\ ~ ref.hydrated
  BY <1>8 DEF MineInv, OpenInv, LoadsFit, Apart, Undisturbed, OwnFits, RefsFit
<1>10. Undisturbed => rowOf[id].by = "other" \/ rowOf[id].scene = body.scene
  BY <1>2, <1>3 DEF MineInv, OwnFits, ReadsFit, LoadArrives
<1>11. Undisturbed /\ ref'.suspicious =>
         /\ ~ Renderable(ref'.persisted) /\ ~ Renderable(ref'.initial) /\ ~ Renderable(ref'.latest)
         /\ rowOf[id].by = "other" \/ ~ Renderable(rowOf[id].scene)
  BY <1>4, <1>7, <1>10
<1>12. Undisturbed => ref'.order = None /\ ~ ref'.hydrated
  BY <1>7, <1>9
<1>13. ref'.initial = initial' /\ ref'.latest = initial' /\ ref'.persisted = initial'
  BY <1>7, <1>8
<1> QED
  BY <1>8, <1>11, <1>12, <1>13, MineLoadEnds

LEMMA MineLoadFails ==
  ASSUME MineInv, NEW o \in Openings, LoadFails(o)
  PROVE  OwnFits'
<1>1. /\ ref'.order = None /\ ref'.hydrated = ref.hydrated /\ ~ ref'.suspicious
      /\ initial' = None /\ loads[o] # None /\ loads' = [loads EXCEPT ![o] = None]
      /\ UNCHANGED <<rowOf, past, id, onCanvas, taken, debounce, chain, flight, panel, work, edited,
                     failed, traces>>
  BY DEF LoadFails, queue, mine, MineInv, OpenInv, EditorTypes, Refs
<1>2. Undisturbed => ~ ref.hydrated
  BY <1>1 DEF MineInv, OpenInv, LoadsFit, Apart, Undisturbed
<1> QED
  BY <1>1, <1>2, MineLoadEnds

LEMMA MineMountCanvas ==
  ASSUME MineInv, MountCanvas
  PROVE  OwnFits'
<1>1. /\ UNCHANGED <<rowOf, past, id, opening, loads, initial, taken, ref, debounce, chain, flight,
                     panel, work, edited, failed, traces>>
      /\ onCanvas = None /\ onCanvas' = Empty /\ initial # None
  BY DEF MountCanvas, server, route, queue, mine
<1>2. ~ taken
  BY <1>1 DEF MineInv, OpenInv, EditorTypes
<1>3. LooksFit' /\ RefsFit' /\ SeenFits'
  BY <1>1, <1>2 DEF MineInv, OwnFits, LooksFit, RefsFit, SeenFits, Looking, Undisturbed, LastSeen
<1>4. LiveFits' /\ ReadsFit' /\ BlankFits' /\ SavedFits'
  BY <1>1 DEF MineInv, OwnFits, LiveFits, ReadsFit, BlankFits, SavedFits, InPhase, Within, Present,
       Undisturbed
<1>5. WaitFits'
  BY <1>1 DEF MineInv, OwnFits, WaitFits, LastSeen, Counts, SavesWait, Undisturbed
<1> QED
  BY <1>3, <1>4, <1>5 DEF OwnFits

\* What the page knows of its canvas, and the panel, stay; the history may grow.
LEMMA CanvasStays ==
  ASSUME MineInv, Undisturbed' => Undisturbed, traces \subseteq traces',
         UNCHANGED <<id, initial, onCanvas, taken, panel, work, edited>>,
         past[id] \subseteq past'[id],
         ref'.order = ref.order, ref'.known = ref.known, ref'.hydrated = ref.hydrated,
         ref'.initial = ref.initial, ref'.latest = ref.latest
  PROVE  LooksFit' /\ RefsFit' /\ SeenFits' /\ LastSeen' = LastSeen /\ (Counts' => Counts)
<1>1. LastSeen' = LastSeen
  BY DEF LastSeen
<1>2. LooksFit' /\ RefsFit'
  BY <1>1 DEF MineInv, OwnFits, LooksFit, RefsFit, Looking, Underneath
<1>3. \A m \in Mark : Known(m) => Known(m)'
  BY DEF Known
<1>4. SeenFits'
  BY <1>1, <1>3 DEF MineInv, OwnFits, SeenFits
<1>5. Counts' => Counts
  BY <1>1 DEF Counts
<1> QED
  BY <1>1, <1>2, <1>4, <1>5

\* No guard refuses what was captured last, if it counts.
LEMMA LastPasses ==
  ASSUME MineInv, Undisturbed, ref.order # None, Counts
  PROVE  ~ Prevented(PageBaseline, LastSeen)
<1>1. EditorTypes /\ initial # None /\ Apart
  BY DEF MineInv, OpenInv, OwnFits, RefsFit, Apart, Undisturbed
<1>2. CASE Renderable(LastSeen)
  BY <1>2, RenderablePasses
<1>3. CASE traces = {} /\ taken
  <2>1. panel.backup = None /\ work \in EditorScene
    BY <1>3, TakenIs
  <2>2. LastSeen = work
    BY <1>3, <2>1 DEF MineInv, OwnFits, SeenFits
  <2> QED
    BY <1>1, <1>3, <2>1, <2>2, FreshPasses DEF Present
<1>4. CASE traces = {} /\ ~ taken
  <2>1. ~ Renderable(initial)
    BY <1>1, <1>4 DEF MineInv, OwnFits, RefsFit
  <2>2. /\ Stays(ref.initial) /\ Stays(ref.latest) /\ Stays(ref.persisted)
        /\ Within(ref.initial) /\ Within(ref.latest) /\ Within(ref.persisted)
    BY <1>1, <1>4 DEF MineInv, OpenInv, OwnFits, ScenesFit, LiveFits
  <2>3. Stays(PageBaseline) /\ Within(PageBaseline)
    BY <1>1, <2>2, BaselineIs DEF EditorTypes
  <2>4. initial \in EditorScene
    BY <1>1 DEF EditorTypes, NoneOr
  <2>5. ~ Renderable(PageBaseline)
    BY <1>1, <1>4, <2>1, <2>3, <2>4 DEF Stays, Within, Present, Renderable, EditorScene
  <2> QED
    BY <2>5 DEF Prevented, StaleEmpty, StaleNonRenderable
<1> QED
  BY <1>2, <1>3, <1>4 DEF Counts

LEMMA MineAutosave ==
  ASSUME MineInv, AutosaveFires
  PROVE  OwnFits'
<1>1. debounce \in Captures /\ chain \in Seq(Captures)
  BY DEF MineInv, OpenInv, EditorTypes, AutosaveFires, NoneOr
<1>2. UNCHANGED <<rowOf, past, id, opening, loads, initial, onCanvas, taken, panel, work, edited,
                  failed, ref, flight, traces>>
  BY DEF AutosaveFires, server, route, screen, mine
<1>3. debounce' = None /\ debounce # None /\ chain' = Append(chain, debounce)
  BY DEF AutosaveFires, Enqueue
<1>4. LooksFit' /\ RefsFit' /\ SeenFits' /\ LastSeen' = LastSeen /\ (Counts' => Counts)
  BY <1>2, CanvasStays DEF Undisturbed
<1>5. chain # <<>> => Head(chain') = Head(chain)
  BY <1>1, <1>3, AppendIs
<1>6. \A i \in 1 .. Len(chain') : (i \in 1 .. Len(chain) /\ chain'[i] = chain[i]) \/ chain'[i] = debounce
  BY <1>1, <1>3, AppendIs
<1>7. chain' # <<>> /\ chain'[Len(chain')] = debounce
  BY <1>1, <1>3
<1>8. LiveFits'
  <2> SUFFICES ASSUME traces = {}, initial # None
               PROVE  LiveFits'
    BY <1>2 DEF LiveFits
  <2>1. \A b : Within(b) <=> \A m \in Mark : b[m] = "live" => Present[m] # "absent"
    BY DEF Within
  <2>2. /\ Within(ref.persisted) /\ Within(ref.initial) /\ Within(ref.latest)
        /\ \A i \in 1 .. Len(chain) : Within(chain[i].scene)
        /\ Within(debounce.scene)
    BY <1>3 DEF MineInv, OwnFits, LiveFits
  <2>3. (Within(ref.persisted) /\ Within(ref.initial) /\ Within(ref.latest))'
    BY <1>2, <2>2 DEF Within, Present
  <2>4. \A i \in 1 .. Len(chain') : Within(chain'[i].scene)
    BY <1>6, <2>2
  <2>5. (\A i \in 1 .. Len(chain) : Within(chain[i].scene))'
    BY <1>2, <2>4 DEF Within, Present
  <2> QED
    BY <1>3, <2>3, <2>5 DEF LiveFits
<1>9. ReadsFit'
  BY <1>2 DEF MineInv, OwnFits, ReadsFit, Undisturbed
<1>10. BlankFits'
  <2>1. (\A i \in 1 .. Len(chain) : ~ Renderable(chain[i].scene)) /\ ~ Renderable(debounce.scene) =>
          \A i \in 1 .. Len(chain') : ~ Renderable(chain'[i].scene)
    BY <1>6
  <2> QED
    BY <1>2, <1>3, <2>1 DEF MineInv, OwnFits, BlankFits, Undisturbed
<1>11. SavedFits'
  BY <1>2, <1>5 DEF MineInv, OpenInv, QueueFits, OwnFits, SavedFits, InPhase
<1>12. WaitFits'
  BY <1>2, <1>3, <1>4, <1>7 DEF MineInv, OwnFits, WaitFits, Undisturbed, SavesWait
<1> QED
  BY <1>4, <1>8, <1>9, <1>10, <1>11, <1>12 DEF OwnFits

LEMMA MineShortcut ==
  ASSUME MineInv, SaveShortcut
  PROVE  OwnFits'
<1>1. /\ onCanvas \in EditorScene /\ chain \in Seq(Captures) /\ id \in Drawings /\ ref \in Refs
      /\ EditorTypes
  BY DEF MineInv, OpenInv, EditorTypes, SaveShortcut, NoneOr
<1>2. /\ UNCHANGED <<rowOf, past, id, opening, loads, initial, onCanvas, taken, panel, work, edited,
                     failed, ref, flight, debounce>>
      /\ traces \subseteq traces' /\ (Undisturbed' => panel.backup = None /\ traces' = traces)
  BY DEF SaveShortcut, server, route, screen, mine, Trace, Undisturbed
<1>3. PICK safe \in EditorScene : safe = SafeSnapshot(PageBaseline, onCanvas)
  BY <1>1, BaselineIs, SafeIs
<1>4. PICK meant \in BOOLEAN : meant = (safe = work)
  OBVIOUS
<1>5. PICK c \in Captures : c = Capture(id, safe, meant)
  BY <1>1 DEF Capture, Captures
<1>6. c.scene = safe
  BY <1>5 DEF Capture
<1>7. chain' = Append(chain, c)
  BY <1>3, <1>4, <1>5 DEF SaveShortcut, Enqueue
<1>8. LooksFit' /\ RefsFit' /\ SeenFits' /\ LastSeen' = LastSeen /\ (Counts' => Counts)
  BY <1>2, CanvasStays DEF Undisturbed
<1>9. chain # <<>> => Head(chain') = Head(chain)
  BY <1>1, <1>7, AppendIs
<1>10. \A i \in 1 .. Len(chain') : (i \in 1 .. Len(chain) /\ chain'[i] = chain[i]) \/ chain'[i] = c
  BY <1>1, <1>7, AppendIs
<1>11. chain' # <<>> /\ chain'[Len(chain')] = c
  BY <1>1, <1>7
<1>12. ASSUME Undisturbed'
       PROVE  /\ Undisturbed /\ initial # None
              /\ taken => onCanvas = work
              /\ ~ taken => onCanvas = Empty
  <2>1. Undisturbed /\ initial # None /\ onCanvas # None
    BY <1>1, <1>2, <1>12, SceneIs DEF MineInv, OwnFits, RefsFit, Undisturbed
  <2>2. ~ taken => onCanvas = Empty
    BY <2>1 DEF MineInv, OwnFits, RefsFit
  <2> QED
    BY <1>2, <1>12, <2>1, <2>2, TakenIs
<1>13. safe = onCanvas \/ safe \in {ref.persisted, ref.initial, ref.latest}
  BY <1>1, <1>3, BaselineIs DEF SafeSnapshot
<1>14. LiveFits'
  <2> SUFFICES ASSUME traces' = {}, initial # None
               PROVE  LiveFits'
    BY <1>2 DEF LiveFits
  <2>1. traces = {} /\ Undisturbed'
    BY <1>2 DEF Undisturbed
  <2>2. /\ Within(ref.persisted) /\ Within(ref.initial) /\ Within(ref.latest)
        /\ \A i \in 1 .. Len(chain) : Within(chain[i].scene)
        /\ debounce # None => Within(debounce.scene)
    BY <2>1 DEF MineInv, OwnFits, LiveFits
  <2>3. Within(onCanvas)
    BY <1>12, <2>1 DEF Within, Present, Empty
  <2>4. \A i \in 1 .. Len(chain') : Within(chain'[i].scene)
    BY <1>6, <1>10, <1>13, <2>2, <2>3
  <2>5. (Within(ref.persisted) /\ Within(ref.initial) /\ Within(ref.latest))'
    BY <1>2, <2>2 DEF Within, Present
  <2>6. (\A i \in 1 .. Len(chain) : Within(chain[i].scene))'
    BY <1>2, <2>4 DEF Within, Present
  <2>7. (debounce # None => Within(debounce.scene))'
    BY <1>2, <2>2 DEF Within, Present
  <2> QED
    BY <2>5, <2>6, <2>7 DEF LiveFits
<1>15. ReadsFit'
  BY <1>2 DEF MineInv, OwnFits, ReadsFit, Undisturbed
<1>16. BlankFits'
  <2> SUFFICES ASSUME Undisturbed', ref.suspicious
               PROVE  BlankFits'
    BY <1>2 DEF BlankFits
  <2>1. /\ ~ Renderable(ref.persisted) /\ ~ Renderable(ref.initial) /\ ~ Renderable(ref.latest)
        /\ \A i \in 1 .. Len(chain) : ~ Renderable(chain[i].scene)
        /\ debounce # None => ~ Renderable(debounce.scene)
        /\ taken => ~ Renderable(work)
        /\ (rowOf[id].by = "other" \/ ~ Renderable(rowOf[id].scene))
    BY <1>12 DEF MineInv, OwnFits, BlankFits
  <2>2. ~ Renderable(onCanvas)
    BY <1>12, <2>1 DEF Renderable, Empty
  <2>3. \A i \in 1 .. Len(chain') : ~ Renderable(chain'[i].scene)
    BY <1>6, <1>10, <1>13, <2>1, <2>2
  <2> QED
    BY <1>2, <2>1, <2>3 DEF BlankFits
<1>17. SavedFits'
  BY <1>2, <1>9 DEF MineInv, OpenInv, QueueFits, OwnFits, SavedFits, InPhase
<1>18. WaitFits'
  <2> SUFFICES ASSUME Undisturbed', ref.order # None, Counts'
               PROVE  WaitFits'
    BY <1>2 DEF WaitFits
  <2>1. Undisturbed /\ Counts
    BY <1>8, <1>12
  <2>2. onCanvas = LastSeen
    BY <1>2, <1>12, <2>1 DEF MineInv, OwnFits, SeenFits, RefsFit, Counts
  <2>3. safe = LastSeen
    BY <1>3, <2>1, <2>2, LastPasses DEF SafeSnapshot
  <2>4. debounce # None => debounce.scene = LastSeen
    BY <2>1 DEF MineInv, OwnFits, WaitFits
  <2> QED
    BY <1>2, <1>6, <1>8, <1>11, <2>3, <2>4 DEF WaitFits, SavesWait
<1> QED
  BY <1>8, <1>14, <1>15, <1>16, <1>17, <1>18 DEF OwnFits

\* The page is done with a save, or it is answered; what it knows of the rows may change with it.
LEMMA MineDrop ==
  ASSUME MineInv, chain # <<>>, DropHead,
         UNCHANGED <<rowOf, past, id, loads, initial, onCanvas, taken, debounce, panel, work,
                     edited, traces>>,
         ref'.order = ref.order, ref'.known = ref.known, ref'.hydrated = ref.hydrated,
         ref'.initial = ref.initial, ref'.latest = ref.latest, ref'.suspicious = ref.suspicious,
         ref'.persisted \in {ref.persisted, Head(chain).scene},
         Undisturbed /\ ref.order # None /\ Counts /\ Head(chain).scene = LastSeen /\ debounce = None =>
           failed' \/ rowOf[id].by = "other" \/ Visible(rowOf[id].scene) = Visible(LastSeen)
  PROVE  OwnFits'
<1>1. chain \in Seq(Captures) /\ chain' = Tail(chain) /\ flight' = None
  BY DEF DropHead, MineInv, OpenInv, EditorTypes
<1>2. LooksFit' /\ RefsFit' /\ SeenFits' /\ LastSeen' = LastSeen /\ (Counts' => Counts)
  BY CanvasStays DEF Undisturbed
<1>3. /\ 1 \in 1 .. Len(chain) /\ Head(chain) = chain[1]
      /\ \A i \in 1 .. Len(chain') : i + 1 \in 1 .. Len(chain) /\ chain'[i] = chain[i + 1]
  BY <1>1, HeadIs
<1>4. LiveFits'
  <2> SUFFICES ASSUME traces = {}, initial # None
               PROVE  LiveFits'
    BY DEF LiveFits
  <2>1. /\ Within(ref.persisted) /\ Within(ref.initial) /\ Within(ref.latest)
        /\ \A i \in 1 .. Len(chain) : Within(chain[i].scene)
        /\ debounce # None => Within(debounce.scene)
    BY DEF MineInv, OwnFits, LiveFits
  <2>2. Within(ref'.persisted) /\ \A i \in 1 .. Len(chain') : Within(chain'[i].scene)
    BY <1>3, <2>1
  <2>3. (Within(ref.persisted) /\ Within(ref.initial) /\ Within(ref.latest))'
    BY <2>1, <2>2 DEF Within, Present
  <2>4. (\A i \in 1 .. Len(chain) : Within(chain[i].scene))'
    BY <2>2 DEF Within, Present
  <2>5. (debounce # None => Within(debounce.scene))'
    BY <2>1 DEF Within, Present
  <2> QED
    BY <2>3, <2>4, <2>5 DEF LiveFits
<1>5. ReadsFit'
  BY DEF MineInv, OwnFits, ReadsFit, Undisturbed
<1>6. BlankFits'
  <2> SUFFICES ASSUME Undisturbed, ref.suspicious
               PROVE  BlankFits'
    BY DEF BlankFits, Undisturbed
  <2>1. /\ ~ Renderable(ref.persisted) /\ ~ Renderable(ref.initial) /\ ~ Renderable(ref.latest)
        /\ \A i \in 1 .. Len(chain) : ~ Renderable(chain[i].scene)
        /\ debounce # None => ~ Renderable(debounce.scene)
        /\ taken => ~ Renderable(work)
        /\ (rowOf[id].by = "other" \/ ~ Renderable(rowOf[id].scene))
    BY DEF MineInv, OwnFits, BlankFits
  <2>2. ~ Renderable(ref'.persisted) /\ \A i \in 1 .. Len(chain') : ~ Renderable(chain'[i].scene)
    BY <1>3, <2>1
  <2> QED
    BY <2>1, <2>2 DEF BlankFits
<1>7. SavedFits'
  BY <1>1 DEF SavedFits, InPhase
<1>8. WaitFits'
  <2> SUFFICES ASSUME Undisturbed, ref.order # None, Counts
               PROVE  WaitFits'
    BY <1>2 DEF WaitFits, Undisturbed
  <2>1. /\ debounce # None => debounce.scene = LastSeen
        /\ debounce = None => chain[Len(chain)].scene = LastSeen
    BY DEF MineInv, OwnFits, WaitFits
  <2>2. chain' # <<>> => chain'[Len(chain')] = chain[Len(chain)]
    BY <1>1
  <2>3. chain' = <<>> => Head(chain) = chain[Len(chain)]
    <3>1. Len(chain') = Len(chain) - 1 /\ Len(chain) \in Nat
      BY <1>1
    <3>2. chain' = <<>> => Len(chain') = 0
      OBVIOUS
    <3>3. \A n \in Nat : n - 1 = 0 => n = 1
      OBVIOUS
    <3> QED
      BY <1>3, <3>1, <3>2, <3>3
  <2> QED
    BY <1>2, <2>1, <2>2, <2>3 DEF WaitFits, SavesWait
<1> QED
  BY <1>2, <1>4, <1>5, <1>6, <1>7, <1>8 DEF OwnFits

LEMMA MineStart ==
  ASSUME MineInv, Start
  PROVE  OwnFits'
<1>1. UNCHANGED <<rowOf, past, id, opening, loads, initial, onCanvas, taken, panel, work, edited,
                  failed, ref, debounce, traces>>
  BY DEF Start, server, route, screen, mine
<1>2. chain # <<>>
  BY DEF Start
<1>3. CASE HeldBack(Head(chain).scene)
  <2>1. DropHead
    BY <1>3 DEF Start
  <2>2. ASSUME Undisturbed, ref.order # None, Counts, Head(chain).scene = LastSeen
        PROVE  rowOf[id].by = "other" \/ Visible(rowOf[id].scene) = Visible(LastSeen)
    <3>1. ref.suspicious /\ ~ Renderable(LastSeen)
      BY <1>3, <2>2, LastPasses DEF HeldBack
    <3>2. rowOf[id].by = "other" \/ ~ Renderable(rowOf[id].scene)
      BY <2>2, <3>1 DEF MineInv, OwnFits, BlankFits
    <3> QED
      BY <3>1, <3>2 DEF Renderable, Visible
  <2> QED
    BY <1>1, <1>2, <2>1, <2>2, MineDrop
<1>4. CASE ~ HeldBack(Head(chain).scene)
  <2>1. flight' = Attempt(0) /\ chain' = chain
    BY <1>4 DEF Start
  <2>2. LooksFit' /\ RefsFit' /\ SeenFits' /\ LastSeen' = LastSeen /\ (Counts' => Counts)
    BY <1>1, CanvasStays DEF Undisturbed
  <2>3. LiveFits' /\ ReadsFit' /\ BlankFits'
    BY <1>1, <2>1 DEF MineInv, OwnFits, LiveFits, ReadsFit, BlankFits, Within, Present, Undisturbed
  <2>4. SavedFits'
    BY <2>1 DEF SavedFits, InPhase, Attempt
  <2>5. WaitFits'
    BY <1>1, <2>1, <2>2 DEF MineInv, OwnFits, WaitFits, Undisturbed, SavesWait
  <2> QED
    BY <2>2, <2>3, <2>4, <2>5 DEF OwnFits
<1> QED
  BY <1>3, <1>4

\* The request goes on, and the rows stay as they are.
LEMMA MineGoesOn ==
  ASSUME MineInv, flight # None, ~ InPhase("saved")',
         UNCHANGED <<rowOf, past, id, loads, initial, onCanvas, taken, panel, work, edited,
                     failed, debounce, chain, traces>>,
         ref'.order = ref.order, ref'.known = ref.known, ref'.hydrated = ref.hydrated,
         ref'.initial = ref.initial, ref'.latest = ref.latest, ref'.suspicious = ref.suspicious,
         ref'.persisted = ref.persisted
  PROVE  OwnFits'
<1>1. LooksFit' /\ RefsFit' /\ SeenFits' /\ LastSeen' = LastSeen /\ (Counts' => Counts)
  BY CanvasStays DEF Undisturbed
<1>2. LiveFits' /\ ReadsFit' /\ BlankFits'
  BY DEF MineInv, OwnFits, LiveFits, ReadsFit, BlankFits, Within, Present, Undisturbed
<1>3. SavedFits' /\ WaitFits'
  BY <1>1 DEF MineInv, OwnFits, SavedFits, WaitFits, Undisturbed, SavesWait
<1> QED
  BY <1>1, <1>2, <1>3 DEF OwnFits

LEMMA MineConflicts ==
  ASSUME MineInv, ServerConflicts
  PROVE  OwnFits'
<1>1. flight \in Flights /\ flight # None
  BY DEF MineInv, OpenInv, EditorTypes, ServerConflicts, InPhase, NoneOr
<1>2. flight'.phase = "conflict"
  BY <1>1 DEF ServerConflicts, FlightBecomes, Flights
<1> QED
  BY <1>1, <1>2, MineGoesOn DEF ServerConflicts, server, route, screen, mine, InPhase

LEMMA MineLose ==
  ASSUME MineInv, LoseSave
  PROVE  OwnFits'
<1>1. flight \in Flights /\ flight # None
  BY DEF MineInv, OpenInv, EditorTypes, LoseSave, InPhase, NoneOr
<1>2. flight'.phase = "failed"
  BY <1>1 DEF LoseSave, FlightBecomes, Flights
<1> QED
  BY <1>1, <1>2, MineGoesOn DEF LoseSave, server, route, screen, mine, InPhase

LEMMA MineTakeSaved ==
  ASSUME MineInv, TakeSaved
  PROVE  OwnFits'
<1>1. ref \in Refs /\ chain # <<>>
  BY DEF MineInv, OpenInv, EditorTypes, QueueFits, TakeSaved, InPhase
<1>2. PICK s : s = Head(chain).scene
  OBVIOUS
<1>3. PICK v : v = flight.version
  OBVIOUS
<1>4. ref' = [ref EXCEPT !.version = v, !.told = FALSE, !.persisted = s]
  BY <1>2, <1>3 DEF TakeSaved
<1>5. /\ ref'.order = ref.order /\ ref'.known = ref.known /\ ref'.hydrated = ref.hydrated
      /\ ref'.initial = ref.initial /\ ref'.latest = ref.latest /\ ref'.suspicious = ref.suspicious
      /\ ref'.persisted = Head(chain).scene
  BY <1>1, <1>2, <1>4 DEF Refs
<1>6. Head(chain).scene = LastSeen =>
        rowOf[id].by = "other" \/ Visible(rowOf[id].scene) = Visible(LastSeen)
  BY DEF TakeSaved, MineInv, OwnFits, SavedFits
<1>7. UNCHANGED <<rowOf, past, id, loads, initial, onCanvas, taken, debounce, panel, work, edited,
                  traces>>
  BY DEF TakeSaved, server, route, screen, mine
<1>8. DropHead
  BY DEF TakeSaved
<1> QED
  BY <1>1, <1>5, <1>6, <1>7, <1>8, MineDrop

LEMMA MineTakeConflict ==
  ASSUME MineInv, TakeConflict
  PROVE  OwnFits'
<1>1. ref \in Refs /\ chain # <<>> /\ flight \in Flights /\ flight # None
  BY DEF MineInv, OpenInv, EditorTypes, QueueFits, TakeConflict, InPhase, NoneOr
<1>2. PICK v : v = flight.version
  OBVIOUS
<1>3. ref' = [ref EXCEPT !.version = v, !.told = TRUE]
  BY <1>2 DEF TakeConflict
<1>4. /\ ref'.order = ref.order /\ ref'.known = ref.known /\ ref'.hydrated = ref.hydrated
      /\ ref'.initial = ref.initial /\ ref'.latest = ref.latest /\ ref'.suspicious = ref.suspicious
      /\ ref'.persisted = ref.persisted
  BY <1>1, <1>3 DEF Refs
<1>5. UNCHANGED <<rowOf, past, id, loads, initial, onCanvas, taken, debounce, panel, work, edited,
                  traces>>
  BY DEF TakeConflict, server, route, screen, mine
<1>6. CASE flight.attempt = 0
  <2>1. /\ chain' = chain /\ failed' = failed
        /\ flight' = [Attempt(1) EXCEPT !.base = flight.version, !.told = TRUE]
    BY <1>6 DEF TakeConflict
  <2>2. flight'.phase = "sent"
    BY <2>1 DEF Attempt
  <2> QED
    BY <1>1, <1>4, <1>5, <2>1, <2>2, MineGoesOn DEF InPhase
<1>7. CASE flight.attempt # 0
  <2>1. DropHead /\ failed'
    BY <1>7 DEF TakeConflict
  <2> QED
    BY <1>1, <1>4, <1>5, <2>1, MineDrop
<1> QED
  BY <1>6, <1>7

LEMMA MineTakeFailure ==
  ASSUME MineInv, TakeFailure
  PROVE  OwnFits'
<1>1. chain # <<>>
  BY DEF MineInv, OpenInv, QueueFits, TakeFailure, InPhase
<1>2. /\ UNCHANGED <<rowOf, past, id, loads, initial, onCanvas, taken, debounce, panel, work,
                     edited,
                     ref, traces>>
      /\ DropHead /\ failed'
  BY DEF TakeFailure, server, route, screen, mine
<1> QED
  BY <1>1, <1>2, MineDrop

-----------------------------------------------------------------------------
LEMMA WrittenIs ==
  ASSUME EditorTypes, NEW d \in Drawings, NEW s \in EditorScene, NEW by \in {"page", "other"},
         Overwrite(d, s, by)
  PROVE  /\ rowOf'[d].by = by /\ rowOf'[d].scene = s
         /\ \A e \in Drawings : e # d => rowOf'[e] = rowOf[e]
         /\ \A e \in Drawings : past[e] \subseteq past'[e]
<1>1. rowOf'[d].scene = s /\ \A e \in Drawings : e # d => rowOf'[e] = rowOf[e]
  BY OverwriteIs
<1>2. PICK row \in DrawingRow : row = rowOf[d]
  BY DEF EditorTypes
<1>3. PICK v : v = row.version + 1
  OBVIOUS
<1>4. rowOf' = [rowOf EXCEPT ![d] = [row EXCEPT !.scene = s, !.version = v, !.by = by]]
  BY <1>2, <1>3 DEF Overwrite, EditorTypes
<1>5. [row EXCEPT !.scene = s, !.version = v, !.by = by].by = by
  BY DEF DrawingRow
<1>6. rowOf'[d].by = by
  BY <1>4, <1>5 DEF EditorTypes
<1>7. \A e \in Drawings : past[e] \subseteq past'[e]
  <2>1. past \in [Drawings -> SUBSET EditorScene]
    BY DEF EditorTypes
  <2>2. PICK old : old = rowOf[d].scene
    OBVIOUS
  <2>3. past' = [past EXCEPT ![d] = past[d] \cup {old}]
    BY <2>1, <2>2 DEF Overwrite
  <2> QED
    BY <2>1, <2>3
<1> QED
  BY <1>1, <1>6, <1>7

LEMMA MineSaves ==
  ASSUME MineInv, ServerSaves
  PROVE  OwnFits'
<1>1. UNCHANGED <<id, opening, loads, initial, onCanvas, taken, ref, debounce, chain, panel, work,
                  edited, failed, traces>>
  BY DEF ServerSaves, route, screen, mine
<1>2. /\ chain \in Seq(Captures) /\ chain # <<>> /\ Head(chain) \in Captures /\ Head(chain).of = id
      /\ Head(chain) = chain[1] /\ 1 \in 1 .. Len(chain)
      /\ id \in Drawings /\ EditorTypes
  BY HeadIs DEF MineInv, OpenInv, EditorTypes, QueueFits, ServerSaves, InPhase
<1>3. Head(chain).scene \in EditorScene
  BY <1>2 DEF Captures
<1>4. Overwrite(id, Head(chain).scene, "page")
  BY <1>2 DEF ServerSaves
<1>5. rowOf'[id].scene = Head(chain).scene /\ past[id] \subseteq past'[id]
  BY <1>2, <1>3, <1>4, WrittenIs
<1>6. LooksFit' /\ RefsFit' /\ SeenFits' /\ LastSeen' = LastSeen /\ (Counts' => Counts)
  BY <1>1, <1>5, CanvasStays DEF Undisturbed
<1>7. LiveFits'
  BY <1>1 DEF MineInv, OwnFits, LiveFits, Within, Present
<1>8. ReadsFit'
  BY <1>1, <1>2 DEF MineInv, OpenInv, LoadsFit, ReadsFit, Apart, Undisturbed
<1>9. BlankFits'
  BY <1>1, <1>2, <1>5 DEF MineInv, OwnFits, BlankFits, Undisturbed
<1>10. SavedFits'
  BY <1>1, <1>5 DEF SavedFits
<1>11. WaitFits'
  BY <1>1, <1>2, <1>6 DEF MineInv, OwnFits, WaitFits, Undisturbed, SavesWait
<1> QED
  BY <1>6, <1>7, <1>8, <1>9, <1>10, <1>11 DEF OwnFits

LEMMA MineOtherSaves ==
  ASSUME MineInv, NEW d \in Drawings, NEW m \in Mark, OtherSaves(d, m)
  PROVE  OwnFits'
<1>1. UNCHANGED <<id, opening, loads, initial, onCanvas, taken, ref, debounce, chain, flight,
                  panel, work, edited, failed, traces>>
  BY DEF OtherSaves, route, screen, queue, mine
<1>2. PICK s \in EditorScene : s = [rowOf[d].scene EXCEPT ![m] = "live"]
  BY DEF MineInv, OpenInv, EditorTypes, DrawingRow, EditorScene
<1>3. Overwrite(d, s, "other")
  BY <1>2 DEF OtherSaves
<1>4. id \in Drawings /\ EditorTypes
  BY DEF MineInv, OpenInv, EditorTypes
<1>5. /\ rowOf'[id].by = "other" \/ rowOf'[id] = rowOf[id]
      /\ past[id] \subseteq past'[id]
  BY <1>2, <1>3, <1>4, WrittenIs
<1>6. LooksFit' /\ RefsFit' /\ SeenFits' /\ LastSeen' = LastSeen /\ (Counts' => Counts)
  BY <1>1, <1>5, CanvasStays DEF Undisturbed
<1>7. LiveFits'
  BY <1>1 DEF MineInv, OwnFits, LiveFits, Within, Present
<1>8. ReadsFit' /\ BlankFits' /\ SavedFits'
  BY <1>1, <1>5 DEF MineInv, OwnFits, ReadsFit, BlankFits, SavedFits, InPhase, Undisturbed
<1>9. WaitFits'
  BY <1>1, <1>5, <1>6 DEF MineInv, OwnFits, WaitFits, Undisturbed, SavesWait
<1> QED
  BY <1>6, <1>7, <1>8, <1>9 DEF OwnFits

-----------------------------------------------------------------------------
LEMMA OwnStart == ASSUME EditorInit PROVE OwnFits
<1>1. PICK rows \in [Drawings -> DrawingRow] : InitWith(rows)
  BY DEF EditorInit
<1>2. /\ initial = None /\ onCanvas = None /\ ~ taken /\ ~ edited /\ ref.order = None
      /\ ~ ref.hydrated /\ ~ ref.suspicious /\ flight = None
      /\ panel.asked = {} /\ panel.backup = None /\ ~ panel.open
  BY <1>1 DEF InitWith, ResetRefs, NoPanel
<1>3. \A o \in Openings : loads[o] # None => loads[o].body = None
  BY <1>1 DEF InitWith
<1> QED
  BY <1>2, <1>3 DEF OwnFits, LooksFit, RefsFit, SeenFits, LiveFits, ReadsFit, BlankFits, SavedFits,
       WaitFits, Looking, InPhase

LEMMA OwnStutters == ASSUME MineInv, UNCHANGED editorVars PROVE OwnFits'
<1>1. UNCHANGED <<rowOf, past, id, opening, loads, initial, onCanvas, taken, ref, debounce, chain,
                  flight, panel, work, edited, failed, traces>>
  BY DEF editorVars
<1>2. LooksFit' /\ RefsFit' /\ SeenFits' /\ LastSeen' = LastSeen /\ (Counts' => Counts)
  BY <1>1, CanvasStays DEF Undisturbed
<1>3. LiveFits' /\ ReadsFit' /\ BlankFits' /\ SavedFits'
  BY <1>1 DEF MineInv, OwnFits, LiveFits, ReadsFit, BlankFits, SavedFits, InPhase, Within, Present,
       Undisturbed
<1>4. WaitFits'
  BY <1>1, <1>2 DEF MineInv, OwnFits, WaitFits, Undisturbed, SavesWait
<1> QED
  BY <1>2, <1>3, <1>4 DEF OwnFits

LEMMA OwnStep == ASSUME MineInv, [EditorNext]_editorVars PROVE OwnFits'
<1>1. CASE Opens
  BY <1>1, MineReopen, MineReadDrawing, MineLoadArrives, MineLoadFails, MineMountCanvas, MineTakeUp
  DEF Opens
<1>2. CASE Draws
  BY <1>2, MineEarlyReport, MineFlicker, MineTouch, MineDraw, MineErase DEF Draws
<1>3. CASE LooksBack
  BY <1>3, MineOpenPanel, MineDeselect, MineClosePanel, MineSelect, MinePreview, MinePreviewFails
  DEF LooksBack
<1>4. CASE Saves
  BY <1>4, MineAutosave, MineShortcut, MineStart, MineSaves, MineConflicts, MineLose,
     MineTakeSaved, MineTakeConflict, MineTakeFailure, MineOtherSaves
  DEF Saves
<1> QED
  BY <1>1, <1>2, <1>3, <1>4, OwnStutters DEF EditorNext

LEMMA MineInvHolds == EditorSpec => []MineInv
<1>1. EditorInit => MineInv
  BY OpenStart, OwnStart DEF MineInv
<1>2. MineInv /\ [EditorNext]_editorVars => MineInv'
  BY OpenStep, OwnStep DEF MineInv
<1> QED
  BY <1>1, <1>2, PTL DEF EditorSpec

LEMMA MineIsQuiet == ASSUME MineInv PROVE QuietMeansMine
<1> SUFFICES ASSUME AtRest, Undisturbed
             PROVE  /\ onCanvas = work
                    /\ edited /\ ~ failed /\ rowOf[id].by = "page"
                         /\ (Renderable(work) \/ traces = {})
                         => Visible(rowOf[id].scene) = Visible(work)
  BY DEF QuietMeansMine, Undisturbed
<1>1. taken /\ panel.backup = None /\ onCanvas = work /\ ~ SavesWait
  BY TakenIs DEF AtRest, Looking
<1>2. ASSUME edited, ~ failed, rowOf[id].by = "page", Renderable(work) \/ traces = {}
      PROVE  Visible(rowOf[id].scene) = Visible(work)
  <2>1. ref.order # None /\ LastSeen = work
    BY <1>1, <1>2 DEF MineInv, OwnFits, SeenFits
  <2>2. Counts
    BY <1>1, <1>2, <2>1 DEF Counts
  <2> QED
    BY <1>1, <1>2, <2>1, <2>2 DEF MineInv, OwnFits, WaitFits
<1> QED
  BY <1>1, <1>2

(***************************************************************************)
(* At rest the user has his own scene before him and, if he changed it,    *)
(* the database shows it: saveData and the guards of the save queue hold   *)
(* back nothing that he meant, and a preview leaves nothing behind, for    *)
(* every number of drawings, elements, openings, acts and waiting saves;   *)
(* the exceptions are those that QuietMeansMine names.                     *)
(***************************************************************************)
THEOREM TheUserHasHisScene == EditorSpec => []QuietMeansMine
  BY MineInvHolds, MineIsQuiet, PTL
=============================================================================
